------------------------------- MODULE Comms --------------------------------
(***************************************************************************)
(* One WaComms and the WaWebSocket under it, from startComms on.  WaComms  *)
(* opens the socket, runs the noise handshake on it, resumes or reconnects *)
(* when it goes, and is stopped for good; WaWebSocket races one raw socket *)
(* per URL, keeps the winner and awaits the close of the one it drops.     *)
(*                                                                         *)
(* A step is what runs in one turn of the event loop: a callback and the   *)
(* promise continuations it releases at once.  The handlers call each      *)
(* other, so each is written as a function of the state of its object:     *)
(* c is a WaComms, w a WaWebSocket.                                        *)
(*                                                                         *)
(* A raw socket is a number, and the noise session of a socket has the     *)
(* number of the socket it was made for.                                   *)
(***************************************************************************)
EXTENDS Naturals, FiniteSets

CONSTANTS
  Urls,                  \* raw sockets raced by one open()
  MaxReconnectAttempts,  \* the configuration's limit
  MaxSockets             \* bound of the model: raw sockets ever created

ASSUME CommsAssumption ==
  /\ Urls \in Nat \ {0}
  /\ MaxReconnectAttempts \in Nat
  /\ MaxSockets \in Nat

VARIABLES
  comms,  \* the fields of WaComms
  ws,     \* the fields of WaWebSocket and the raw sockets it created
  shake,  \* the handshake of each noise session
  lapses  \* what happened that the code does not provide for (history)

vars == <<comms, ws, shake, lapses>>

-----------------------------------------------------------------------------
Sockets == 1..MaxSockets
None == 0

\* The sockets of one open() are created together.
Race(s) == {r \in Sockets : (r - 1) \div Urls = (s - 1) \div Urls}

\* generation is the number of the session connectionGeneration stands for,
\* None once a reset bumped it.  waiter is waitForConnection as the connection
\* manager calls it: "adopted" once it resolved and requests are handled.
\* restart: the close was handed to holdForServerRestart's callback.
CommsType ==
  [started : BOOLEAN, connected : BOOLEAN, handlingRequests : BOOLEAN,
   preventRetry : BOOLEAN, resumeInFlight : BOOLEAN,
   reconnectTimer : BOOLEAN, reconnectAttempts : 0..(MaxReconnectAttempts + 1),
   resumeHandshakeFailures : 0..1,
   serverRestartHold : BOOLEAN, restart : BOOLEAN,
   connectionGeneration : Sockets \cup {None}, noiseSession : Sockets \cup {None},
   waiter : {"none", "waiting", "adopted", "rejected"}]

\* created counts the raw sockets; loading is an open() that still awaits the
\* agent's module.  A close waiter is the socket and whether a resume awaits it.
SocketType ==
  [raw : [Sockets -> {"none", "connecting", "open", "closing", "closed"}],
   socket : Sockets \cup {None}, socketClosing : BOOLEAN,
   connectingSockets : SUBSET Sockets, settled : SUBSET Sockets,
   closeWaiters : SUBSET (Sockets \X {"resume", "other"}),
   created : 0..MaxSockets, loading : BOOLEAN]

\* hello: until the server's hello.  finish: computing what the client's last
\* frame carries.  agree: the resume handshake's last key agreement, after which
\* nothing is sent.
ShakeType == [Sockets -> [step : {"none", "hello", "finish", "agree", "over"},
                          resume : BOOLEAN]]

TypeOK == /\ comms \in CommsType /\ ws \in SocketType /\ shake \in ShakeType
          /\ lapses \subseteq {"close timed out", "stop missed an open"}

Init ==
  /\ comms = [started |-> FALSE, connected |-> FALSE, handlingRequests |-> FALSE,
              preventRetry |-> FALSE, resumeInFlight |-> FALSE,
              reconnectTimer |-> FALSE, reconnectAttempts |-> 0,
              resumeHandshakeFailures |-> 0,
              serverRestartHold |-> FALSE, restart |-> FALSE,
              connectionGeneration |-> None, noiseSession |-> None,
              waiter |-> "none"]
  /\ ws = [raw |-> [s \in Sockets |-> "none"], socket |-> None,
           socketClosing |-> FALSE, connectingSockets |-> {}, settled |-> {},
           closeWaiters |-> {}, created |-> 0, loading |-> FALSE]
  /\ shake = [s \in Sockets |-> [step |-> "none", resume |-> FALSE]]
  /\ lapses = {}

-----------------------------------------------------------------------------
(* WaWebSocket. *)

IsOpen(w) == w.socket # None /\ w.raw[w.socket] = "open"
IsConnecting(w) == w.connectingSockets # {}
IsDeliverable(w, s) == w.socket = s /\ ~w.socketClosing

Turn(raw, S, state) == [s \in Sockets |-> IF s \in S THEN state ELSE raw[s]]

CreateSockets(w) ==
  LET new == (w.created + 1)..(w.created + Urls)
  IN [w EXCEPT !.raw = Turn(@, new, "connecting"), !.connectingSockets = @ \cup new,
               !.created = @ + Urls, !.loading = FALSE]

Fits(w) == w.created <= MaxSockets

\* Faulty variant of Activate: the other raced sockets go on connecting.
ActivateLeavesLosers(w, s) ==
  [w EXCEPT !.raw[s] = "open", !.connectingSockets = @ \ {s},
            !.settled = @ \cup {s}, !.socket = s, !.socketClosing = FALSE]

\* The raced sockets close when told to; the winner has been bound for good.
Activate(w, s) ==
  LET losers == Race(s) \ (w.settled \cup {s})
  IN [w EXCEPT !.raw = [Turn(@, losers, "closing") EXCEPT ![s] = "open"],
               !.connectingSockets = @ \ Race(s), !.settled = @ \cup Race(s),
               !.socket = s, !.socketClosing = FALSE]

\* close() returns at once when there is no socket to await.
Awaited(w) == w.socket # None
\* Faulty variant of Close: sockets that are still connecting are left alone.
CloseInUse(w, who) ==
  IF ~Awaited(w) THEN w
  ELSE [w EXCEPT !.raw[w.socket] = "closing", !.socketClosing = TRUE,
                 !.closeWaiters = @ \cup {<<w.socket, who>>}]
Close(w, who) ==
  IF Awaited(w)
  THEN [w EXCEPT !.raw[w.socket] = "closing", !.socketClosing = TRUE,
                 !.closeWaiters = @ \cup {<<w.socket, who>>}]
  ELSE [w EXCEPT !.raw = Turn(@, w.connectingSockets, "closing"),
                 !.connectingSockets = {}]

\* close() closes the socket in use or those that are connecting, not both, and
\* knows nothing of an open() that still awaits the agent's module.
MissesOpening(w) == w.loading \/ (Awaited(w) /\ IsConnecting(w))

Drop(w, s) == IF w.socket = s THEN None ELSE w.socket

-----------------------------------------------------------------------------
(* WaComms. *)

Rejected(waiter) == IF waiter = "waiting" THEN "rejected" ELSE waiter

\* Faulty variant of ResetConnectionState: the session is not discarded.
ResetKeepsSession(c, resuming) ==
  [c EXCEPT !.started = resuming, !.connected = FALSE, !.preventRetry = ~resuming,
            !.resumeInFlight = resuming, !.connectionGeneration = None,
            !.reconnectTimer = FALSE]
ResetConnectionState(c, resuming) ==
  [c EXCEPT !.started = resuming, !.connected = FALSE,
            !.handlingRequests = resuming /\ @, !.preventRetry = ~resuming,
            !.resumeInFlight = resuming, !.serverRestartHold = FALSE,
            !.resumeHandshakeFailures = IF resuming THEN @ ELSE 0,
            !.noiseSession = None, !.connectionGeneration = None,
            !.reconnectTimer = FALSE,
            !.waiter = IF resuming THEN @ ELSE Rejected(@)]

\* A session that still awaits the server's hello rejects when it is discarded.
EndSession(s) ==
  IF s # None /\ shake[s].step = "hello"
  THEN [shake EXCEPT ![s].step = "over"]
  ELSE shake

\* Faulty variant of GivesUp: the limit is never looked at.
GivesUpNever(c) == FALSE
GivesUp(c) == c.reconnectAttempts >= MaxReconnectAttempts

OpensSocket(c, w) ==
  c.started /\ ~c.preventRetry /\ ~IsOpen(w) /\ ~IsConnecting(w)

\* openSocket(true), as far as WaComms and as far as the socket goes.
Reopening(c, w) ==
  IF ~OpensSocket(c, w) THEN c
  ELSE IF GivesUp(c)
       THEN [c EXCEPT !.reconnectAttempts = @ + 1, !.preventRetry = TRUE,
                      !.started = FALSE, !.waiter = Rejected(@)]
       ELSE [c EXCEPT !.reconnectAttempts = @ + 1]

Reopened(c, w) == IF OpensSocket(c, w) /\ ~GivesUp(c) THEN CreateSockets(w) ELSE w

\* Faulty variant of Resuming: it starts comms again after the awaited close.
ResumingAnyway(c, w) ==
  Reopening([c EXCEPT !.resumeInFlight = FALSE, !.started = TRUE, !.preventRetry = FALSE], w)
\* After the awaited close of closeSocketAndResume.
Resuming(c, w) ==
  IF c.resumeInFlight THEN Reopening([c EXCEPT !.resumeInFlight = FALSE], w) ELSE c
Resumed(c, w) ==
  IF c.resumeInFlight THEN Reopened([c EXCEPT !.resumeInFlight = FALSE], w) ELSE w

\* onSocketClosed, with the rejection of a handshake that awaits a frame.
FailsHello(c) == c.noiseSession # None /\ shake[c.noiseSession].step = "hello"
\* Faulty variant of OnSocketClosed: nothing is scheduled.
OnSocketClosedQuietly(c) ==
  [c EXCEPT !.connected = FALSE, !.noiseSession = None]
OnSocketClosed(c) ==
  LET retries == c.started /\ ~c.preventRetry /\ ~c.resumeInFlight
      failed == FailsHello(c) /\ shake[c.noiseSession].resume
  IN [c EXCEPT !.connected = FALSE, !.noiseSession = None,
               !.resumeHandshakeFailures = IF failed THEN @ + 1 ELSE @,
               !.serverRestartHold = @ /\ ~retries,
               !.restart = @ \/ (retries /\ c.serverRestartHold),
               !.reconnectTimer = @ \/ (retries /\ ~c.serverRestartHold)]

OnOpenFailed(c) ==
  [c EXCEPT !.connected = FALSE,
            !.reconnectTimer = @ \/ (c.started /\ ~c.preventRetry)]

UsesResume(c) == c.resumeHandshakeFailures < 1

-----------------------------------------------------------------------------
(* The connection manager and the other callers. *)

\* Timers run for seconds and a key agreement for milliseconds: none is left
\* running when a timer fires.
NothingComputing == \A s \in Sockets : shake[s].step \notin {"finish", "agree"}

\* startComms and the waitForConnection that follows it.  With an agent the
\* first open() awaits the module of its sockets.
StartComms(agent) ==
  /\ comms.waiter = "none"
  /\ comms' = [comms EXCEPT !.started = TRUE, !.waiter = "waiting"]
  /\ ws' = IF agent THEN [ws EXCEPT !.loading = TRUE] ELSE CreateSockets(ws)
  /\ Fits(ws')
  /\ UNCHANGED <<shake, lapses>>

AgentLoaded ==
  /\ ws.loading
  /\ ws' = CreateSockets(ws)
  /\ Fits(ws')
  /\ UNCHANGED <<comms, shake, lapses>>

\* Disconnect, a fatal stream error, a restart after pairing, or the manager's
\* answer to a connection that did not come up.
StopComms ==
  /\ comms.waiter # "none"
  /\ comms' = [ResetConnectionState(comms, FALSE) EXCEPT !.restart = FALSE]
  /\ ws' = Close(ws, "other")
  /\ shake' = EndSession(comms.noiseSession)
  /\ lapses' = lapses \cup (IF MissesOpening(ws) THEN {"stop missed an open"} ELSE {})

\* A ping without an answer, a stream error, a frame that does not decode or
\* finds the handler queue full.
CloseSocketAndResume ==
  /\ comms.waiter = "adopted" /\ comms.started /\ ~comms.preventRetry
  /\ ~comms.resumeInFlight
  /\ LET c == ResetConnectionState(comms, TRUE)
         w == Close(ws, "resume")
     IN IF Awaited(ws) THEN comms' = c /\ ws' = w
        ELSE comms' = Resuming(c, w) /\ ws' = Resumed(c, w)
  /\ Fits(ws')
  /\ shake' = EndSession(comms.noiseSession)
  /\ UNCHANGED lapses

HoldForServerRestart ==
  /\ comms.waiter = "adopted" /\ comms.started
  /\ comms' = [comms EXCEPT !.serverRestartHold = TRUE]
  /\ UNCHANGED <<ws, shake, lapses>>

ReconnectTimerFires ==
  /\ comms.reconnectTimer /\ NothingComputing
  /\ LET c == [comms EXCEPT !.reconnectTimer = FALSE]
     IN comms' = Reopening(c, ws) /\ ws' = Reopened(c, ws)
  /\ Fits(ws')
  /\ UNCHANGED <<shake, lapses>>

-----------------------------------------------------------------------------
(* Raw sockets. *)

\* Aborting a socket that is still connecting is a local matter, reported
\* before another one can connect.
AbortsReported == \A s \in Sockets : ws.raw[s] = "closing" =>
                                        shake[s].step # "none" \/ s \in ws.settled

\* The first to open wins and its noise session starts.
SocketOpens(s) ==
  /\ ws.raw[s] = "connecting" /\ AbortsReported
  /\ ws' = Activate(ws, s)
  /\ comms' = [comms EXCEPT !.connectionGeneration = s, !.noiseSession = s]
  /\ shake' = [shake EXCEPT ![s] = [step |-> "hello", resume |-> UsesResume(comms)]]
  /\ UNCHANGED lapses

\* A raced socket fails, closes after being told to, or times out.
ConnectFails(s, state) ==
  /\ ws.raw[s] \in {"connecting", "closing"} /\ shake[s].step = "none"
  /\ state = "closing" => s \notin ws.settled
  /\ ws' = [ws EXCEPT !.raw[s] = state, !.settled = @ \cup {s},
                      !.connectingSockets = @ \ {s}]
  /\ comms' = IF s \notin ws.settled /\ Race(s) \subseteq ws'.settled
              THEN OnOpenFailed(comms) ELSE comms
  /\ UNCHANGED <<shake, lapses>>

\* The socket in use, or one WaWebSocket no longer waits for, reports its close.
SocketCloses(s) ==
  /\ ws.raw[s] \in {"open", "closing"} /\ shake[s].step # "none"
  /\ LET w == [ws EXCEPT !.raw[s] = "closed", !.socket = Drop(ws, s),
                         !.closeWaiters = {cw \in @ : cw[1] # s}]
         c == IF ws.socket = s THEN OnSocketClosed(comms) ELSE comms
     IN IF <<s, "resume">> \in ws.closeWaiters
        THEN comms' = Resuming(c, w) /\ ws' = Resumed(c, w)
        ELSE comms' = c /\ ws' = w
  /\ Fits(ws')
  /\ shake' = IF ws.socket = s THEN EndSession(comms.noiseSession) ELSE shake
  /\ UNCHANGED lapses

\* close() stops waiting for the close of s and forgets the socket.
CloseTimesOut(s, who) ==
  /\ <<s, who>> \in ws.closeWaiters /\ NothingComputing
  /\ LET w == [ws EXCEPT !.socket = Drop(ws, s), !.closeWaiters = @ \ {<<s, who>>}]
     IN IF who = "resume"
        THEN comms' = Resuming(comms, w) /\ ws' = Resumed(comms, w)
        ELSE comms' = comms /\ ws' = w
  /\ Fits(ws')
  /\ lapses' = lapses \cup (IF ws.socket = s THEN {"close timed out"} ELSE {})
  /\ UNCHANGED shake

-----------------------------------------------------------------------------
(* The noise handshake of session s. *)

\* A server that wants the full handshake says so in its hello.
ServerHello(s, next) ==
  /\ shake[s].step = "hello"
  /\ comms.noiseSession = s /\ IsDeliverable(ws, s) /\ IsOpen(ws)
  /\ next = "agree" => shake[s].resume
  /\ shake' = [shake EXCEPT ![s].step = next]
  /\ UNCHANGED <<comms, ws, lapses>>

\* Faulty variant of IsCurrent: the handshake of a replaced session counts.
IsAnyway(s) == TRUE
IsCurrent(s) == comms.connectionGeneration = s
Finishable(s) == \/ shake[s].step = "agree"
                 \/ shake[s].step = "finish" /\ IsCurrent(s) /\ IsOpen(ws)

\* The failure of a session that was replaced concerns nobody; that of the
\* current one closes the socket.
HandshakeFails(s) ==
  /\ shake[s].step \in {"hello", "finish", "agree"}
  /\ shake' = [shake EXCEPT ![s].step = "over"]
  /\ IF IsCurrent(s)
     THEN /\ comms' = [comms EXCEPT
                        !.resumeHandshakeFailures = IF shake[s].resume THEN @ + 1 ELSE @,
                        !.noiseSession = None, !.connected = FALSE]
          /\ ws' = Close(ws, "other")
     ELSE UNCHANGED <<comms, ws>>
  /\ UNCHANGED lapses

Connected(c) ==
  [c EXCEPT !.resumeHandshakeFailures = 0, !.connected = TRUE, !.reconnectAttempts = 0,
            !.handlingRequests = @ \/ c.waiter = "waiting",
            !.waiter = IF @ = "waiting" THEN "adopted" ELSE @]

HandshakeSucceeds(s) ==
  /\ Finishable(s)
  /\ shake' = [shake EXCEPT ![s].step = "over"]
  /\ comms' = IF IsCurrent(s) THEN Connected(comms) ELSE comms
  /\ UNCHANGED <<ws, lapses>>

-----------------------------------------------------------------------------
Next ==
  \/ \E agent \in BOOLEAN : StartComms(agent)
  \/ AgentLoaded \/ StopComms \/ CloseSocketAndResume
  \/ HoldForServerRestart \/ ReconnectTimerFires
  \/ \E s \in Sockets :
       \/ SocketOpens(s) \/ SocketCloses(s)
       \/ \E state \in {"closing", "closed"} : ConnectFails(s, state)
       \/ \E who \in {"resume", "other"} : CloseTimesOut(s, who)
       \/ \E next \in {"finish", "agree"} : ServerHello(s, next)
       \/ HandshakeFails(s) \/ HandshakeSucceeds(s)

Spec == Init /\ [][Next]_vars

-----------------------------------------------------------------------------
(* Properties. *)

\* noiseSession's handshake completed and its socket carries frames.
Live(s) == /\ s # None /\ shake[s].step = "over"
           /\ ws.socket = s /\ ws.raw[s] = "open" /\ ~ws.socketClosing

\* Something is under way that will try again or report.
UnderWay ==
  \/ comms.reconnectTimer \/ comms.restart \/ comms.resumeInFlight
  \/ ws.loading \/ IsConnecting(ws)
  \/ \E s \in Sockets : \/ ws.raw[s] = "closing" /\ (ws.socket = s \/ s \notin ws.settled)
                        \/ shake[s].step \in {"hello", "finish", "agree"} /\ IsCurrent(s)

\* What a started WaComms owes: a live connection, or an attempt at one.
Serving ==
  \/ comms.connected /\ comms.handlingRequests /\ Live(comms.noiseSession)
  \/ UnderWay

(* A WaComms that is started and not connected always has something coming  *)
(* that will try again: a timer, an opening socket, a handshake, a close it *)
(* waits for.  The retry logic is spread over onSocketClosed, openSocket,   *)
(* closeSocketAndResume and the handshake's failure path, each of which     *)
(* leaves the retry to another one.  It holds unless WaWebSocket gave up    *)
(* waiting for a close, which tells WaComms nothing.                        *)
StrandedOnlyByTimeout ==
  comms.started /\ "close timed out" \notin lapses => Serving

(* The same without the exception, once the connection manager has adopted  *)
(* the comms and its own timeout no longer stops them.  The message of a    *)
(* failed handshake announces the next attempt: "noise resume handshake     *)
(* failed, next attempt may fallback to full" (WaComms.ts).                 *)
NeverStranded == comms.started /\ comms.waiter = "adopted" => Serving

(* Who is told that comms are connected has a live session, or will soon    *)
(* lose it or get one: a stopped or given-up WaComms never says so (unless  *)
(* the stop missed an open()).                                              *)
ConnectedOrRetrying ==
  comms.connected /\ "stop missed an open" \notin lapses =>
    Live(comms.noiseSession) \/ UnderWay

(* The noise session is never paired with another socket than the one its   *)
(* handshake ran on, across resumes, late closes and forgotten sockets.     *)
SessionOnItsSocket == comms.noiseSession # None => comms.noiseSession = ws.socket

(* However opens, races, resumes and closes overlap, the account has one    *)
(* open connection: every open raw socket is the one in use.                *)
NoOrphan == \A s \in Sockets : ws.raw[s] = "open" => ws.socket = s

(* Stopped or given-up comms come down and keep no socket open.  The stop   *)
(* that misses an open() is excepted: its socket opens and stays open.      *)
StoppedIsDown ==
  comms.preventRetry /\ "stop missed an open" \notin lapses => ~IsOpen(ws)

(* To its user a WaComms is what CommsContract says: a stop or a limit that *)
(* was reached is final whatever is under way, waitForConnection is         *)
(* answered once, and comms that are down come up again only if nobody      *)
(* stopped them.                                                            *)
AsPromised ==
  INSTANCE CommsContract WITH
    Ids <- {1},
    comms <- [i \in {1} |->
      [phase |-> IF comms.waiter = "none" THEN "new"
                 ELSE IF ~comms.started THEN "gone"
                 ELSE IF comms.connected THEN "up" ELSE "opening",
       waiter |-> IF comms.waiter = "adopted" THEN "resolved" ELSE comms.waiter,
       hold |-> comms.serverRestartHold]]
ContractSpec == AsPromised!Contract
=============================================================================
