---------------------------- MODULE CommsContract -----------------------------
(***************************************************************************)
(* What the rest of the client may rely on of a WaComms: once started it   *)
(* opens, comes up and goes down by itself, again and again, until it is   *)
(* stopped or gives up, which is for good.  Whoever waits for the first    *)
(* connection is answered once.  A close while a restart of the server is  *)
(* awaited is handed on, once, instead of being retried.                   *)
(***************************************************************************)
CONSTANT Ids

VARIABLE comms  \* the WaComms instances, as seen from outside

-----------------------------------------------------------------------------
Phases == {"new", "opening", "up", "gone"}
Waiters == {"none", "waiting", "resolved", "rejected"}
Seen == [phase : Phases, waiter : Waiters, hold : BOOLEAN]
New == [phase |-> "new", waiter |-> "none", hold |-> FALSE]

Failing(waiter) == IF waiter = "waiting" THEN "rejected" ELSE waiter

(* The calls of its user. *)
Started(s) == [s EXCEPT !.phase = "opening", !.waiter = "waiting"]
Stopped(s) ==
  IF s.phase = "new" THEN s
  ELSE [s EXCEPT !.phase = "gone", !.waiter = Failing(@), !.hold = FALSE]
Held(s) == [s EXCEPT !.hold = TRUE]
Resumed(s) ==
  IF s.phase = "gone" THEN s ELSE [s EXCEPT !.phase = "opening", !.hold = FALSE]

(* What it does by itself. *)
CameUp(s) ==
  [s EXCEPT !.phase = "up", !.waiter = IF @ = "waiting" THEN "resolved" ELSE @]
Faltered(s) == [s EXCEPT !.phase = "opening"]   \* its close is yet to come
Closed(s) == [s EXCEPT !.phase = "opening", !.hold = FALSE]
GaveUp(s) == [s EXCEPT !.phase = "gone", !.waiter = Failing(@)]
TimedOut(s) == [s EXCEPT !.waiter = Failing(@)]

OnItsOwn(s) ==
  CASE s.phase = "opening" -> {CameUp(s), Closed(s), TimedOut(s), GaveUp(s), GaveUp(Closed(s))}
    [] s.phase = "up" -> {Faltered(s), Closed(s), GaveUp(Closed(s))}
    [] OTHER -> {}
Asked(s) == CASE s.phase = "new" -> {Started(s)}
              [] s.phase \in {"opening", "up"} -> {Stopped(s), Resumed(s), Held(s)}
              [] OTHER -> {Stopped(s)}

ContractInit == comms = [i \in Ids |-> New]
ContractNext ==
  \E i \in Ids : \E s \in OnItsOwn(comms[i]) \cup Asked(comms[i]) :
    comms' = [comms EXCEPT ![i] = s]
Contract == ContractInit /\ [][ContractNext]_comms
=============================================================================
