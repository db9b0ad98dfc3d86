----------------------------- MODULE CommsProofs ------------------------------
(***************************************************************************)
(* What holds of a WaComms and its WaWebSocket, for any number of raced    *)
(* sockets, any limit on reconnects and any number of sockets over its     *)
(* life.  The handlers call each other, so the invariant is stated of the  *)
(* state between two calls as well: its parts are operators of a WaComms   *)
(* c, a WaWebSocket w, the handshakes h and the lapses l, and the lemmas   *)
(* say what each function of Comms does to them.                           *)
(***************************************************************************)
EXTENDS Comms, TLAPS

-----------------------------------------------------------------------------
(* The sockets. *)

\* The sockets are numbered in the order of their creation, a race at a time.
Numbered(w, h) ==
  /\ \E q \in Nat : w.created = q * Urls
  /\ \A s \in Sockets : s > w.created =>
       w.raw[s] = "none" /\ h[s].step = "none" /\ s \notin w.settled
  /\ \A s \in Sockets : w.raw[s] = "none" => s > w.created

\* A race is on until each of its sockets settled: it is being connected, or
\* was told to close before it could be.
Raced(w, h) ==
  \A s \in Sockets :
    /\ s \in w.connectingSockets <=> w.raw[s] = "connecting"
    /\ s <= w.created /\ s \notin w.settled =>
         w.raw[s] \in {"connecting", "closing"} /\ h[s].step = "none"
    /\ s \in w.settled => w.raw[s] # "connecting"
    /\ s \in w.connectingSockets => w.connectingSockets \subseteq Race(s)
    /\ s \in w.connectingSockets => Race(s) \subseteq w.settled \cup w.connectingSockets

\* A socket that was told to close while it was being connected.
Aborting(w, s) == w.raw[s] = "closing" /\ s \notin w.settled

\* The socket in use is the only one open, and none is being connected with it;
\* whoever awaits a close awaits that of a socket that was in use.
OneInUse(w, h) ==
  /\ \A s \in Sockets : w.raw[s] = "open" => w.socket = s
  /\ w.socket # None => /\ w.raw[w.socket] \in {"open", "closing"}
                        /\ h[w.socket].step # "none"
                        /\ \A s \in Sockets : ~Aborting(w, s)
                        /\ w.socketClosing <=> w.raw[w.socket] = "closing"
  /\ IsOpen(w) => ~IsConnecting(w)
  /\ \A cw \in w.closeWaiters : w.raw[cw[1]] = "closing" /\ h[cw[1]].step # "none"

SocketsOK(w, h) ==
  w \in SocketType /\ h \in ShakeType /\ Numbered(w, h) /\ Raced(w, h) /\ OneInUse(w, h)

-----------------------------------------------------------------------------
\* The sockets of one race are numbered from a multiple of Urls on.
LEMMA RaceOf ==
  ASSUME NEW q \in Nat, NEW s \in Sockets, q * Urls < s, s <= q * Urls + Urls
  PROVE  Race(s) = {r \in Sockets : q * Urls < r /\ r <= q * Urls + Urls}
<1>1. ASSUME NEW n \in Nat, NEW i \in 0..(Urls - 1) PROVE (n * Urls + i) \div Urls = n
  BY <1>1, CommsAssumption DEF CommsAssumption
<1>2. ASSUME NEW n \in Nat
      PROVE  /\ (n \div Urls) \in Nat
             /\ (n \div Urls) * Urls <= n
             /\ n < (n \div Urls) * Urls + Urls
  BY <1>2, CommsAssumption DEF CommsAssumption
<1>3. q * Urls \in Nat /\ Urls \in Nat
  BY CommsAssumption DEF CommsAssumption
<1>4. ASSUME NEW r \in Sockets, q * Urls < r, r <= q * Urls + Urls
      PROVE  (r - 1) \div Urls = q
  <2>1. r - 1 - q * Urls \in 0..(Urls - 1) /\ r - 1 = q * Urls + (r - 1 - q * Urls)
    BY <1>3, <1>4 DEF Sockets
  <2> QED BY <1>1, <2>1
<1>5. ASSUME NEW r \in Sockets, (r - 1) \div Urls = q
      PROVE  q * Urls < r /\ r <= q * Urls + Urls
  <2>1. r - 1 \in Nat
    BY DEF Sockets
  <2> QED BY <1>2, <1>3, <1>5, <2>1 DEF Sockets
<1> QED BY <1>4, <1>5 DEF Race

\* Races do not overlap.
LEMMA RaceShared ==
  ASSUME NEW s \in Sockets, NEW r \in Race(s)
  PROVE  r \in Sockets /\ Race(r) = Race(s) /\ s \in Race(s) /\ s \in Race(r)
BY DEF Race

\* What CreateSockets sets.
LEMMA CreatedFields ==
  ASSUME NEW w \in SocketType
  PROVE  LET n == CreateSockets(w)
         IN /\ n.socket = w.socket /\ n.socketClosing = w.socketClosing
            /\ n.settled = w.settled /\ n.closeWaiters = w.closeWaiters
            /\ n.created = w.created + Urls /\ ~n.loading /\ n.loading \in BOOLEAN
            /\ n.connectingSockets = w.connectingSockets \cup (w.created + 1)..(w.created + Urls)
            /\ \A s \in Sockets : n.raw[s] = IF s \in (w.created + 1)..(w.created + Urls)
                                             THEN "connecting" ELSE w.raw[s]
            /\ Fits(n) => n \in SocketType
<1> DEFINE new == (w.created + 1)..(w.created + Urls)
           n == CreateSockets(w)
<1>1. /\ n.socket = w.socket /\ n.socketClosing = w.socketClosing
      /\ n.settled = w.settled /\ n.closeWaiters = w.closeWaiters
      /\ n.created = w.created + Urls /\ n.loading = FALSE
      /\ n.connectingSockets = w.connectingSockets \cup new
      /\ n.raw = Turn(w.raw, new, "connecting")
  BY DEF CreateSockets, SocketType
<1>2. \A s \in Sockets : n.raw[s] = IF s \in new THEN "connecting" ELSE w.raw[s]
  BY <1>1 DEF Turn
<1>3. ASSUME Fits(n) PROVE n \in SocketType
  <2>1. w.created \in Nat /\ Urls \in Nat \ {0} /\ MaxSockets \in Nat
    BY CommsAssumption DEF SocketType, CommsAssumption
  <2>2. new \subseteq Sockets /\ w.created + Urls \in 0..MaxSockets
    BY <1>1, <1>3, <2>1 DEF Fits, Sockets
  <2>3. Turn(w.raw, new, "connecting") \in [Sockets -> {"none", "connecting", "open", "closing", "closed"}]
    BY DEF Turn, SocketType
  <2> QED BY <2>2, <2>3 DEF CreateSockets, SocketType
<1> QED BY <1>1, <1>2, <1>3

\* A race is begun only when no socket is open or being connected.
LEMMA CreateKeepsSockets ==
  ASSUME NEW w, NEW h, SocketsOK(w, h), ~IsOpen(w), ~IsConnecting(w), Fits(CreateSockets(w))
  PROVE  SocketsOK(CreateSockets(w), h)
<1> DEFINE new == (w.created + 1)..(w.created + Urls)
           n == CreateSockets(w)
<1>0. w \in SocketType /\ h \in ShakeType /\ Numbered(w, h) /\ Raced(w, h) /\ OneInUse(w, h)
  BY DEF SocketsOK
<1>1. /\ n.socket = w.socket /\ n.socketClosing = w.socketClosing
      /\ n.settled = w.settled /\ n.closeWaiters = w.closeWaiters
      /\ n.created = w.created + Urls /\ n \in SocketType
      /\ n.connectingSockets = w.connectingSockets \cup new
      /\ \A s \in Sockets : n.raw[s] = IF s \in new THEN "connecting" ELSE w.raw[s]
  BY <1>0, CreatedFields
<1>2. PICK q \in Nat : w.created = q * Urls
  BY <1>0 DEF Numbered
<1>3. /\ w.created \in Nat /\ Urls \in Nat \ {0} /\ MaxSockets \in Nat
      /\ w.connectingSockets = {} /\ w.created + Urls <= MaxSockets
      /\ w.connectingSockets \subseteq Sockets
  BY <1>0, <1>1, CommsAssumption DEF SocketType, CommsAssumption, IsConnecting, Fits
<1>4. new \subseteq Sockets /\ (\A s \in new : Race(s) = new)
  <2>1. new \subseteq Sockets
    BY <1>3 DEF Sockets
  <2>2. ASSUME NEW s \in new PROVE Race(s) = new
    <3>1. q * Urls < s /\ s <= q * Urls + Urls /\ s \in Sockets
      BY <1>2, <1>3, <2>1, <2>2
    <3>2. Race(s) = {r \in Sockets : q * Urls < r /\ r <= q * Urls + Urls}
      BY <3>1, RaceOf
    <3>3. \A r \in Sockets : r \in new <=> q * Urls < r /\ r <= q * Urls + Urls
      BY <1>2, <1>3 DEF Sockets
    <3> QED BY <2>1, <3>2, <3>3
  <2> QED BY <2>1, <2>2
<1>5. \A s \in new : s > w.created /\ w.raw[s] = "none" /\ s \notin w.settled /\ h[s].step = "none"
  BY <1>0, <1>3, <1>4 DEF Numbered
<1> HIDE DEF n, new
<1>6. Numbered(n, h)
  <2>1. n.created = (q + 1) * Urls /\ q + 1 \in Nat
    BY <1>1, <1>2, <1>3
  <2>2. \A s \in Sockets : s > n.created <=> s > w.created /\ s \notin new
    BY <1>1, <1>3 DEF Sockets, new
  <2> QED BY <1>0, <1>1, <2>1, <2>2 DEF Numbered
<1>7. Raced(n, h)
  <2>1. \A s \in Sockets : s <= n.created => s <= w.created \/ s \in new
    BY <1>1, <1>3 DEF Sockets, new
  <2>2. n.connectingSockets = new
    BY <1>1, <1>3
  <2>3. \A s \in Sockets : s \notin new => w.raw[s] # "connecting"
    BY <1>0, <1>3 DEF Raced
  <2> QED BY <1>0, <1>1, <1>4, <1>5, <2>1, <2>2, <2>3 DEF Raced
<1>8. OneInUse(n, h)
  <2>1. \A s \in Sockets : Aborting(n, s) => Aborting(w, s)
    BY <1>1 DEF Aborting
  <2>2. w.socket # None => w.socket \in Sockets /\ w.socket \notin new
    BY <1>0, <1>5 DEF SocketType, OneInUse
  <2>3. ~IsOpen(n)
    BY <1>1, <2>2 DEF IsOpen
  <2>4. \A cw \in w.closeWaiters : cw[1] \in Sockets /\ cw[1] \notin new
    BY <1>0, <1>5 DEF OneInUse, SocketType
  <2> QED BY <1>0, <1>1, <2>1, <2>2, <2>3, <2>4 DEF OneInUse
<1> QED BY <1>0, <1>1, <1>6, <1>7, <1>8 DEF SocketsOK, n

\* What Close sets.
LEMMA ClosedFields ==
  ASSUME NEW w \in SocketType, NEW who \in {"resume", "other"}
  PROVE  LET n == Close(w, who)
         IN /\ n \in SocketType
            /\ n.socket = w.socket /\ n.settled = w.settled
            /\ n.created = w.created /\ n.loading = w.loading
            /\ Awaited(w) =>
                 /\ n.socketClosing /\ n.connectingSockets = w.connectingSockets
                 /\ n.closeWaiters = w.closeWaiters \cup {<<w.socket, who>>}
                 /\ \A s \in Sockets : n.raw[s] = IF s = w.socket THEN "closing" ELSE w.raw[s]
            /\ ~Awaited(w) =>
                 /\ n.socketClosing = w.socketClosing /\ n.connectingSockets = {}
                 /\ n.closeWaiters = w.closeWaiters
                 /\ \A s \in Sockets : n.raw[s] = IF s \in w.connectingSockets THEN "closing"
                                                  ELSE w.raw[s]
<1>1. CASE Awaited(w)
  <2>1. w.socket \in Sockets
    BY <1>1 DEF Awaited, SocketType
  <2> DEFINE raw == [w.raw EXCEPT ![w.socket] = "closing"]
             cws == w.closeWaiters \cup {<<w.socket, who>>}
             n == Close(w, who)
  <2>2. n = [w EXCEPT !.raw = raw, !.socketClosing = TRUE, !.closeWaiters = cws]
    BY <1>1 DEF Close, SocketType
  <2>3. /\ raw \in [Sockets -> {"none", "connecting", "open", "closing", "closed"}]
        /\ \A s \in Sockets : raw[s] = IF s = w.socket THEN "closing" ELSE w.raw[s]
        /\ cws \in SUBSET (Sockets \X {"resume", "other"})
    BY <2>1 DEF SocketType
  <2> HIDE DEF raw, cws, n
  <2>4. /\ n \in SocketType /\ n.raw = raw /\ n.socketClosing = TRUE /\ n.closeWaiters = cws
        /\ n.socket = w.socket /\ n.settled = w.settled /\ n.created = w.created
        /\ n.loading = w.loading /\ n.connectingSockets = w.connectingSockets
    BY <2>2, <2>3 DEF SocketType
  <2> QED BY <1>1, <2>3, <2>4 DEF n, cws
<1>2. CASE ~Awaited(w)
  <2>1. Turn(w.raw, w.connectingSockets, "closing")
          \in [Sockets -> {"none", "connecting", "open", "closing", "closed"}]
    BY DEF Turn, SocketType
  <2>2. \A s \in Sockets : Turn(w.raw, w.connectingSockets, "closing")[s] =
          IF s \in w.connectingSockets THEN "closing" ELSE w.raw[s]
    BY DEF Turn
  <2> HIDE DEF Turn
  <2> QED BY <1>2, <2>1, <2>2 DEF Close, SocketType
<1> QED BY <1>1, <1>2

\* Closing leaves no socket open, and none being connected if none was in use.
LEMMA CloseKeepsSockets ==
  ASSUME NEW w, NEW h, SocketsOK(w, h), NEW who \in {"resume", "other"}
  PROVE  /\ SocketsOK(Close(w, who), h)
         /\ ~IsOpen(Close(w, who))
<1> DEFINE n == Close(w, who)
<1>0. w \in SocketType /\ h \in ShakeType /\ Numbered(w, h) /\ Raced(w, h) /\ OneInUse(w, h)
  BY DEF SocketsOK
<1>1. /\ n \in SocketType
      /\ n.socket = w.socket /\ n.settled = w.settled /\ n.created = w.created
  BY <1>0, ClosedFields
<1>2. CASE Awaited(w)
  <2>1. /\ n.socketClosing /\ n.connectingSockets = w.connectingSockets
        /\ n.closeWaiters = w.closeWaiters \cup {<<w.socket, who>>}
        /\ \A s \in Sockets : n.raw[s] = IF s = w.socket THEN "closing" ELSE w.raw[s]
    BY <1>0, <1>2, ClosedFields
  <2>2. /\ w.socket # None /\ w.socket \in Sockets /\ w.raw[w.socket] \in {"open", "closing"}
        /\ h[w.socket].step # "none" /\ w.socket <= w.created /\ w.socket \in w.settled
    BY <1>0, <1>2, CommsAssumption DEF Awaited, SocketType, OneInUse, Numbered, Raced, Sockets,
       CommsAssumption
  <2> HIDE DEF n
  <2>3. Numbered(n, h)
    BY <1>0, <1>1, <2>1, <2>2 DEF Numbered
  <2>4. Raced(n, h)
    BY <1>0, <1>1, <2>1, <2>2 DEF Raced
  <2>5. OneInUse(n, h) /\ ~IsOpen(n)
    <3>1. \A s \in Sockets : Aborting(n, s) => Aborting(w, s)
      BY <1>1, <2>1, <2>2 DEF Aborting
    <3>2. \A cw \in n.closeWaiters : cw[1] \in Sockets /\ (cw[1] = w.socket \/ cw \in w.closeWaiters)
      BY <1>0, <2>1, <2>2 DEF SocketType
    <3> QED BY <1>0, <1>1, <2>1, <2>2, <3>1, <3>2 DEF OneInUse, IsOpen
  <2> QED BY <1>0, <1>1, <2>3, <2>4, <2>5 DEF SocketsOK, n
<1>3. CASE ~Awaited(w)
  <2>1. /\ n.socketClosing = w.socketClosing /\ n.connectingSockets = {}
        /\ n.closeWaiters = w.closeWaiters
        /\ \A s \in Sockets : n.raw[s] = IF s \in w.connectingSockets THEN "closing" ELSE w.raw[s]
    BY <1>0, <1>3, ClosedFields
  <2>2. w.socket = None
    BY <1>3 DEF Awaited
  <2> HIDE DEF n
  <2>3. Numbered(n, h)
    BY <1>0, <1>1, <2>1 DEF Numbered, Raced
  <2>4. Raced(n, h)
    BY <1>0, <1>1, <2>1 DEF Raced
  <2>5. OneInUse(n, h) /\ ~IsOpen(n)
    <3>1. \A cw \in w.closeWaiters : cw[1] \in Sockets
      BY <1>0 DEF SocketType
    <3> QED BY <1>0, <1>1, <2>1, <2>2, <3>1 DEF OneInUse, IsOpen
  <2> QED BY <1>0, <1>1, <2>3, <2>4, <2>5 DEF SocketsOK, n
<1> QED BY <1>2, <1>3

-----------------------------------------------------------------------------
\* What Activate sets.
LEMMA ActivatedFields ==
  \A w \in SocketType : \A s \in Sockets :
    LET n == Activate(w, s)
    IN /\ n \in SocketType
       /\ n.socket = s /\ n.socketClosing = FALSE
       /\ n.settled = w.settled \cup Race(s)
       /\ n.connectingSockets = w.connectingSockets \ Race(s)
       /\ n.closeWaiters = w.closeWaiters /\ n.created = w.created /\ n.loading = w.loading
       /\ \A r \in Sockets : n.raw[r] =
            IF r = s THEN "open"
            ELSE IF r \in Race(s) \ w.settled THEN "closing" ELSE w.raw[r]
<1> TAKE w \in SocketType
<1> TAKE s \in Sockets
<1> DEFINE losers == Race(s) \ (w.settled \cup {s})
           raw == [Turn(w.raw, losers, "closing") EXCEPT ![s] = "open"]
           n == Activate(w, s)
<1>1. Race(s) \subseteq Sockets
  BY DEF Race
<1>2. /\ raw \in [Sockets -> {"none", "connecting", "open", "closing", "closed"}]
      /\ \A r \in Sockets : raw[r] = IF r = s THEN "open"
                                     ELSE IF r \in losers THEN "closing" ELSE w.raw[r]
  BY DEF Turn, SocketType
<1>3. n = [w EXCEPT !.raw = raw, !.connectingSockets = w.connectingSockets \ Race(s),
                    !.settled = w.settled \cup Race(s), !.socket = s, !.socketClosing = FALSE]
  BY DEF Activate, SocketType
<1>4. \A r \in Sockets : r # s => (r \in losers <=> r \in Race(s) \ w.settled)
  OBVIOUS
<1> HIDE DEF losers, raw, n
<1>5. /\ n \in SocketType /\ n.raw = raw
      /\ n.socket = s /\ n.socketClosing = FALSE
      /\ n.settled = w.settled \cup Race(s)
      /\ n.connectingSockets = w.connectingSockets \ Race(s)
      /\ n.closeWaiters = w.closeWaiters /\ n.created = w.created /\ n.loading = w.loading
  BY <1>1, <1>2, <1>3 DEF SocketType
<1> QED BY <1>2, <1>4, <1>5 DEF n

\* The handshakes after the socket s won its race.
Shaking(h, s, g) == [h EXCEPT ![s] = g]

\* The winner of the race is in use; nothing else was, and nothing of another
\* race is left to be reported.
LEMMA ActivateKeepsSockets ==
  ASSUME NEW w, NEW h, SocketsOK(w, h), NEW s \in Sockets, w.raw[s] = "connecting",
         \A r \in Sockets : w.raw[r] = "closing" => h[r].step # "none" \/ r \in w.settled,
         NEW resume \in BOOLEAN
  PROVE  LET n == Activate(w, s)
             g == Shaking(h, s, [step |-> "hello", resume |-> resume])
         IN SocketsOK(n, g) /\ IsOpen(n) /\ ~IsConnecting(n)
<1> DEFINE n == Activate(w, s)
           g == Shaking(h, s, [step |-> "hello", resume |-> resume])
<1>0. w \in SocketType /\ h \in ShakeType /\ Numbered(w, h) /\ Raced(w, h) /\ OneInUse(w, h)
  BY DEF SocketsOK
<1>1. /\ n \in SocketType
      /\ n.socket = s /\ n.socketClosing = FALSE
      /\ n.settled = w.settled \cup Race(s)
      /\ n.connectingSockets = w.connectingSockets \ Race(s)
      /\ n.closeWaiters = w.closeWaiters /\ n.created = w.created
      /\ \A r \in Sockets : n.raw[r] =
           IF r = s THEN "open"
           ELSE IF r \in Race(s) \ w.settled THEN "closing" ELSE w.raw[r]
  BY <1>0, ActivatedFields
<1>2. /\ g \in ShakeType /\ g[s].step = "hello"
      /\ \A r \in Sockets : r # s => g[r] = h[r]
  BY <1>0 DEF ShakeType, Shaking
<1>3. /\ s \in w.connectingSockets /\ s \notin w.settled /\ s \in Race(s)
      /\ w.connectingSockets \subseteq Race(s) /\ Race(s) \subseteq w.settled \cup w.connectingSockets
      /\ \A r \in Sockets : w.raw[r] # "open"
  <2>1. s \in w.connectingSockets /\ s \notin w.settled
    BY <1>0 DEF Raced
  <2>2. \A r \in Sockets : w.raw[r] # "open"
    BY <1>0, <2>1, CommsAssumption DEF OneInUse, IsOpen, IsConnecting, Sockets, None, CommsAssumption
  <2> QED BY <1>0, <2>1, <2>2 DEF Raced, Race
<1>4. \A r \in Race(s) : r \in Sockets /\ (r \in w.settled \/ w.raw[r] = "connecting")
  BY <1>0, <1>3, RaceShared DEF Raced
<1>5. s # None
  BY DEF Sockets, None
<1> HIDE DEF n, g
<1>6. n.connectingSockets = {}
  BY <1>1, <1>3
<1>7. Numbered(n, g)
  <2>1. \A r \in Race(s) : ~(r > w.created) \/ r \in w.settled
    BY <1>0, <1>4 DEF Numbered
  <2>2. ~(s > w.created)
    BY <1>0, <1>3, <2>1
  <2>3. \A r \in Race(s) : ~(r > w.created)
    BY <1>0, <1>4 DEF Numbered
  <2> QED BY <1>0, <1>1, <1>2, <2>2, <2>3 DEF Numbered
<1>8. Raced(n, g)
  BY <1>0, <1>1, <1>2, <1>3, <1>4, <1>6 DEF Raced
<1>9. OneInUse(n, g)
  <2>1. \A r \in Sockets : ~Aborting(n, r)
    <3> SUFFICES ASSUME NEW r \in Sockets, n.raw[r] = "closing", r \notin w.settled, r \notin Race(s)
                 PROVE  FALSE
      BY <1>1 DEF Aborting
    <3>1. w.raw[r] = "closing"
      BY <1>1, <1>3
    <3>2. h[r].step # "none"
      BY <3>1
    <3>3. r <= w.created
      BY <1>0, <3>1, CommsAssumption DEF Numbered, Sockets, SocketType, CommsAssumption
    <3> QED BY <1>0, <3>2, <3>3 DEF Raced
  <2>2. \A r \in Sockets : n.raw[r] = "open" => r = s
    BY <1>1, <1>3
  <2>3. \A cw \in n.closeWaiters : n.raw[cw[1]] = "closing" /\ g[cw[1]].step # "none"
    <3> SUFFICES ASSUME NEW cw \in w.closeWaiters PROVE n.raw[cw[1]] = "closing" /\ g[cw[1]].step # "none"
      BY <1>1
    <3>1. cw[1] \in Sockets /\ w.raw[cw[1]] = "closing" /\ h[cw[1]].step # "none"
      BY <1>0 DEF SocketType, OneInUse
    <3>2. cw[1] # s
      BY <3>1
    <3> QED BY <1>1, <1>2, <3>1, <3>2
  <2> QED BY <1>1, <1>2, <1>5, <1>6, <2>1, <2>2, <2>3 DEF OneInUse, IsConnecting
<1>10. IsOpen(n) /\ ~IsConnecting(n)
  BY <1>1, <1>5, <1>6 DEF IsOpen, IsConnecting
<1> QED BY <1>1, <1>2, <1>7, <1>8, <1>9, <1>10 DEF SocketsOK, n, g

\* A raced socket fails, as ConnectFails writes it.
Failed(w, s, state) ==
  [w EXCEPT !.raw[s] = state, !.settled = @ \cup {s}, !.connectingSockets = @ \ {s}]

\* The race goes on without it, and is over when the last one failed.
LEMMA FailureKeepsSockets ==
  ASSUME NEW w, NEW h, SocketsOK(w, h), NEW s \in Sockets, NEW state \in {"closing", "closed"},
         w.raw[s] \in {"connecting", "closing"}, h[s].step = "none"
  PROVE  LET n == Failed(w, s, state)
         IN /\ SocketsOK(n, h)
            /\ n.socket = w.socket /\ (IsOpen(n) <=> IsOpen(w))
            /\ n.created = w.created /\ n.loading = w.loading
            /\ n.closeWaiters = w.closeWaiters
            /\ n.settled = w.settled \cup {s} /\ n.connectingSockets = w.connectingSockets \ {s}
            /\ \A r \in Sockets : n.raw[r] = IF r = s THEN state ELSE w.raw[r]
            /\ w.socket # s
<1> DEFINE n == Failed(w, s, state)
           raw == [w.raw EXCEPT ![s] = state]
<1>0. w \in SocketType /\ h \in ShakeType /\ Numbered(w, h) /\ Raced(w, h) /\ OneInUse(w, h)
  BY DEF SocketsOK
<1>1. /\ raw \in [Sockets -> {"none", "connecting", "open", "closing", "closed"}]
      /\ \A r \in Sockets : raw[r] = IF r = s THEN state ELSE w.raw[r]
  BY <1>0 DEF SocketType
<1>2. n = [w EXCEPT !.raw = raw, !.settled = w.settled \cup {s},
                    !.connectingSockets = w.connectingSockets \ {s}]
  BY <1>0 DEF Failed, SocketType
<1> HIDE DEF n, raw
<1>3. /\ n \in SocketType /\ n.raw = raw
      /\ n.settled = w.settled \cup {s} /\ n.connectingSockets = w.connectingSockets \ {s}
      /\ n.socket = w.socket /\ n.socketClosing = w.socketClosing
      /\ n.created = w.created /\ n.loading = w.loading /\ n.closeWaiters = w.closeWaiters
  BY <1>0, <1>1, <1>2 DEF SocketType
<1>4. w.socket # s
  BY <1>0 DEF OneInUse, Sockets, None
<1>5. IsOpen(n) <=> IsOpen(w)
  BY <1>0, <1>1, <1>3, <1>4 DEF IsOpen, SocketType
<1>6. Numbered(n, h)
  <2>1. ~(s > w.created)
    BY <1>0 DEF Numbered
  <2> QED BY <1>0, <1>1, <1>3, <2>1 DEF Numbered
<1>7. Raced(n, h)
  BY <1>0, <1>1, <1>3 DEF Raced
<1>8. OneInUse(n, h)
  <2>1. \A r \in Sockets : Aborting(n, r) => Aborting(w, r)
    BY <1>1, <1>3 DEF Aborting
  <2>2. \A cw \in w.closeWaiters : cw[1] \in Sockets /\ cw[1] # s
    BY <1>0 DEF SocketType, OneInUse
  <2>3. IsOpen(n) => ~IsConnecting(n)
    BY <1>0, <1>3, <1>5 DEF OneInUse, IsConnecting
  <2>4. w.socket # None => w.socket \in Sockets
    BY <1>0 DEF SocketType
  <2> QED BY <1>0, <1>1, <1>3, <1>4, <2>1, <2>2, <2>3, <2>4 DEF OneInUse
<1> QED BY <1>0, <1>1, <1>3, <1>4, <1>5, <1>6, <1>7, <1>8 DEF SocketsOK, n

\* A socket that was in use reports its close, as SocketCloses writes it.
Gone(w, s) ==
  [w EXCEPT !.raw[s] = "closed", !.socket = Drop(w, s),
            !.closeWaiters = {cw \in @ : cw[1] # s}]

\* It is forgotten, and nobody awaits it any more.
LEMMA GoneKeepsSockets ==
  ASSUME NEW w, NEW h, SocketsOK(w, h), NEW s \in Sockets,
         w.raw[s] \in {"open", "closing"}, h[s].step # "none"
  PROVE  LET n == Gone(w, s)
         IN /\ SocketsOK(n, h)
            /\ n.socket = IF w.socket = s THEN None ELSE w.socket
            /\ n.created = w.created /\ n.loading = w.loading
            /\ n.settled = w.settled /\ n.connectingSockets = w.connectingSockets
            /\ n.closeWaiters = {cw \in w.closeWaiters : cw[1] # s}
            /\ \A r \in Sockets : n.raw[r] = IF r = s THEN "closed" ELSE w.raw[r]
            /\ s \in w.settled
<1> DEFINE n == Gone(w, s)
           raw == [w.raw EXCEPT ![s] = "closed"]
           cws == {cw \in w.closeWaiters : cw[1] # s}
<1>0. w \in SocketType /\ h \in ShakeType /\ Numbered(w, h) /\ Raced(w, h) /\ OneInUse(w, h)
  BY DEF SocketsOK
<1>1. /\ raw \in [Sockets -> {"none", "connecting", "open", "closing", "closed"}]
      /\ \A r \in Sockets : raw[r] = IF r = s THEN "closed" ELSE w.raw[r]
      /\ cws \subseteq w.closeWaiters
      /\ cws \in SUBSET (Sockets \X {"resume", "other"})
      /\ Drop(w, s) \in Sockets \cup {None}
  BY <1>0 DEF SocketType, Drop
<1>2. n = [w EXCEPT !.raw = raw, !.socket = Drop(w, s), !.closeWaiters = cws]
  BY <1>0 DEF Gone, SocketType
<1> HIDE DEF n, raw, cws
<1>3. /\ n \in SocketType /\ n.raw = raw
      /\ n.settled = w.settled /\ n.connectingSockets = w.connectingSockets
      /\ n.socket = Drop(w, s) /\ n.socketClosing = w.socketClosing
      /\ n.created = w.created /\ n.loading = w.loading /\ n.closeWaiters = cws
  BY <1>0, <1>1, <1>2 DEF SocketType
<1>4. s <= w.created /\ s \in w.settled
  <2>1. s <= w.created
    BY <1>0, CommsAssumption DEF Numbered, Sockets, SocketType, CommsAssumption
  <2> QED BY <1>0, <2>1 DEF Raced
<1>5. Numbered(n, h)
  BY <1>0, <1>1, <1>3, <1>4 DEF Numbered
<1>6. Raced(n, h)
  BY <1>0, <1>1, <1>3, <1>4 DEF Raced
<1>7. OneInUse(n, h)
  <2>1. \A r \in Sockets : Aborting(n, r) => Aborting(w, r)
    BY <1>1, <1>3 DEF Aborting
  <2>2. \A cw \in cws : cw \in w.closeWaiters /\ cw[1] \in Sockets /\ cw[1] # s
    BY <1>0 DEF SocketType, cws
  <2>3. IsOpen(n) => IsOpen(w)
    BY <1>0, <1>1, <1>3 DEF IsOpen, SocketType, Drop
  <2>4. IsOpen(n) => ~IsConnecting(n)
    BY <1>0, <1>3, <2>3 DEF OneInUse, IsConnecting
  <2>5. n.socket # None => n.socket = w.socket /\ w.socket \in Sockets /\ w.socket # s
    BY <1>0, <1>3 DEF SocketType, Drop
  <2>6. \A r \in Sockets : n.raw[r] = "open" => n.socket = r
    BY <1>0, <1>1, <1>3 DEF OneInUse, Drop
  <2> QED BY <1>0, <1>1, <1>3, <2>1, <2>2, <2>4, <2>5, <2>6 DEF OneInUse
<1> QED BY <1>0, <1>1, <1>3, <1>4, <1>5, <1>6, <1>7 DEF SocketsOK, n, cws, Drop

\* close() gives up on a socket, as CloseTimesOut writes it.
Forgotten(w, s, who) ==
  [w EXCEPT !.socket = Drop(w, s), !.closeWaiters = @ \ {<<s, who>>}]

\* A socket that is being closed is forgotten.
LEMMA ForgottenKeepsSockets ==
  ASSUME NEW w, NEW h, SocketsOK(w, h), NEW s \in Sockets, NEW who,
         <<s, who>> \in w.closeWaiters
  PROVE  LET n == Forgotten(w, s, who)
         IN /\ SocketsOK(n, h)
            /\ n.socket = IF w.socket = s THEN None ELSE w.socket
            /\ n.created = w.created /\ n.loading = w.loading /\ n.raw = w.raw
            /\ n.settled = w.settled /\ n.connectingSockets = w.connectingSockets
            /\ n.closeWaiters = w.closeWaiters \ {<<s, who>>}
            /\ w.raw[s] = "closing"
<1> DEFINE n == Forgotten(w, s, who)
<1>0. w \in SocketType /\ h \in ShakeType /\ Numbered(w, h) /\ Raced(w, h) /\ OneInUse(w, h)
  BY DEF SocketsOK
<1>1. Drop(w, s) \in Sockets \cup {None}
  BY <1>0 DEF Drop, SocketType
<1>2. /\ n \in SocketType /\ n.raw = w.raw
      /\ n.settled = w.settled /\ n.connectingSockets = w.connectingSockets
      /\ n.socket = Drop(w, s) /\ n.socketClosing = w.socketClosing
      /\ n.created = w.created /\ n.loading = w.loading
      /\ n.closeWaiters = w.closeWaiters \ {<<s, who>>}
  BY <1>0, <1>1 DEF Forgotten, SocketType
<1> HIDE DEF n
<1>3. w.raw[s] = "closing"
  BY <1>0 DEF OneInUse
<1>4. Numbered(n, h) /\ Raced(n, h)
  BY <1>0, <1>2 DEF Numbered, Raced
<1>5. OneInUse(n, h)
  <2>1. \A r \in Sockets : Aborting(n, r) <=> Aborting(w, r)
    BY <1>2 DEF Aborting
  <2>2. n.socket # None => n.socket = w.socket
    BY <1>2 DEF Drop
  <2>3. \A r \in Sockets : n.raw[r] = "open" => n.socket = r
    BY <1>0, <1>2, <1>3 DEF OneInUse, Drop
  <2>4. IsOpen(n) => ~IsConnecting(n)
    BY <1>0, <1>2, <2>2 DEF IsOpen, OneInUse, IsConnecting
  <2> QED BY <1>0, <1>2, <2>1, <2>2, <2>3, <2>4 DEF OneInUse
<1> QED BY <1>0, <1>2, <1>3, <1>4, <1>5 DEF SocketsOK, n, Drop

\* The handshakes go on: none begins and none is taken back.
LEMMA ShakesKeepSockets ==
  ASSUME NEW w, NEW h, SocketsOK(w, h), NEW g \in ShakeType,
         \A s \in Sockets : g[s].step = "none" <=> h[s].step = "none"
  PROVE  SocketsOK(w, g)
<1>1. \A cw \in w.closeWaiters : cw[1] \in Sockets
  BY DEF SocketsOK, SocketType
<1>2. w.socket # None => w.socket \in Sockets
  BY DEF SocketsOK, SocketType
<1>3. Numbered(w, g) /\ Raced(w, g)
  BY DEF SocketsOK, Numbered, Raced
<1>4. OneInUse(w, g)
  BY <1>1, <1>2 DEF SocketsOK, OneInUse
<1> QED BY <1>3, <1>4 DEF SocketsOK

-----------------------------------------------------------------------------
(* WaComms and its sockets. *)

Missed(l) == "stop missed an open" \in l
TimedOut(l) == "close timed out" \in l

\* The socket in use was told to close.
Closing(w) == w.socket # None /\ w.raw[w.socket] = "closing"

\* The current session's handshake has not ended.
Shakes(c, h) ==
  /\ c.connectionGeneration # None
  /\ h[c.connectionGeneration].step \in {"hello", "finish", "agree"}

\* Nothing happens before the first race, and an open() that loads the agent's
\* module is the first.
Begun(c, w) ==
  /\ w.loading => w.created = 0
  /\ w.created = 0 => /\ ~c.reconnectTimer /\ ~c.restart /\ ~c.resumeInFlight /\ ~c.connected
                      /\ w.socket = None /\ c.connectionGeneration = None
                      /\ c.waiter # "adopted" /\ c.resumeHandshakeFailures = 0
  /\ c.waiter = "none" => /\ w.created = 0 /\ ~w.loading /\ ~c.started /\ ~c.preventRetry
                          /\ ~c.serverRestartHold /\ c.reconnectAttempts = 0

\* The noise session is that of the open socket; a handshake that awaits the
\* server's hello belongs to it, and a socket that was told to close has none.
\* Resume was tried if no resume handshake failed since the last success.
Paired(c, w, h) ==
  /\ c.noiseSession # None <=> IsOpen(w)
  /\ IsOpen(w) => c.noiseSession = w.socket /\ c.connectionGeneration = w.socket
  /\ c.connectionGeneration # None => h[c.connectionGeneration].step # "none"
  /\ \A s \in Sockets : /\ h[s].step = "hello" => c.noiseSession = s
                        /\ h[s].step = "agree" => h[s].resume
  /\ Closing(w) => ~Shakes(c, h)
  /\ Shakes(c, h) => c.resumeHandshakeFailures = IF h[c.connectionGeneration].resume THEN 0 ELSE 1

\* Started, stopped and given up: what each says of the other fields.
Ended(c, w) ==
  /\ c.started => /\ c.waiter \in {"waiting", "adopted"} /\ ~c.preventRetry
                  /\ c.reconnectAttempts <= MaxReconnectAttempts
  /\ c.waiter # "none" /\ ~c.started => c.preventRetry
  /\ c.waiter = "waiting" => c.started
  /\ c.started /\ c.waiter = "adopted" => c.handlingRequests
  /\ c.started /\ c.connected => c.waiter = "adopted"
  /\ c.connected => ~Closing(w)

\* Nothing is opened after a stop that missed nothing, nor after giving up.
StopsAll(c, w, l) ==
  c.preventRetry /\ ~Missed(l) => ~IsConnecting(w) /\ ~w.loading /\ ~IsOpen(w)

\* An open socket is being made use of.
Served(c, w, h) ==
  c.started /\ IsOpen(w) /\ h[w.socket].step \notin {"hello", "finish", "agree"} => c.connected

\* A race is on, or the timer will begin one.
Pending(c, w) ==
  c.reconnectTimer \/ IsConnecting(w) \/ \E s \in Sockets : Aborting(w, s)

\* Without a socket something is coming that gets one, unless a close timed
\* out.  It is coming also as long as an earlier session says it is connected.
Retried(c, w, h, l) ==
  c.started /\ w.socket = None /\ (~TimedOut(l) \/ c.connected \/ Shakes(c, h))
    => Pending(c, w) \/ c.restart \/ c.resumeInFlight \/ w.loading

\* A connection that lost its socket as it came up has all its attempts left.
Undiminished(c, w) ==
  c.started /\ c.connected /\ w.socket = None => c.reconnectAttempts = 0 \/ IsConnecting(w)

\* One close at most is awaited by a resume.  What is pending meanwhile, or when
\* the socket is being closed, follows a failed handshake, so that the next one
\* is no resume.
Resumes(c, w, h) ==
  c.started =>
    /\ \A s, r \in Sockets : <<s, "resume">> \in w.closeWaiters =>
         c.resumeInFlight /\ (<<r, "resume">> \in w.closeWaiters => r = s)
    /\ Closing(w) /\ ~c.resumeInFlight /\ Pending(c, w) => c.resumeHandshakeFailures = 1
    /\ c.resumeInFlight =>
         /\ c.resumeHandshakeFailures = 0 => ~Pending(c, w)
         /\ c.reconnectTimer => /\ ~IsConnecting(w) /\ ~IsOpen(w)
                                /\ \A s \in Sockets : ~Aborting(w, s)
         /\ \A s, r \in Sockets :
              /\ Aborting(w, s) \/ s \in w.connectingSockets
              /\ Aborting(w, r) \/ r \in w.connectingSockets
              => r \in Race(s)
         /\ Closing(w) => \/ c.resumeHandshakeFailures = 1
                          \/ <<w.socket, "resume">> \in w.closeWaiters
         /\ Shakes(c, h) => ~h[c.connectionGeneration].resume

\* Stopped or given up, and nothing missed: not connected, and no handshake
\* is left that could still succeed.  With a limit of no reconnect at all comms
\* may give up while they say they are connected.
Over(c, h, l) ==
  MaxReconnectAttempts > 0 /\ ~Missed(l) =>
    /\ c.connected => c.started
    /\ c.preventRetry /\ Shakes(c, h) => h[c.connectionGeneration].step # "agree"

LapsesOK(l) == l \subseteq {"close timed out", "stop missed an open"}

\* The inductive invariant, without the part a step restores last.
Steady(c, w, h, l) ==
  /\ c \in CommsType /\ LapsesOK(l) /\ SocketsOK(w, h)
  /\ Begun(c, w) /\ Paired(c, w, h) /\ Ended(c, w) /\ StopsAll(c, w, l)
  /\ Served(c, w, h) /\ Undiminished(c, w) /\ Resumes(c, w, h) /\ Over(c, h, l)

CommsInv(c, w, h, l) == Steady(c, w, h, l) /\ Retried(c, w, h, l)

-----------------------------------------------------------------------------
\* What a new race changes for the rest of WaComms.
LEMMA CreateOutcome ==
  ASSUME NEW w, NEW h, SocketsOK(w, h), ~IsOpen(w), ~IsConnecting(w), Fits(CreateSockets(w))
  PROVE  LET n == CreateSockets(w)
         IN /\ SocketsOK(n, h) /\ ~IsOpen(n) /\ IsConnecting(n)
            /\ n.socket = w.socket /\ n.closeWaiters = w.closeWaiters /\ ~n.loading
            /\ Closing(n) <=> Closing(w)
            /\ \A s \in Sockets : Aborting(n, s) <=> Aborting(w, s)
            /\ n.created # 0
            /\ n.settled = w.settled
            /\ \A s, r \in n.connectingSockets : r \in Race(s)
<1> DEFINE n == CreateSockets(w)
           new == (w.created + 1)..(w.created + Urls)
<1>1. SocketsOK(n, h)
  BY CreateKeepsSockets
<1>2. w \in SocketType /\ OneInUse(w, h) /\ Numbered(w, h)
  BY DEF SocketsOK
<1>3. /\ n.socket = w.socket /\ n.closeWaiters = w.closeWaiters /\ ~n.loading
      /\ n.settled = w.settled /\ n.created = w.created + Urls
      /\ n.connectingSockets = w.connectingSockets \cup new
      /\ \A s \in Sockets : n.raw[s] = IF s \in new THEN "connecting" ELSE w.raw[s]
      /\ n \in SocketType
  BY <1>2, CreatedFields
<1>4. w.created \in Nat /\ Urls \in Nat \ {0} /\ MaxSockets \in Nat
  BY <1>2, CommsAssumption DEF SocketType, CommsAssumption
<1>5. \A s \in new : s \in Sockets => w.raw[s] = "none"
  BY <1>2, <1>4 DEF Numbered
<1>6. w.socket # None => w.socket \in Sockets /\ w.socket \notin new
  BY <1>2, <1>5 DEF SocketType, OneInUse
<1>7. n.created # 0
  BY <1>3, <1>4
<1>8. IsConnecting(n)
  <2>1. w.created + 1 \in new
    BY <1>4
  <2> QED BY <1>3, <2>1 DEF IsConnecting
<1>9. \A s \in n.connectingSockets : s \in Sockets /\ n.connectingSockets \subseteq Race(s)
  BY <1>1 DEF SocketsOK, SocketType, Raced
<1> HIDE DEF n, new
<1>10. ~IsOpen(n) /\ (Closing(n) <=> Closing(w))
  BY <1>3, <1>6 DEF IsOpen, Closing
<1>11. \A s \in Sockets : Aborting(n, s) <=> Aborting(w, s)
  BY <1>3, <1>5 DEF Aborting
<1> QED BY <1>1, <1>3, <1>7, <1>8, <1>9, <1>10, <1>11 DEF n

\* What a refused or a last attempt leaves of c.
LEMMA ReopeningFields ==
  ASSUME NEW c \in CommsType, NEW w, OpensSocket(c, w), Ended(c, w)
  PROVE  LET d == Reopening(c, w)
         IN /\ d \in CommsType
            /\ d.connected = c.connected /\ d.handlingRequests = c.handlingRequests
            /\ d.resumeInFlight = c.resumeInFlight /\ d.reconnectTimer = c.reconnectTimer
            /\ d.resumeHandshakeFailures = c.resumeHandshakeFailures
            /\ d.serverRestartHold = c.serverRestartHold /\ d.restart = c.restart
            /\ d.connectionGeneration = c.connectionGeneration
            /\ d.noiseSession = c.noiseSession
            /\ d.reconnectAttempts = c.reconnectAttempts + 1
            /\ ~GivesUp(c) => /\ d.started = c.started /\ d.preventRetry = c.preventRetry
                              /\ d.waiter = c.waiter
                              /\ d.reconnectAttempts <= MaxReconnectAttempts
            /\ GivesUp(c) => ~d.started /\ d.preventRetry /\ d.waiter = Rejected(c.waiter)
<1>1. /\ c.started /\ c.reconnectAttempts <= MaxReconnectAttempts
      /\ c.reconnectAttempts \in Nat /\ MaxReconnectAttempts \in Nat
  BY CommsAssumption DEF OpensSocket, Ended, CommsType, CommsAssumption
<1>2. c.reconnectAttempts + 1 \in 0..(MaxReconnectAttempts + 1)
  BY <1>1
<1>3. Rejected(c.waiter) \in {"none", "waiting", "adopted", "rejected"}
  BY DEF Rejected, CommsType
<1>4. CASE GivesUp(c)
  <2>1. Reopening(c, w) =
          [c EXCEPT !.reconnectAttempts = c.reconnectAttempts + 1, !.preventRetry = TRUE,
                    !.started = FALSE, !.waiter = Rejected(c.waiter)]
    BY <1>4 DEF Reopening, CommsType
  <2> QED BY ZenonT(40), <1>2, <1>3, <1>4, <2>1 DEF CommsType
<1>5. CASE ~GivesUp(c)
  <2>1. Reopening(c, w) = [c EXCEPT !.reconnectAttempts = c.reconnectAttempts + 1]
    BY <1>5 DEF Reopening, CommsType
  <2>2. c.reconnectAttempts + 1 <= MaxReconnectAttempts
    BY <1>1, <1>5 DEF GivesUp
  <2> QED BY <1>2, <1>5, <2>1, <2>2 DEF CommsType
<1> QED BY <1>4, <1>5

\* openSocket(true) restores Retried and keeps the rest.  It is called when no
\* key agreement runs, and beside a socket that is being closed only after a
\* failed handshake.
LEMMA ReopeningKeeps ==
  ASSUME NEW c, NEW w, NEW h, NEW l, Steady(c, w, h, l),
         OpensSocket(c, w) =>
           /\ w.created # 0
           /\ Shakes(c, h) => h[c.connectionGeneration].step # "agree"
           /\ Closing(w) => c.resumeHandshakeFailures = 1
           /\ c.resumeInFlight => /\ c.resumeHandshakeFailures = 1 /\ ~c.reconnectTimer
                                  /\ \A s \in Sockets : ~Aborting(w, s),
         Fits(Reopened(c, w))
  PROVE  CommsInv(Reopening(c, w), Reopened(c, w), h, l)
<1> DEFINE d == Reopening(c, w)
           n == Reopened(c, w)
<1>0. /\ c \in CommsType /\ LapsesOK(l) /\ SocketsOK(w, h)
      /\ Begun(c, w) /\ Paired(c, w, h) /\ Ended(c, w) /\ StopsAll(c, w, l)
      /\ Served(c, w, h) /\ Undiminished(c, w) /\ Resumes(c, w, h) /\ Over(c, h, l)
  BY DEF Steady
<1>1. CASE ~OpensSocket(c, w)
  <2>1. d = c /\ n = w
    BY <1>1 DEF Reopening, Reopened
  <2>2. c.started /\ w.socket = None => IsConnecting(w)
    BY <1>0, <1>1 DEF OpensSocket, Ended, IsOpen
  <2>3. Retried(c, w, h, l)
    BY <2>2 DEF Retried, Pending
  <2> QED BY <2>1, <2>3 DEF CommsInv
<1>2. CASE OpensSocket(c, w)
  <2>1. /\ c.started /\ ~c.preventRetry /\ ~IsOpen(w) /\ ~IsConnecting(w)
        /\ w.created # 0
        /\ Shakes(c, h) => h[c.connectionGeneration].step # "agree"
        /\ Closing(w) => c.resumeHandshakeFailures = 1
        /\ c.resumeInFlight => /\ c.resumeHandshakeFailures = 1 /\ ~c.reconnectTimer
                               /\ \A s \in Sockets : ~Aborting(w, s)
        /\ c.waiter \in {"waiting", "adopted"}
        /\ c.noiseSession = None
    BY <1>0, <1>2 DEF OpensSocket, Ended, Paired
  <2>2. /\ d \in CommsType
        /\ d.connected = c.connected /\ d.handlingRequests = c.handlingRequests
        /\ d.resumeInFlight = c.resumeInFlight /\ d.reconnectTimer = c.reconnectTimer
        /\ d.resumeHandshakeFailures = c.resumeHandshakeFailures
        /\ d.serverRestartHold = c.serverRestartHold /\ d.restart = c.restart
        /\ d.connectionGeneration = c.connectionGeneration
        /\ d.noiseSession = c.noiseSession
        /\ d.reconnectAttempts = c.reconnectAttempts + 1
        /\ ~GivesUp(c) => /\ d.started = c.started /\ d.preventRetry = c.preventRetry
                          /\ d.waiter = c.waiter
                          /\ d.reconnectAttempts <= MaxReconnectAttempts
        /\ GivesUp(c) => ~d.started /\ d.preventRetry /\ d.waiter = Rejected(c.waiter)
    BY <1>0, <1>2, ReopeningFields
  <2>3. Shakes(d, h) <=> Shakes(c, h)
    BY <2>2 DEF Shakes
  <2>4. CASE ~GivesUp(c)
    <3>1. n = CreateSockets(w) /\ Fits(CreateSockets(w))
      BY <1>2, <2>4 DEF Reopened
    <3>2. /\ SocketsOK(n, h) /\ ~IsOpen(n) /\ IsConnecting(n)
          /\ n.socket = w.socket /\ n.closeWaiters = w.closeWaiters /\ ~n.loading
          /\ Closing(n) <=> Closing(w)
          /\ \A s \in Sockets : Aborting(n, s) <=> Aborting(w, s)
          /\ n.created # 0
          /\ \A s, r \in n.connectingSockets : r \in Race(s)
      BY <1>0, <2>1, <3>1, CreateOutcome
    <3> HIDE DEF d, n
    <3>3. Begun(d, n)
      BY <2>1, <2>2, <2>4, <3>2 DEF Begun
    <3>4. Paired(d, n, h)
      BY <1>0, <2>1, <2>2, <2>3, <2>4, <3>2 DEF Paired
    <3>5. Ended(d, n)
      BY <1>0, <2>1, <2>2, <2>4, <3>2 DEF Ended
    <3>6. StopsAll(d, n, l) /\ Served(d, n, h) /\ Undiminished(d, n) /\ Over(d, h, l)
      <4>1. StopsAll(d, n, l)
        BY <2>1, <2>2, <2>4 DEF StopsAll
      <4>2. Served(d, n, h) /\ Undiminished(d, n)
        BY <3>2 DEF Served, Undiminished
      <4>3. Over(d, h, l)
        BY <1>0, <2>1, <2>2, <2>3, <2>4 DEF Over
      <4> QED BY <4>1, <4>2, <4>3
    <3>7. Resumes(d, n, h)
      <4>1. \A s, r \in Sockets : <<s, "resume">> \in n.closeWaiters =>
              d.resumeInFlight /\ (<<r, "resume">> \in n.closeWaiters => r = s)
        BY <1>0, <2>1, <2>2, <3>2 DEF Resumes
      <4>2. Closing(n) => d.resumeHandshakeFailures = 1
        BY <2>1, <2>2, <3>2
      <4>3. d.resumeInFlight => /\ d.resumeHandshakeFailures = 1 /\ ~d.reconnectTimer
                                /\ \A s \in Sockets : ~Aborting(n, s)
        BY <2>1, <2>2, <3>2
      <4>4. d.resumeInFlight /\ Shakes(d, h) => ~h[d.connectionGeneration].resume
        BY <1>0, <2>1, <2>2, <2>3 DEF Resumes
      <4> QED BY <3>2, <4>1, <4>2, <4>3, <4>4 DEF Resumes
    <3>8. Retried(d, n, h, l)
      BY <3>2 DEF Retried, Pending
    <3>9. LapsesOK(l) /\ d \in CommsType /\ SocketsOK(n, h)
      BY <1>0, <2>2, <3>2
    <3>10. CommsInv(d, n, h, l)
      BY <3>3, <3>4, <3>5, <3>6, <3>7, <3>8, <3>9 DEF CommsInv, Steady
    <3> QED BY <3>10 DEF d, n
  <2>5. CASE GivesUp(c)
    <3>1. n = w
      BY <2>5 DEF Reopened
    <3>2. /\ ~d.started /\ d.preventRetry /\ d.waiter \in {"adopted", "rejected"}
          /\ ~w.loading
      BY <1>0, <2>1, <2>2, <2>5 DEF Rejected, Begun
    <3> HIDE DEF d, n
    <3>3. Begun(d, w) /\ Paired(d, w, h) /\ Ended(d, w)
      <4>1. Begun(d, w)
        BY <1>0, <2>1, <3>2 DEF Begun
      <4>2. Paired(d, w, h)
        BY <1>0, <2>2, <2>3 DEF Paired
      <4>3. Ended(d, w)
        BY <1>0, <2>2, <3>2 DEF Ended
      <4> QED BY <4>1, <4>2, <4>3
    <3>4. StopsAll(d, w, l) /\ Served(d, w, h) /\ Undiminished(d, w) /\ Resumes(d, w, h)
      BY <2>1, <3>2 DEF StopsAll, Served, Undiminished, Resumes
    <3>5. Over(d, h, l)
      <4>1. ASSUME c.connected PROVE MaxReconnectAttempts = 0
        <5>1. w.socket = None
          BY <1>0, <2>1, <4>1 DEF Ended, Closing, SocketsOK, OneInUse, IsOpen
        <5>2. c.reconnectAttempts = 0
          BY <1>0, <2>1, <4>1, <5>1 DEF Undiminished
        <5> QED BY <2>5, <5>2, CommsAssumption DEF GivesUp, CommsAssumption
      <4> QED BY <2>1, <2>2, <2>3, <4>1, CommsAssumption DEF Over, CommsAssumption
    <3>6. Retried(d, w, h, l)
      BY <3>2 DEF Retried
    <3>7. CommsInv(d, w, h, l)
      BY <1>0, <2>2, <3>3, <3>4, <3>5, <3>6 DEF CommsInv, Steady
    <3> QED BY <3>1, <3>7 DEF d, n
  <2> QED BY <2>4, <2>5
<1> QED BY <1>1, <1>2

\* An awaited close that a resume waited for is over: it goes on.
LEMMA ResumingKeeps ==
  ASSUME NEW c, NEW w, NEW h, NEW l, Steady(c, w, h, l),
         c.started => /\ c.resumeInFlight
                      /\ \A s \in Sockets : <<s, "resume">> \notin w.closeWaiters,
         Fits(Resumed(c, w))
  PROVE  CommsInv(Resuming(c, w), Resumed(c, w), h, l)
<1>0. /\ c \in CommsType /\ LapsesOK(l) /\ SocketsOK(w, h)
      /\ Begun(c, w) /\ Paired(c, w, h) /\ Ended(c, w) /\ StopsAll(c, w, l)
      /\ Served(c, w, h) /\ Undiminished(c, w) /\ Resumes(c, w, h) /\ Over(c, h, l)
  BY DEF Steady
<1>1. CASE ~c.resumeInFlight
  <2>1. Resuming(c, w) = c /\ Resumed(c, w) = w
    BY <1>1 DEF Resuming, Resumed
  <2>2. Retried(c, w, h, l)
    BY <1>1 DEF Retried
  <2> QED BY <2>1, <2>2 DEF CommsInv
<1>2. CASE c.resumeInFlight
  <2> DEFINE d == [c EXCEPT !.resumeInFlight = FALSE]
  <2>1. Resuming(c, w) = Reopening(d, w) /\ Resumed(c, w) = Reopened(d, w)
    BY <1>2 DEF Resuming, Resumed
  <2>2. /\ d \in CommsType
        /\ d.started = c.started /\ d.connected = c.connected
        /\ d.handlingRequests = c.handlingRequests /\ d.preventRetry = c.preventRetry
        /\ d.resumeInFlight = FALSE /\ d.reconnectTimer = c.reconnectTimer
        /\ d.reconnectAttempts = c.reconnectAttempts
        /\ d.resumeHandshakeFailures = c.resumeHandshakeFailures
        /\ d.serverRestartHold = c.serverRestartHold /\ d.restart = c.restart
        /\ d.connectionGeneration = c.connectionGeneration
        /\ d.noiseSession = c.noiseSession /\ d.waiter = c.waiter
    BY <1>0 DEF CommsType
  <2> HIDE DEF d
  <2>3. Shakes(d, h) <=> Shakes(c, h)
    BY <2>2 DEF Shakes
  <2>4. c.started /\ Closing(w) => c.resumeHandshakeFailures = 1
    <3>1. Closing(w) => w.socket \in Sockets
      BY <1>0 DEF Closing, SocketsOK, SocketType
    <3> QED BY <1>0, <1>2, <3>1 DEF Resumes
  <2>5. Begun(d, w) /\ Paired(d, w, h) /\ Ended(d, w)
    <3>1. Begun(d, w)
      BY <1>0, <2>2 DEF Begun
    <3>2. Paired(d, w, h)
      BY <1>0, <2>2, <2>3 DEF Paired
    <3>3. Ended(d, w)
      BY <1>0, <2>2 DEF Ended
    <3> QED BY <3>1, <3>2, <3>3
  <2>6. StopsAll(d, w, l) /\ Served(d, w, h) /\ Undiminished(d, w)
    BY <1>0, <2>2 DEF StopsAll, Served, Undiminished
  <2>7. Resumes(d, w, h)
    BY <2>2, <2>4 DEF Resumes
  <2>8. Over(d, h, l)
    BY <1>0, <2>2, <2>3 DEF Over
  <2>9. Steady(d, w, h, l)
    BY <1>0, <2>2, <2>5, <2>6, <2>7, <2>8 DEF Steady
  <2>10. OpensSocket(d, w) =>
           /\ w.created # 0
           /\ Shakes(d, h) => h[d.connectionGeneration].step # "agree"
           /\ Closing(w) => d.resumeHandshakeFailures = 1
           /\ d.resumeInFlight => /\ d.resumeHandshakeFailures = 1 /\ ~d.reconnectTimer
                                  /\ \A s \in Sockets : ~Aborting(w, s)
    <3>1. c.started => w.created # 0
      BY <1>0, <1>2 DEF Begun
    <3>2. c.started /\ Shakes(c, h) => h[c.connectionGeneration].step # "agree"
      <4>1. Shakes(c, h) => c.connectionGeneration \in Sockets
        BY <1>0 DEF Shakes, CommsType
      <4> QED BY <1>0, <1>2, <4>1 DEF Resumes, Paired
    <3> QED BY <2>2, <2>3, <2>4, <3>1, <3>2 DEF OpensSocket
  <2> QED BY <2>1, <2>9, <2>10, ReopeningKeeps
<1> QED BY <1>1, <1>2

\* A session that awaited the server's hello is over when it is discarded.
LEMMA EndedFields ==
  ASSUME SocketsOK(ws, shake), Paired(comms, ws, shake), comms \in CommsType
  PROVE  LET g == EndSession(comms.noiseSession)
         IN /\ g \in ShakeType /\ SocketsOK(ws, g)
            /\ \A s \in Sockets :
                 /\ g[s].resume = shake[s].resume
                 /\ g[s].step # "hello"
                 /\ g[s].step = IF shake[s].step = "hello" THEN "over" ELSE shake[s].step
<1> DEFINE g == EndSession(comms.noiseSession)
           s0 == comms.noiseSession
<1>1. shake \in ShakeType /\ s0 \in Sockets \cup {None}
  BY DEF SocketsOK, CommsType
<1>2. \A s \in Sockets : shake[s].step = "hello" => s = s0
  BY DEF Paired
<1>3. /\ g \in ShakeType
      /\ \A s \in Sockets :
           /\ g[s].resume = shake[s].resume
           /\ g[s].step = IF shake[s].step = "hello" THEN "over" ELSE shake[s].step
  <2>1. CASE s0 # None /\ shake[s0].step = "hello"
    <3>1. g = [shake EXCEPT ![s0] = [shake[s0] EXCEPT !.step = "over"]] /\ s0 \in Sockets
      BY <1>1, <2>1 DEF EndSession
    <3>2. shake[s0] \in [step : {"none", "hello", "finish", "agree", "over"}, resume : BOOLEAN]
      BY <1>1, <3>1 DEF ShakeType
    <3>3. [shake[s0] EXCEPT !.step = "over"] \in
              [step : {"none", "hello", "finish", "agree", "over"}, resume : BOOLEAN]
      BY <3>2
    <3>4. g \in ShakeType
      BY <1>1, <3>1, <3>3 DEF ShakeType
    <3>5. ASSUME NEW s \in Sockets
          PROVE  /\ g[s].resume = shake[s].resume
                 /\ g[s].step = IF shake[s].step = "hello" THEN "over" ELSE shake[s].step
      BY <1>1, <1>2, <2>1, <3>1, <3>2 DEF ShakeType
    <3> QED BY <3>4, <3>5
  <2>2. CASE ~(s0 # None /\ shake[s0].step = "hello")
    <3>1. g = shake
      BY <2>2 DEF EndSession
    <3>2. \A s \in Sockets : shake[s].step # "hello"
      BY <1>2, <2>2, CommsAssumption DEF Sockets, None, CommsAssumption
    <3> QED BY <1>1, <3>1, <3>2
  <2> QED BY <2>1, <2>2
<1> HIDE DEF g
<1>4. \A s \in Sockets : /\ g[s].step # "hello"
                         /\ g[s].step = "none" <=> shake[s].step = "none"
  BY <1>3
<1>5. SocketsOK(ws, g)
  BY <1>3, <1>4, ShakesKeepSockets
<1> QED BY <1>3, <1>4, <1>5 DEF g

\* The invariant of the specification.
IInv == CommsInv(comms, ws, shake, lapses)

\* Before the first race there is nothing to await.
LEMMA NothingAtFirst ==
  ASSUME NEW w, NEW h, SocketsOK(w, h), w.created = 0
  PROVE  /\ ~IsConnecting(w) /\ w.closeWaiters = {}
         /\ \A s \in Sockets : ~Aborting(w, s) /\ h[s].step = "none"
<1>1. \A s \in Sockets : w.raw[s] = "none" /\ h[s].step = "none"
  BY DEF SocketsOK, Numbered, Sockets
<1>2. ~IsConnecting(w)
  BY <1>1 DEF SocketsOK, SocketType, Raced, IsConnecting
<1>3. w.closeWaiters = {}
  <2>1. \A cw \in w.closeWaiters : cw[1] \in Sockets
    BY DEF SocketsOK, SocketType
  <2> QED BY <1>1, <2>1 DEF SocketsOK, OneInUse
<1> QED BY <1>1, <1>2, <1>3 DEF Aborting

-----------------------------------------------------------------------------
(* The steps: callers and timers. *)

LEMMA InitHolds ==
  ASSUME Init
  PROVE  IInv
<1>1. MaxReconnectAttempts \in Nat /\ Urls \in Nat \ {0} /\ MaxSockets \in Nat
  BY CommsAssumption DEF CommsAssumption
<1>2. comms \in CommsType
  <2>1. 0 \in 0..(MaxReconnectAttempts + 1)
    BY <1>1
  <2> QED BY <2>1 DEF Init, CommsType
<1>3. ws \in SocketType /\ shake \in ShakeType
  <2>1. 0 \in 0..MaxSockets
    BY <1>1
  <2> QED BY <2>1 DEF Init, SocketType, ShakeType
<1>4. Numbered(ws, shake)
  <2>1. 0 = 0 * Urls
    BY <1>1
  <2>2. \A s \in Sockets : s > 0
    BY DEF Sockets
  <2> QED BY <2>1, <2>2 DEF Init, Numbered
<1>5. Raced(ws, shake) /\ OneInUse(ws, shake)
  <2>1. \A s \in Sockets : ~(s <= 0)
    BY DEF Sockets
  <2> QED BY <2>1 DEF Init, Raced, OneInUse, IsOpen, None
<1>6. ~IsOpen(ws) /\ ~Closing(ws) /\ ~Shakes(comms, shake)
  BY DEF Init, IsOpen, Closing, Shakes, None
<1>7. Begun(comms, ws) /\ Ended(comms, ws) /\ StopsAll(comms, ws, lapses)
  BY DEF Init, Begun, Ended, StopsAll, None
<1>8. Paired(comms, ws, shake)
  BY <1>6 DEF Init, Paired, None
<1>9. /\ Served(comms, ws, shake) /\ Undiminished(comms, ws) /\ Resumes(comms, ws, shake)
      /\ Over(comms, shake, lapses) /\ Retried(comms, ws, shake, lapses)
  BY DEF Init, Served, Undiminished, Resumes, Over, Retried
<1>10. LapsesOK(lapses)
  BY DEF Init, LapsesOK
<1> QED BY <1>2, <1>3, <1>4, <1>5, <1>7, <1>8, <1>9, <1>10 DEF IInv, CommsInv, Steady, SocketsOK

\* The first open(): either the race begins or the agent's module is loaded.
LEMMA StartCommsHolds ==
  ASSUME IInv, NEW agent \in BOOLEAN, StartComms(agent)
  PROVE  IInv'
<1> DEFINE c == comms
           w == ws
           d == comms'
           n == ws'
<1>0. /\ c \in CommsType /\ LapsesOK(lapses) /\ SocketsOK(w, shake)
      /\ Begun(c, w) /\ Paired(c, w, shake) /\ Ended(c, w)
  BY DEF IInv, CommsInv, Steady
<1>1. /\ c.waiter = "none" /\ d = [c EXCEPT !.started = TRUE, !.waiter = "waiting"]
      /\ n = IF agent THEN [w EXCEPT !.loading = TRUE] ELSE CreateSockets(w)
      /\ Fits(n) /\ shake' = shake /\ lapses' = lapses
  BY DEF StartComms
<1>2. /\ w.created = 0 /\ ~w.loading /\ ~c.preventRetry /\ ~c.reconnectTimer /\ ~c.restart
      /\ ~c.resumeInFlight /\ ~c.connected /\ w.socket = None /\ c.connectionGeneration = None
      /\ c.resumeHandshakeFailures = 0 /\ ~c.serverRestartHold /\ c.reconnectAttempts = 0
  BY <1>0, <1>1 DEF Begun
<1>3. /\ ~IsConnecting(w) /\ w.closeWaiters = {}
      /\ \A s \in Sockets : ~Aborting(w, s) /\ shake[s].step = "none"
  BY <1>0, <1>2, NothingAtFirst
<1>4. /\ d \in CommsType
      /\ d.started /\ d.waiter = "waiting"
      /\ d.connected = c.connected
      /\ d.handlingRequests = c.handlingRequests /\ d.preventRetry = c.preventRetry
      /\ d.resumeInFlight = c.resumeInFlight /\ d.reconnectTimer = c.reconnectTimer
      /\ d.reconnectAttempts = c.reconnectAttempts
      /\ d.resumeHandshakeFailures = c.resumeHandshakeFailures
      /\ d.serverRestartHold = c.serverRestartHold /\ d.restart = c.restart
      /\ d.connectionGeneration = c.connectionGeneration
      /\ d.noiseSession = c.noiseSession
  BY <1>0, <1>1 DEF CommsType
<1>5. ~IsOpen(w) /\ c.noiseSession = None
  BY <1>0, <1>2 DEF IsOpen, Paired
<1>6. /\ SocketsOK(n, shake) /\ n.socket = None /\ n.closeWaiters = {}
      /\ \A s \in Sockets : ~Aborting(n, s)
      /\ n.loading \/ IsConnecting(n)
      /\ n.loading => n.created = 0
  <2>1. CASE agent
    <3>1. n = [w EXCEPT !.loading = TRUE]
      BY <1>1, <2>1
    <3> HIDE DEF n
    <3>2. /\ n \in SocketType /\ n.loading
          /\ n.raw = w.raw /\ n.socket = w.socket /\ n.socketClosing = w.socketClosing
          /\ n.connectingSockets = w.connectingSockets /\ n.settled = w.settled
          /\ n.closeWaiters = w.closeWaiters /\ n.created = w.created
      BY <1>0, <3>1 DEF SocketsOK, SocketType
    <3>3. \A s \in Sockets : ~Aborting(n, s)
      BY <1>3, <3>2 DEF Aborting
    <3>4. SocketsOK(n, shake)
      <4>1. Numbered(n, shake) /\ Raced(n, shake)
        BY <1>0, <3>2 DEF SocketsOK, Numbered, Raced
      <4>2. OneInUse(n, shake)
        BY <1>0, <1>2, <1>3, <3>2 DEF SocketsOK, OneInUse, IsOpen, IsConnecting
      <4> QED BY <1>0, <3>2, <4>1, <4>2 DEF SocketsOK
    <3> QED BY <1>2, <1>3, <3>2, <3>3, <3>4
  <2>2. CASE ~agent
    <3>1. n = CreateSockets(w)
      BY <1>1, <2>2
    <3> HIDE DEF n
    <3> QED BY <1>0, <1>1, <1>2, <1>3, <1>5, <3>1, CreateOutcome
  <2> QED BY <2>1, <2>2
<1> HIDE DEF c, w, d, n
<1>7. ~IsOpen(n) /\ ~Closing(n) /\ ~Shakes(d, shake)
  BY <1>2, <1>4, <1>6 DEF IsOpen, Closing, Shakes
<1>8. Begun(d, n) /\ Ended(d, n) /\ StopsAll(d, n, lapses)
  <2>1. Begun(d, n)
    BY <1>2, <1>4, <1>6 DEF Begun
  <2>2. Ended(d, n)
    BY <1>2, <1>4, CommsAssumption DEF Ended, CommsAssumption
  <2>3. StopsAll(d, n, lapses)
    BY <1>2, <1>4 DEF StopsAll
  <2> QED BY <2>1, <2>2, <2>3
<1>9. Paired(d, n, shake)
  BY <1>2, <1>3, <1>4, <1>5, <1>7 DEF Paired
<1>10. Served(d, n, shake) /\ Undiminished(d, n) /\ Resumes(d, n, shake)
  BY <1>2, <1>4, <1>6, <1>7 DEF Served, Undiminished, Resumes
<1>11. Over(d, shake, lapses)
  BY <1>2, <1>4 DEF Over
<1>12. Retried(d, n, shake, lapses)
  BY <1>6 DEF Retried, Pending
<1>13. CommsInv(d, n, shake, lapses)
  BY <1>0, <1>4, <1>6, <1>8, <1>9, <1>10, <1>11, <1>12 DEF CommsInv, Steady
<1> QED BY <1>1, <1>13 DEF IInv, d, n

\* The first race, which a stop may have missed.
LEMMA AgentLoadedHolds ==
  ASSUME IInv, AgentLoaded
  PROVE  IInv'
<1> DEFINE c == comms
           w == ws
           n == ws'
<1>0. /\ c \in CommsType /\ LapsesOK(lapses) /\ SocketsOK(w, shake)
      /\ Begun(c, w) /\ Paired(c, w, shake) /\ Ended(c, w) /\ StopsAll(c, w, lapses)
      /\ Over(c, shake, lapses)
  BY DEF IInv, CommsInv, Steady
<1>1. /\ w.loading /\ n = CreateSockets(w) /\ Fits(n)
      /\ comms' = c /\ shake' = shake /\ lapses' = lapses
  BY DEF AgentLoaded
<1>2. /\ w.created = 0 /\ ~c.reconnectTimer /\ ~c.restart
      /\ ~c.resumeInFlight /\ ~c.connected /\ w.socket = None /\ c.connectionGeneration = None
      /\ c.waiter # "none" /\ c.resumeHandshakeFailures = 0
  BY <1>0, <1>1 DEF Begun
<1>3. /\ ~IsConnecting(w) /\ w.closeWaiters = {}
      /\ \A s \in Sockets : ~Aborting(w, s)
  BY <1>0, <1>2, NothingAtFirst
<1>4. ~IsOpen(w) /\ c.noiseSession = None
  BY <1>0, <1>2 DEF IsOpen, Paired
<1>5. /\ SocketsOK(n, shake) /\ ~IsOpen(n) /\ IsConnecting(n)
      /\ n.socket = None /\ n.closeWaiters = {} /\ ~n.loading
      /\ n.created # 0
  BY <1>0, <1>1, <1>2, <1>3, <1>4, CreateOutcome
<1> HIDE DEF c, w, n
<1>6. ~Closing(n) /\ ~Shakes(c, shake)
  BY <1>2, <1>5 DEF Closing, Shakes
<1>7. Begun(c, n) /\ Ended(c, n) /\ StopsAll(c, n, lapses)
  BY <1>0, <1>1, <1>2, <1>5, <1>6 DEF Begun, Ended, StopsAll
<1>8. Paired(c, n, shake)
  BY <1>0, <1>2, <1>4, <1>5, <1>6 DEF Paired
<1>9. Served(c, n, shake) /\ Undiminished(c, n) /\ Resumes(c, n, shake)
  BY <1>2, <1>5, <1>6 DEF Served, Undiminished, Resumes
<1>10. Retried(c, n, shake, lapses)
  BY <1>5 DEF Retried, Pending
<1>11. CommsInv(c, n, shake, lapses)
  BY <1>0, <1>5, <1>7, <1>8, <1>9, <1>10 DEF CommsInv, Steady
<1> QED BY <1>1, <1>11 DEF IInv, n

\* What a reset sets.
LEMMA ResetFields ==
  ASSUME NEW c \in CommsType, NEW resuming \in BOOLEAN
  PROVE  LET d == ResetConnectionState(c, resuming)
         IN /\ d \in CommsType
            /\ d.noiseSession = None /\ d.connectionGeneration = None
            /\ d.restart = c.restart /\ d.reconnectAttempts = c.reconnectAttempts
            /\ ~d.connected /\ ~d.serverRestartHold /\ ~d.reconnectTimer
            /\ resuming => /\ d.started /\ ~d.preventRetry /\ d.resumeInFlight
                           /\ d.handlingRequests = c.handlingRequests
                           /\ d.resumeHandshakeFailures = c.resumeHandshakeFailures
                           /\ d.waiter = c.waiter
            /\ ~resuming => /\ ~d.started /\ d.preventRetry /\ ~d.resumeInFlight
                            /\ ~d.handlingRequests
                            /\ d.resumeHandshakeFailures = 0
                            /\ d.waiter = Rejected(c.waiter)
<1> DEFINE d == ResetConnectionState(c, resuming)
<1>1. Rejected(c.waiter) \in {"none", "waiting", "adopted", "rejected"}
  BY DEF Rejected, CommsType
<1>2. CASE resuming = TRUE
  <2>1. c.handlingRequests \in BOOLEAN /\ c.resumeHandshakeFailures \in 0..1
    BY DEF CommsType
  <2>2. (TRUE /\ c.handlingRequests) = c.handlingRequests
    BY <2>1
  <2>3. d = [c EXCEPT !.started = TRUE, !.connected = FALSE,
               !.handlingRequests = c.handlingRequests, !.preventRetry = FALSE,
               !.resumeInFlight = TRUE, !.serverRestartHold = FALSE,
               !.resumeHandshakeFailures = c.resumeHandshakeFailures,
               !.noiseSession = None, !.connectionGeneration = None,
               !.reconnectTimer = FALSE, !.waiter = c.waiter]
    BY <1>2, <2>2 DEF ResetConnectionState, CommsType
  <2> HIDE DEF d
  <2> QED BY <1>2, <2>1, <2>3 DEF CommsType, d
<1>3. CASE resuming = FALSE
  <2>1. (FALSE /\ c.handlingRequests) = FALSE
    OBVIOUS
  <2>2. d = [c EXCEPT !.started = FALSE, !.connected = FALSE,
               !.handlingRequests = FALSE, !.preventRetry = TRUE,
               !.resumeInFlight = FALSE, !.serverRestartHold = FALSE,
               !.resumeHandshakeFailures = 0,
               !.noiseSession = None, !.connectionGeneration = None,
               !.reconnectTimer = FALSE, !.waiter = Rejected(c.waiter)]
    BY <1>3, <2>1 DEF ResetConnectionState, CommsType
  <2>3. 0 \in 0..1
    OBVIOUS
  <2> HIDE DEF d
  <2> QED BY ZenonT(40), <1>1, <1>3, <2>2, <2>3 DEF CommsType, d
<1> QED BY <1>2, <1>3

\* Everything is given up at once; what it misses is counted as a lapse.
LEMMA StopCommsHolds ==
  ASSUME IInv, StopComms
  PROVE  IInv'
<1> DEFINE c == comms
           w == ws
           d0 == ResetConnectionState(c, FALSE)
           d == comms'
           n == ws'
           g == shake'
           k == lapses'
<1>0. /\ c \in CommsType /\ LapsesOK(lapses) /\ SocketsOK(w, shake)
      /\ Begun(c, w) /\ Paired(c, w, shake)
  BY DEF IInv, CommsInv, Steady
<1>1. /\ c.waiter # "none" /\ d = [d0 EXCEPT !.restart = FALSE]
      /\ n = Close(w, "other") /\ g = EndSession(comms.noiseSession)
      /\ k = lapses \cup (IF MissesOpening(w) THEN {"stop missed an open"} ELSE {})
  BY DEF StopComms
<1>2. /\ g \in ShakeType /\ SocketsOK(w, g)
      /\ \A s \in Sockets :
           /\ g[s].resume = shake[s].resume
           /\ g[s].step # "hello"
           /\ g[s].step = IF shake[s].step = "hello" THEN "over" ELSE shake[s].step
  BY <1>0, <1>1, EndedFields
<1>3. /\ d0 \in CommsType
      /\ ~d0.started /\ ~d0.connected /\ d0.preventRetry /\ ~d0.handlingRequests
      /\ ~d0.resumeInFlight /\ ~d0.serverRestartHold /\ d0.resumeHandshakeFailures = 0
      /\ d0.noiseSession = None /\ d0.connectionGeneration = None /\ ~d0.reconnectTimer
      /\ d0.waiter = Rejected(c.waiter)
  BY <1>0, ResetFields
<1>4. /\ d \in CommsType
      /\ ~d.started /\ ~d.connected /\ d.preventRetry
      /\ ~d.resumeInFlight /\ ~d.restart /\ d.resumeHandshakeFailures = 0
      /\ d.noiseSession = None /\ d.connectionGeneration = None /\ ~d.reconnectTimer
      /\ d.waiter \in {"adopted", "rejected"}
      /\ d.waiter = "adopted" => c.waiter = "adopted"
  <2> HIDE DEF d0
  <2>1. /\ d \in CommsType
        /\ d.started = d0.started /\ d.connected = d0.connected /\ d.preventRetry = d0.preventRetry
        /\ d.resumeInFlight = d0.resumeInFlight /\ ~d.restart
        /\ d.resumeHandshakeFailures = d0.resumeHandshakeFailures
        /\ d.noiseSession = d0.noiseSession /\ d.connectionGeneration = d0.connectionGeneration
        /\ d.reconnectTimer = d0.reconnectTimer /\ d.waiter = d0.waiter
    BY <1>1, <1>3 DEF CommsType
  <2>2. /\ Rejected(c.waiter) \in {"adopted", "rejected"}
        /\ Rejected(c.waiter) = "adopted" => c.waiter = "adopted"
    BY <1>0, <1>1 DEF Rejected, CommsType
  <2> QED BY <1>3, <2>1, <2>2
<1>5. SocketsOK(n, g) /\ ~IsOpen(n)
  BY <1>1, <1>2, CloseKeepsSockets
<1>6. /\ n.socket = w.socket /\ n.loading = w.loading /\ n.created = w.created
      /\ Awaited(w) => n.connectingSockets = w.connectingSockets
      /\ ~Awaited(w) => n.connectingSockets = {}
  BY <1>0, <1>1, ClosedFields DEF SocketsOK
<1> HIDE DEF c, w, d, n, g, k, d0
<1>7. ~Shakes(d, g)
  BY <1>4 DEF Shakes
<1>8. Begun(d, n)
  BY <1>0, <1>4, <1>6 DEF Begun
<1>9. Paired(d, n, g)
  <2>1. \A s \in Sockets : g[s].step # "hello" /\ (g[s].step = "agree" => g[s].resume)
    BY <1>0, <1>2 DEF Paired
  <2> QED BY <1>4, <1>5, <1>7, <2>1 DEF Paired
<1>10. Ended(d, n) /\ Served(d, n, g) /\ Undiminished(d, n) /\ Resumes(d, n, g)
       /\ Retried(d, n, g, k)
  BY <1>4 DEF Ended, Served, Undiminished, Resumes, Retried
<1>11. StopsAll(d, n, k)
  <2>1. ~Missed(k) => ~MissesOpening(w)
    BY <1>1 DEF Missed
  <2> QED BY <1>5, <1>6, <2>1 DEF StopsAll, MissesOpening, IsConnecting
<1>12. Over(d, g, k)
  BY <1>4, <1>7 DEF Over
<1>13. LapsesOK(k)
  BY <1>0, <1>1 DEF LapsesOK
<1>14. CommsInv(d, n, g, k)
  BY <1>4, <1>5, <1>8, <1>9, <1>10, <1>11, <1>12, <1>13 DEF CommsInv, Steady
<1> QED BY <1>14 DEF IInv, d, n, g, k

\* The reset keeps the retry to the end of the close, or has it at once.
LEMMA CloseSocketAndResumeHolds ==
  ASSUME IInv, CloseSocketAndResume
  PROVE  IInv'
<1> DEFINE c == comms
           w == ws
           d == ResetConnectionState(c, TRUE)
           n == Close(w, "resume")
           g == shake'
           l == lapses
<1>0. /\ c \in CommsType /\ LapsesOK(l) /\ SocketsOK(w, shake)
      /\ Begun(c, w) /\ Paired(c, w, shake) /\ Ended(c, w) /\ Resumes(c, w, shake)
  BY DEF IInv, CommsInv, Steady
<1>1. /\ c.waiter = "adopted" /\ c.started /\ ~c.preventRetry /\ ~c.resumeInFlight
      /\ g = EndSession(comms.noiseSession) /\ lapses' = l /\ Fits(ws')
      /\ Awaited(w) => comms' = d /\ ws' = n
      /\ ~Awaited(w) => comms' = Resuming(d, n) /\ ws' = Resumed(d, n)
  BY DEF CloseSocketAndResume
<1>2. /\ g \in ShakeType /\ SocketsOK(w, g)
      /\ \A s \in Sockets :
           /\ g[s].resume = shake[s].resume
           /\ g[s].step # "hello"
           /\ g[s].step = IF shake[s].step = "hello" THEN "over" ELSE shake[s].step
  BY <1>0, <1>1, EndedFields
<1>3. /\ d \in CommsType
      /\ d.noiseSession = None /\ d.connectionGeneration = None
      /\ d.restart = c.restart /\ d.reconnectAttempts = c.reconnectAttempts
      /\ ~d.connected /\ ~d.serverRestartHold /\ ~d.reconnectTimer
      /\ d.started /\ ~d.preventRetry /\ d.resumeInFlight
      /\ d.handlingRequests = c.handlingRequests
      /\ d.resumeHandshakeFailures = c.resumeHandshakeFailures
      /\ d.waiter = c.waiter
  BY <1>0, ResetFields
<1>4. SocketsOK(n, g) /\ ~IsOpen(n)
  BY <1>2, CloseKeepsSockets
<1>5. /\ n.socket = w.socket /\ n.loading = w.loading /\ n.created = w.created
      /\ n.settled = w.settled
      /\ Awaited(w) =>
           /\ n.connectingSockets = w.connectingSockets
           /\ n.closeWaiters = w.closeWaiters \cup {<<w.socket, "resume">>}
           /\ \A s \in Sockets : n.raw[s] = IF s = w.socket THEN "closing" ELSE w.raw[s]
      /\ ~Awaited(w) =>
           /\ n.closeWaiters = w.closeWaiters
  BY <1>0, ClosedFields DEF SocketsOK
<1>6. \A s \in Sockets : <<s, "resume">> \notin w.closeWaiters
  BY <1>0, <1>1 DEF Resumes
<1> HIDE DEF c, w, d, n, g, l
<1>7. d.resumeHandshakeFailures \in {0, 1}
  BY <1>3 DEF CommsType
<1>8. \A e : e.connectionGeneration = None => ~Shakes(e, g)
  BY DEF Shakes
\* The state after the reset, whatever became of resumeInFlight.
<1>9. ASSUME NEW e \in CommsType,
             e.noiseSession = None, e.connectionGeneration = None,
             e.reconnectAttempts = c.reconnectAttempts,
             ~e.connected, ~e.serverRestartHold, ~e.reconnectTimer,
             e.started, ~e.preventRetry, e.handlingRequests = c.handlingRequests,
             e.waiter = c.waiter, Resumes(e, n, g)
      PROVE  Steady(e, n, g, l)
  <2>1. Begun(e, n)
    BY <1>0, <1>1, <1>5, <1>9 DEF Begun
  <2>2. Paired(e, n, g)
    <3>1. \A s \in Sockets : g[s].step # "hello" /\ (g[s].step = "agree" => g[s].resume)
      BY <1>0, <1>2 DEF Paired
    <3> QED BY <1>4, <1>8, <1>9, <3>1 DEF Paired
  <2>3. Ended(e, n)
    BY <1>0, <1>1, <1>9 DEF Ended
  <2>4. StopsAll(e, n, l) /\ Served(e, n, g) /\ Undiminished(e, n) /\ Over(e, g, l)
    BY <1>4, <1>9 DEF StopsAll, Served, Undiminished, Over
  <2> QED BY <1>0, <1>4, <1>9, <2>1, <2>2, <2>3, <2>4 DEF Steady
<1>10. CASE Awaited(w)
  <2>1. /\ w.socket # None /\ w.socket \in Sockets
        /\ \A s \in Sockets : ~Aborting(w, s) /\ w.socket \in w.settled
    BY <1>0, <1>10, CommsAssumption
    DEF Awaited, SocketsOK, SocketType, OneInUse, Numbered, Raced, Sockets, CommsAssumption
  <2>2. \A s \in Sockets : ~Aborting(n, s)
    BY <1>5, <1>10, <2>1 DEF Aborting
  <2>3. IsConnecting(w) => c.resumeHandshakeFailures = 1
    <3>1. IsConnecting(w) => ~IsOpen(w) /\ w.raw[w.socket] \in {"open", "closing"}
      BY <1>0, <2>1 DEF SocketsOK, OneInUse
    <3>2. IsConnecting(w) => Closing(w) /\ Pending(c, w)
      BY <2>1, <3>1 DEF Closing, IsOpen, Pending
    <3> QED BY <1>0, <1>1, <3>2 DEF Resumes
  <2>4. Resumes(d, n, g)
    <3>1. \A s, r \in Sockets : <<s, "resume">> \in n.closeWaiters =>
            d.resumeInFlight /\ (<<r, "resume">> \in n.closeWaiters => r = s)
      BY <1>3, <1>5, <1>6, <1>10
    <3>2. d.resumeHandshakeFailures = 0 => ~Pending(d, n)
      BY <1>3, <1>5, <1>10, <2>2, <2>3 DEF Pending, IsConnecting
    <3>3. \A s, r \in n.connectingSockets : r \in Race(s)
      BY <1>4 DEF SocketsOK, SocketType, Raced
    <3>4. \A s, r \in Sockets : /\ Aborting(n, s) \/ s \in n.connectingSockets
                                /\ Aborting(n, r) \/ r \in n.connectingSockets
                                => r \in Race(s)
      BY <2>2, <3>3
    <3>5. Closing(n) => <<n.socket, "resume">> \in n.closeWaiters
      BY <1>5, <1>10
    <3> QED BY <1>3, <1>8, <3>1, <3>2, <3>4, <3>5 DEF Resumes
  <2>5. Steady(d, n, g, l)
    BY <1>3, <1>9, <2>4
  <2>6. Retried(d, n, g, l)
    BY <1>3 DEF Retried
  <2>7. CommsInv(d, n, g, l)
    BY <2>5, <2>6 DEF CommsInv
  <2> QED BY <1>1, <1>10, <2>7 DEF IInv, d, n, g, l
<1>11. CASE ~Awaited(w)
  <2> DEFINE e == [d EXCEPT !.resumeInFlight = FALSE]
  <2>1. /\ comms' = Reopening(e, n) /\ ws' = Reopened(e, n)
    BY <1>1, <1>3, <1>11 DEF Resuming, Resumed
  <2>2. /\ e \in CommsType
        /\ e.noiseSession = None /\ e.connectionGeneration = None
        /\ e.reconnectAttempts = c.reconnectAttempts
        /\ ~e.connected /\ ~e.serverRestartHold /\ ~e.reconnectTimer
        /\ e.started /\ ~e.preventRetry /\ ~e.resumeInFlight
        /\ e.handlingRequests = c.handlingRequests /\ e.waiter = c.waiter
    BY <1>3 DEF CommsType
  <2> HIDE DEF e
  <2>3. n.socket = None /\ ~Closing(n)
    BY <1>5, <1>11 DEF Awaited, Closing
  <2>4. Resumes(e, n, g)
    BY <1>5, <1>6, <1>11, <2>2, <2>3 DEF Resumes
  <2>5. Steady(e, n, g, l)
    BY <1>9, <2>2, <2>4
  <2>6. n.created # 0
    BY <1>0, <1>1, <1>5 DEF Begun
  <2>7. CommsInv(Reopening(e, n), Reopened(e, n), g, l)
    <3>1. Fits(Reopened(e, n))
      BY <1>1, <2>1
    <3>2. ~Shakes(e, g)
      BY <1>8, <2>2
    <3> QED BY <2>2, <2>3, <2>5, <2>6, <3>1, <3>2, ReopeningKeeps
  <2> QED BY <1>1, <2>1, <2>7 DEF IInv, g, l
<1> QED BY <1>10, <1>11

LEMMA HoldForServerRestartHolds ==
  ASSUME IInv, HoldForServerRestart
  PROVE  IInv'
<1> DEFINE c == comms
           w == ws
           d == comms'
<1>0. /\ c \in CommsType /\ LapsesOK(lapses) /\ SocketsOK(w, shake)
      /\ Begun(c, w) /\ Paired(c, w, shake) /\ Ended(c, w) /\ StopsAll(c, w, lapses)
      /\ Served(c, w, shake) /\ Undiminished(c, w) /\ Resumes(c, w, shake)
      /\ Over(c, shake, lapses) /\ Retried(c, w, shake, lapses)
  BY DEF IInv, CommsInv, Steady
<1>1. /\ c.waiter = "adopted" /\ d = [c EXCEPT !.serverRestartHold = TRUE]
      /\ ws' = w /\ shake' = shake /\ lapses' = lapses
  BY DEF HoldForServerRestart
<1> HIDE DEF c, w, d
<1>2. /\ d \in CommsType
      /\ d.started = c.started /\ d.waiter = c.waiter
      /\ d.connected = c.connected
      /\ d.handlingRequests = c.handlingRequests /\ d.preventRetry = c.preventRetry
      /\ d.resumeInFlight = c.resumeInFlight /\ d.reconnectTimer = c.reconnectTimer
      /\ d.reconnectAttempts = c.reconnectAttempts
      /\ d.resumeHandshakeFailures = c.resumeHandshakeFailures
      /\ d.restart = c.restart
      /\ d.connectionGeneration = c.connectionGeneration
      /\ d.noiseSession = c.noiseSession
  BY <1>0, <1>1 DEF CommsType
<1>3. (Shakes(d, shake) <=> Shakes(c, shake)) /\ (Pending(d, w) <=> Pending(c, w))
  BY <1>2 DEF Shakes, Pending
<1>4. Begun(d, w) /\ Ended(d, w) /\ StopsAll(d, w, lapses)
  BY <1>0, <1>1, <1>2 DEF Begun, Ended, StopsAll
<1>5. Paired(d, w, shake) /\ Served(d, w, shake) /\ Undiminished(d, w)
  <2>1. Paired(d, w, shake)
    BY <1>0, <1>2, <1>3 DEF Paired
  <2>2. Served(d, w, shake) /\ Undiminished(d, w)
    BY <1>0, <1>2 DEF Served, Undiminished
  <2> QED BY <2>1, <2>2
<1>6. Resumes(d, w, shake)
  BY <1>0, <1>2, <1>3 DEF Resumes
<1>7. Over(d, shake, lapses) /\ Retried(d, w, shake, lapses)
  BY <1>0, <1>2, <1>3 DEF Over, Retried
<1>8. CommsInv(d, w, shake, lapses)
  BY <1>0, <1>2, <1>4, <1>5, <1>6, <1>7 DEF CommsInv, Steady
<1> QED BY <1>1, <1>8 DEF IInv, d, w

\* The timer hands over to a race, unless one is on or nothing is to be done.
LEMMA ReconnectTimerHolds ==
  ASSUME IInv, ReconnectTimerFires
  PROVE  IInv'
<1> DEFINE c == comms
           w == ws
           h == shake
           l == lapses
           d == [c EXCEPT !.reconnectTimer = FALSE]
<1>0. /\ c \in CommsType /\ LapsesOK(l) /\ SocketsOK(w, h)
      /\ Begun(c, w) /\ Paired(c, w, h) /\ Ended(c, w) /\ StopsAll(c, w, l)
      /\ Served(c, w, h) /\ Undiminished(c, w) /\ Resumes(c, w, h) /\ Over(c, h, l)
  BY DEF IInv, CommsInv, Steady
<1>1. /\ c.reconnectTimer /\ comms' = Reopening(d, w) /\ ws' = Reopened(d, w)
      /\ Fits(ws') /\ shake' = h /\ lapses' = l
      /\ \A s \in Sockets : h[s].step # "agree"
  BY DEF ReconnectTimerFires, NothingComputing
<1>2. /\ d \in CommsType
      /\ d.started = c.started /\ d.connected = c.connected
      /\ d.handlingRequests = c.handlingRequests /\ d.preventRetry = c.preventRetry
      /\ d.resumeInFlight = c.resumeInFlight /\ ~d.reconnectTimer
      /\ d.reconnectAttempts = c.reconnectAttempts
      /\ d.resumeHandshakeFailures = c.resumeHandshakeFailures
      /\ d.serverRestartHold = c.serverRestartHold /\ d.restart = c.restart
      /\ d.connectionGeneration = c.connectionGeneration
      /\ d.noiseSession = c.noiseSession /\ d.waiter = c.waiter
  BY <1>0 DEF CommsType
<1> HIDE DEF c, w, h, l, d
<1>3. Pending(c, w) /\ (Pending(d, w) => Pending(c, w)) /\ (Shakes(d, h) <=> Shakes(c, h))
  BY <1>1, <1>2 DEF Pending, Shakes
<1>4. Begun(d, w) /\ Ended(d, w) /\ StopsAll(d, w, l)
  BY <1>0, <1>2 DEF Begun, Ended, StopsAll
<1>5. Paired(d, w, h)
  BY <1>0, <1>2, <1>3 DEF Paired
<1>6. Served(d, w, h) /\ Undiminished(d, w) /\ Over(d, h, l)
  BY <1>0, <1>2, <1>3 DEF Served, Undiminished, Over
<1>7. Resumes(d, w, h)
  BY <1>0, <1>2, <1>3 DEF Resumes
<1>8. Steady(d, w, h, l)
  BY <1>0, <1>2, <1>4, <1>5, <1>6, <1>7 DEF Steady
<1>9. OpensSocket(d, w) =>
        /\ w.created # 0
        /\ Shakes(d, h) => h[d.connectionGeneration].step # "agree"
        /\ Closing(w) => d.resumeHandshakeFailures = 1
        /\ d.resumeInFlight => /\ d.resumeHandshakeFailures = 1 /\ ~d.reconnectTimer
                               /\ \A s \in Sockets : ~Aborting(w, s)
  <2> SUFFICES ASSUME OpensSocket(d, w)
               PROVE  /\ w.created # 0
                      /\ Shakes(d, h) => h[d.connectionGeneration].step # "agree"
                      /\ Closing(w) => d.resumeHandshakeFailures = 1
                      /\ d.resumeInFlight => /\ d.resumeHandshakeFailures = 1
                                             /\ \A s \in Sockets : ~Aborting(w, s)
    BY <1>2
  <2>1. c.started /\ c.resumeHandshakeFailures \in {0, 1}
    BY <1>0, <1>2 DEF OpensSocket, CommsType
  <2>2. w.created # 0
    BY <1>0, <1>1 DEF Begun
  <2>3. Shakes(d, h) => h[d.connectionGeneration].step # "agree"
    <3>1. Shakes(d, h) => d.connectionGeneration \in Sockets
      BY <1>2 DEF Shakes, CommsType
    <3> QED BY <1>1, <3>1
  <2>4. c.resumeInFlight => c.resumeHandshakeFailures = 1 /\ \A s \in Sockets : ~Aborting(w, s)
    BY <1>0, <1>1, <1>3, <2>1 DEF Resumes
  <2>5. Closing(w) => c.resumeHandshakeFailures = 1
    BY <1>0, <1>3, <2>1, <2>4 DEF Resumes
  <2> QED BY <1>2, <2>2, <2>3, <2>4, <2>5
<1>10. CommsInv(Reopening(d, w), Reopened(d, w), h, l)
  BY <1>1, <1>8, <1>9, ReopeningKeeps
<1> QED BY <1>1, <1>10 DEF IInv, h, l

-----------------------------------------------------------------------------
(* The steps: raw sockets. *)

\* The winner of a race takes over: nothing else is in use or under way.
LEMMA SocketOpensHolds ==
  ASSUME IInv, NEW s \in Sockets, SocketOpens(s)
  PROVE  IInv'
<1> DEFINE c == comms
           w == ws
           h == shake
           l == lapses
           d == comms'
           n == ws'
           g == shake'
<1>0. /\ c \in CommsType /\ LapsesOK(l) /\ SocketsOK(w, h)
      /\ Begun(c, w) /\ Paired(c, w, h) /\ Ended(c, w) /\ StopsAll(c, w, l)
      /\ Served(c, w, h) /\ Undiminished(c, w) /\ Resumes(c, w, h) /\ Over(c, h, l)
  BY DEF IInv, CommsInv, Steady
<1>1. /\ w.raw[s] = "connecting" /\ n = Activate(w, s) /\ lapses' = l
      /\ \A r \in Sockets : w.raw[r] = "closing" => h[r].step # "none" \/ r \in w.settled
      /\ d = [c EXCEPT !.connectionGeneration = s, !.noiseSession = s]
      /\ g = [h EXCEPT ![s] = [step |-> "hello", resume |-> UsesResume(c)]]
  BY DEF SocketOpens, AbortsReported
<1>2. UsesResume(c) \in BOOLEAN /\ g = Shaking(h, s, [step |-> "hello", resume |-> UsesResume(c)])
  BY <1>1 DEF UsesResume, Shaking
<1>3. SocketsOK(n, g) /\ IsOpen(n) /\ ~IsConnecting(n)
  <2> DEFINE r0 == UsesResume(c)
  <2>1. r0 \in BOOLEAN
    BY <1>2
  <2> HIDE DEF r0, w, h, c
  <2>2. /\ SocketsOK(Activate(w, s), Shaking(h, s, [step |-> "hello", resume |-> r0]))
        /\ IsOpen(Activate(w, s)) /\ ~IsConnecting(Activate(w, s))
    BY <1>0, <1>1, <2>1, ActivateKeepsSockets
  <2>3. g = Shaking(h, s, [step |-> "hello", resume |-> r0])
    BY <1>2 DEF r0
  <2> HIDE DEF n, g
  <2> QED BY <1>1, <2>2, <2>3
<1>4. /\ n.socket = s /\ n.closeWaiters = w.closeWaiters
      /\ n.settled = w.settled \cup Race(s)
      /\ n.created = w.created /\ n.loading = w.loading
      /\ \A r \in Sockets : n.raw[r] =
           IF r = s THEN "open" ELSE IF r \in Race(s) \ w.settled THEN "closing" ELSE w.raw[r]
  <2> HIDE DEF w, n
  <2>1. w \in SocketType
    BY <1>0 DEF SocketsOK
  <2> QED BY <1>1, <2>1, ActivatedFields
<1> HIDE DEF c, w, h, l, d, n, g
<1>5. /\ d \in CommsType
      /\ d.started = c.started /\ d.connected = c.connected
      /\ d.handlingRequests = c.handlingRequests /\ d.preventRetry = c.preventRetry
      /\ d.resumeInFlight = c.resumeInFlight /\ d.reconnectTimer = c.reconnectTimer
      /\ d.reconnectAttempts = c.reconnectAttempts
      /\ d.resumeHandshakeFailures = c.resumeHandshakeFailures
      /\ d.serverRestartHold = c.serverRestartHold /\ d.restart = c.restart
      /\ d.connectionGeneration = s /\ d.noiseSession = s /\ d.waiter = c.waiter
  BY <1>0, <1>1 DEF CommsType
<1>6. /\ g[s].step = "hello" /\ g[s].resume = UsesResume(c)
      /\ \A r \in Sockets : r # s => g[r] = h[r]
  BY <1>0, <1>1 DEF SocketsOK, ShakeType
<1>7. IsConnecting(w) /\ Pending(c, w) /\ ~IsOpen(w) /\ s # None /\ s \in w.connectingSockets
  BY <1>0, <1>1, CommsAssumption
  DEF SocketsOK, Raced, OneInUse, IsConnecting, Pending, Sockets, None, CommsAssumption
<1>8. \A r \in Sockets : ~Aborting(n, r)
  <2> SUFFICES ASSUME NEW r \in Sockets, Aborting(n, r) PROVE FALSE
    OBVIOUS
  <2>1. w.raw[r] = "closing" /\ r \notin w.settled
    BY <1>4 DEF Aborting
  <2>2. h[r].step # "none"
    BY <1>1, <2>1
  <2>3. r <= w.created
    BY <1>0, <2>1, CommsAssumption DEF SocketsOK, Numbered, Sockets, SocketType, CommsAssumption
  <2> QED BY <1>0, <2>1, <2>2, <2>3 DEF SocketsOK, Raced
<1>9. ~Closing(n)
  BY <1>4 DEF Closing
<1>10. c.resumeHandshakeFailures \in {0, 1}
  BY <1>0 DEF CommsType
<1>11. Begun(d, n) /\ Ended(d, n) /\ StopsAll(d, n, l)
  <2>1. w.created # 0
    BY <1>0, <1>7, NothingAtFirst
  <2>2. Begun(d, n)
    BY <1>0, <1>4, <1>5, <2>1 DEF Begun
  <2>3. Ended(d, n)
    BY <1>0, <1>5, <1>9 DEF Ended
  <2>4. StopsAll(d, n, l)
    BY <1>0, <1>5, <1>7 DEF StopsAll
  <2> QED BY <2>2, <2>3, <2>4
<1>12. Paired(d, n, g)
  <2>1. \A r \in Sockets : /\ g[r].step = "hello" => r = s
                           /\ g[r].step = "agree" => g[r].resume
    BY <1>0, <1>6, <1>7, CommsAssumption DEF Paired, Sockets, None, CommsAssumption
  <2>2. d.resumeHandshakeFailures = IF g[s].resume THEN 0 ELSE 1
    <3>1. CASE c.resumeHandshakeFailures = 0
      <4>1. UsesResume(c) = TRUE
        BY <3>1 DEF UsesResume
      <4> QED BY <1>5, <1>6, <3>1, <4>1
    <3>2. CASE c.resumeHandshakeFailures = 1
      <4>1. UsesResume(c) = FALSE
        BY <3>2 DEF UsesResume
      <4> QED BY <1>5, <1>6, <3>2, <4>1
    <3> QED BY <1>10, <3>1, <3>2
  <2> QED BY <1>3, <1>4, <1>5, <1>6, <1>7, <1>9, <2>1, <2>2 DEF Paired
<1>13. Served(d, n, g) /\ Undiminished(d, n) /\ Retried(d, n, g, l)
  BY <1>4, <1>6, <1>7 DEF Served, Undiminished, Retried
<1>14. Resumes(d, n, g)
  <2> SUFFICES ASSUME d.started PROVE Resumes(d, n, g)
    BY DEF Resumes
  <2>1. c.started
    BY <1>5
  <2>2. c.resumeInFlight => c.resumeHandshakeFailures = 1 /\ ~c.reconnectTimer
    BY <1>0, <1>7, <1>10, <2>1 DEF Resumes
  <2>3. c.resumeInFlight => ~UsesResume(c)
    BY <2>2 DEF UsesResume
  <2>4. \A r, q \in Sockets : <<r, "resume">> \in n.closeWaiters =>
          d.resumeInFlight /\ (<<q, "resume">> \in n.closeWaiters => q = r)
    BY <1>0, <1>4, <1>5, <2>1 DEF Resumes
  <2>5. \A r \in Sockets : r \notin n.connectingSockets
    BY <1>3 DEF IsConnecting
  <2> QED BY <1>5, <1>6, <1>8, <1>9, <2>2, <2>3, <2>4, <2>5 DEF Resumes, Shakes
<1>15. Over(d, g, l)
  <2>1. c.preventRetry => Missed(l)
    BY <1>0, <1>7 DEF StopsAll
  <2> QED BY <1>0, <1>5, <2>1 DEF Over
<1>16. CommsInv(d, n, g, l)
  BY <1>0, <1>3, <1>5, <1>11, <1>12, <1>13, <1>14, <1>15 DEF CommsInv, Steady
<1> QED BY <1>1, <1>16 DEF IInv, d, n, g, l

\* Races are created as a whole.
LEMMA RaceCreated ==
  ASSUME NEW q \in Nat, NEW s \in Sockets, s <= q * Urls, NEW r \in Race(s)
  PROVE  r \in Sockets /\ r <= q * Urls
<1>1. Urls \in Nat \ {0} /\ q * Urls \in Nat
  BY CommsAssumption DEF CommsAssumption
<1>2. r \in Sockets /\ (r - 1) \div Urls = (s - 1) \div Urls
  BY DEF Race
<1>3. s - 1 \in Nat /\ r - 1 \in Nat /\ s \in Nat /\ r \in Nat
  BY <1>2 DEF Sockets
<1>4. ASSUME NEW m \in Nat
      PROVE  /\ (m \div Urls) \in Nat
             /\ (m \div Urls) * Urls <= m
             /\ m < (m \div Urls) * Urls + Urls
  BY <1>4, <1>1
<1> DEFINE k == (s - 1) \div Urls
<1>5. k \in Nat /\ k * Urls <= s - 1 /\ r - 1 < k * Urls + Urls
  BY <1>2, <1>3, <1>4
<1> HIDE DEF k
<1>6. k * Urls < q * Urls
  BY <1>1, <1>3, <1>5
<1>7. k < q
  BY <1>1, <1>5, <1>6
<1>8. (k + 1) * Urls <= q * Urls
  BY <1>1, <1>5, <1>7
<1>9. (k + 1) * Urls = k * Urls + Urls
  BY <1>1, <1>5
<1> QED BY <1>1, <1>2, <1>3, <1>5, <1>8, <1>9

\* What the failure of the last socket of a race sets.
LEMMA OpenFailedFields ==
  ASSUME NEW c \in CommsType
  PROVE  LET d == OnOpenFailed(c)
         IN /\ d \in CommsType
            /\ ~d.connected
            /\ d.reconnectTimer = (c.reconnectTimer \/ (c.started /\ ~c.preventRetry))
            /\ d.started = c.started
            /\ d.handlingRequests = c.handlingRequests /\ d.preventRetry = c.preventRetry
            /\ d.resumeInFlight = c.resumeInFlight
            /\ d.reconnectAttempts = c.reconnectAttempts
            /\ d.resumeHandshakeFailures = c.resumeHandshakeFailures
            /\ d.serverRestartHold = c.serverRestartHold /\ d.restart = c.restart
            /\ d.connectionGeneration = c.connectionGeneration
            /\ d.noiseSession = c.noiseSession /\ d.waiter = c.waiter
<1> DEFINE t == c.reconnectTimer \/ (c.started /\ ~c.preventRetry)
           d == OnOpenFailed(c)
<1>1. t \in BOOLEAN
  OBVIOUS
<1>2. d = [c EXCEPT !.connected = FALSE, !.reconnectTimer = t]
  BY DEF OnOpenFailed, CommsType
<1> HIDE DEF t, d
<1>3. /\ d \in CommsType /\ ~d.connected /\ d.reconnectTimer = t
      /\ d.started = c.started
      /\ d.handlingRequests = c.handlingRequests /\ d.preventRetry = c.preventRetry
      /\ d.resumeInFlight = c.resumeInFlight
      /\ d.reconnectAttempts = c.reconnectAttempts
      /\ d.resumeHandshakeFailures = c.resumeHandshakeFailures
      /\ d.serverRestartHold = c.serverRestartHold /\ d.restart = c.restart
      /\ d.connectionGeneration = c.connectionGeneration
      /\ d.noiseSession = c.noiseSession /\ d.waiter = c.waiter
  BY <1>1, <1>2 DEF CommsType
<1> QED BY <1>3 DEF t, d

\* A race goes on until its last socket failed, and is then tried again.
LEMMA ConnectFailsHolds ==
  ASSUME IInv, NEW s \in Sockets, NEW state \in {"closing", "closed"}, ConnectFails(s, state)
  PROVE  IInv'
<1> DEFINE c == comms
           w == ws
           h == shake
           l == lapses
           d == comms'
           n == ws'
           lost == s \notin w.settled /\ Race(s) \subseteq n.settled
<1>0. /\ c \in CommsType /\ LapsesOK(l) /\ SocketsOK(w, h)
      /\ Begun(c, w) /\ Paired(c, w, h) /\ Ended(c, w) /\ StopsAll(c, w, l)
      /\ Served(c, w, h) /\ Undiminished(c, w) /\ Resumes(c, w, h) /\ Over(c, h, l)
      /\ Retried(c, w, h, l)
  BY DEF IInv, CommsInv, Steady
<1>1. /\ w.raw[s] \in {"connecting", "closing"} /\ h[s].step = "none"
      /\ state = "closing" => s \notin w.settled
      /\ n = Failed(w, s, state)
      /\ d = IF lost THEN OnOpenFailed(c) ELSE c
      /\ shake' = h /\ lapses' = l
  BY DEF ConnectFails, Failed
<1>2. /\ SocketsOK(n, h)
      /\ n.socket = w.socket /\ (IsOpen(n) <=> IsOpen(w))
      /\ n.created = w.created /\ n.loading = w.loading
      /\ n.closeWaiters = w.closeWaiters
      /\ n.settled = w.settled \cup {s} /\ n.connectingSockets = w.connectingSockets \ {s}
      /\ \A r \in Sockets : n.raw[r] = IF r = s THEN state ELSE w.raw[r]
      /\ w.socket # s
  BY <1>0, <1>1, FailureKeepsSockets
<1>3. /\ lost => /\ d.reconnectTimer = (c.reconnectTimer \/ (c.started /\ ~c.preventRetry))
                 /\ ~d.connected
      /\ ~lost => d.reconnectTimer = c.reconnectTimer /\ d.connected = c.connected
      /\ d \in CommsType /\ d.started = c.started
      /\ d.handlingRequests = c.handlingRequests /\ d.preventRetry = c.preventRetry
      /\ d.resumeInFlight = c.resumeInFlight
      /\ d.reconnectAttempts = c.reconnectAttempts
      /\ d.resumeHandshakeFailures = c.resumeHandshakeFailures
      /\ d.serverRestartHold = c.serverRestartHold /\ d.restart = c.restart
      /\ d.connectionGeneration = c.connectionGeneration
      /\ d.noiseSession = c.noiseSession /\ d.waiter = c.waiter
  <2> HIDE DEF c, w, d, n, lost
  <2>1. CASE lost
    BY <1>0, <1>1, <2>1, OpenFailedFields
  <2>2. CASE ~lost
    BY <1>0, <1>1, <2>2
  <2> QED BY <2>1, <2>2
<1> HIDE DEF c, w, h, l, d, n
<1>4. w.created # 0 /\ s <= w.created
  <2>1. ~(s > w.created)
    BY <1>0, <1>1 DEF SocketsOK, Numbered
  <2> QED BY <1>0, <2>1 DEF SocketsOK, SocketType, Sockets
<1>5. s \notin w.settled => /\ s \in w.connectingSockets \/ Aborting(w, s)
                            /\ ~IsOpen(w) /\ Pending(c, w)
  <2> SUFFICES ASSUME s \notin w.settled
               PROVE  /\ s \in w.connectingSockets \/ Aborting(w, s)
                      /\ ~IsOpen(w) /\ Pending(c, w)
    OBVIOUS
  <2>1. s \in w.connectingSockets \/ Aborting(w, s)
    BY <1>0, <1>1 DEF SocketsOK, Raced, Aborting
  <2>2. IsOpen(w) => w.socket # None /\ ~IsConnecting(w)
    BY <1>0 DEF SocketsOK, OneInUse, IsOpen
  <2>3. ~IsOpen(w)
    BY <1>0, <2>1, <2>2 DEF SocketsOK, OneInUse, IsConnecting
  <2> QED BY <2>1, <2>3 DEF Pending, IsConnecting
\* Nothing is left to be reported of other sockets than those that were.
<1>6. \A r \in Sockets : /\ Aborting(n, r) \/ r \in n.connectingSockets
                         => /\ Aborting(w, r) \/ r \in w.connectingSockets
                            /\ r \notin n.settled
  <2> SUFFICES ASSUME NEW r \in Sockets, Aborting(n, r) \/ r \in n.connectingSockets
               PROVE  (Aborting(w, r) \/ r \in w.connectingSockets) /\ r \notin n.settled
    OBVIOUS
  <2>1. CASE Aborting(n, r)
    BY <1>2, <2>1 DEF Aborting
  <2>2. CASE r \in n.connectingSockets
    <3>1. r \notin n.settled
      BY <1>2, <2>2 DEF SocketsOK, Raced
    <3> QED BY <1>2, <2>2, <3>1
  <2> QED BY <2>1, <2>2
<1>7. Pending(d, n) => Pending(c, w)
  <2>1. d.reconnectTimer => c.reconnectTimer \/ s \notin w.settled
    BY <1>3 DEF lost
  <2>2. IsConnecting(n) => IsConnecting(w)
    BY <1>2 DEF IsConnecting
  <2>3. \A r \in Sockets : Aborting(n, r) => Aborting(w, r)
    BY <1>2 DEF Aborting
  <2> QED BY <1>5, <2>1, <2>2, <2>3 DEF Pending
<1>8. w.socket # None => w.socket \in Sockets
  BY <1>0 DEF SocketsOK, SocketType
<1>9. (Closing(n) <=> Closing(w)) /\ (Shakes(d, h) <=> Shakes(c, h))
  BY <1>2, <1>3, <1>8 DEF Closing, Shakes
<1>10. Begun(d, n) /\ Ended(d, n) /\ StopsAll(d, n, l)
  <2>1. Begun(d, n)
    BY <1>0, <1>2, <1>3, <1>4 DEF Begun
  <2>2. d.connected => c.connected
    BY <1>3
  <2>3. Ended(d, n)
    BY <1>0, <1>3, <1>9, <2>2 DEF Ended
  <2>4. StopsAll(d, n, l)
    BY <1>0, <1>2, <1>3 DEF StopsAll, IsConnecting
  <2> QED BY <2>1, <2>3, <2>4
<1>11. Paired(d, n, h)
  BY <1>0, <1>2, <1>3, <1>9 DEF Paired
<1>12. Served(d, n, h)
  <2>1. IsOpen(w) => ~lost
    BY <1>5 DEF lost
  <2> QED BY <1>0, <1>2, <1>3, <2>1 DEF Served
\* With the race still on, what was pending is, or another socket of it.
<1>13. s \notin w.settled /\ ~lost => IsConnecting(n) \/ \E r \in Sockets : Aborting(n, r)
  <2> SUFFICES ASSUME s \notin w.settled, ~lost
               PROVE  IsConnecting(n) \/ \E r \in Sockets : Aborting(n, r)
    OBVIOUS
  <2>1. PICK r \in Race(s) : r \notin n.settled
    BY DEF lost
  <2>2. PICK q \in Nat : w.created = q * Urls
    BY <1>0 DEF SocketsOK, Numbered
  <2>3. r \in Sockets /\ r <= w.created
    BY <1>4, <2>1, <2>2, RaceCreated
  <2>4. n.raw[r] \in {"connecting", "closing"}
    BY <1>2, <2>1, <2>3 DEF SocketsOK, Raced
  <2>5. r \in n.connectingSockets \/ Aborting(n, r)
    BY <1>2, <2>1, <2>3, <2>4 DEF SocketsOK, Raced, Aborting
  <2> QED BY <2>3, <2>5 DEF IsConnecting
<1>14. Undiminished(d, n)
  <2> SUFFICES ASSUME d.started, d.connected, n.socket = None, d.reconnectAttempts # 0
               PROVE  IsConnecting(n)
    BY DEF Undiminished
  <2>1. c.started /\ c.connected /\ ~lost /\ w.socket = None /\ IsConnecting(w)
    BY <1>0, <1>2, <1>3 DEF Undiminished
  <2>2. CASE s \notin w.connectingSockets
    BY <1>2, <2>1, <2>2 DEF IsConnecting
  <2>3. CASE s \in w.connectingSockets
    <3>1. s \notin w.settled /\ Race(s) \subseteq w.settled \cup w.connectingSockets
      BY <1>0, <2>3 DEF SocketsOK, Raced
    <3>2. ~(w.connectingSockets \subseteq {s})
      BY <1>2, <2>1, <3>1 DEF lost
    <3> QED BY <1>2, <3>2 DEF IsConnecting
  <2> QED BY <2>2, <2>3
<1>15. Resumes(d, n, h)
  <2> SUFFICES ASSUME d.started PROVE Resumes(d, n, h)
    BY DEF Resumes
  <2>1. c.started /\ ~c.preventRetry
    BY <1>0, <1>3 DEF Ended
  <2>2. ASSUME d.resumeInFlight, d.reconnectTimer
        PROVE  /\ ~IsConnecting(n) /\ ~IsOpen(n)
               /\ \A r \in Sockets : ~Aborting(n, r)
    <3>1. CASE c.reconnectTimer
      <4>1. /\ ~IsConnecting(w) /\ ~IsOpen(w)
            /\ \A r \in Sockets : ~Aborting(w, r)
        BY <1>0, <1>3, <2>1, <2>2, <3>1 DEF Resumes
      <4> QED BY <1>2, <4>1 DEF IsConnecting, Aborting
    <3>2. CASE ~c.reconnectTimer
      <4>1. lost /\ s \notin w.settled /\ Race(s) \subseteq n.settled
        BY <1>3, <2>2, <3>2 DEF lost
      <4>2. \A r \in Sockets : ~(Aborting(n, r) \/ r \in n.connectingSockets)
        BY <1>0, <1>3, <1>5, <1>6, <2>1, <2>2, <4>1 DEF Resumes
      <4>3. ~IsConnecting(n)
        BY <1>2, <4>2 DEF IsConnecting, SocketsOK, SocketType
      <4> QED BY <1>2, <1>5, <4>1, <4>2, <4>3
    <3> QED BY <3>1, <3>2
  <2>3. \A r, q \in Sockets : <<r, "resume">> \in n.closeWaiters =>
          d.resumeInFlight /\ (<<q, "resume">> \in n.closeWaiters => q = r)
    BY <1>0, <1>2, <1>3, <2>1 DEF Resumes
  <2>4. Closing(n) /\ ~d.resumeInFlight /\ Pending(d, n) => d.resumeHandshakeFailures = 1
    BY <1>0, <1>3, <1>7, <1>9, <2>1 DEF Resumes
  <2>5. d.resumeInFlight =>
          /\ d.resumeHandshakeFailures = 0 => ~Pending(d, n)
          /\ Closing(n) => d.resumeHandshakeFailures = 1
                           \/ <<n.socket, "resume">> \in n.closeWaiters
          /\ Shakes(d, h) => ~h[d.connectionGeneration].resume
    BY <1>0, <1>2, <1>3, <1>7, <1>9, <2>1 DEF Resumes
  <2>6. d.resumeInFlight => \A r, q \in Sockets : /\ Aborting(n, r) \/ r \in n.connectingSockets
                                                  /\ Aborting(n, q) \/ q \in n.connectingSockets
                                                  => q \in Race(r)
    BY <1>0, <1>3, <1>6, <2>1 DEF Resumes
  <2> QED BY <2>2, <2>3, <2>4, <2>5, <2>6 DEF Resumes
<1>16. Over(d, h, l)
  <2>1. d.connected => c.connected
    BY <1>3
  <2> QED BY <1>0, <1>3, <1>9, <2>1 DEF Over
<1>17. Retried(d, n, h, l)
  <2> SUFFICES ASSUME d.started, n.socket = None, ~TimedOut(l) \/ d.connected \/ Shakes(d, h)
               PROVE  Pending(d, n) \/ d.restart \/ d.resumeInFlight \/ n.loading
    BY DEF Retried
  <2>1. c.started /\ ~c.preventRetry
    BY <1>0, <1>3 DEF Ended
  <2>2. Pending(c, w) \/ c.restart \/ c.resumeInFlight \/ w.loading
    BY <1>0, <1>2, <1>3, <1>9, <2>1 DEF Retried
  <2>3. ASSUME Pending(c, w) PROVE Pending(d, n)
    <3>1. CASE lost
      BY <1>3, <2>1, <3>1 DEF Pending
    <3>2. CASE ~lost /\ s \notin w.settled
      BY <1>13, <3>2 DEF Pending
    <3>3. CASE s \in w.settled
      <4>1. s \notin w.connectingSockets /\ ~lost
        BY <1>0, <3>3 DEF SocketsOK, Raced, lost
      <4>2. IsConnecting(w) => IsConnecting(n)
        BY <1>2, <4>1 DEF IsConnecting
      <4>3. \A r \in Sockets : Aborting(w, r) => Aborting(n, r)
        BY <1>2, <3>3 DEF Aborting
      <4> QED BY <1>3, <2>3, <4>1, <4>2, <4>3 DEF Pending
    <3> QED BY <3>1, <3>2, <3>3
  <2> QED BY <1>2, <1>3, <2>2, <2>3
<1>18. CommsInv(d, n, h, l)
  BY <1>0, <1>2, <1>3, <1>10, <1>11, <1>12, <1>14, <1>15, <1>16, <1>17 DEF CommsInv, Steady
<1> QED BY <1>1, <1>18 DEF IInv, d, n, h, l

\* What the close of the socket in use sets.
LEMMA SocketClosedFields ==
  ASSUME comms \in CommsType,
         FailsHello(comms) /\ shake[comms.noiseSession].resume => comms.resumeHandshakeFailures = 0
  PROVE  LET c == comms
             d == OnSocketClosed(c)
             retries == c.started /\ ~c.preventRetry /\ ~c.resumeInFlight
         IN /\ d \in CommsType
            /\ ~d.connected /\ d.noiseSession = None
            /\ retries => (d.restart \/ d.reconnectTimer) /\ ~d.serverRestartHold
            /\ ~retries => /\ d.restart = c.restart /\ d.reconnectTimer = c.reconnectTimer
                           /\ d.serverRestartHold = c.serverRestartHold
            /\ c.resumeHandshakeFailures = 1 => d.resumeHandshakeFailures = 1
            /\ ~FailsHello(c) => d.resumeHandshakeFailures = c.resumeHandshakeFailures
            /\ d.serverRestartHold => c.serverRestartHold
            /\ d.started = c.started
            /\ d.handlingRequests = c.handlingRequests /\ d.preventRetry = c.preventRetry
            /\ d.resumeInFlight = c.resumeInFlight
            /\ d.reconnectAttempts = c.reconnectAttempts
            /\ d.connectionGeneration = c.connectionGeneration
            /\ d.waiter = c.waiter
<1> DEFINE c == comms
           retries == c.started /\ ~c.preventRetry /\ ~c.resumeInFlight
           failed == FailsHello(c) /\ shake[c.noiseSession].resume
           fails == IF failed THEN c.resumeHandshakeFailures + 1 ELSE c.resumeHandshakeFailures
           hold == c.serverRestartHold /\ ~retries
           restart == c.restart \/ (retries /\ c.serverRestartHold)
           timer == c.reconnectTimer \/ (retries /\ ~c.serverRestartHold)
           d == OnSocketClosed(c)
<1>1. hold \in BOOLEAN /\ restart \in BOOLEAN /\ timer \in BOOLEAN
  OBVIOUS
<1>2. /\ fails \in 0..1
      /\ c.resumeHandshakeFailures = 1 => fails = 1
      /\ ~FailsHello(c) => fails = c.resumeHandshakeFailures
  <2>1. c.resumeHandshakeFailures \in 0..1 /\ (failed => c.resumeHandshakeFailures = 0)
    BY DEF CommsType
  <2> HIDE DEF c
  <2> QED BY <2>1
<1>3. d = [c EXCEPT !.connected = FALSE, !.noiseSession = None,
                    !.resumeHandshakeFailures = fails, !.serverRestartHold = hold,
                    !.restart = restart, !.reconnectTimer = timer]
  BY DEF OnSocketClosed, CommsType
<1>4. /\ retries => (restart \/ timer) /\ ~hold
      /\ ~retries => restart = c.restart /\ timer = c.reconnectTimer /\ hold = c.serverRestartHold
      /\ hold => c.serverRestartHold
  <2>1. c.restart \in BOOLEAN /\ c.reconnectTimer \in BOOLEAN /\ c.serverRestartHold \in BOOLEAN
    BY DEF CommsType
  <2> HIDE DEF c
  <2> QED BY <2>1
<1>5. c \in CommsType
  OBVIOUS
<1> HIDE DEF c, retries, fails, hold, restart, timer, d
<1>6. /\ d \in CommsType
      /\ ~d.connected /\ d.noiseSession = None
      /\ d.restart = restart /\ d.reconnectTimer = timer
      /\ d.resumeHandshakeFailures = fails /\ d.serverRestartHold = hold
      /\ d.started = c.started
      /\ d.handlingRequests = c.handlingRequests /\ d.preventRetry = c.preventRetry
      /\ d.resumeInFlight = c.resumeInFlight
      /\ d.reconnectAttempts = c.reconnectAttempts
      /\ d.connectionGeneration = c.connectionGeneration
      /\ d.waiter = c.waiter
  <2>1. d \in CommsType
    <3> DEFINE e == [c EXCEPT !.connected = FALSE, !.noiseSession = None,
                              !.resumeHandshakeFailures = fails]
    <3>1. e \in CommsType
      BY <1>2, <1>5 DEF CommsType
    <3>2. d = [e EXCEPT !.serverRestartHold = hold, !.restart = restart, !.reconnectTimer = timer]
      BY <1>3, <1>5 DEF CommsType
    <3> HIDE DEF e
    <3> QED BY ZenonT(40), <1>1, <3>1, <3>2 DEF CommsType
  <2>2. d.restart = restart /\ d.reconnectTimer = timer /\ d.serverRestartHold = hold
    BY <1>1, <1>3, <1>5 DEF CommsType
  <2>3. /\ ~d.connected /\ d.noiseSession = None
        /\ d.resumeHandshakeFailures = fails
    BY <1>2, <1>3, <1>5 DEF CommsType
  <2>4. /\ d.started = c.started
        /\ d.handlingRequests = c.handlingRequests /\ d.preventRetry = c.preventRetry
        /\ d.resumeInFlight = c.resumeInFlight
        /\ d.reconnectAttempts = c.reconnectAttempts
        /\ d.connectionGeneration = c.connectionGeneration
        /\ d.waiter = c.waiter
    BY <1>3, <1>5 DEF CommsType
  <2> QED BY <2>1, <2>2, <2>3, <2>4
<1> QED BY <1>2, <1>4, <1>6 DEF c, d, retries

\* What WaComms makes of the close of s, and what becomes of the handshakes.
AfterClose(s) == IF ws.socket = s THEN OnSocketClosed(comms) ELSE comms
ShakesAfterClose(s) == IF ws.socket = s THEN EndSession(comms.noiseSession) ELSE shake

\* What the close of s sets.
LEMMA SocketCloseSets ==
  ASSUME IInv, NEW s \in Sockets
  PROVE  LET c == comms
             w == ws
             h == shake
             d == AfterClose(s)
             g == ShakesAfterClose(s)
         IN /\ g \in ShakeType /\ SocketsOK(w, g)
            /\ \A r \in Sockets :
                 /\ g[r].resume = h[r].resume
                 /\ g[r].step = IF h[r].step = "hello" /\ w.socket = s THEN "over" ELSE h[r].step
                 /\ w.socket = s => g[r].step # "hello"
            /\ d \in CommsType
            /\ w.socket = s =>
                 /\ ~d.connected /\ d.noiseSession = None
                 /\ c.started /\ ~c.preventRetry /\ ~c.resumeInFlight =>
                      (d.restart \/ d.reconnectTimer) /\ ~d.serverRestartHold
                 /\ ~(c.started /\ ~c.preventRetry /\ ~c.resumeInFlight) =>
                      /\ d.restart = c.restart /\ d.reconnectTimer = c.reconnectTimer
                      /\ d.serverRestartHold = c.serverRestartHold
                 /\ c.resumeHandshakeFailures = 1 => d.resumeHandshakeFailures = 1
                 /\ ~FailsHello(c) => d.resumeHandshakeFailures = c.resumeHandshakeFailures
                 /\ d.serverRestartHold => c.serverRestartHold
            /\ w.socket # s => d = c
            /\ d.started = c.started
            /\ d.handlingRequests = c.handlingRequests /\ d.preventRetry = c.preventRetry
            /\ d.resumeInFlight = c.resumeInFlight
            /\ d.reconnectAttempts = c.reconnectAttempts
            /\ d.connectionGeneration = c.connectionGeneration
            /\ d.waiter = c.waiter
<1> DEFINE c == comms
           w == ws
           h == shake
           l == lapses
           d == AfterClose(s)
           g == ShakesAfterClose(s)
<1>0. /\ c \in CommsType /\ LapsesOK(l) /\ SocketsOK(w, h)
      /\ Begun(c, w) /\ Paired(c, w, h) /\ Ended(c, w) /\ StopsAll(c, w, l)
      /\ Served(c, w, h) /\ Undiminished(c, w) /\ Resumes(c, w, h) /\ Over(c, h, l)
      /\ Retried(c, w, h, l)
  BY DEF IInv, CommsInv, Steady
<1>1. /\ g = IF w.socket = s THEN EndSession(c.noiseSession) ELSE h
      /\ d = IF w.socket = s THEN OnSocketClosed(c) ELSE c
  BY DEF AfterClose, ShakesAfterClose
<1>2. /\ g \in ShakeType /\ SocketsOK(w, g)
      /\ \A r \in Sockets :
           /\ g[r].resume = h[r].resume
           /\ g[r].step = IF h[r].step = "hello" /\ w.socket = s THEN "over" ELSE h[r].step
           /\ w.socket = s => g[r].step # "hello"
  <2>1. CASE w.socket = s
    BY <1>0, <1>1, <2>1, EndedFields
  <2>2. CASE w.socket # s
    BY <1>0, <1>1, <2>2 DEF SocketsOK
  <2> QED BY <2>1, <2>2
<1>3. FailsHello(c) => /\ Shakes(c, h) /\ c.connectionGeneration = c.noiseSession
                       /\ h[c.noiseSession].step = "hello"
  BY <1>0 DEF FailsHello, Paired, Shakes
<1>4. FailsHello(c) /\ h[c.noiseSession].resume => c.resumeHandshakeFailures = 0
  BY <1>0, <1>3 DEF Paired
<1>5. /\ d \in CommsType
      /\ w.socket = s =>
           /\ ~d.connected /\ d.noiseSession = None
           /\ c.started /\ ~c.preventRetry /\ ~c.resumeInFlight =>
                (d.restart \/ d.reconnectTimer) /\ ~d.serverRestartHold
           /\ ~(c.started /\ ~c.preventRetry /\ ~c.resumeInFlight) =>
                /\ d.restart = c.restart /\ d.reconnectTimer = c.reconnectTimer
                /\ d.serverRestartHold = c.serverRestartHold
           /\ c.resumeHandshakeFailures = 1 => d.resumeHandshakeFailures = 1
           /\ ~FailsHello(c) => d.resumeHandshakeFailures = c.resumeHandshakeFailures
           /\ d.serverRestartHold => c.serverRestartHold
      /\ w.socket # s => d = c
      /\ d.started = c.started
      /\ d.handlingRequests = c.handlingRequests /\ d.preventRetry = c.preventRetry
      /\ d.resumeInFlight = c.resumeInFlight
      /\ d.reconnectAttempts = c.reconnectAttempts
      /\ d.connectionGeneration = c.connectionGeneration
      /\ d.waiter = c.waiter
  <2>1. CASE w.socket # s
    BY <1>0, <1>1, <2>1
  <2>2. CASE w.socket = s
    <3> DEFINE f == OnSocketClosed(comms)
    <3>1. /\ f \in CommsType
          /\ ~f.connected /\ f.noiseSession = None
          /\ c.started /\ ~c.preventRetry /\ ~c.resumeInFlight =>
               (f.restart \/ f.reconnectTimer) /\ ~f.serverRestartHold
          /\ ~(c.started /\ ~c.preventRetry /\ ~c.resumeInFlight) =>
               /\ f.restart = c.restart /\ f.reconnectTimer = c.reconnectTimer
               /\ f.serverRestartHold = c.serverRestartHold
          /\ c.resumeHandshakeFailures = 1 => f.resumeHandshakeFailures = 1
          /\ ~FailsHello(c) => f.resumeHandshakeFailures = c.resumeHandshakeFailures
          /\ f.serverRestartHold => c.serverRestartHold
          /\ f.started = c.started
          /\ f.handlingRequests = c.handlingRequests /\ f.preventRetry = c.preventRetry
          /\ f.resumeInFlight = c.resumeInFlight
          /\ f.reconnectAttempts = c.reconnectAttempts
          /\ f.connectionGeneration = c.connectionGeneration
          /\ f.waiter = c.waiter
      BY <1>0, <1>4, SocketClosedFields
    <3>2. d = f
      BY <1>1, <2>2
    <3> HIDE DEF c, w, d, f
    <3> QED BY <2>2, <3>1, <3>2
  <2> QED BY <2>1, <2>2
<1> QED BY <1>2, <1>5

\* The close of the socket in use sets a timer, is handed over, or is left to
\* the resume that awaits it; that of a socket that was given up for another
\* matters to the resume only.
LEMMA SocketCloseKeeps ==
  ASSUME IInv, NEW s \in Sockets, ws.raw[s] \in {"open", "closing"}, shake[s].step # "none"
  PROVE  LET d == AfterClose(s)
             n == Gone(ws, s)
             g == ShakesAfterClose(s)
         IN /\ Steady(d, n, g, lapses)
            /\ <<s, "resume">> \in ws.closeWaiters /\ d.started =>
                 /\ d.resumeInFlight
                 /\ \A r \in Sockets : <<r, "resume">> \notin n.closeWaiters
            /\ <<s, "resume">> \notin ws.closeWaiters => Retried(d, n, g, lapses)
<1> DEFINE c == comms
           w == ws
           h == shake
           l == lapses
           d == AfterClose(s)
           n == Gone(w, s)
           g == ShakesAfterClose(s)
<1>0. /\ c \in CommsType /\ LapsesOK(l) /\ SocketsOK(w, h)
      /\ Begun(c, w) /\ Paired(c, w, h) /\ Ended(c, w) /\ StopsAll(c, w, l)
      /\ Served(c, w, h) /\ Undiminished(c, w) /\ Resumes(c, w, h) /\ Over(c, h, l)
      /\ Retried(c, w, h, l)
  BY DEF IInv, CommsInv, Steady
<1>1. w.raw[s] \in {"open", "closing"} /\ h[s].step # "none"
  OBVIOUS
<1>2. /\ g \in ShakeType /\ SocketsOK(w, g)
      /\ \A r \in Sockets :
           /\ g[r].resume = h[r].resume
           /\ g[r].step = IF h[r].step = "hello" /\ w.socket = s THEN "over" ELSE h[r].step
           /\ w.socket = s => g[r].step # "hello"
  BY SocketCloseSets
<1>3. FailsHello(c) => /\ Shakes(c, h) /\ c.connectionGeneration = c.noiseSession
                       /\ h[c.noiseSession].step = "hello"
  BY <1>0 DEF FailsHello, Paired, Shakes
<1>5. /\ d \in CommsType
      /\ w.socket = s =>
           /\ ~d.connected /\ d.noiseSession = None
           /\ c.started /\ ~c.preventRetry /\ ~c.resumeInFlight =>
                (d.restart \/ d.reconnectTimer) /\ ~d.serverRestartHold
           /\ ~(c.started /\ ~c.preventRetry /\ ~c.resumeInFlight) =>
                /\ d.restart = c.restart /\ d.reconnectTimer = c.reconnectTimer
                /\ d.serverRestartHold = c.serverRestartHold
           /\ c.resumeHandshakeFailures = 1 => d.resumeHandshakeFailures = 1
           /\ ~FailsHello(c) => d.resumeHandshakeFailures = c.resumeHandshakeFailures
           /\ d.serverRestartHold => c.serverRestartHold
      /\ w.socket # s => d = c
      /\ d.started = c.started
      /\ d.handlingRequests = c.handlingRequests /\ d.preventRetry = c.preventRetry
      /\ d.resumeInFlight = c.resumeInFlight
      /\ d.reconnectAttempts = c.reconnectAttempts
      /\ d.connectionGeneration = c.connectionGeneration
      /\ d.waiter = c.waiter
  BY SocketCloseSets
<1> HIDE DEF c, w, h, l, d, n, g
<1>6. /\ SocketsOK(n, g)
      /\ n.socket = IF w.socket = s THEN None ELSE w.socket
      /\ n.created = w.created /\ n.loading = w.loading
      /\ n.settled = w.settled /\ n.connectingSockets = w.connectingSockets
      /\ n.closeWaiters = {cw \in w.closeWaiters : cw[1] # s}
      /\ \A r \in Sockets : n.raw[r] = IF r = s THEN "closed" ELSE w.raw[r]
      /\ s \in w.settled
  <2>1. g[s].step # "none"
    BY <1>1, <1>2
  <2> QED BY <1>1, <1>2, <2>1, GoneKeepsSockets DEF n
<1>7. /\ w.socket # None => w.socket \in Sockets
      /\ IsConnecting(n) <=> IsConnecting(w)
      /\ \A r \in Sockets : Aborting(n, r) <=> Aborting(w, r)
      /\ w.socket = s => n.socket = None
      /\ w.socket # s => n.socket = w.socket
      /\ \A r \in Sockets : r # s => n.raw[r] = w.raw[r]
  BY <1>0, <1>6 DEF SocketsOK, SocketType, IsConnecting, Aborting
<1>8. /\ w.socket = s => ~IsOpen(n) /\ ~Closing(n)
      /\ w.socket # s => (IsOpen(n) <=> IsOpen(w)) /\ (Closing(n) <=> Closing(w))
  BY <1>7 DEF IsOpen, Closing
<1>9. /\ Shakes(d, g) => Shakes(c, h)
      /\ w.socket # s => (Shakes(d, g) <=> Shakes(c, h))
      /\ w.socket = s /\ FailsHello(c) => ~Shakes(d, g)
      /\ Shakes(d, g) => /\ g[d.connectionGeneration].resume = h[c.connectionGeneration].resume
                         /\ g[d.connectionGeneration].step = h[c.connectionGeneration].step
                         /\ d.connectionGeneration \in Sockets
  <2>1. c.connectionGeneration \in Sockets \cup {None}
    BY <1>0 DEF CommsType
  <2> QED BY <1>2, <1>3, <1>5, <2>1 DEF Shakes
<1>10. c.resumeHandshakeFailures \in {0, 1} /\ d.resumeHandshakeFailures \in {0, 1}
  BY <1>0, <1>5 DEF CommsType
<1>11. w.created # 0 /\ c.waiter # "none"
  <2>1. w.created # 0
    BY <1>0, <1>1, NothingAtFirst
  <2> QED BY <1>0, <2>1 DEF Begun
<1>12. Begun(d, n)
  BY <1>0, <1>5, <1>6, <1>11 DEF Begun
<1>13. Paired(d, n, g)
  <2>1. \A r \in Sockets : g[r].step = "agree" => g[r].resume
    BY <1>0, <1>2 DEF Paired
  <2>2. c.connectionGeneration # None => g[c.connectionGeneration].step # "none"
    BY <1>0, <1>2 DEF Paired, CommsType
  <2>3. Shakes(d, g) => d.resumeHandshakeFailures =
                          IF g[d.connectionGeneration].resume THEN 0 ELSE 1
    <3>1. Shakes(d, g) => d.resumeHandshakeFailures = c.resumeHandshakeFailures
      BY <1>5, <1>9
    <3> QED BY <1>0, <1>9, <3>1 DEF Paired
  <2>4. CASE w.socket = s
    BY <1>2, <1>5, <1>8, <2>1, <2>2, <2>3, <2>4 DEF Paired
  <2>5. CASE w.socket # s
    <3>1. \A r \in Sockets : g[r].step = "hello" => d.noiseSession = r
      BY <1>0, <1>2, <1>5, <2>5 DEF Paired
    <3>2. /\ d.noiseSession # None <=> IsOpen(n)
          /\ IsOpen(n) => d.noiseSession = n.socket /\ d.connectionGeneration = n.socket
          /\ Closing(n) => ~Shakes(d, g)
      BY <1>0, <1>5, <1>7, <1>8, <1>9, <2>5 DEF Paired
    <3> QED BY <1>5, <2>1, <2>2, <2>3, <3>1, <3>2 DEF Paired
  <2> QED BY <2>4, <2>5
<1>14. Ended(d, n)
  <2>1. d.connected => w.socket # s /\ c.connected
    BY <1>5
  <2> QED BY <1>0, <1>5, <1>8, <2>1 DEF Ended
<1>15. StopsAll(d, n, l)
  BY <1>0, <1>5, <1>6, <1>7, <1>8 DEF StopsAll
<1>16. Served(d, n, g)
  <2>1. IsOpen(n) => w.socket # s /\ d = c /\ n.socket = w.socket /\ w.socket \in Sockets
    BY <1>5, <1>7, <1>8 DEF IsOpen
  <2>2. ASSUME w.socket # s, NEW r \in Sockets PROVE g[r].step = h[r].step
    BY <1>2, <2>2
  <2> QED BY <1>0, <1>8, <2>1, <2>2 DEF Served
<1>17. Undiminished(d, n)
  <2>1. d.connected => w.socket # s /\ d = c /\ n.socket = w.socket
    BY <1>5, <1>7
  <2> QED BY <1>0, <1>7, <2>1 DEF Undiminished
<1>18. \A r \in Sockets : <<r, "resume">> \in n.closeWaiters <=> <<r, "resume">> \in w.closeWaiters /\ r # s
  BY <1>6
<1>19. Resumes(d, n, g)
  <2> SUFFICES ASSUME d.started PROVE Resumes(d, n, g)
    BY DEF Resumes
  <2>1. c.started /\ d.resumeInFlight = c.resumeInFlight
    BY <1>5
  <2>2. c.resumeInFlight => d.reconnectTimer = c.reconnectTimer
    BY <1>5
  <2>3. /\ c.resumeInFlight => (Pending(d, n) <=> Pending(c, w))
        /\ w.socket # s => (Pending(d, n) <=> Pending(c, w))
    BY <1>5, <1>7, <2>2 DEF Pending
  <2>4. d.resumeHandshakeFailures = 0 => c.resumeHandshakeFailures = 0
    BY <1>5, <1>10
  <2>5. \A r, q \in Sockets : <<r, "resume">> \in n.closeWaiters =>
          d.resumeInFlight /\ (<<q, "resume">> \in n.closeWaiters => q = r)
    BY <1>0, <1>18, <2>1 DEF Resumes
  <2>6. Closing(n) => w.socket # s /\ Closing(w) /\ d = c /\ n.socket = w.socket /\ n.socket \in Sockets
    BY <1>5, <1>7, <1>8 DEF Closing
  <2>7. Closing(n) /\ ~d.resumeInFlight /\ Pending(d, n) => d.resumeHandshakeFailures = 1
    BY <1>0, <2>1, <2>3, <2>6 DEF Resumes
  <2>8. d.resumeInFlight =>
          /\ d.resumeHandshakeFailures = 0 => ~Pending(d, n)
          /\ Shakes(d, g) => ~g[d.connectionGeneration].resume
    BY <1>0, <1>9, <2>1, <2>3, <2>4 DEF Resumes
  <2>9. d.resumeInFlight /\ d.reconnectTimer => /\ ~IsConnecting(n) /\ ~IsOpen(n)
                                                /\ \A r \in Sockets : ~Aborting(n, r)
    BY <1>0, <1>7, <1>8, <2>1, <2>2 DEF Resumes
  <2>10. d.resumeInFlight => \A r, q \in Sockets :
            /\ Aborting(n, r) \/ r \in n.connectingSockets
            /\ Aborting(n, q) \/ q \in n.connectingSockets
            => q \in Race(r)
    BY <1>0, <1>6, <1>7, <2>1 DEF Resumes
  <2>11. d.resumeInFlight /\ Closing(n) => \/ d.resumeHandshakeFailures = 1
                                           \/ <<n.socket, "resume">> \in n.closeWaiters
    BY <1>0, <1>18, <2>1, <2>6 DEF Resumes
  <2> QED BY <2>5, <2>7, <2>8, <2>9, <2>10, <2>11 DEF Resumes
<1>20. Over(d, g, l)
  <2>1. d.connected => c.connected
    BY <1>5
  <2> QED BY <1>0, <1>5, <1>9, <2>1 DEF Over
<1>21. Steady(d, n, g, l)
  BY <1>0, <1>5, <1>6, <1>12, <1>13, <1>14, <1>15, <1>16, <1>17, <1>19, <1>20 DEF Steady
<1>22. ASSUME <<s, "resume">> \in w.closeWaiters, d.started
       PROVE  /\ d.resumeInFlight
              /\ \A r \in Sockets : <<r, "resume">> \notin n.closeWaiters
  BY <1>0, <1>5, <1>18, <1>22 DEF Resumes
<1>23. Retried(d, n, g, l)
  <2>1. CASE w.socket = s
    BY <1>0, <1>5, <2>1 DEF Retried, Pending, Ended
  <2>2. CASE w.socket # s
    BY <1>0, <1>5, <1>6, <1>7, <1>9, <2>2 DEF Retried, Pending
  <2> QED BY <2>1, <2>2
<1> QED BY <1>21, <1>22, <1>23 DEF c, w, h, l, d, n, g

LEMMA SocketClosesHolds ==
  ASSUME IInv, NEW s \in Sockets, SocketCloses(s)
  PROVE  IInv'
<1> DEFINE d == AfterClose(s)
           n == Gone(ws, s)
           g == ShakesAfterClose(s)
           l == lapses
<1>1. /\ ws.raw[s] \in {"open", "closing"} /\ shake[s].step # "none"
      /\ <<s, "resume">> \in ws.closeWaiters => comms' = Resuming(d, n) /\ ws' = Resumed(d, n)
      /\ <<s, "resume">> \notin ws.closeWaiters => comms' = d /\ ws' = n
      /\ Fits(ws') /\ lapses' = l /\ shake' = g
  BY DEF SocketCloses, Gone, AfterClose, ShakesAfterClose
<1>2. /\ Steady(d, n, g, l)
      /\ <<s, "resume">> \in ws.closeWaiters /\ d.started =>
           /\ d.resumeInFlight
           /\ \A r \in Sockets : <<r, "resume">> \notin n.closeWaiters
      /\ <<s, "resume">> \notin ws.closeWaiters => Retried(d, n, g, l)
  BY <1>1, SocketCloseKeeps
<1> HIDE DEF d, n, g, l
<1>3. CASE <<s, "resume">> \in ws.closeWaiters
  <2>1. CommsInv(Resuming(d, n), Resumed(d, n), g, l)
    BY <1>1, <1>2, <1>3, ResumingKeeps
  <2> QED BY <1>1, <1>3, <2>1 DEF IInv
<1>4. CASE <<s, "resume">> \notin ws.closeWaiters
  <2>1. CommsInv(d, n, g, l)
    BY <1>2, <1>4 DEF CommsInv
  <2> QED BY <1>1, <1>4, <2>1 DEF IInv
<1> QED BY <1>3, <1>4

\* close() forgets the socket in use, and WaComms is not told: that is a lapse.
LEMMA CloseTimesOutHolds ==
  ASSUME IInv, NEW s \in Sockets, NEW who \in {"resume", "other"}, CloseTimesOut(s, who)
  PROVE  IInv'
<1> DEFINE c == comms
           w == ws
           h == shake
           l == lapses
           n == Forgotten(w, s, who)
           k == lapses'
<1>0. /\ c \in CommsType /\ LapsesOK(l) /\ SocketsOK(w, h)
      /\ Begun(c, w) /\ Paired(c, w, h) /\ Ended(c, w) /\ StopsAll(c, w, l)
      /\ Served(c, w, h) /\ Undiminished(c, w) /\ Resumes(c, w, h) /\ Over(c, h, l)
      /\ Retried(c, w, h, l)
  BY DEF IInv, CommsInv, Steady
<1>1. /\ <<s, who>> \in w.closeWaiters /\ shake' = h /\ Fits(ws')
      /\ who = "resume" => comms' = Resuming(c, n) /\ ws' = Resumed(c, n)
      /\ who # "resume" => comms' = c /\ ws' = n
      /\ k = l \cup (IF w.socket = s THEN {"close timed out"} ELSE {})
  BY DEF CloseTimesOut, Forgotten
<1> HIDE DEF c, w, h, l, k, n
<1>2. /\ SocketsOK(n, h)
      /\ n.socket = IF w.socket = s THEN None ELSE w.socket
      /\ n.created = w.created /\ n.loading = w.loading /\ n.raw = w.raw
      /\ n.settled = w.settled /\ n.connectingSockets = w.connectingSockets
      /\ n.closeWaiters = w.closeWaiters \ {<<s, who>>}
      /\ w.raw[s] = "closing"
  <2>1. <<s, who>> \in w.closeWaiters
    BY <1>1
  <2>2. SocketsOK(Forgotten(w, s, who), h)
    BY <1>0, <2>1, ForgottenKeepsSockets
  <2> QED BY <1>0, <2>1, <2>2, ForgottenKeepsSockets DEF n
<1>3. /\ w.socket # None => w.socket \in Sockets
      /\ IsConnecting(n) <=> IsConnecting(w)
      /\ \A r \in Sockets : Aborting(n, r) <=> Aborting(w, r)
      /\ Pending(c, n) <=> Pending(c, w)
  BY <1>0, <1>2 DEF SocketsOK, SocketType, IsConnecting, Aborting, Pending
<1>4. /\ w.socket = s => n.socket = None /\ Closing(w) /\ ~IsOpen(w) /\ ~IsOpen(n) /\ ~Closing(n)
      /\ w.socket # s => /\ n.socket = w.socket
                         /\ (IsOpen(n) <=> IsOpen(w)) /\ (Closing(n) <=> Closing(w))
  BY <1>2 DEF IsOpen, Closing, Sockets, None
<1>5. /\ Missed(k) <=> Missed(l)
      /\ LapsesOK(k)
      /\ w.socket # s => k = l
      /\ w.socket = s => TimedOut(k)
  BY <1>0, <1>1 DEF Missed, LapsesOK, TimedOut
<1>6. w.created # 0
  BY <1>0, <1>1, NothingAtFirst
<1>7. Begun(c, n)
  BY <1>0, <1>2, <1>6 DEF Begun
<1>8. Paired(c, n, h) /\ Ended(c, n) /\ StopsAll(c, n, k)
  <2>1. Paired(c, n, h)
    BY <1>0, <1>4 DEF Paired
  <2>2. Ended(c, n)
    BY <1>0, <1>4 DEF Ended
  <2>3. StopsAll(c, n, k)
    BY <1>0, <1>2, <1>3, <1>4, <1>5 DEF StopsAll
  <2> QED BY <2>1, <2>2, <2>3
<1>9. Served(c, n, h) /\ Undiminished(c, n) /\ Over(c, h, k)
  <2>1. Served(c, n, h)
    BY <1>0, <1>4 DEF Served
  <2>2. Undiminished(c, n)
    BY <1>0, <1>3, <1>4 DEF Undiminished, Ended
  <2>3. Over(c, h, k)
    BY <1>0, <1>5 DEF Over
  <2> QED BY <2>1, <2>2, <2>3
<1>10. Resumes(c, n, h)
  <2> SUFFICES ASSUME c.started PROVE Resumes(c, n, h)
    BY DEF Resumes
  <2>1. \A r, q \in Sockets : <<r, "resume">> \in n.closeWaiters =>
          c.resumeInFlight /\ (<<q, "resume">> \in n.closeWaiters => q = r)
    BY <1>0, <1>2 DEF Resumes
  <2>2. Closing(n) => Closing(w) /\ n.socket = w.socket /\ w.socket # s
    BY <1>4
  <2>3. c.resumeInFlight /\ Closing(n) => \/ c.resumeHandshakeFailures = 1
                                          \/ <<n.socket, "resume">> \in n.closeWaiters
    <3>1. \A r : r # s => <<r, "resume">> # <<s, who>>
      OBVIOUS
    <3> QED BY <1>0, <1>2, <2>2, <3>1 DEF Resumes
  <2>4. Closing(n) /\ ~c.resumeInFlight /\ Pending(c, n) => c.resumeHandshakeFailures = 1
    BY <1>0, <1>3, <2>2 DEF Resumes
  <2>5. c.resumeInFlight =>
          /\ c.resumeHandshakeFailures = 0 => ~Pending(c, n)
          /\ c.reconnectTimer => /\ ~IsConnecting(n) /\ ~IsOpen(n)
                                 /\ \A r \in Sockets : ~Aborting(n, r)
          /\ Shakes(c, h) => ~h[c.connectionGeneration].resume
    BY <1>0, <1>3, <1>4 DEF Resumes
  <2>6. c.resumeInFlight => \A r, q \in Sockets :
            /\ Aborting(n, r) \/ r \in n.connectingSockets
            /\ Aborting(n, q) \/ q \in n.connectingSockets
            => q \in Race(r)
    BY <1>0, <1>2, <1>3 DEF Resumes
  <2> QED BY <2>1, <2>3, <2>4, <2>5, <2>6 DEF Resumes
<1>11. Steady(c, n, h, k)
  BY <1>0, <1>2, <1>5, <1>7, <1>8, <1>9, <1>10 DEF Steady
<1>12. CASE who = "resume"
  <2>1. c.started => /\ c.resumeInFlight
                     /\ \A r \in Sockets : <<r, "resume">> \notin n.closeWaiters
    BY <1>0, <1>1, <1>2, <1>12 DEF Resumes
  <2>2. CommsInv(Resuming(c, n), Resumed(c, n), h, k)
    BY <1>1, <1>11, <1>12, <2>1, ResumingKeeps
  <2> QED BY <1>1, <1>12, <2>2 DEF IInv, h, k
<1>13. CASE who # "resume"
  <2>1. Retried(c, n, h, k)
    <3>1. CASE w.socket = s
      <4>1. c.started => ~c.connected /\ ~Shakes(c, h)
        BY <1>0, <1>4, <3>1 DEF Ended, Paired
      <4> QED BY <1>5, <3>1, <4>1 DEF Retried
    <3>2. CASE w.socket # s
      BY <1>0, <1>2, <1>3, <1>4, <1>5, <3>2 DEF Retried
    <3> QED BY <3>1, <3>2
  <2>2. CommsInv(c, n, h, k)
    BY <1>11, <2>1 DEF CommsInv
  <2> QED BY <1>1, <1>13, <2>2 DEF IInv, c, n, h, k
<1> QED BY <1>12, <1>13

-----------------------------------------------------------------------------
(* The steps: the handshake. *)

\* The handshake of s goes on.
Stepped(h, s, next) == [h EXCEPT ![s].step = next]

\* What the end of one step of the handshake of s changes.
LEMMA StepFields ==
  \A w, h : SocketsOK(w, h) =>
    \A s \in Sockets : h[s].step # "none" =>
      \A next \in {"finish", "agree", "over"} :
        LET g == Stepped(h, s, next)
        IN /\ g \in ShakeType /\ SocketsOK(w, g)
           /\ \A r \in Sockets : /\ g[r].resume = h[r].resume
                                 /\ g[r].step = IF r = s THEN next ELSE h[r].step
<1> TAKE w, h
<1> HAVE SocketsOK(w, h)
<1> TAKE s \in Sockets
<1> HAVE h[s].step # "none"
<1> TAKE next \in {"finish", "agree", "over"}
<1> DEFINE g == Stepped(h, s, next)
<1>1. h \in ShakeType
  BY DEF SocketsOK
<1>2. /\ g \in ShakeType
      /\ \A r \in Sockets : /\ g[r].resume = h[r].resume
                            /\ g[r].step = IF r = s THEN next ELSE h[r].step
  <2>1. h[s] \in [step : {"none", "hello", "finish", "agree", "over"}, resume : BOOLEAN]
    BY <1>1 DEF ShakeType
  <2>2. [h[s] EXCEPT !.step = next] \in
            [step : {"none", "hello", "finish", "agree", "over"}, resume : BOOLEAN]
    BY <2>1
  <2>3. /\ [h[s] EXCEPT !.step = next].step = next
        /\ [h[s] EXCEPT !.step = next].resume = h[s].resume
    BY <2>1
  <2>4. g = [h EXCEPT ![s] = [h[s] EXCEPT !.step = next]]
    BY DEF Stepped
  <2>5. g \in ShakeType
    BY <1>1, <2>2, <2>4 DEF ShakeType
  <2>6. \A r \in Sockets : g[r] = IF r = s THEN [h[s] EXCEPT !.step = next] ELSE h[r]
    BY <1>1, <2>4 DEF ShakeType
  <2> HIDE DEF g
  <2> QED BY <2>3, <2>5, <2>6
<1> HIDE DEF g
<1>3. SocketsOK(w, g)
  <2>1. \A r \in Sockets : g[r].step = "none" <=> h[r].step = "none"
    BY <1>2
  <2> QED BY <1>2, <2>1, ShakesKeepSockets
<1> QED BY <1>2, <1>3 DEF g

\* The hello of the server is for the session of the open socket.
LEMMA ServerHelloHolds ==
  ASSUME IInv, NEW s \in Sockets, NEW next \in {"finish", "agree"}, ServerHello(s, next)
  PROVE  IInv'
<1> DEFINE c == comms
           w == ws
           h == shake
           l == lapses
           g == shake'
<1>0. /\ c \in CommsType /\ LapsesOK(l) /\ SocketsOK(w, h)
      /\ Begun(c, w) /\ Paired(c, w, h) /\ Ended(c, w) /\ StopsAll(c, w, l)
      /\ Served(c, w, h) /\ Undiminished(c, w) /\ Resumes(c, w, h) /\ Over(c, h, l)
      /\ Retried(c, w, h, l)
  BY DEF IInv, CommsInv, Steady
<1>1. /\ h[s].step = "hello" /\ c.noiseSession = s /\ IsOpen(w)
      /\ next = "agree" => h[s].resume
      /\ g = Stepped(h, s, next)
      /\ comms' = c /\ ws' = w /\ lapses' = l
  BY DEF ServerHello, Stepped
<1>2. /\ SocketsOK(w, g)
      /\ \A r \in Sockets : /\ g[r].resume = h[r].resume
                            /\ g[r].step = IF r = s THEN next ELSE h[r].step
  <2> HIDE DEF c, w, h, l, g
  <2>1. next \in {"finish", "agree", "over"} /\ h[s].step # "none"
    BY <1>1
  <2>2. SocketsOK(w, Stepped(h, s, next))
    BY <1>0, <2>1, StepFields
  <2> QED BY <1>0, <1>1, <2>1, <2>2, StepFields
<1> HIDE DEF c, w, h, l, g
<1>3. c.connectionGeneration = s /\ w.socket = s /\ s # None
  BY <1>0, <1>1 DEF Paired, Sockets, None
<1>4. Shakes(c, g) /\ Shakes(c, h) /\ ~Closing(w)
  <2>1. Shakes(c, g) /\ Shakes(c, h)
    BY <1>1, <1>2, <1>3 DEF Shakes
  <2> QED BY <1>0, <2>1 DEF Paired
<1>5. Paired(c, w, g)
  BY <1>0, <1>1, <1>2, <1>3, <1>4 DEF Paired
<1>6. Served(c, w, g) /\ Retried(c, w, g, l)
  BY <1>2, <1>3 DEF Served, Retried
<1>7. Resumes(c, w, g)
  BY <1>0, <1>2, <1>3, <1>4 DEF Resumes
<1>8. Over(c, g, l)
  <2>1. c.preventRetry => Missed(l)
    BY <1>0, <1>1 DEF StopsAll
  <2> QED BY <1>0, <2>1 DEF Over
<1>9. CommsInv(c, w, g, l)
  BY <1>0, <1>2, <1>5, <1>6, <1>7, <1>8 DEF CommsInv, Steady
<1> QED BY <1>1, <1>9 DEF IInv, c, w, g, l

\* The handshake of a session that was replaced ends without consequence.
LEMMA ReplacedEnds ==
  ASSUME IInv, NEW s \in Sockets, shake[s].step \in {"hello", "finish", "agree"}, ~IsCurrent(s)
  PROVE  CommsInv(comms, ws, Stepped(shake, s, "over"), lapses)
<1> DEFINE c == comms
           w == ws
           h == shake
           l == lapses
           g == Stepped(h, s, "over")
<1>0. /\ c \in CommsType /\ LapsesOK(l) /\ SocketsOK(w, h)
      /\ Begun(c, w) /\ Paired(c, w, h) /\ Ended(c, w) /\ StopsAll(c, w, l)
      /\ Served(c, w, h) /\ Undiminished(c, w) /\ Resumes(c, w, h) /\ Over(c, h, l)
      /\ Retried(c, w, h, l)
  BY DEF IInv, CommsInv, Steady
<1>1. h[s].step \in {"hello", "finish", "agree"} /\ c.connectionGeneration # s
  BY DEF IsCurrent
<1>2. /\ SocketsOK(w, g)
      /\ \A r \in Sockets : /\ g[r].resume = h[r].resume
                            /\ g[r].step = IF r = s THEN "over" ELSE h[r].step
  <2> HIDE DEF c, w, h, l
  <2>1. h[s].step # "none"
    BY <1>1
  <2>2. SocketsOK(w, g)
    BY <1>0, <2>1, StepFields
  <2> QED BY <1>0, <2>1, <2>2, StepFields
<1> HIDE DEF c, w, h, l, g
<1>3. c.connectionGeneration # None =>
        /\ c.connectionGeneration \in Sockets
        /\ g[c.connectionGeneration].step = h[c.connectionGeneration].step
        /\ g[c.connectionGeneration].resume = h[c.connectionGeneration].resume
  BY <1>0, <1>1, <1>2 DEF CommsType
<1>4. /\ Shakes(c, g) <=> Shakes(c, h)
      /\ Shakes(c, h) => c.connectionGeneration # None
  BY <1>3 DEF Shakes
<1>5. Paired(c, w, g)
  BY <1>0, <1>2, <1>3, <1>4 DEF Paired
<1>6. Served(c, w, g)
  <2>1. IsOpen(w) => w.socket # s /\ w.socket \in Sockets
    BY <1>0, <1>1 DEF Paired, IsOpen, SocketsOK, SocketType
  <2> QED BY <1>0, <1>2, <2>1 DEF Served
<1>7. Resumes(c, w, g)
  BY <1>0, <1>3, <1>4 DEF Resumes
<1>8. Over(c, g, l) /\ Retried(c, w, g, l)
  BY <1>0, <1>3, <1>4 DEF Over, Retried
<1>9. CommsInv(c, w, g, l)
  BY <1>0, <1>2, <1>5, <1>6, <1>7, <1>8 DEF CommsInv, Steady
<1> QED BY <1>9 DEF c, w, h, g, l

\* A failed handshake closes the socket; the retry is left to its close, or is
\* pending already.
LEMMA HandshakeFailsHolds ==
  ASSUME IInv, NEW s \in Sockets, HandshakeFails(s)
  PROVE  IInv'
<1> DEFINE c == comms
           w == ws
           h == shake
           l == lapses
           d == comms'
           n == ws'
           g == shake'
<1>0. /\ c \in CommsType /\ LapsesOK(l) /\ SocketsOK(w, h)
      /\ Begun(c, w) /\ Paired(c, w, h) /\ Ended(c, w) /\ StopsAll(c, w, l)
      /\ Served(c, w, h) /\ Undiminished(c, w) /\ Resumes(c, w, h) /\ Over(c, h, l)
      /\ Retried(c, w, h, l)
  BY DEF IInv, CommsInv, Steady
<1>1. /\ h[s].step \in {"hello", "finish", "agree"} /\ g = Stepped(h, s, "over") /\ lapses' = l
      /\ IsCurrent(s) =>
           /\ d = [c EXCEPT !.resumeHandshakeFailures =
                              IF h[s].resume THEN c.resumeHandshakeFailures + 1
                                             ELSE c.resumeHandshakeFailures,
                            !.noiseSession = None, !.connected = FALSE]
           /\ n = Close(w, "other")
      /\ ~IsCurrent(s) => d = c /\ n = w
  BY <1>0 DEF HandshakeFails, Stepped, CommsType
<1>2. CASE ~IsCurrent(s)
  BY <1>1, <1>2, ReplacedEnds DEF IInv
<1>3. CASE IsCurrent(s)
  <2>1. c.connectionGeneration = s /\ s # None
    BY <1>3 DEF IsCurrent, Sockets, None
  <2> HIDE DEF c, w, h, l, d, n, g
  <2>2. Shakes(c, h) /\ ~Closing(w)
    <3>1. Shakes(c, h)
      BY <1>1, <2>1 DEF Shakes
    <3> QED BY <1>0, <3>1 DEF Paired
  <2>3. c.resumeHandshakeFailures = IF h[s].resume THEN 0 ELSE 1
    BY <1>0, <2>1, <2>2 DEF Paired
  <2>4. /\ d \in CommsType /\ d.resumeHandshakeFailures = 1
        /\ d.noiseSession = None /\ ~d.connected
        /\ d.started = c.started
        /\ d.handlingRequests = c.handlingRequests /\ d.preventRetry = c.preventRetry
        /\ d.resumeInFlight = c.resumeInFlight /\ d.reconnectTimer = c.reconnectTimer
        /\ d.reconnectAttempts = c.reconnectAttempts
        /\ d.serverRestartHold = c.serverRestartHold /\ d.restart = c.restart
        /\ d.connectionGeneration = s /\ d.waiter = c.waiter
    <3> DEFINE fails == IF h[s].resume THEN c.resumeHandshakeFailures + 1
                                       ELSE c.resumeHandshakeFailures
    <3>1. d = [c EXCEPT !.resumeHandshakeFailures = fails, !.noiseSession = None,
                        !.connected = FALSE]
      BY <1>1, <1>3
    <3>2. fails = 1
      BY <2>3
    <3> HIDE DEF fails
    <3>3. 1 \in 0..1
      OBVIOUS
    <3>4. d \in CommsType /\ d.resumeHandshakeFailures = fails
      BY <1>0, <3>1, <3>2, <3>3 DEF CommsType
    <3>5. /\ d.noiseSession = None /\ ~d.connected
          /\ d.started = c.started
          /\ d.handlingRequests = c.handlingRequests /\ d.preventRetry = c.preventRetry
          /\ d.resumeInFlight = c.resumeInFlight /\ d.reconnectTimer = c.reconnectTimer
          /\ d.reconnectAttempts = c.reconnectAttempts
          /\ d.serverRestartHold = c.serverRestartHold /\ d.restart = c.restart
          /\ d.connectionGeneration = c.connectionGeneration /\ d.waiter = c.waiter
      BY <1>0, <3>1 DEF CommsType
    <3> QED BY <2>1, <3>2, <3>4, <3>5
  <2>5. /\ h[s].step # "none" /\ n = Close(w, "other")
    BY <1>1, <1>3
  <2>6. SocketsOK(w, g)
    BY <1>0, <1>1, <2>5, StepFields
  <2>7. \A r \in Sockets : /\ g[r].resume = h[r].resume
                           /\ g[r].step = IF r = s THEN "over" ELSE h[r].step
    BY <1>0, <1>1, <2>5, <2>6, StepFields
  <2>8. SocketsOK(n, g) /\ ~IsOpen(n)
    BY <2>5, <2>6, CloseKeepsSockets
  <2>9. /\ n.socket = w.socket /\ n.settled = w.settled
        /\ n.created = w.created /\ n.loading = w.loading
        /\ Awaited(w) =>
             /\ n.connectingSockets = w.connectingSockets
             /\ n.closeWaiters = w.closeWaiters \cup {<<w.socket, "other">>}
             /\ \A r \in Sockets : n.raw[r] = IF r = w.socket THEN "closing" ELSE w.raw[r]
        /\ ~Awaited(w) =>
             /\ n.connectingSockets = {}
             /\ n.closeWaiters = w.closeWaiters
             /\ \A r \in Sockets : n.raw[r] = IF r \in w.connectingSockets THEN "closing"
                                              ELSE w.raw[r]
    BY <1>0, <2>5, ClosedFields DEF SocketsOK
  <2>10. ~Shakes(d, g)
    BY <2>4, <2>7 DEF Shakes
  <2>11. Awaited(w) => w.socket \in Sockets /\ w.socket \in w.settled
    BY <1>0, CommsAssumption
    DEF Awaited, SocketsOK, SocketType, OneInUse, Numbered, Raced, Sockets, CommsAssumption
  \* What was being connected is being aborted, if anything.
  <2>12. \A r \in Sockets : Aborting(n, r) \/ r \in n.connectingSockets
                            => Aborting(w, r) \/ r \in w.connectingSockets
    BY <2>9, <2>11 DEF Aborting
  <2>13. Begun(d, n)
    <3>1. w.created # 0
      BY <1>0, <2>1 DEF Begun
    <3> QED BY <1>0, <2>4, <2>9, <3>1 DEF Begun
  <2>14. Paired(d, n, g)
    <3>1. \A r \in Sockets : g[r].step # "hello"
      <4>1. \A r \in Sockets : h[r].step = "hello" => c.noiseSession = r
        BY <1>0 DEF Paired
      <4>2. c.noiseSession # None => c.noiseSession = s
        BY <1>0, <2>1 DEF Paired
      <4>3. \A r \in Sockets : r # None
        BY DEF Sockets, None
      <4> QED BY <2>7, <4>1, <4>2, <4>3
    <3>2. \A r \in Sockets : g[r].step = "agree" => g[r].resume
      BY <1>0, <2>7 DEF Paired
    <3>3. g[s].step # "none"
      BY <2>7
    <3> QED BY <2>4, <2>8, <2>10, <3>1, <3>2, <3>3 DEF Paired
  <2>15. Ended(d, n)
    BY <1>0, <2>4 DEF Ended
  <2>16. StopsAll(d, n, l)
    BY <1>0, <2>4, <2>8, <2>9 DEF StopsAll, IsConnecting
  <2>17. Served(d, n, g) /\ Undiminished(d, n) /\ Over(d, g, l)
    BY <2>4, <2>8, <2>10 DEF Served, Undiminished, Over
  <2>18. Resumes(d, n, g)
    <3> SUFFICES ASSUME d.started PROVE Resumes(d, n, g)
      BY DEF Resumes
    <3>1. \A r : <<r, "resume">> # <<w.socket, "other">>
      OBVIOUS
    <3>2. \A r \in Sockets : <<r, "resume">> \in n.closeWaiters => <<r, "resume">> \in w.closeWaiters
      BY <2>9, <3>1
    <3>3. \A r, q \in Sockets : <<r, "resume">> \in n.closeWaiters =>
            d.resumeInFlight /\ (<<q, "resume">> \in n.closeWaiters => q = r)
      BY <1>0, <2>4, <3>2 DEF Resumes
    <3>4. d.resumeInFlight /\ d.reconnectTimer => /\ ~IsConnecting(n) /\ ~IsOpen(n)
                                                  /\ \A r \in Sockets : ~Aborting(n, r)
      <4>1. d.resumeInFlight /\ d.reconnectTimer =>
              \A r \in Sockets : ~(Aborting(w, r) \/ r \in w.connectingSockets)
        BY <1>0, <2>4 DEF Resumes, IsConnecting
      <4>2. d.resumeInFlight /\ d.reconnectTimer =>
              \A r \in Sockets : ~(Aborting(n, r) \/ r \in n.connectingSockets)
        BY <2>12, <4>1
      <4>3. n.connectingSockets \subseteq Sockets
        BY <2>8 DEF SocketsOK, SocketType
      <4> QED BY <2>8, <4>2, <4>3 DEF IsConnecting
    <3>5. d.resumeInFlight => \A r, q \in Sockets :
            /\ Aborting(n, r) \/ r \in n.connectingSockets
            /\ Aborting(n, q) \/ q \in n.connectingSockets
            => q \in Race(r)
      BY <1>0, <2>4, <2>12 DEF Resumes
    <3> QED BY <2>4, <2>10, <3>3, <3>4, <3>5 DEF Resumes
  <2>19. Retried(d, n, g, l)
    <3> SUFFICES ASSUME d.started, n.socket = None
                 PROVE  Pending(d, n) \/ d.restart \/ d.resumeInFlight \/ n.loading
      BY DEF Retried
    <3>1. Pending(c, w) \/ c.restart \/ c.resumeInFlight \/ w.loading
      BY <1>0, <2>2, <2>4, <2>9 DEF Retried
    <3>2. ASSUME Pending(c, w) PROVE Pending(d, n)
      <4>1. ~Awaited(w)
        BY <2>9 DEF Awaited
      <4>2. \A r \in Sockets : Aborting(w, r) => Aborting(n, r)
        BY <2>9, <4>1 DEF Aborting
      <4>3. \A r \in w.connectingSockets : r \in Sockets /\ Aborting(n, r)
        <5>1. \A r \in w.connectingSockets : r \in Sockets /\ r \notin w.settled
          BY <1>0 DEF SocketsOK, SocketType, Raced
        <5> QED BY <2>9, <4>1, <5>1 DEF Aborting
      <4> QED BY <2>4, <3>2, <4>2, <4>3 DEF Pending, IsConnecting
    <3> QED BY <2>4, <2>9, <3>1, <3>2
  <2>20. CommsInv(d, n, g, l)
    BY <1>0, <2>4, <2>8, <2>13, <2>14, <2>15, <2>16, <2>17, <2>18, <2>19 DEF CommsInv, Steady
  <2> QED BY <1>1, <2>20 DEF IInv, d, n, g, l
<1> QED BY <1>2, <1>3

\* The handshake that ends makes comms connected: its socket is open, or was
\* lost while the last keys were agreed on.
LEMMA HandshakeSucceedsHolds ==
  ASSUME IInv, NEW s \in Sockets, HandshakeSucceeds(s)
  PROVE  IInv'
<1> DEFINE c == comms
           w == ws
           h == shake
           l == lapses
           d == comms'
           g == shake'
<1>0. /\ c \in CommsType /\ LapsesOK(l) /\ SocketsOK(w, h)
      /\ Begun(c, w) /\ Paired(c, w, h) /\ Ended(c, w) /\ StopsAll(c, w, l)
      /\ Served(c, w, h) /\ Undiminished(c, w) /\ Resumes(c, w, h) /\ Over(c, h, l)
      /\ Retried(c, w, h, l)
  BY DEF IInv, CommsInv, Steady
<1>1. /\ h[s].step = "agree" \/ (h[s].step = "finish" /\ IsCurrent(s) /\ IsOpen(w))
      /\ g = Stepped(h, s, "over") /\ lapses' = l /\ ws' = w
      /\ IsCurrent(s) => d = Connected(c)
      /\ ~IsCurrent(s) => d = c
  BY <1>0 DEF HandshakeSucceeds, Finishable, Stepped
<1>2. CASE ~IsCurrent(s)
  BY <1>1, <1>2, ReplacedEnds DEF IInv
<1>3. CASE IsCurrent(s)
  <2>1. c.connectionGeneration = s /\ s # None
    BY <1>3 DEF IsCurrent, Sockets, None
  <2> HIDE DEF c, w, h, l, d, g
  <2>2. Shakes(c, h) /\ ~Closing(w) /\ w.created # 0 /\ c.waiter # "none"
    <3>1. Shakes(c, h)
      BY <1>1, <2>1 DEF Shakes
    <3>2. w.created # 0
      BY <1>0, <2>1 DEF Begun
    <3> QED BY <1>0, <3>1, <3>2 DEF Paired, Begun
  <2>3. /\ d \in CommsType /\ d.resumeHandshakeFailures = 0
        /\ d.noiseSession = c.noiseSession /\ d.connected
        /\ d.started = c.started
        /\ d.handlingRequests = (c.handlingRequests \/ c.waiter = "waiting")
        /\ d.preventRetry = c.preventRetry
        /\ d.resumeInFlight = c.resumeInFlight /\ d.reconnectTimer = c.reconnectTimer
        /\ d.reconnectAttempts = 0
        /\ d.serverRestartHold = c.serverRestartHold /\ d.restart = c.restart
        /\ d.connectionGeneration = s
        /\ d.waiter = IF c.waiter = "waiting" THEN "adopted" ELSE c.waiter
    <3> DEFINE handling == c.handlingRequests \/ c.waiter = "waiting"
               waiter == IF c.waiter = "waiting" THEN "adopted" ELSE c.waiter
    <3>1. d = [c EXCEPT !.resumeHandshakeFailures = 0, !.connected = TRUE,
                        !.reconnectAttempts = 0, !.handlingRequests = handling,
                        !.waiter = waiter]
      BY <1>0, <1>1, <1>3 DEF Connected, CommsType
    <3>2. /\ handling \in BOOLEAN /\ waiter \in {"none", "waiting", "adopted", "rejected"}
          /\ 0 \in 0..(MaxReconnectAttempts + 1) /\ 0 \in 0..1
      BY <1>0, CommsAssumption DEF CommsType, CommsAssumption
    <3> HIDE DEF handling, waiter
    <3>3. /\ d \in CommsType /\ d.resumeHandshakeFailures = 0
          /\ d.noiseSession = c.noiseSession /\ d.connected
          /\ d.started = c.started /\ d.handlingRequests = handling
          /\ d.preventRetry = c.preventRetry
          /\ d.resumeInFlight = c.resumeInFlight /\ d.reconnectTimer = c.reconnectTimer
          /\ d.reconnectAttempts = 0
          /\ d.serverRestartHold = c.serverRestartHold /\ d.restart = c.restart
          /\ d.connectionGeneration = c.connectionGeneration /\ d.waiter = waiter
      BY <1>0, <3>1, <3>2 DEF CommsType
    <3> QED BY <2>1, <3>3 DEF handling, waiter
  <2>4. h[s].step # "none"
    BY <1>1
  <2>5. SocketsOK(w, g)
    BY <1>0, <1>1, <2>4, StepFields
  <2>6. \A r \in Sockets : /\ g[r].resume = h[r].resume
                           /\ g[r].step = IF r = s THEN "over" ELSE h[r].step
    BY <1>0, <1>1, <2>4, <2>5, StepFields
  <2>7. ~Shakes(d, g)
    BY <2>3, <2>6 DEF Shakes
  <2>8. Begun(d, w)
    BY <1>0, <2>2, <2>3 DEF Begun
  <2>9. Paired(d, w, g)
    <3>1. \A r \in Sockets : /\ g[r].step = "hello" => d.noiseSession = r
                             /\ g[r].step = "agree" => g[r].resume
      BY <1>0, <2>3, <2>6 DEF Paired
    <3>2. g[s].step # "none"
      BY <2>6
    <3>3. /\ d.noiseSession # None <=> IsOpen(w)
          /\ IsOpen(w) => d.noiseSession = w.socket /\ d.connectionGeneration = w.socket
      BY <1>0, <2>1, <2>3 DEF Paired
    <3> QED BY <2>3, <2>7, <3>1, <3>2, <3>3 DEF Paired
  <2>10. Ended(d, w)
    <3>1. c.waiter = "waiting" => d.handlingRequests
      BY <2>3
    <3>2. d.waiter # "waiting" /\ (d.waiter = "adopted" => c.waiter \in {"waiting", "adopted"})
      BY <2>3
    <3>3. d.started => d.waiter = "adopted" /\ d.handlingRequests /\ ~d.preventRetry
      <4>1. c.started => c.waiter \in {"waiting", "adopted"} /\ ~c.preventRetry
        BY <1>0 DEF Ended
      <4>2. c.started /\ c.waiter = "adopted" => c.handlingRequests
        BY <1>0 DEF Ended
      <4> QED BY <2>3, <3>1, <4>1, <4>2
    <3>4. ~d.started => d.preventRetry
      BY <1>0, <2>2, <2>3 DEF Ended
    <3> QED BY <2>2, <2>3, <3>2, <3>3, <3>4, CommsAssumption DEF Ended, CommsAssumption
  <2>11. StopsAll(d, w, l)
    BY <1>0, <2>3 DEF StopsAll
  <2>12. Served(d, w, g) /\ Undiminished(d, w)
    BY <2>3 DEF Served, Undiminished
  <2>13. Resumes(d, w, g)
    <3> SUFFICES ASSUME d.started PROVE Resumes(d, w, g)
      BY DEF Resumes
    <3>1. ASSUME c.resumeInFlight PROVE ~Pending(c, w)
      <4>1. ~h[s].resume
        BY <1>0, <2>1, <2>2, <2>3, <3>1 DEF Resumes
      <4>2. IsOpen(w)
        BY <1>0, <1>1, <4>1 DEF Paired
      <4>3. ~c.reconnectTimer
        BY <1>0, <2>3, <3>1, <4>2 DEF Resumes
      <4> QED BY <1>0, <4>2, <4>3 DEF Pending, SocketsOK, OneInUse, IsOpen
    <3>2. Pending(d, w) => Pending(c, w)
      BY <2>3 DEF Pending
    <3> QED BY <1>0, <2>2, <2>3, <2>7, <3>1, <3>2 DEF Resumes
  <2>14. Over(d, g, l)
    <3> SUFFICES ASSUME MaxReconnectAttempts > 0, ~Missed(l) PROVE d.started
      BY <2>7 DEF Over
    <3>1. ~c.started => c.preventRetry
      BY <1>0, <2>2 DEF Ended
    <3>2. c.preventRetry => ~IsOpen(w) /\ h[s].step # "agree"
      BY <1>0, <2>1, <2>2 DEF StopsAll, Over
    <3> QED BY <1>1, <2>3, <3>1, <3>2
  <2>15. Retried(d, w, g, l)
    <3>1. Pending(c, w) => Pending(d, w)
      BY <2>3 DEF Pending
    <3> QED BY <1>0, <2>2, <2>3, <3>1 DEF Retried
  <2>16. CommsInv(d, w, g, l)
    BY <1>0, <2>3, <2>5, <2>8, <2>9, <2>10, <2>11, <2>12, <2>13, <2>14, <2>15 DEF CommsInv, Steady
  <2> QED BY <1>1, <2>16 DEF IInv, d, w, g, l
<1> QED BY <1>2, <1>3

-----------------------------------------------------------------------------
(* The invariant of every behaviour, and what it says. *)

LEMMA StepHolds ==
  ASSUME IInv, [Next]_vars
  PROVE  IInv'
<1>1. CASE UNCHANGED vars
  BY <1>1 DEF IInv, vars
<1>2. ASSUME NEW agent \in BOOLEAN, StartComms(agent) PROVE IInv'
  BY <1>2, StartCommsHolds
<1>3. CASE AgentLoaded
  BY <1>3, AgentLoadedHolds
<1>4. CASE StopComms
  BY <1>4, StopCommsHolds
<1>5. CASE CloseSocketAndResume
  BY <1>5, CloseSocketAndResumeHolds
<1>6. CASE HoldForServerRestart
  BY <1>6, HoldForServerRestartHolds
<1>7. CASE ReconnectTimerFires
  BY <1>7, ReconnectTimerHolds
<1>8. ASSUME NEW s \in Sockets, SocketOpens(s) PROVE IInv'
  BY <1>8, SocketOpensHolds
<1>9. ASSUME NEW s \in Sockets, SocketCloses(s) PROVE IInv'
  BY <1>9, SocketClosesHolds
<1>10. ASSUME NEW s \in Sockets, NEW state \in {"closing", "closed"}, ConnectFails(s, state)
       PROVE  IInv'
  BY <1>10, ConnectFailsHolds
<1>11. ASSUME NEW s \in Sockets, NEW who \in {"resume", "other"}, CloseTimesOut(s, who)
       PROVE  IInv'
  BY <1>11, CloseTimesOutHolds
<1>12. ASSUME NEW s \in Sockets, NEW next \in {"finish", "agree"}, ServerHello(s, next)
       PROVE  IInv'
  BY <1>12, ServerHelloHolds
<1>13. ASSUME NEW s \in Sockets, HandshakeFails(s) PROVE IInv'
  BY <1>13, HandshakeFailsHolds
<1>14. ASSUME NEW s \in Sockets, HandshakeSucceeds(s) PROVE IInv'
  BY <1>14, HandshakeSucceedsHolds
<1> QED
  BY <1>1, <1>2, <1>3, <1>4, <1>5, <1>6, <1>7, <1>8, <1>9, <1>10, <1>11, <1>12, <1>13, <1>14
  DEF Next

LEMMA Invariance == Spec => []IInv
<1>1. Init => IInv
  BY InitHolds
<1>2. IInv /\ [Next]_vars => IInv'
  BY StepHolds
<1> QED BY <1>1, <1>2, PTL DEF Spec

\* The fields of WaComms and WaWebSocket keep their types: in particular the
\* reconnect attempts never pass the limit by more than the refused one.
THEOREM CommsTyping == Spec => []TypeOK
<1>1. IInv => TypeOK
  BY DEF IInv, CommsInv, Steady, SocketsOK, LapsesOK, TypeOK
<1> QED BY <1>1, Invariance, PTL

\* However many sockets are raced, resumed and given up: an open raw socket is
\* the one in use, so the account never has two connections.
THEOREM OneConnectionOpen == Spec => []NoOrphan
<1>1. IInv => NoOrphan
  BY DEF IInv, CommsInv, Steady, SocketsOK, OneInUse, NoOrphan
<1> QED BY <1>1, Invariance, PTL

\* Frames are encrypted for the socket they are sent on: the noise session is
\* that of the socket in use.
THEOREM SessionStaysOnSocket == Spec => []SessionOnItsSocket
<1>1. IInv => SessionOnItsSocket
  BY DEF IInv, CommsInv, Steady, Paired, SessionOnItsSocket
<1> QED BY <1>1, Invariance, PTL

\* A stop that misses no open() leaves no socket open, and neither does giving
\* up, whatever opens, closes and handshakes are under way.
THEOREM StopIsEffective == Spec => []StoppedIsDown
<1>1. IInv => StoppedIsDown
  BY DEF IInv, CommsInv, Steady, StopsAll, Missed, StoppedIsDown
<1> QED BY <1>1, Invariance, PTL

\* What is pending is under way, and so is a handshake or a close of the socket.
LEMMA PendingIsUnderWay ==
  ASSUME IInv
  PROVE  /\ Pending(comms, ws) \/ comms.restart \/ comms.resumeInFlight \/ ws.loading => UnderWay
         /\ ws.socket # None =>
              \/ UnderWay
              \/ /\ IsOpen(ws) /\ Live(comms.noiseSession)
                 /\ shake[ws.socket].step \notin {"hello", "finish", "agree"}
<1>0. /\ comms \in CommsType /\ SocketsOK(ws, shake) /\ Paired(comms, ws, shake)
  BY DEF IInv, CommsInv, Steady
<1>1. Pending(comms, ws) \/ comms.restart \/ comms.resumeInFlight \/ ws.loading => UnderWay
  BY DEF Pending, Aborting, UnderWay
<1>2. ASSUME ws.socket # None, ~UnderWay
      PROVE  /\ IsOpen(ws) /\ Live(comms.noiseSession)
             /\ shake[ws.socket].step \notin {"hello", "finish", "agree"}
  <2>1. ws.socket \in Sockets
    BY <1>0, <1>2 DEF SocketsOK, SocketType
  <2>2. ws.raw[ws.socket] = "open" /\ ~ws.socketClosing /\ shake[ws.socket].step # "none"
    <3>1. ws.raw[ws.socket] \in {"open", "closing"} /\ shake[ws.socket].step # "none"
          /\ (ws.socketClosing <=> ws.raw[ws.socket] = "closing")
      BY <1>0, <1>2 DEF SocketsOK, OneInUse
    <3>2. ws.raw[ws.socket] # "closing"
      BY <1>2, <2>1 DEF UnderWay
    <3> QED BY <3>1, <3>2
  <2>3. IsOpen(ws)
    BY <1>2, <2>2 DEF IsOpen
  <2>4. comms.noiseSession = ws.socket /\ comms.connectionGeneration = ws.socket
    BY <1>0, <2>3 DEF Paired
  <2>5. shake[ws.socket].step \notin {"hello", "finish", "agree"}
    BY <1>2, <2>1, <2>4 DEF UnderWay, IsCurrent
  <2>6. shake[ws.socket].step = "over"
    <3>1. shake[ws.socket] \in
            [step : {"none", "hello", "finish", "agree", "over"}, resume : BOOLEAN]
      BY <1>0, <2>1 DEF SocketsOK, ShakeType
    <3> QED BY <2>2, <2>5, <3>1
  <2>7. Live(comms.noiseSession)
    BY <1>2, <2>2, <2>4, <2>6 DEF Live
  <2> QED BY <2>3, <2>5, <2>7
<1> QED BY <1>1, <1>2

\* The retry is never lost between onSocketClosed, openSocket, a resume and a
\* failed handshake, each of which leaves it to another one: started comms have
\* a live connection or an attempt at one coming, unless a close timed out.
THEOREM RetryIsNotLost == Spec => []StrandedOnlyByTimeout
<1>1. IInv => StrandedOnlyByTimeout
  <2> SUFFICES ASSUME IInv, comms.started, "close timed out" \notin lapses PROVE Serving
    BY DEF StrandedOnlyByTimeout
  <2>0. /\ Ended(comms, ws) /\ Served(comms, ws, shake) /\ Retried(comms, ws, shake, lapses)
    BY DEF IInv, CommsInv, Steady
  <2>1. CASE ws.socket = None
    <3>1. Pending(comms, ws) \/ comms.restart \/ comms.resumeInFlight \/ ws.loading
      BY <2>0, <2>1 DEF Retried, TimedOut
    <3> QED BY <3>1, PendingIsUnderWay DEF Serving
  <2>2. CASE ws.socket # None
    <3> SUFFICES ASSUME ~UnderWay
                 PROVE  comms.connected /\ comms.handlingRequests /\ Live(comms.noiseSession)
      BY DEF Serving
    <3>1. /\ IsOpen(ws) /\ Live(comms.noiseSession)
          /\ shake[ws.socket].step \notin {"hello", "finish", "agree"}
      BY <2>2, PendingIsUnderWay
    <3>2. comms.connected
      BY <2>0, <3>1 DEF Served
    <3> QED BY <2>0, <3>1, <3>2 DEF Ended
  <2> QED BY <2>1, <2>2
<1> QED BY <1>1, Invariance, PTL

\* Who asks whether comms are connected is not told so of ones that are stopped
\* or gave up, nor of ones with nothing coming: with any limit that allows a
\* reconnect.  (With a limit of none, comms that came up as they lost their
\* socket give up and go on saying that they are connected.)
THEOREM ConnectedIsTrue ==
  ASSUME MaxReconnectAttempts > 0
  PROVE  Spec => []ConnectedOrRetrying
<1>1. IInv => ConnectedOrRetrying
  <2> SUFFICES ASSUME IInv, comms.connected, "stop missed an open" \notin lapses
               PROVE  Live(comms.noiseSession) \/ UnderWay
    BY DEF ConnectedOrRetrying
  <2>0. /\ Over(comms, shake, lapses) /\ Retried(comms, ws, shake, lapses)
    BY DEF IInv, CommsInv, Steady
  <2>1. comms.started
    BY <2>0 DEF Over, Missed
  <2>2. CASE ws.socket = None
    BY <2>0, <2>1, <2>2, PendingIsUnderWay DEF Retried
  <2>3. CASE ws.socket # None
    BY <2>3, PendingIsUnderWay
  <2> QED BY <2>2, <2>3
<1> QED BY <1>1, Invariance, PTL

-----------------------------------------------------------------------------
(* What the user of a WaComms sees. *)

Promise(phase, waiter, hold) == [phase |-> phase, waiter |-> waiter, hold |-> hold]

Phase(c) == IF c.waiter = "none" THEN "new"
            ELSE IF ~c.started THEN "gone"
            ELSE IF c.connected THEN "up" ELSE "opening"
Answer(c) == IF c.waiter = "adopted" THEN "resolved" ELSE c.waiter
Shown(c) == Promise(Phase(c), Answer(c), c.serverRestartHold)

\* A step of the contract, or none.
Promised(s, t) == t = s \/ t \in AsPromised!OnItsOwn(s) \cup AsPromised!Asked(s)

\* The contract's operators at a phase, a waiter and a hold.
LEMMA PromiseFields ==
  \A p, v, b : LET s == Promise(p, v, b) IN s.phase = p /\ s.waiter = v /\ s.hold = b
BY DEF Promise

LEMMA ContractCalls ==
  \A p, v, b :
    /\ AsPromised!Started(Promise(p, v, b)) = Promise("opening", "waiting", b)
    /\ AsPromised!Held(Promise(p, v, b)) = Promise(p, v, TRUE)
<1> TAKE p, v, b
<1> DEFINE s == Promise(p, v, b)
<1>1. AsPromised!Started(s) = [[s EXCEPT !.phase = "opening"] EXCEPT !.waiter = "waiting"]
  BY DEF AsPromised!Started
<1>2. /\ [s EXCEPT !.phase = "opening"] = Promise("opening", v, b)
      /\ [Promise("opening", v, b) EXCEPT !.waiter = "waiting"] = Promise("opening", "waiting", b)
  BY DEF Promise
<1>3. AsPromised!Held(s) = Promise(p, v, TRUE)
  <2>1. \A h : [s EXCEPT !.hold = h] = Promise(p, v, h)
    BY DEF Promise
  <2> HIDE DEF s
  <2> QED BY <2>1 DEF AsPromised!Held
<1> QED BY <1>1, <1>2, <1>3

LEMMA ContractStop ==
  \A p, v, b : p # "new" =>
    AsPromised!Stopped(Promise(p, v, b)) = Promise("gone", Rejected(v), FALSE)
<1> TAKE p, v, b
<1> DEFINE s == Promise(p, v, b)
           r == Rejected(v)
<1>1. s.phase = p /\ s.waiter = v
  BY DEF Promise
<1>2. AsPromised!Failing(v) = r
  BY DEF AsPromised!Failing, Rejected
<1> HIDE DEF s, r
<1>3. p # "new" => AsPromised!Stopped(s) =
        [[[s EXCEPT !.phase = "gone"] EXCEPT !.waiter = r] EXCEPT !.hold = FALSE]
  <2>1. p # "new" => AsPromised!Stopped(s) =
          [s EXCEPT !.phase = "gone", !.waiter = AsPromised!Failing(s.waiter), !.hold = FALSE]
    BY <1>1 DEF AsPromised!Stopped
  <2> QED BY <1>1, <1>2, <2>1
<1>4. /\ [s EXCEPT !.phase = "gone"] = Promise("gone", v, b)
      /\ [Promise("gone", v, b) EXCEPT !.waiter = r] = Promise("gone", r, b)
      /\ \A h : [Promise("gone", r, b) EXCEPT !.hold = h] = Promise("gone", r, h)
  BY DEF Promise, s
<1> QED BY <1>3, <1>4 DEF s, r

LEMMA ContractClose ==
  \A p, v, b : AsPromised!Closed(Promise(p, v, b)) = Promise("opening", v, FALSE)
<1> TAKE p, v, b
<1> DEFINE s == Promise(p, v, b)
<1>1. AsPromised!Closed(s) = [[s EXCEPT !.phase = "opening"] EXCEPT !.hold = FALSE]
  BY DEF AsPromised!Closed
<1>2. /\ [s EXCEPT !.phase = "opening"] = Promise("opening", v, b)
      /\ \A h : [Promise("opening", v, b) EXCEPT !.hold = h] = Promise("opening", v, h)
  BY DEF Promise
<1> QED BY <1>1, <1>2

LEMMA ContractChanges ==
  \A p, v, b :
    /\ AsPromised!CameUp(Promise(p, v, b)) =
         Promise("up", IF v = "waiting" THEN "resolved" ELSE v, b)
    /\ AsPromised!Faltered(Promise(p, v, b)) = Promise("opening", v, b)
    /\ AsPromised!GaveUp(Promise(p, v, b)) = Promise("gone", Rejected(v), b)
<1> TAKE p, v, b
<1> DEFINE s == Promise(p, v, b)
           r == Rejected(v)
           u == IF v = "waiting" THEN "resolved" ELSE v
<1>1. s.phase = p /\ s.waiter = v
  BY DEF Promise
<1>2. AsPromised!Failing(v) = r
  BY DEF AsPromised!Failing, Rejected
<1>3. AsPromised!Faltered(s) = Promise("opening", v, b)
  BY DEF AsPromised!Faltered, Promise
<1> HIDE DEF s, r
<1>4. AsPromised!CameUp(s) = [[s EXCEPT !.phase = "up"] EXCEPT !.waiter = u]
  <2>1. AsPromised!CameUp(s) = [s EXCEPT !.phase = "up", !.waiter = IF s.waiter = "waiting"
                                                                   THEN "resolved" ELSE s.waiter]
    BY DEF AsPromised!CameUp
  <2> QED BY <1>1, <2>1
<1>5. AsPromised!GaveUp(s) = [[s EXCEPT !.phase = "gone"] EXCEPT !.waiter = r]
  <2>1. AsPromised!GaveUp(s) =
          [s EXCEPT !.phase = "gone", !.waiter = AsPromised!Failing(s.waiter)]
    BY DEF AsPromised!GaveUp
  <2> QED BY <1>1, <1>2, <2>1
<1> HIDE DEF u
<1>6. /\ [s EXCEPT !.phase = "up"] = Promise("up", v, b)
      /\ [Promise("up", v, b) EXCEPT !.waiter = u] = Promise("up", u, b)
      /\ [s EXCEPT !.phase = "gone"] = Promise("gone", v, b)
      /\ [Promise("gone", v, b) EXCEPT !.waiter = r] = Promise("gone", r, b)
  BY DEF Promise, s
<1> QED BY <1>3, <1>4, <1>5, <1>6 DEF s, r, u

\* What the contract allows of each phase.
LEMMA ContractChoices ==
  \A s : /\ s.phase = "opening" =>
              {AsPromised!CameUp(s), AsPromised!Closed(s), AsPromised!GaveUp(s)}
                \subseteq AsPromised!OnItsOwn(s)
         /\ s.phase = "up" => {AsPromised!Faltered(s), AsPromised!Closed(s)}
                                \subseteq AsPromised!OnItsOwn(s)
         /\ s.phase = "new" => AsPromised!Asked(s) = {AsPromised!Started(s)}
         /\ s.phase = "opening" \/ s.phase = "up" =>
              AsPromised!Asked(s) = {AsPromised!Stopped(s), AsPromised!Resumed(s), AsPromised!Held(s)}
         /\ s.phase = "gone" => AsPromised!Asked(s) = {AsPromised!Stopped(s)}
<1>1. \A s : s.phase = "opening" =>
          {AsPromised!CameUp(s), AsPromised!Closed(s), AsPromised!GaveUp(s)}
            \subseteq AsPromised!OnItsOwn(s)
  BY DEF AsPromised!OnItsOwn
<1>2. \A s : s.phase = "up" => {AsPromised!Faltered(s), AsPromised!Closed(s)}
                                 \subseteq AsPromised!OnItsOwn(s)
  BY DEF AsPromised!OnItsOwn
<1>3. \A s : s.phase = "new" => AsPromised!Asked(s) = {AsPromised!Started(s)}
  BY DEF AsPromised!Asked
<1>4. \A s : s.phase = "opening" \/ s.phase = "up" =>
        AsPromised!Asked(s) = {AsPromised!Stopped(s), AsPromised!Resumed(s), AsPromised!Held(s)}
  BY DEF AsPromised!Asked
<1>5. \A s : s.phase = "gone" => AsPromised!Asked(s) = {AsPromised!Stopped(s)}
  BY DEF AsPromised!Asked
<1> QED BY <1>1, <1>2, <1>3, <1>4, <1>5

LEMMA ContractMoves ==
  ASSUME NEW v, NEW b
  PROVE  LET lost == Rejected(v)
         IN /\ Promised(Promise("new", v, b), Promise("opening", "waiting", b))
            /\ Promised(Promise("opening", v, b),
                        Promise("up", IF v = "waiting" THEN "resolved" ELSE v, b))
            /\ Promised(Promise("up", v, b), Promise("opening", v, b))
            /\ Promised(Promise("opening", v, b), Promise("gone", lost, b))
            /\ Promised(Promise("opening", v, b), Promise("opening", v, FALSE))
            /\ Promised(Promise("up", v, b), Promise("opening", v, FALSE))
            /\ Promised(Promise("opening", v, b), Promise("opening", v, TRUE))
            /\ Promised(Promise("up", v, b), Promise("up", v, TRUE))
            /\ Promised(Promise("opening", v, b), Promise("gone", lost, FALSE))
            /\ Promised(Promise("up", v, b), Promise("gone", lost, FALSE))
            /\ Promised(Promise("gone", v, b), Promise("gone", lost, FALSE))
<1> DEFINE lost == Rejected(v)
           N == Promise("new", v, b)
           O == Promise("opening", v, b)
           U == Promise("up", v, b)
           G == Promise("gone", v, b)
<1>1. /\ N.phase = "new" /\ O.phase = "opening" /\ U.phase = "up" /\ G.phase = "gone"
  BY PromiseFields
<1>2. AsPromised!Started(N) = Promise("opening", "waiting", b)
  BY ContractCalls
<1>3. /\ AsPromised!CameUp(O) = Promise("up", IF v = "waiting" THEN "resolved" ELSE v, b)
      /\ AsPromised!GaveUp(O) = Promise("gone", lost, b)
  BY ContractChanges
<1>4. AsPromised!Faltered(U) = Promise("opening", v, b)
  BY ContractChanges
<1>5. /\ AsPromised!Held(O) = Promise("opening", v, TRUE)
      /\ AsPromised!Held(U) = Promise("up", v, TRUE)
  BY ContractCalls
<1>6. /\ AsPromised!Closed(O) = Promise("opening", v, FALSE)
      /\ AsPromised!Closed(U) = Promise("opening", v, FALSE)
  BY ContractClose
<1>7. /\ AsPromised!Stopped(O) = Promise("gone", lost, FALSE)
      /\ AsPromised!Stopped(U) = Promise("gone", lost, FALSE)
      /\ AsPromised!Stopped(G) = Promise("gone", lost, FALSE)
  BY ContractStop
<1> HIDE DEF lost, N, O, U, G
<1>11. AsPromised!Started(N) \in AsPromised!Asked(N)
  BY <1>1, ContractChoices
<1>12. /\ AsPromised!CameUp(O) \in AsPromised!OnItsOwn(O)
      /\ AsPromised!Closed(O) \in AsPromised!OnItsOwn(O)
      /\ AsPromised!GaveUp(O) \in AsPromised!OnItsOwn(O)
      /\ AsPromised!Held(O) \in AsPromised!Asked(O)
      /\ AsPromised!Stopped(O) \in AsPromised!Asked(O)
  BY <1>1, ContractChoices
<1>13. /\ AsPromised!Faltered(U) \in AsPromised!OnItsOwn(U)
      /\ AsPromised!Closed(U) \in AsPromised!OnItsOwn(U)
      /\ AsPromised!Held(U) \in AsPromised!Asked(U)
      /\ AsPromised!Stopped(U) \in AsPromised!Asked(U)
  BY <1>1, ContractChoices
<1>14. AsPromised!Stopped(G) \in AsPromised!Asked(G)
  BY <1>1, ContractChoices
<1> QED BY <1>2, <1>3, <1>4, <1>5, <1>6, <1>7, <1>11, <1>12, <1>13, <1>14 DEF Promised, lost, N, O, U, G

\* What each state of a WaComms shows.
LEMMA ShownAs ==
  \A c : /\ c.waiter = "none" => Shown(c) = Promise("new", Answer(c), c.serverRestartHold)
         /\ c.waiter # "none" /\ ~c.started =>
              Shown(c) = Promise("gone", Answer(c), c.serverRestartHold)
         /\ c.waiter # "none" /\ c.started /\ c.connected =>
              Shown(c) = Promise("up", Answer(c), c.serverRestartHold)
         /\ c.waiter # "none" /\ c.started /\ ~c.connected =>
              Shown(c) = Promise("opening", Answer(c), c.serverRestartHold)
BY DEF Shown, Phase

\* The moves of a WaComms, as its fields say them: what does not show, the
\* start, the end, what takes a connection down, a hold and a success.
LEMMA Unseen ==
  \A c, d : /\ d.waiter = c.waiter /\ d.started = c.started
            /\ d.serverRestartHold = c.serverRestartHold
            /\ c.started => d.connected = c.connected
            => Shown(d) = Shown(c)
BY DEF Shown, Phase, Answer

LEMMA Starts ==
  ASSUME NEW c, NEW d, c.waiter = "none", d.waiter = "waiting", d.started, ~d.connected,
         d.serverRestartHold = c.serverRestartHold
  PROVE  Promised(Shown(c), Shown(d))
<1>1. Shown(c) = Promise("new", Answer(c), c.serverRestartHold)
  BY ShownAs
<1>2. Shown(d) = Promise("opening", "waiting", c.serverRestartHold)
  BY ShownAs DEF Answer
<1> QED BY <1>1, <1>2, ContractMoves

LEMMA Stops ==
  ASSUME NEW c, NEW d, c.waiter # "none", d.waiter = Rejected(c.waiter), ~d.started,
         d.serverRestartHold = FALSE
  PROVE  Promised(Shown(c), Shown(d))
<1>1. d.waiter # "none" /\ Answer(d) = Rejected(Answer(c))
  BY DEF Answer, Rejected
<1>2. Shown(d) = Promise("gone", Rejected(Answer(c)), FALSE)
  BY <1>1, ShownAs
<1>3. \/ Shown(c) = Promise("opening", Answer(c), c.serverRestartHold)
      \/ Shown(c) = Promise("up", Answer(c), c.serverRestartHold)
      \/ Shown(c) = Promise("gone", Answer(c), c.serverRestartHold)
  BY ShownAs
<1> QED BY <1>2, <1>3, ContractMoves

LEMMA GivesWay ==
  ASSUME NEW c, NEW d, c.waiter # "none", c.started, ~c.connected,
         d.waiter = Rejected(c.waiter), ~d.started,
         d.serverRestartHold = c.serverRestartHold
  PROVE  Promised(Shown(c), Shown(d))
<1>1. d.waiter # "none" /\ Answer(d) = Rejected(Answer(c))
  BY DEF Answer, Rejected
<1>2. Shown(d) = Promise("gone", Rejected(Answer(c)), c.serverRestartHold)
  BY <1>1, ShownAs
<1>3. Shown(c) = Promise("opening", Answer(c), c.serverRestartHold)
  BY ShownAs
<1> QED BY <1>2, <1>3, ContractMoves

LEMMA GoesDown ==
  ASSUME NEW c, NEW d, c.waiter # "none", c.started, d.waiter = c.waiter, d.started,
         ~d.connected, d.serverRestartHold \in {c.serverRestartHold, FALSE}
  PROVE  Promised(Shown(c), Shown(d))
<1>1. Answer(d) = Answer(c)
  BY DEF Answer
<1>2. \/ Shown(d) = Promise("opening", Answer(c), c.serverRestartHold)
      \/ Shown(d) = Promise("opening", Answer(c), FALSE)
  BY <1>1, ShownAs
<1>3. \/ Shown(c) = Promise("opening", Answer(c), c.serverRestartHold)
      \/ Shown(c) = Promise("up", Answer(c), c.serverRestartHold)
  BY ShownAs
<1>4. \A s : Promised(s, s)
  BY DEF Promised
<1> QED BY <1>2, <1>3, <1>4, ContractMoves

LEMMA IsHeld ==
  ASSUME NEW c, NEW d, c.waiter # "none", c.started, d.waiter = c.waiter, d.started,
         d.connected = c.connected, d.serverRestartHold = TRUE
  PROVE  Promised(Shown(c), Shown(d))
<1>1. Answer(d) = Answer(c)
  BY DEF Answer
<1>2. CASE c.connected
  <2>1. /\ Shown(c) = Promise("up", Answer(c), c.serverRestartHold)
        /\ Shown(d) = Promise("up", Answer(c), TRUE)
    BY <1>1, <1>2, ShownAs
  <2> QED BY <2>1, ContractMoves
<1>3. CASE ~c.connected
  <2>1. /\ Shown(c) = Promise("opening", Answer(c), c.serverRestartHold)
        /\ Shown(d) = Promise("opening", Answer(c), TRUE)
    BY <1>1, <1>3, ShownAs
  <2> QED BY <2>1, ContractMoves
<1> QED BY <1>2, <1>3

LEMMA ComesUp ==
  ASSUME NEW c, NEW d, c.waiter # "none", c.started, ~c.connected,
         d.waiter = IF c.waiter = "waiting" THEN "adopted" ELSE c.waiter,
         d.started, d.connected, d.serverRestartHold = c.serverRestartHold
  PROVE  Promised(Shown(c), Shown(d))
<1>1. /\ d.waiter # "none"
      /\ Answer(d) = IF Answer(c) = "waiting" THEN "resolved" ELSE Answer(c)
  BY DEF Answer
<1>2. Shown(c) = Promise("opening", Answer(c), c.serverRestartHold)
  BY ShownAs
<1>3. Shown(d) = Promise("up", IF Answer(c) = "waiting" THEN "resolved" ELSE Answer(c),
                         c.serverRestartHold)
  <2>1. Shown(d) = Promise("up", Answer(d), c.serverRestartHold)
    BY <1>1, ShownAs
  <2> QED BY <1>1, <2>1
<1> QED BY <1>2, <1>3, ContractMoves

\* A WaComms that says it is connected is not refused a reconnect.
LEMMA ConnectedIsNotRefused ==
  ASSUME MaxReconnectAttempts > 0, NEW c, NEW w, NEW h, SocketsOK(w, h),
         Ended(c, w), Undiminished(c, w), c.connected, OpensSocket(c, w)
  PROVE  ~GivesUp(c)
<1>1. c.started /\ ~IsOpen(w) /\ ~IsConnecting(w)
  BY DEF OpensSocket
<1>2. w.socket = None
  BY <1>1 DEF Ended, Closing, SocketsOK, OneInUse, IsOpen
<1>3. c.reconnectAttempts = 0
  BY <1>1, <1>2 DEF Undiminished
<1> QED BY <1>3, CommsAssumption DEF GivesUp, CommsAssumption

\* openSocket(true) does not show, unless it is refused.
LEMMA ReopeningSets ==
  \A c \in CommsType : \A w :
    LET d == Reopening(c, w)
    IN /\ d.connected = c.connected /\ d.serverRestartHold = c.serverRestartHold
       /\ OpensSocket(c, w) /\ GivesUp(c) =>
            c.started /\ ~d.started /\ d.waiter = Rejected(c.waiter)
       /\ ~(OpensSocket(c, w) /\ GivesUp(c)) => d.started = c.started /\ d.waiter = c.waiter
<1> TAKE c \in CommsType
<1> TAKE w
<1>1. CASE ~OpensSocket(c, w)
  BY <1>1 DEF Reopening
<1>2. CASE OpensSocket(c, w) /\ ~GivesUp(c)
  <2>1. Reopening(c, w) = [c EXCEPT !.reconnectAttempts = c.reconnectAttempts + 1]
    BY <1>2 DEF Reopening, CommsType
  <2> QED BY <1>2, <2>1 DEF CommsType
<1>3. CASE OpensSocket(c, w) /\ GivesUp(c)
  <2>1. Reopening(c, w) =
          [c EXCEPT !.reconnectAttempts = c.reconnectAttempts + 1, !.preventRetry = TRUE,
                    !.started = FALSE, !.waiter = Rejected(c.waiter)]
    BY <1>3 DEF Reopening, CommsType
  <2> QED BY <1>3, <2>1 DEF CommsType, OpensSocket
<1> QED BY <1>1, <1>2, <1>3

\* The same after a close that a resume awaited.
LEMMA ResumingSets ==
  \A c \in CommsType : \A w :
    LET d == Resuming(c, w)
        refused == c.resumeInFlight /\ OpensSocket(c, w) /\ GivesUp(c)
    IN /\ d.connected = c.connected /\ d.serverRestartHold = c.serverRestartHold
       /\ refused => c.started /\ ~d.started /\ d.waiter = Rejected(c.waiter)
       /\ ~refused => d.started = c.started /\ d.waiter = c.waiter
<1> TAKE c \in CommsType
<1> TAKE w
<1>1. CASE ~c.resumeInFlight
  BY <1>1 DEF Resuming
<1>2. CASE c.resumeInFlight
  <2> DEFINE d == [c EXCEPT !.resumeInFlight = FALSE]
  <2>1. /\ d \in CommsType
        /\ d.started = c.started /\ d.connected = c.connected
        /\ d.preventRetry = c.preventRetry
        /\ d.reconnectAttempts = c.reconnectAttempts
        /\ d.serverRestartHold = c.serverRestartHold /\ d.waiter = c.waiter
    BY DEF CommsType
  <2>2. Resuming(c, w) = Reopening(d, w)
    BY <1>2 DEF Resuming
  <2> HIDE DEF d
  <2>3. (OpensSocket(d, w) <=> OpensSocket(c, w)) /\ (GivesUp(d) <=> GivesUp(c))
    BY <2>1 DEF OpensSocket, GivesUp
  <2>4. LET e == Reopening(d, w)
        IN /\ e.connected = d.connected /\ e.serverRestartHold = d.serverRestartHold
           /\ OpensSocket(d, w) /\ GivesUp(d) =>
                d.started /\ ~e.started /\ e.waiter = Rejected(d.waiter)
           /\ ~(OpensSocket(d, w) /\ GivesUp(d)) => e.started = d.started /\ e.waiter = d.waiter
    BY <2>1, ReopeningSets
  <2> QED BY <1>2, <2>1, <2>2, <2>3, <2>4
<1> QED BY <1>1, <1>2

\* What can be read off c and the move to d in either case.
LEMMA RefusedOrNot ==
  ASSUME NEW c, NEW d, NEW refused \in BOOLEAN, c.waiter # "none" \/ ~c.started,
         c.connected => ~refused,
         d.connected = c.connected, d.serverRestartHold = c.serverRestartHold,
         refused => c.started /\ ~d.started /\ d.waiter = Rejected(c.waiter),
         ~refused => d.started = c.started /\ d.waiter = c.waiter
  PROVE  Promised(Shown(c), Shown(d))
<1>1. CASE refused
  BY <1>1, GivesWay
<1>2. CASE ~refused
  BY <1>2, Unseen DEF Promised
<1> QED BY <1>1, <1>2

\* Each step of the specification is a step of the contract, or none.
LEMMA StartCommsPromised ==
  ASSUME IInv, NEW agent \in BOOLEAN, StartComms(agent)
  PROVE  Promised(Shown(comms), Shown(comms'))
<1>1. comms \in CommsType /\ Begun(comms, ws)
  BY DEF IInv, CommsInv, Steady
<1>2. /\ comms.waiter = "none"
      /\ comms' = [comms EXCEPT !.started = TRUE, !.waiter = "waiting"]
  BY DEF StartComms
<1>3. ~comms.connected
  BY <1>1, <1>2 DEF Begun
<1>4. /\ comms'.waiter = "waiting" /\ comms'.started /\ ~comms'.connected
      /\ comms'.serverRestartHold = comms.serverRestartHold
  BY <1>1, <1>2, <1>3 DEF CommsType
<1> QED BY <1>2, <1>4, Starts

LEMMA StopCommsPromised ==
  ASSUME IInv, StopComms
  PROVE  Promised(Shown(comms), Shown(comms'))
<1> DEFINE c == ResetConnectionState(comms, FALSE)
<1>1. comms \in CommsType
  BY DEF IInv, CommsInv, Steady
<1>2. comms.waiter # "none" /\ comms' = [c EXCEPT !.restart = FALSE]
  BY DEF StopComms
<1>3. /\ c \in CommsType /\ ~c.serverRestartHold /\ ~c.started
      /\ c.waiter = Rejected(comms.waiter)
  BY <1>1, ResetFields
<1> HIDE DEF c
<1>4. /\ comms'.waiter = Rejected(comms.waiter) /\ ~comms'.started
      /\ comms'.serverRestartHold = FALSE
  BY <1>2, <1>3 DEF CommsType
<1> QED BY <1>2, <1>4, Stops

LEMMA CloseSocketAndResumePromised ==
  ASSUME IInv, CloseSocketAndResume
  PROVE  Promised(Shown(comms), Shown(comms'))
<1> DEFINE c == ResetConnectionState(comms, TRUE)
           w == Close(ws, "resume")
<1>1. comms \in CommsType
  BY DEF IInv, CommsInv, Steady
<1>2. /\ comms.waiter = "adopted" /\ comms.started
      /\ comms' = c \/ comms' = Resuming(c, w)
  BY DEF CloseSocketAndResume
<1>3. /\ c \in CommsType /\ ~c.connected /\ c.serverRestartHold = FALSE /\ c.started
      /\ c.waiter = comms.waiter
  <2>1. /\ c \in CommsType /\ ~c.connected /\ ~c.serverRestartHold /\ c.started
        /\ c.waiter = comms.waiter
    BY <1>1, ResetFields
  <2> HIDE DEF c
  <2> QED BY <2>1 DEF CommsType
<1> HIDE DEF c, w
<1>4. CASE comms' = c
  BY <1>2, <1>3, <1>4, GoesDown
<1>5. CASE comms' = Resuming(c, w)
  <2>1. LET d == Resuming(c, w)
            refused == c.resumeInFlight /\ OpensSocket(c, w) /\ GivesUp(c)
        IN /\ d.connected = c.connected /\ d.serverRestartHold = c.serverRestartHold
           /\ refused => c.started /\ ~d.started /\ d.waiter = Rejected(c.waiter)
           /\ ~refused => d.started = c.started /\ d.waiter = c.waiter
    BY <1>3, ResumingSets
  <2>2. CASE c.resumeInFlight /\ OpensSocket(c, w) /\ GivesUp(c)
    BY <1>2, <1>3, <1>5, <2>1, <2>2, Stops
  <2>3. CASE ~(c.resumeInFlight /\ OpensSocket(c, w) /\ GivesUp(c))
    BY <1>2, <1>3, <1>5, <2>1, <2>3, GoesDown
  <2> QED BY <2>2, <2>3
<1> QED BY <1>2, <1>4, <1>5

LEMMA HoldForServerRestartPromised ==
  ASSUME IInv, HoldForServerRestart
  PROVE  Promised(Shown(comms), Shown(comms'))
<1>1. comms \in CommsType
  BY DEF IInv, CommsInv, Steady
<1>2. /\ comms.waiter = "adopted" /\ comms.started
      /\ comms' = [comms EXCEPT !.serverRestartHold = TRUE]
  BY DEF HoldForServerRestart
<1>3. /\ comms'.waiter = comms.waiter /\ comms'.started /\ comms'.connected = comms.connected
      /\ comms'.serverRestartHold = TRUE
  BY <1>1, <1>2 DEF CommsType
<1> QED BY <1>2, <1>3, IsHeld

LEMMA ReconnectTimerPromised ==
  ASSUME MaxReconnectAttempts > 0, IInv, ReconnectTimerFires
  PROVE  Promised(Shown(comms), Shown(comms'))
<1> DEFINE c == [comms EXCEPT !.reconnectTimer = FALSE]
           refused == OpensSocket(c, ws) /\ GivesUp(c)
<1>1. /\ comms \in CommsType /\ SocketsOK(ws, shake) /\ Begun(comms, ws) /\ Ended(comms, ws)
      /\ Undiminished(comms, ws)
  BY DEF IInv, CommsInv, Steady
<1>2. comms.reconnectTimer /\ comms' = Reopening(c, ws)
  BY DEF ReconnectTimerFires
<1>3. /\ c \in CommsType
      /\ c.started = comms.started /\ c.connected = comms.connected
      /\ c.preventRetry = comms.preventRetry /\ c.reconnectAttempts = comms.reconnectAttempts
      /\ c.serverRestartHold = comms.serverRestartHold /\ c.waiter = comms.waiter
  BY <1>1 DEF CommsType
<1> HIDE DEF c
<1>4. (OpensSocket(c, ws) <=> OpensSocket(comms, ws)) /\ (GivesUp(c) <=> GivesUp(comms))
  BY <1>3 DEF OpensSocket, GivesUp
<1>5. comms.connected => ~refused
  BY <1>1, <1>4, ConnectedIsNotRefused
<1>6. LET d == Reopening(c, ws)
      IN /\ d.connected = c.connected /\ d.serverRestartHold = c.serverRestartHold
         /\ refused => c.started /\ ~d.started /\ d.waiter = Rejected(c.waiter)
         /\ ~refused => d.started = c.started /\ d.waiter = c.waiter
  BY <1>3, ReopeningSets
<1>7. comms.waiter # "none" \/ ~comms.started
  BY <1>1 DEF Begun
<1> HIDE DEF refused
<1>8. refused \in BOOLEAN
  BY DEF refused
<1> QED BY <1>2, <1>3, <1>5, <1>6, <1>7, <1>8, RefusedOrNot

\* Whatever says that comms are no longer connected.
LEMMA Disconnects ==
  ASSUME NEW c, NEW d, c.waiter # "none" \/ ~c.started,
         d.waiter = c.waiter, d.started = c.started, ~d.connected,
         \/ d.serverRestartHold = c.serverRestartHold
         \/ c.started /\ d.serverRestartHold = FALSE
  PROVE  Promised(Shown(c), Shown(d))
<1>1. CASE c.started
  BY <1>1, GoesDown
<1>2. CASE ~c.started
  BY <1>2, Unseen DEF Promised
<1> QED BY <1>1, <1>2

LEMMA SocketOpensPromised ==
  ASSUME IInv, NEW s \in Sockets, SocketOpens(s)
  PROVE  Promised(Shown(comms), Shown(comms'))
<1>1. comms \in CommsType
  BY DEF IInv, CommsInv, Steady
<1>2. comms' = [comms EXCEPT !.connectionGeneration = s, !.noiseSession = s]
  BY DEF SocketOpens
<1>3. /\ comms'.waiter = comms.waiter /\ comms'.started = comms.started
      /\ comms'.connected = comms.connected
      /\ comms'.serverRestartHold = comms.serverRestartHold
  BY <1>1, <1>2 DEF CommsType
<1> QED BY <1>3, Unseen DEF Promised

LEMMA ConnectFailsPromised ==
  ASSUME IInv, NEW s \in Sockets, NEW state \in {"closing", "closed"}, ConnectFails(s, state)
  PROVE  Promised(Shown(comms), Shown(comms'))
<1>1. comms \in CommsType /\ Begun(comms, ws)
  BY DEF IInv, CommsInv, Steady
<1>2. comms' = comms \/ comms' = OnOpenFailed(comms)
  BY DEF ConnectFails
<1>3. CASE comms' = comms
  BY <1>3 DEF Promised
<1>4. CASE comms' = OnOpenFailed(comms)
  <2>1. /\ comms'.waiter = comms.waiter /\ comms'.started = comms.started
        /\ ~comms'.connected
        /\ comms'.serverRestartHold = comms.serverRestartHold
    BY <1>1, <1>4, OpenFailedFields
  <2>2. comms.waiter # "none" \/ ~comms.started
    BY <1>1 DEF Begun
  <2> QED BY <2>1, <2>2, Disconnects
<1> QED BY <1>2, <1>3, <1>4

LEMMA SocketClosesPromised ==
  ASSUME MaxReconnectAttempts > 0, IInv, NEW s \in Sockets, SocketCloses(s)
  PROVE  Promised(Shown(comms), Shown(comms'))
<1> DEFINE d == AfterClose(s)
           n == Gone(ws, s)
           g == ShakesAfterClose(s)
           refused == d.resumeInFlight /\ OpensSocket(d, n) /\ GivesUp(d)
<1>1. /\ ws.raw[s] \in {"open", "closing"} /\ shake[s].step # "none"
      /\ <<s, "resume">> \in ws.closeWaiters => comms' = Resuming(d, n)
      /\ <<s, "resume">> \notin ws.closeWaiters => comms' = d
  BY DEF SocketCloses, Gone, AfterClose
<1>2. /\ comms \in CommsType /\ SocketsOK(ws, shake)
      /\ Begun(comms, ws) /\ Ended(comms, ws) /\ Resumes(comms, ws, shake)
  BY DEF IInv, CommsInv, Steady
<1>3. Steady(d, n, g, lapses)
  BY <1>1, SocketCloseKeeps
<1>4. d \in CommsType /\ SocketsOK(n, g) /\ Ended(d, n) /\ Undiminished(d, n)
  BY <1>3 DEF Steady
<1>5. /\ d.started = comms.started /\ d.waiter = comms.waiter
      /\ d.resumeInFlight = comms.resumeInFlight
      /\ ws.socket # s => d = comms
      /\ ws.socket = s =>
           /\ ~d.connected
           /\ comms.started /\ ~comms.preventRetry /\ ~comms.resumeInFlight =>
                ~d.serverRestartHold
           /\ ~(comms.started /\ ~comms.preventRetry /\ ~comms.resumeInFlight) =>
                d.serverRestartHold = comms.serverRestartHold
  BY SocketCloseSets
<1>6. comms.waiter # "none" \/ ~comms.started
  BY <1>2 DEF Begun
<1> HIDE DEF d, n, g
<1>7. CASE <<s, "resume">> \notin ws.closeWaiters
  <2>1. comms' = d
    BY <1>1, <1>7
  <2>2. CASE ws.socket # s
    BY <1>5, <2>1, <2>2 DEF Promised
  <2>3. CASE ws.socket = s
    <3>1. \/ d.serverRestartHold = comms.serverRestartHold
          \/ comms.started /\ d.serverRestartHold = FALSE
      BY <1>4, <1>5, <2>3 DEF CommsType
    <3> QED BY <1>5, <1>6, <2>1, <2>3, <3>1, Disconnects
  <2> QED BY <2>2, <2>3
<1>8. CASE <<s, "resume">> \in ws.closeWaiters
  <2>1. comms' = Resuming(d, n)
    BY <1>1, <1>8
  <2>2. ws.socket = s => ~comms.connected
    <3>1. ws.raw[s] = "closing"
      BY <1>2, <1>8 DEF SocketsOK, OneInUse
    <3> QED BY <1>2, <3>1 DEF Ended, Closing, Sockets, None
  <2>3. comms.started => comms.resumeInFlight
    BY <1>2, <1>8 DEF Resumes
  <2>4. /\ d.serverRestartHold = comms.serverRestartHold
        /\ comms.started => d.connected = comms.connected
    BY <1>2, <1>4, <1>5, <2>2, <2>3 DEF CommsType
  <2>5. Shown(d) = Shown(comms)
    BY <1>5, <2>4, Unseen
  <2>6. LET e == Resuming(d, n)
        IN /\ e.connected = d.connected /\ e.serverRestartHold = d.serverRestartHold
           /\ refused => d.started /\ ~e.started /\ e.waiter = Rejected(d.waiter)
           /\ ~refused => e.started = d.started /\ e.waiter = d.waiter
    BY <1>4, ResumingSets
  <2>7. d.connected => ~refused
    BY <1>4, ConnectedIsNotRefused
  <2> HIDE DEF refused
  <2>8. refused \in BOOLEAN
    BY DEF refused
  <2>9. d.waiter # "none" \/ ~d.started
    BY <1>5, <1>6
  <2>10. Promised(Shown(d), Shown(Resuming(d, n)))
    BY <2>6, <2>7, <2>8, <2>9, RefusedOrNot
  <2> QED BY <2>1, <2>5, <2>10
<1> QED BY <1>7, <1>8

LEMMA CloseTimesOutPromised ==
  ASSUME MaxReconnectAttempts > 0, IInv, NEW s \in Sockets, NEW who \in {"resume", "other"},
         CloseTimesOut(s, who)
  PROVE  Promised(Shown(comms), Shown(comms'))
<1> DEFINE n == Forgotten(ws, s, who)
           refused == comms.resumeInFlight /\ OpensSocket(comms, n) /\ GivesUp(comms)
<1>1. /\ <<s, who>> \in ws.closeWaiters
      /\ comms' = comms \/ comms' = Resuming(comms, n)
  BY DEF CloseTimesOut, Forgotten
<1>2. /\ comms \in CommsType /\ SocketsOK(ws, shake)
      /\ Begun(comms, ws) /\ Ended(comms, ws) /\ Undiminished(comms, ws)
  BY DEF IInv, CommsInv, Steady
<1>3. comms.waiter # "none" \/ ~comms.started
  BY <1>2 DEF Begun
<1>4. comms.connected => ~refused
  <2>1. /\ n.socket = (IF ws.socket = s THEN None ELSE ws.socket)
        /\ n.raw = ws.raw /\ n.connectingSockets = ws.connectingSockets
    <3>1. ws \in SocketType
      BY <1>2 DEF SocketsOK
    <3> QED BY <3>1 DEF Forgotten, Drop, SocketType
  <2>2. ws.raw[s] = "closing"
    BY <1>1, <1>2 DEF SocketsOK, OneInUse
  <2>3. comms.connected => ws.socket # s
    BY <1>2, <2>2 DEF Ended, Closing, Sockets, None
  <2> HIDE DEF n
  <2>4. comms.connected /\ OpensSocket(comms, n) => OpensSocket(comms, ws)
    BY <2>1, <2>3 DEF OpensSocket, IsOpen, IsConnecting
  <2> QED BY <1>2, <2>4, ConnectedIsNotRefused
<1> HIDE DEF n
<1>5. CASE comms' = comms
  BY <1>5 DEF Promised
<1>6. CASE comms' = Resuming(comms, n)
  <2>1. LET d == Resuming(comms, n)
        IN /\ d.connected = comms.connected /\ d.serverRestartHold = comms.serverRestartHold
           /\ refused => comms.started /\ ~d.started /\ d.waiter = Rejected(comms.waiter)
           /\ ~refused => d.started = comms.started /\ d.waiter = comms.waiter
    BY <1>2, ResumingSets
  <2> HIDE DEF refused
  <2>2. refused \in BOOLEAN
    BY DEF refused
  <2> QED BY <1>3, <1>4, <1>6, <2>1, <2>2, RefusedOrNot
<1> QED BY <1>1, <1>5, <1>6

LEMMA HandshakeFailsPromised ==
  ASSUME IInv, NEW s \in Sockets, HandshakeFails(s)
  PROVE  Promised(Shown(comms), Shown(comms'))
<1>1. comms \in CommsType /\ Begun(comms, ws)
  BY DEF IInv, CommsInv, Steady
<1>2. CASE IsCurrent(s)
  <2>1. comms' = [comms EXCEPT
                    !.resumeHandshakeFailures =
                      IF shake[s].resume THEN comms.resumeHandshakeFailures + 1
                                         ELSE comms.resumeHandshakeFailures,
                    !.noiseSession = None, !.connected = FALSE]
    BY <1>1, <1>2 DEF HandshakeFails, CommsType
  <2>2. /\ comms'.waiter = comms.waiter /\ comms'.started = comms.started
        /\ ~comms'.connected
        /\ comms'.serverRestartHold = comms.serverRestartHold
    BY <1>1, <2>1 DEF CommsType
  <2>3. comms.waiter # "none" \/ ~comms.started
    BY <1>1 DEF Begun
  <2> QED BY <2>2, <2>3, Disconnects
<1>3. CASE ~IsCurrent(s)
  BY <1>3 DEF HandshakeFails, Promised
<1> QED BY <1>2, <1>3

LEMMA HandshakeSucceedsPromised ==
  ASSUME IInv, NEW s \in Sockets, HandshakeSucceeds(s)
  PROVE  Promised(Shown(comms), Shown(comms'))
<1>1. comms \in CommsType /\ Begun(comms, ws) /\ Ended(comms, ws)
  BY DEF IInv, CommsInv, Steady
<1>2. CASE IsCurrent(s)
  <2> DEFINE handling == comms.handlingRequests \/ comms.waiter = "waiting"
             waiter == IF comms.waiter = "waiting" THEN "adopted" ELSE comms.waiter
  <2>1. comms' = [comms EXCEPT !.resumeHandshakeFailures = 0, !.connected = TRUE,
                               !.reconnectAttempts = 0, !.handlingRequests = handling,
                               !.waiter = waiter]
    BY <1>1, <1>2 DEF HandshakeSucceeds, Connected, CommsType
  <2> HIDE DEF handling, waiter
  <2>2. /\ comms'.waiter = waiter /\ comms'.started = comms.started /\ comms'.connected
        /\ comms'.serverRestartHold = comms.serverRestartHold
    BY <1>1, <2>1 DEF CommsType
  <2>3. comms.waiter # "none"
    BY <1>1, <1>2 DEF Begun, IsCurrent, Sockets, None
  <2>4. CASE comms.started /\ ~comms.connected
    BY <2>2, <2>3, <2>4, ComesUp DEF waiter
  <2>5. CASE comms.started /\ comms.connected
    <3>1. comms'.waiter = comms.waiter /\ comms'.connected = comms.connected
      BY <1>1, <2>1, <2>2, <2>5 DEF Ended, waiter, CommsType
    <3> QED BY <2>2, <3>1, Unseen DEF Promised
  <2>6. CASE ~comms.started
    <3>1. comms'.waiter = comms.waiter
      BY <1>1, <2>2, <2>6 DEF Ended, waiter
    <3> QED BY <2>2, <2>6, <3>1, Unseen DEF Promised
  <2> QED BY <2>4, <2>5, <2>6
<1>3. CASE ~IsCurrent(s)
  BY <1>3 DEF HandshakeSucceeds, Promised
<1> QED BY <1>2, <1>3

LEMMA StepPromised ==
  ASSUME MaxReconnectAttempts > 0, IInv, [Next]_vars
  PROVE  Promised(Shown(comms), Shown(comms'))
<1>1. CASE UNCHANGED comms
  BY <1>1 DEF Promised
<1>2. ASSUME NEW agent \in BOOLEAN, StartComms(agent) PROVE Promised(Shown(comms), Shown(comms'))
  BY <1>2, StartCommsPromised
<1>3. CASE StopComms
  BY <1>3, StopCommsPromised
<1>4. CASE CloseSocketAndResume
  BY <1>4, CloseSocketAndResumePromised
<1>5. CASE HoldForServerRestart
  BY <1>5, HoldForServerRestartPromised
<1>6. CASE ReconnectTimerFires
  BY <1>6, ReconnectTimerPromised
<1>7. ASSUME NEW s \in Sockets, SocketOpens(s) PROVE Promised(Shown(comms), Shown(comms'))
  BY <1>7, SocketOpensPromised
<1>8. ASSUME NEW s \in Sockets, SocketCloses(s) PROVE Promised(Shown(comms), Shown(comms'))
  BY <1>8, SocketClosesPromised
<1>9. ASSUME NEW s \in Sockets, NEW state \in {"closing", "closed"}, ConnectFails(s, state)
      PROVE  Promised(Shown(comms), Shown(comms'))
  BY <1>9, ConnectFailsPromised
<1>10. ASSUME NEW s \in Sockets, NEW who \in {"resume", "other"}, CloseTimesOut(s, who)
       PROVE  Promised(Shown(comms), Shown(comms'))
  BY <1>10, CloseTimesOutPromised
<1>11. ASSUME NEW s \in Sockets, HandshakeFails(s) PROVE Promised(Shown(comms), Shown(comms'))
  BY <1>11, HandshakeFailsPromised
<1>12. ASSUME NEW s \in Sockets, HandshakeSucceeds(s) PROVE Promised(Shown(comms), Shown(comms'))
  BY <1>12, HandshakeSucceedsPromised
<1>13. CASE AgentLoaded
  BY <1>1, <1>13 DEF AgentLoaded
<1>14. ASSUME NEW s \in Sockets, NEW next \in {"finish", "agree"}, ServerHello(s, next)
       PROVE  Promised(Shown(comms), Shown(comms'))
  BY <1>1, <1>14 DEF ServerHello
<1> QED
  BY <1>1, <1>2, <1>3, <1>4, <1>5, <1>6, <1>7, <1>8, <1>9, <1>10, <1>11, <1>12, <1>13, <1>14
  DEF Next, vars

\* For whoever uses it a WaComms is what CommsContract says, however its
\* sockets, its timers and its handshakes interleave: its end is final, the
\* first connection is answered once, a hold is handed on once.  A limit of no
\* reconnect at all is excepted, see ConnectedIsTrue.
THEOREM KeepsItsContract ==
  ASSUME MaxReconnectAttempts > 0
  PROVE  Spec => ContractSpec
<1>1. Init => AsPromised!ContractInit
  <2> SUFFICES ASSUME Init PROVE AsPromised!ContractInit
    OBVIOUS
  <2>1. comms.waiter = "none" /\ comms.serverRestartHold = FALSE
    BY DEF Init
  <2>2. Shown(comms) = Promise("new", "none", FALSE)
    BY <2>1 DEF Shown, Phase, Answer
  <2> QED BY <2>2 DEF AsPromised!ContractInit, AsPromised!New, Shown, Phase, Answer, Promise
<1>2. IInv /\ [Next]_vars =>
        [AsPromised!ContractNext]_([i \in {1} |-> Shown(comms)])
  <2> SUFFICES ASSUME IInv, [Next]_vars
               PROVE  [AsPromised!ContractNext]_([i \in {1} |-> Shown(comms)])
    OBVIOUS
  <2>1. Promised(Shown(comms), Shown(comms'))
    BY StepPromised
  <2> QED BY <2>1 DEF Promised, AsPromised!ContractNext, Shown, Phase, Answer, Promise
<1> QED BY <1>1, <1>2, Invariance, PTL DEF Spec, ContractSpec, AsPromised!Contract, Shown, Phase, Answer, Promise
=============================================================================
