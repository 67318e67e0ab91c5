---------------------------- MODULE StreamSocket ----------------------------
(***************************************************************************)
(* The socket of a page (static/js/libs/socket.io, which the project has   *)
(* modified, as app.js uses it): the handshake, the transports it falls    *)
(* back to, the buffer of packets, and the reconnection.                   *)
(*                                                                         *)
(* Transport 1 is the websocket; the others poll.  The state of the socket *)
(* is one record, as its handlers call each other; an operator that takes  *)
(* and returns the record is one handler.                                  *)
(***************************************************************************)
EXTENDS Naturals

CONSTANTS
  Last,         \* the number of transports
  MaxAttempts,  \* 'max reconnection attempts'
  MaxFaults     \* bound on requests that fail or are slow, lost connections, connect
                \* timeouts while unconnected, and what the server advises

ASSUME StreamSocketAssumption ==
  Last \in Nat \ {0} /\ MaxAttempts \in Nat /\ MaxFaults \in Nat

VARIABLES
  sock,   \* the socket
  faults  \* faults so far

vars == <<sock, faults>>

-----------------------------------------------------------------------------
WS == 1

SocketStates ==
  [connected : BOOLEAN, connecting : BOOLEAN, reconnecting : BOOLEAN,
   attempts : 0..(MaxAttempts + 2), redo : BOOLEAN,
   multiple : BOOLEAN, saved : BOOLEAN,      \* 'try multiple transports'
   spliced : 0..Last,                        \* transports taken off the list
   transport : 0..Last,
   wire : {"none", "opening", "open", "closed"},  \* the connection of transport
   webkit : BOOLEAN, deferred : Nat,         \* opens that WebKit browsers put off
   handshakes : Nat,                         \* on their way
   retryTimer : BOOLEAN, oldRetries : BOOLEAN, \* reconnectionTimer, and those it was
   timer : BOOLEAN, oldTimers : BOOLEAN,     \* connectTimeoutTimer, and those it was
   quick : Nat,                              \* onError's call after 10 ms
   late : [1..Last -> Nat],                  \* transports given up while they open
   closing : [1..Last -> Nat],               \* whose close event is to come
   doBuffer : BOOLEAN, buffered : BOOLEAN,
   posting : BOOLEAN,                        \* posts are on their way
   refused : BOOLEAN,    \* a handshake was
   advised : BOOLEAN,    \* the server asked for a reconnection
   swallowed : BOOLEAN,  \* a 'connect' was, by an exception
   overruled : BOOLEAN]  \* the setBuffer(false) of a transport that still opens was

TypeOK == sock \in SocketStates /\ faults \in 0..MaxFaults

\* The socket connects when it is made.
Init ==
  /\ \E webkit \in BOOLEAN :
       sock =
         [connected |-> FALSE, connecting |-> TRUE, reconnecting |-> FALSE,
          attempts |-> 0, redo |-> FALSE, multiple |-> TRUE, saved |-> TRUE,
          spliced |-> 0, transport |-> 0, wire |-> "none",
          webkit |-> webkit, deferred |-> 0, handshakes |-> 1,
          retryTimer |-> FALSE, oldRetries |-> FALSE, timer |-> FALSE,
          oldTimers |-> FALSE, quick |-> 0,
          late |-> [k \in 1..Last |-> 0], closing |-> [k \in 1..Last |-> 0],
          doBuffer |-> FALSE, buffered |-> FALSE, posting |-> FALSE, refused |-> FALSE,
          advised |-> FALSE, swallowed |-> FALSE, overruled |-> FALSE]
  /\ faults = 0

-----------------------------------------------------------------------------
(* The buffer *)

\* The transport has a connection.  Without one, its methods raise.
Made(s) == s.transport # 0 /\ (s.transport = WS => s.wire # "none")

\* A websocket that is still opening raises, one that is closed drops the data.
CanSend(s) == Made(s) /\ (s.transport = WS => s.wire # "opening")

\* A packet that cannot be sent is lost.
Send(s) ==
  IF s.transport \in {0, WS} THEN s ELSE [s EXCEPT !.posting = TRUE, !.doBuffer = TRUE]

\* An exception leaves the buffer as it is.
FlushBuffer(s) ==
  IF s.buffered /\ CanSend(s) THEN Send([s EXCEPT !.buffered = FALSE]) ELSE s

SetBuffer(s, v) ==
  LET t == [s EXCEPT !.doBuffer = v, !.overruled = @ /\ v] IN
  IF ~v /\ t.connected THEN FlushBuffer(t) ELSE t

Packet(s) == IF s.connected /\ ~s.doBuffer THEN Send(s) ELSE [s EXCEPT !.buffered = TRUE]

\* A polling transport called setBuffer(false) when it began to open.  When it
\* opens, what others did to doBuffer in between counts.
Polls(s) ==
  (s.wire = "opening" /\ s.transport # WS) \/ \E k \in 2..Last : s.late[k] > 0
Overrule(s) ==
  [s EXCEPT !.overruled = @ \/ (s.doBuffer /\ ~s.posting /\ Polls(s))]

-----------------------------------------------------------------------------
(* Connecting *)
Connect(s) ==
  IF s.connecting THEN s ELSE [s EXCEPT !.connecting = TRUE, !.handshakes = @ + 1]

\* Nobody refers to the connection any more, but its events still come.
GiveUp(s) ==
  CASE s.wire = "opening" -> [s EXCEPT !.late[s.transport] = @ + 1, !.wire = "none"]
    [] s.wire = "open" -> [s EXCEPT !.closing[s.transport] = @ + 1, !.wire = "none"]
    [] OTHER -> [s EXCEPT !.wire = "none"]

\* setTimeout(maybeReconnect): the timer that reconnectionTimer was before runs on.
ArmRetry(s) ==
  [s EXCEPT !.retryTimer = TRUE, !.oldRetries = @ \/ s.retryTimer]

\* When no timer is left, what may have started a second loop is over.
Reset(s) ==
  [s EXCEPT !.retryTimer = FALSE, !.reconnecting = FALSE,
            !.attempts = 0, !.redo = FALSE, !.multiple = s.saved,
            !.advised = @ /\ s.oldRetries, !.swallowed = @ /\ s.oldRetries]

\* Mutant: an attempt that is under way is not waited for.
MaybeReconnectOnce(s) ==
  IF ~s.reconnecting \/ s.connecting THEN s
  ELSE IF s.connected THEN Reset(s)
  ELSE ArmRetry(Connect([s EXCEPT !.attempts = 1]))

\* After the last attempt all transports on the list are tried once more.
MaybeReconnect(s) ==
  IF ~s.reconnecting THEN s
  ELSE IF s.connected THEN Reset(s)
  ELSE IF s.connecting THEN ArmRetry(s)
  ELSE IF s.attempts < MaxAttempts THEN ArmRetry(Connect([s EXCEPT !.attempts = @ + 1]))
  ELSE IF s.redo THEN Reset(s)
  ELSE Connect([GiveUp(s) EXCEPT !.attempts = @ + 1, !.redo = TRUE, !.multiple = TRUE,
                  !.transport = IF s.spliced < Last THEN s.spliced + 1 ELSE 0])

Reconnect(s) ==
  ArmRetry([s EXCEPT !.reconnecting = TRUE, !.attempts = 0, !.saved = s.multiple,
                     !.multiple = FALSE])

\* Mutant: both the page and the socket start the loop.
PublishDisconnectTwice(s) == Reconnect(Reconnect(s))

\* A page's handler of 'disconnect' calls reconnect first.
PublishDisconnect(s) == Reconnect(s)

\* maybeReconnect listens to it when the transports are tried once more.
ConnectFailed(s) == IF s.redo THEN MaybeReconnect(s) ELSE s

\* Mutant: a polling transport does not release the buffer.
OpenTransportHeld(s) ==
  [GiveUp(s) EXCEPT !.wire = "opening", !.connecting = TRUE, !.timer = TRUE,
                    !.oldTimers = @ \/ s.timer]

\* What waits until the transport is ready.
OpenTransport(s) ==
  LET t == [GiveUp(s) EXCEPT !.wire = "opening", !.connecting = TRUE, !.timer = TRUE,
                             !.oldTimers = @ \/ s.timer]
  IN IF t.transport = WS THEN t ELSE SetBuffer(t, FALSE)

\* connect of the handshake: the first transport on the list.  Polling is put off
\* in WebKit browsers until the page is loaded.
TryTransport(s) ==
  IF s.spliced = Last
  THEN ConnectFailed([GiveUp(s) EXCEPT !.transport = 0])
  ELSE LET t == [GiveUp(s) EXCEPT !.transport = s.spliced + 1]
       IN IF t.transport # WS /\ t.webkit THEN [t EXCEPT !.deferred = @ + 1]
          ELSE OpenTransport(t)

\* Mutant: one transport too many is spliced off.
HandleReconnectionPast(s) ==
  IF s.connected THEN s
  ELSE LET t == [s EXCEPT !.connecting = FALSE, !.spliced = s.transport + 1]
       IN IF ~s.multiple THEN t
          ELSE IF t.spliced = Last THEN ConnectFailed(t) ELSE TryTransport(t)

\* The list is spliced up to the transport, or to its end if it is not on it.
HandleReconnection(s) ==
  IF s.connected THEN s
  ELSE LET t == [s EXCEPT !.connecting = FALSE]
           rest == IF s.transport > s.spliced THEN s.transport ELSE Last
           u == [t EXCEPT !.spliced = rest]
       IN IF ~s.multiple THEN t
          ELSE IF rest = Last THEN ConnectFailed(u) ELSE TryTransport(u)

\* 'connect' is not emitted when the flush raises.
OnConnect(s) ==
  IF s.connected THEN s
  ELSE LET t == [s EXCEPT !.connected = TRUE, !.connecting = FALSE]
           u == IF t.doBuffer THEN t ELSE SetBuffer(t, FALSE)
       IN IF ~t.doBuffer /\ u.buffered THEN [u EXCEPT !.swallowed = TRUE]
          ELSE MaybeReconnect([u EXCEPT !.timer = FALSE])

\* A websocket closes with an event, a polling transport at once.
CloseTransport(s) ==
  IF s.wire \notin {"opening", "open"} THEN s
  ELSE IF s.transport = WS THEN [s EXCEPT !.wire = "closed", !.closing[WS] = @ + 1]
  ELSE [s EXCEPT !.wire = "closed"]

\* Closing what was never opened raises.
Raises(s) == (s.connected \/ s.connecting) /\ ~Made(s)

OnDisconnect(s) ==
  LET t == [s EXCEPT !.connected = FALSE, !.connecting = FALSE] IN
  IF Raises(s) \/ ~(s.connected \/ s.connecting) THEN t
  ELSE IF s.connected THEN PublishDisconnect(CloseTransport(t)) ELSE CloseTransport(t)

-----------------------------------------------------------------------------
Do(s) == sock' = s /\ UNCHANGED faults
Fault(s) == faults < MaxFaults /\ faults' = faults + 1 /\ sock' = s

Emit == Do(Packet(sock))

HandshakeOk == sock.handshakes > 0 /\ Do(TryTransport([sock EXCEPT !.handshakes = @ - 1]))

HandshakeFails ==
  /\ sock.handshakes > 0
  /\ Fault([sock EXCEPT !.handshakes = @ - 1, !.connecting = FALSE])

\* A 403: connecting stays as it is.
HandshakeRefused ==
  /\ sock.handshakes > 0
  /\ Fault([sock EXCEPT !.handshakes = @ - 1, !.refused = TRUE])

\* The page is loaded: whatever transport there is by now is opened.
Ready ==
  /\ sock.deferred > 0
  /\ LET s == [sock EXCEPT !.deferred = @ - 1] IN
     Do(IF s.transport = 0 THEN [s EXCEPT !.connecting = TRUE] ELSE OpenTransport(s))

Opened(s, k) == IF k = WS THEN SetBuffer(s, FALSE) ELSE s

\* The transport opens, and the server says that it is connected.
Opens ==
  /\ sock.wire = "opening"
  /\ Do(OnConnect(Opened([sock EXCEPT !.wire = "open"], sock.transport)))

LateOpens(k) ==
  /\ sock.late[k] > 0
  /\ Do(OnConnect(Opened([sock EXCEPT !.late[k] = @ - 1, !.closing[k] = @ + 1], k)))

\* onclose of a websocket or onClose of a polling transport.
Closed(s, k) ==
  IF k = WS /\ ~Raises(s) THEN Overrule(SetBuffer(OnDisconnect(s), TRUE))
  ELSE OnDisconnect(s)

\* onerror of a websocket comes before its onclose.
Failed(s, k) == Closed([s EXCEPT !.quick = IF k = WS THEN @ + 1 ELSE @], k)

OpenFails ==
  /\ sock.wire = "opening"
  /\ Fault(Failed([sock EXCEPT !.wire = "closed"], sock.transport))

LateFails(k) == sock.late[k] > 0 /\ Fault(Failed([sock EXCEPT !.late[k] = @ - 1], k))

\* With or without an error.
Lost ==
  /\ sock.wire = "open"
  /\ LET s == [sock EXCEPT !.wire = "closed"] IN
     Fault(Closed(s, s.transport)) \/ Fault(Failed(s, s.transport))

CloseEvent(k) ==
  /\ sock.closing[k] > 0
  /\ LET s == [sock EXCEPT !.closing[k] = @ - 1] IN Do(Closed(s, k)) \/ Fault(Failed(s, k))

\* The server is not heard of, or says 'disconnect': the heartbeat timer, or the
\* close timer of the transport or of one that was given up.  Which of them run is
\* left out: they may always end.
Silence ==
  /\ sock.transport # 0
  /\ \/ Fault(OnDisconnect(sock))
     \/ sock.transport # WS /\ Fault(OnDisconnect(CloseTransport(sock)))

\* An error with the advice 'reconnect': disconnect sends a packet if the socket is
\* open, and reconnect is called after the page's handler.
Advised(s, open) ==
  LET t == IF open THEN Packet(s) ELSE s
      raises == (open /\ s.connected /\ ~s.doBuffer /\ ~CanSend(s)) \/ ~Made(s)
      u == OnDisconnect(t)
  IN IF raises THEN (IF Made(s) THEN t ELSE u) ELSE [Reconnect(u) EXCEPT !.advised = TRUE]
ReconnectAdvised ==
  /\ sock.connected \/ sock.connecting
  /\ sock.wire = "open" \/ \E k \in 1..Last : sock.closing[k] > 0
  /\ \E open \in BOOLEAN : Fault(Advised(sock, open))

\* More posts may be on their way.
PostDone ==
  /\ sock.posting
  /\ \E more \in BOOLEAN : Do(SetBuffer([sock EXCEPT !.posting = more], FALSE))

\* onClose of the transport, or of one that was given up.
PostFails ==
  /\ sock.posting
  /\ \E more \in BOOLEAN :
       LET s == [sock EXCEPT !.posting = more] IN
       \/ Fault(Overrule(OnDisconnect(s)))
       \/ s.transport # WS /\ Fault(Overrule(OnDisconnect(CloseTransport(s))))

RetryTimer == sock.retryTimer /\ Do(MaybeReconnect([sock EXCEPT !.retryTimer = FALSE]))

\* There may be more than one.
OldRetry ==
  /\ sock.oldRetries
  /\ \E more \in BOOLEAN : Do(MaybeReconnect([sock EXCEPT !.oldRetries = more]))

QuickFailover == sock.quick > 0 /\ Do(HandleReconnection([sock EXCEPT !.quick = @ - 1]))

\* 'connect timeout', of this transport or of an earlier one.
Timeout(s) == IF s.connected THEN Do(s) ELSE Fault(HandleReconnection(s))
ConnectTimeout ==
  \/ sock.timer /\ Timeout([sock EXCEPT !.timer = FALSE])
  \/ sock.oldTimers /\ \E more \in BOOLEAN : Timeout([sock EXCEPT !.oldTimers = more])

Next ==
  \/ Emit
  \/ HandshakeOk \/ HandshakeFails \/ HandshakeRefused
  \/ Ready \/ Opens \/ OpenFails \/ Lost \/ Silence \/ ReconnectAdvised
  \/ \E k \in 1..Last : LateOpens(k) \/ LateFails(k) \/ CloseEvent(k)
  \/ PostDone \/ PostFails
  \/ RetryTimer \/ OldRetry \/ QuickFailover \/ ConnectTimeout

\* Requests are answered and timers end; what fails is bounded.
Fairness ==
  WF_vars(HandshakeOk) /\ WF_vars(Ready) /\ WF_vars(Opens) /\ WF_vars(RetryTimer)

Spec == Init /\ [][Next]_vars /\ Fairness

-----------------------------------------------------------------------------
(* Properties *)

\* There is one loop of reconnection attempts, whatever events come in between: no
\* timer of an earlier loop runs beside the one that reconnectionTimer holds.
\* Three things start a second one: no transport is left on the list (each handshake
\* that is answered after the last attempt does), the server's advice (onError calls
\* reconnect after the page's handler has), and an exception of the flush that
\* swallows 'connect' (the loop is not told that it may end).
OneLoop ==
  sock.spliced < Last /\ ~sock.advised /\ ~sock.swallowed => ~sock.oldRetries

\* A packet that waits while the socket is connected is sent after the packet before
\* it, or when the transport the socket holds by now has opened: no order of opens,
\* closes, posts and timeouts leaves it in the buffer.  But for one: while a polling
\* transport opens, which has released the buffer already, the end of another
\* transport holds it again, and nothing releases it until the next packet is.
BufferIsFlushed ==
  sock.connected /\ sock.buffered => sock.posting \/ ~CanSend(sock) \/ sock.overruled

\* A connection that is lost comes back, or the loop gets to its last attempts.  It
\* does not when the node refuses it, or when the list of transports, which is
\* never filled again, has become empty.
KeepsTrying ==
  sock.reconnecting ~> (sock.connected \/ sock.redo \/ sock.refused \/ sock.spliced = Last)
=============================================================================
