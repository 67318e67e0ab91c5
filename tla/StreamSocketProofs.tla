------------------------- MODULE StreamSocketProofs -------------------------
(***************************************************************************)
(* Theorems about StreamSocket, for any number of transports, attempts and *)
(* faults: its types, that one loop of reconnection attempts runs, and     *)
(* that no packet is left in the buffer of a connected socket.  A lemma    *)
(* says what each handler of the socket needs of the record it is given    *)
(* and what it leaves.                                                     *)
(***************************************************************************)
EXTENDS StreamSocket, TLAPS

\* A transport that opens or is open is one of the list, and the attempt after the
\* last one tries the transports once more.
Placed(s) ==
  /\ s.wire \in {"opening", "open"} => s.transport \in 1..Last
  /\ s.attempts <= MaxAttempts \/ (s.attempts = MaxAttempts + 1 /\ s.redo)

Sane(s) == s \in SocketStates /\ Placed(s)

\* The timer runs for the loop, and there is one.
Timers(s) ==
  s.spliced < Last /\ ~s.advised /\ ~s.swallowed =>
    ~s.oldRetries /\ (s.retryTimer => s.reconnecting)

\* Nothing is reconnected that is connected.
Loop(s) == s.connected /\ s.reconnecting => s.swallowed

\* The transport is the first one of the list, or there was none yet.
Listed(s) ==
  s.spliced < Last =>
    \/ s.transport = s.spliced + 1
    \/ s.transport = 0 /\ ~s.connected /\ \A k \in 1..Last : s.late[k] = 0

\* A polling transport that opens has released the buffer.
Released(s) == Polls(s) /\ s.doBuffer => s.posting \/ s.overruled

\* What is held back while the socket is connected waits for a post that is under way.
HeldBack(s) == s.doBuffer => s.posting \/ s.overruled
Waits(s) == s.buffered => s.posting \/ ~CanSend(s) \/ s.overruled
Held(s) == s.connected => HeldBack(s) /\ Waits(s)

Calm(s) == Sane(s) /\ Timers(s) /\ Loop(s) /\ Listed(s) /\ Released(s)
Good(s) == Calm(s) /\ Held(s)

IInv == Good(sock) /\ faults \in 0..MaxFaults

\* What the loop looks at stays as it is.
Kept(s, t) ==
  /\ t.connected = s.connected /\ t.reconnecting = s.reconnecting
  /\ t.spliced = s.spliced /\ t.retryTimer = s.retryTimer /\ t.oldRetries = s.oldRetries
  /\ t.advised = s.advised /\ t.swallowed = s.swallowed

-----------------------------------------------------------------------------
(* Types *)

\* The parts of the socket.
LEMMA Parts ==
  ASSUME NEW s \in SocketStates
  PROVE  /\ s.connected \in BOOLEAN /\ s.connecting \in BOOLEAN /\ s.reconnecting \in BOOLEAN
         /\ s.redo \in BOOLEAN /\ s.multiple \in BOOLEAN /\ s.saved \in BOOLEAN
         /\ s.webkit \in BOOLEAN /\ s.deferred \in Nat
         /\ s.retryTimer \in BOOLEAN /\ s.oldRetries \in BOOLEAN
         /\ s.timer \in BOOLEAN /\ s.oldTimers \in BOOLEAN /\ s.refused \in BOOLEAN
         /\ s.doBuffer \in BOOLEAN /\ s.buffered \in BOOLEAN /\ s.posting \in BOOLEAN
         /\ s.advised \in BOOLEAN /\ s.swallowed \in BOOLEAN /\ s.overruled \in BOOLEAN
         /\ s.attempts \in 0..(MaxAttempts + 2) /\ s.spliced \in 0..Last
         /\ s.transport \in 0..Last /\ s.wire \in {"none", "opening", "open", "closed"}
         /\ s.handshakes \in Nat /\ s.quick \in Nat
         /\ s.late \in [1..Last -> Nat] /\ s.closing \in [1..Last -> Nat]
<1> QED
  BY DEF SocketStates

\* What its counts become.
LEMMA Counts ==
  /\ \A n \in Nat : n + 1 \in Nat /\ (n > 0 => n - 1 \in Nat)
  /\ 0 \in 0..(MaxAttempts + 2) /\ 0 \in 0..Last /\ 0 \in Nat
<1> QED
  BY StreamSocketAssumption

\* One more of a transport.
LEMMA OneMore ==
  ASSUME NEW f \in [1..Last -> Nat], NEW k \in 1..Last
  PROVE  /\ [f EXCEPT ![k] = @ + 1] \in [1..Last -> Nat]
         /\ f[k] > 0 => [f EXCEPT ![k] = @ - 1] \in [1..Last -> Nat]
<1> QED
  OBVIOUS

-----------------------------------------------------------------------------
(* The buffer *)

\* Sending a packet leaves the socket as it should be.
LEMMA SendGood ==
  ASSUME NEW s, Sane(s), Timers(s), Listed(s), Released(s), Held(s)
  PROVE  LET t == Send(s) IN
         /\ Sane(t) /\ Timers(t) /\ Listed(t) /\ Released(t) /\ Held(t)
         /\ Kept(s, t) /\ t.transport = s.transport
<1> DEFINE t == [s EXCEPT !.posting = TRUE, !.doBuffer = TRUE]
<1>1. CASE s.transport \in {0, WS}
  BY <1>1 DEF Send, Kept
<1>2. CASE s.transport \notin {0, WS}
  <2>1. t \in SocketStates
    BY Zenon DEF Sane, SocketStates
  <2>2. /\ Placed(t) /\ Timers(t) /\ Listed(t) /\ Released(t) /\ Held(t) /\ Kept(s, t)
        /\ t.transport = s.transport
    BY DEF Sane, Placed, Timers, Listed, Released, Held, HeldBack, Waits, Kept, SocketStates
  <2>3. Send(s) = t
    BY <1>2 DEF Send
  <2> HIDE DEF t
  <2> QED
    BY <2>1, <2>2, <2>3 DEF Sane
<1> QED
  BY <1>1, <1>2

\* A packet that is emitted is sent, or held back for a reason.
LEMMA PacketGood ==
  ASSUME NEW s, Good(s)
  PROVE  Good(Packet(s)) /\ Kept(s, Packet(s))
<1> DEFINE t == [s EXCEPT !.buffered = TRUE]
<1>1. Sane(s) /\ Timers(s) /\ Loop(s) /\ Listed(s) /\ Released(s) /\ Held(s)
  BY DEF Good, Calm
<1>2. CASE s.connected /\ ~s.doBuffer
  <2>1. Packet(s) = Send(s)
    BY <1>2 DEF Packet
  <2> QED
    BY <1>1, <2>1, SendGood DEF Good, Calm, Loop, Kept
<1>3. CASE ~(s.connected /\ ~s.doBuffer)
  <2>1. t \in SocketStates
    BY <1>1, Zenon DEF Sane, SocketStates
  <2>2. /\ Placed(t) /\ Timers(t) /\ Loop(t) /\ Listed(t) /\ Kept(s, t)
    BY <1>1 DEF Sane, Placed, Timers, Loop, Listed, Kept, SocketStates
  <2>3. Released(t) /\ Held(t)
    BY <1>1, <1>3 DEF Sane, Released, Polls, Held, HeldBack, Waits, SocketStates
  <2>4. Packet(s) = t
    BY <1>3 DEF Packet
  <2> HIDE DEF t
  <2> QED
    BY <2>1, <2>2, <2>3, <2>4 DEF Good, Calm, Sane
<1> QED
  BY <1>2, <1>3

\* When packets are no longer held back, those that waited are sent.
LEMMA ReleaseGood ==
  ASSUME NEW s, Sane(s), Timers(s), Listed(s)
  PROVE  LET t == SetBuffer(s, FALSE) IN
         /\ Sane(t) /\ Timers(t) /\ Listed(t) /\ Released(t) /\ Held(t)
         /\ Kept(s, t) /\ t.transport = s.transport /\ (~t.connected => ~t.doBuffer)
<1> DEFINE r == [s EXCEPT !.doBuffer = FALSE, !.overruled = FALSE]
           u == [r EXCEPT !.buffered = FALSE]
<1>1. [s EXCEPT !.doBuffer = FALSE, !.overruled = @ /\ FALSE] = r
  BY Zenon
<1>2. SetBuffer(s, FALSE) = IF r.connected THEN FlushBuffer(r) ELSE r
  BY <1>1, Zenon DEF SetBuffer
<1>3. r \in SocketStates
  BY Zenon DEF Sane, SocketStates
<1>4. Placed(r) /\ Timers(r) /\ Listed(r) /\ Kept(s, r) /\ r.doBuffer = FALSE
      /\ r.transport = s.transport
  BY DEF Sane, Placed, Timers, Listed, Kept, SocketStates
<1> HIDE DEF r
<1>5. u \in SocketStates
  BY <1>3, Zenon DEF SocketStates
<1>6. /\ Placed(u) /\ Timers(u) /\ Listed(u) /\ Kept(r, u)
      /\ u.doBuffer = FALSE /\ u.buffered = FALSE /\ u.transport = r.transport
  BY <1>3, <1>4 DEF Placed, Timers, Listed, Kept, SocketStates
<1>7. FlushBuffer(r) = IF r.buffered /\ CanSend(r) THEN Send(u) ELSE r
  BY DEF FlushBuffer
<1> HIDE DEF u
<1>8. CASE ~(r.connected /\ r.buffered /\ CanSend(r))
  <2>1. SetBuffer(s, FALSE) = r
    BY <1>2, <1>7, <1>8
  <2>2. Released(r) /\ Held(r)
    BY <1>4, <1>8 DEF Released, Held, HeldBack, Waits
  <2> QED
    BY <1>3, <1>4, <2>1, <2>2 DEF Sane
<1>9. CASE r.connected /\ r.buffered /\ CanSend(r)
  <2>1. SetBuffer(s, FALSE) = Send(u) /\ Sane(u)
    BY <1>2, <1>5, <1>6, <1>7, <1>9 DEF Sane
  <2>2. Released(u) /\ Held(u)
    BY <1>6 DEF Released, Held, HeldBack, Waits
  <2>3. /\ Sane(Send(u)) /\ Timers(Send(u)) /\ Listed(Send(u))
        /\ Released(Send(u)) /\ Held(Send(u)) /\ Kept(u, Send(u))
        /\ Send(u).transport = u.transport
    BY <1>6, <2>1, <2>2, SendGood
  <2>4. Kept(s, Send(u)) /\ Send(u).connected /\ Send(u).transport = s.transport
    BY <1>4, <1>6, <1>9, <2>3 DEF Kept
  <2> QED
    BY <2>1, <2>3, <2>4
<1> QED
  BY <1>8, <1>9

\* Without a connection they may be held back, when the transports that poll are told.
LEMMA HoldGood ==
  ASSUME NEW s, Good(s), ~s.connected
  PROVE  Good(Overrule(SetBuffer(s, TRUE)))
<1> DEFINE over == s.overruled \/ (~s.posting /\ Polls(s))
           r == [s EXCEPT !.doBuffer = TRUE]
           t == [s EXCEPT !.doBuffer = TRUE, !.overruled = over]
<1>1. s \in SocketStates /\ s.overruled \in BOOLEAN /\ over \in BOOLEAN
  BY Parts DEF Good, Calm, Sane, Polls
<1>2. SetBuffer(s, TRUE) = r
  BY <1>1 DEF SetBuffer, SocketStates
<1>3. Overrule(r) = t
  BY <1>1 DEF Overrule, Polls, SocketStates
<1>4. t \in SocketStates
  <2> HIDE DEF over
  <2> QED
    BY <1>1, Zenon DEF SocketStates
<1>5. Placed(t) /\ Timers(t) /\ Loop(t) /\ Listed(t) /\ Released(t) /\ Held(t)
  BY <1>1 DEF Good, Calm, Sane, Placed, Timers, Loop, Listed, Released, Polls, Held, SocketStates
<1> HIDE DEF t
<1> QED
  BY <1>2, <1>3, <1>4, <1>5 DEF Good, Calm, Sane

-----------------------------------------------------------------------------
(* Connecting *)

\* Giving a transport up takes its connection away and nothing else, and makes none
\* poll that did not.
LEMMA GiveUpGood ==
  ASSUME NEW s, Sane(s)
  PROVE  \E late, closing \in [1..Last -> Nat] :
           /\ GiveUp(s) = [s EXCEPT !.late = late, !.closing = closing, !.wire = "none"]
           /\ (\E k \in 2..Last : late[k] > 0) => Polls(s)
<1>1. s \in SocketStates
  BY DEF Sane
<1>2. s.late \in [1..Last -> Nat] /\ s.closing \in [1..Last -> Nat]
  BY <1>1, Parts
<1>3. s.wire \in {"opening", "open"} => s.transport \in 1..Last
  BY DEF Sane, Placed
<1>4. CASE s.wire = "opening"
  <2> DEFINE late == [s.late EXCEPT ![s.transport] = @ + 1]
  <2>1. late \in [1..Last -> Nat]
    BY <1>2, <1>3, <1>4, OneMore
  <2>2. GiveUp(s) = [s EXCEPT !.late[s.transport] = @ + 1, !.wire = "none"]
    BY <1>4 DEF GiveUp
  <2>3. GiveUp(s) = [s EXCEPT !.late = late, !.closing = s.closing, !.wire = "none"]
    BY <1>1, <2>2 DEF SocketStates
  <2>4. ASSUME NEW k \in 2..Last, late[k] > 0 PROVE Polls(s)
    <3>1. CASE s.transport = WS
      <4>1. late[k] = s.late[k]
        BY <1>2, <1>3, <1>4, <3>1, StreamSocketAssumption DEF WS
      <4> QED
        BY <2>4, <4>1 DEF Polls
    <3>2. CASE s.transport # WS
      BY <1>4, <3>2 DEF Polls
    <3> QED
      BY <3>1, <3>2
  <2> HIDE DEF late
  <2> QED
    BY <1>2, <2>1, <2>3, <2>4, ZenonT(40)
<1>5. CASE s.wire = "open"
  <2> DEFINE closing == [s.closing EXCEPT ![s.transport] = @ + 1]
  <2>1. closing \in [1..Last -> Nat]
    BY <1>2, <1>3, <1>5, OneMore
  <2>2. GiveUp(s) = [s EXCEPT !.closing[s.transport] = @ + 1, !.wire = "none"]
    BY <1>5 DEF GiveUp
  <2>3. GiveUp(s) = [s EXCEPT !.late = s.late, !.closing = closing, !.wire = "none"]
    BY <1>1, <2>2 DEF SocketStates
  <2> HIDE DEF closing
  <2> QED
    BY <1>2, <2>1, <2>3, ZenonT(40) DEF Polls
<1>6. CASE s.wire \notin {"opening", "open"}
  <2>1. GiveUp(s) = [s EXCEPT !.wire = "none"]
    BY <1>6 DEF GiveUp
  <2>2. GiveUp(s) = [s EXCEPT !.late = s.late, !.closing = s.closing, !.wire = "none"]
    BY <1>1, <2>1 DEF SocketStates
  <2> QED
    BY <1>2, <2>2, ZenonT(40) DEF Polls
<1> QED
  BY <1>4, <1>5, <1>6, ZenonT(40)

\* Reconnecting ends.
LEMMA ResetGood ==
  ASSUME NEW s, Sane(s), Timers(s), Listed(s), Released(s), Held(s)
  PROVE  Good(Reset(s))
<1> DEFINE advised == s.advised /\ s.oldRetries
           swallowed == s.swallowed /\ s.oldRetries
           t == [s EXCEPT !.retryTimer = FALSE, !.reconnecting = FALSE,
                          !.attempts = 0, !.redo = FALSE, !.multiple = s.saved,
                          !.advised = advised, !.swallowed = swallowed]
<1>1. s.saved \in BOOLEAN /\ 0 \in 0..(MaxAttempts + 2)
      /\ advised \in BOOLEAN /\ swallowed \in BOOLEAN /\ s \in SocketStates
  BY Parts, Counts DEF Sane
<1>2. Reset(s) = t
  BY Zenon DEF Reset
<1>3. s.oldRetries => (advised <=> s.advised) /\ (swallowed <=> s.swallowed)
  BY Zenon
<1> HIDE DEF advised, swallowed
<1>4. t \in SocketStates
  BY <1>1, ZenonT(90) DEF SocketStates
<1>5. Placed(t) /\ Timers(t) /\ Loop(t) /\ Listed(t)
  BY <1>1, <1>3, StreamSocketAssumption DEF Sane, Placed, Timers, Loop, Listed, SocketStates
<1>6. Released(t) /\ Held(t)
  BY <1>1 DEF Released, Polls, Held, HeldBack, Waits, CanSend, Made, SocketStates
<1> HIDE DEF t
<1> QED
  BY <1>2, <1>3, <1>4, <1>5, <1>6 DEF Good, Calm, Sane

\* A handshake is asked for.
LEMMA ConnectGood ==
  ASSUME NEW s, Good(s)
  PROVE  Good(Connect(s)) /\ Kept(s, Connect(s))
<1> DEFINE t == [s EXCEPT !.connecting = TRUE, !.handshakes = @ + 1]
<1>1. s \in SocketStates
  BY DEF Good, Calm, Sane
<1>2. CASE s.connecting
  BY <1>2 DEF Connect, Kept
<1>3. CASE ~s.connecting
  <2>1. s.handshakes + 1 \in Nat
    BY <1>1, Parts, Counts
  <2>2. t \in SocketStates
    BY <1>1, <2>1, Zenon DEF SocketStates
  <2>3. Placed(t) /\ Timers(t) /\ Loop(t) /\ Listed(t) /\ Kept(s, t)
    BY <1>1 DEF Good, Calm, Sane, Placed, Timers, Loop, Listed, Kept, SocketStates
  <2>4. Released(t) /\ Held(t)
    BY <1>1 DEF Good, Calm, Released, Polls, Held, HeldBack, Waits, CanSend, Made, SocketStates
  <2>5. Connect(s) = t
    BY <1>3 DEF Connect
  <2> HIDE DEF t
  <2> QED
    BY <2>2, <2>3, <2>4, <2>5 DEF Good, Calm, Sane
<1> QED
  BY <1>2, <1>3

\* The timer of the loop is set; it is the only one if the one before it is gone.
LEMMA ArmRetryGood ==
  ASSUME NEW s, Sane(s), Loop(s), Listed(s), s.reconnecting
  PROVE  LET t == ArmRetry(s) IN
         /\ Sane(t) /\ Loop(t) /\ Listed(t) /\ t.connected = s.connected
         /\ Timers(s) /\ (s.retryTimer => s.spliced = Last \/ s.advised \/ s.swallowed)
              => Timers(t)
         /\ Released(s) => Released(t)
         /\ Held(s) => Held(t)
<1> DEFINE old == s.oldRetries \/ s.retryTimer
           t == [s EXCEPT !.retryTimer = TRUE, !.oldRetries = old]
<1>1. s \in SocketStates /\ old \in BOOLEAN /\ s.retryTimer \in BOOLEAN /\ s.spliced \in 0..Last
  BY Parts DEF Sane
<1>2. ArmRetry(s) = t
  BY Zenon DEF ArmRetry
<1>3. ASSUME Timers(s), s.retryTimer => s.spliced = Last \/ s.advised \/ s.swallowed,
             s.spliced < Last, ~s.advised, ~s.swallowed
      PROVE  old = FALSE
  BY <1>1, <1>3, StreamSocketAssumption DEF Timers
<1> HIDE DEF old
<1>4. t \in SocketStates
  BY <1>1, Zenon DEF SocketStates
<1>5. Placed(t) /\ Loop(t) /\ Listed(t) /\ t.connected = s.connected
      /\ t.reconnecting = s.reconnecting /\ t.spliced = s.spliced
      /\ t.advised = s.advised /\ t.swallowed = s.swallowed /\ t.oldRetries = old
  BY <1>1 DEF Sane, Placed, Loop, Listed, SocketStates
<1>6. (Released(s) => Released(t)) /\ (Held(s) => Held(t))
  BY <1>1 DEF Released, Polls, Held, HeldBack, Waits, CanSend, Made, SocketStates
<1> HIDE DEF t
<1>7. ASSUME Timers(s), s.retryTimer => s.spliced = Last \/ s.advised \/ s.swallowed
      PROVE  Timers(t)
  BY <1>3, <1>5, <1>7 DEF Timers
<1> QED
  BY <1>2, <1>4, <1>5, <1>6, <1>7 DEF Sane

\* The next step of the loop, when its timer is gone.
LEMMA MaybeReconnectGood ==
  ASSUME NEW s, Sane(s), Timers(s), Listed(s), Released(s), Held(s),
         s.retryTimer => s.connected \/ s.spliced = Last \/ s.advised \/ s.swallowed
  PROVE  Good(MaybeReconnect(s))
<1>1. s \in SocketStates /\ s.attempts \in 0..(MaxAttempts + 2) /\ s.spliced \in 0..Last
  BY Parts DEF Sane
<1>2. ~s.reconnecting \/ ~s.connected => Good(s)
  BY DEF Good, Calm, Loop
<1>3. CASE ~s.reconnecting
  BY <1>2, <1>3 DEF MaybeReconnect
<1>4. CASE s.reconnecting /\ s.connected
  BY <1>4, ResetGood DEF MaybeReconnect
<1>5. CASE s.reconnecting /\ ~s.connected /\ s.connecting
  <2>1. MaybeReconnect(s) = ArmRetry(s)
    BY <1>5 DEF MaybeReconnect
  <2> QED
    BY <1>2, <1>5, <2>1, ArmRetryGood DEF Good, Calm
<1>6. CASE s.reconnecting /\ ~s.connected /\ ~s.connecting /\ s.attempts < MaxAttempts
  <2> DEFINE r == [s EXCEPT !.attempts = @ + 1]
  <2>1. s.attempts + 1 \in 0..(MaxAttempts + 2)
    BY <1>1, <1>6, StreamSocketAssumption
  <2>2. r \in SocketStates
    BY <1>1, <2>1, Zenon DEF SocketStates
  <2>3. Placed(r) /\ Timers(r) /\ Listed(r) /\ Kept(s, r)
    <3>1. r.attempts <= MaxAttempts
      BY <1>1, <1>6, StreamSocketAssumption DEF SocketStates
    <3>2. r.wire = s.wire /\ r.transport = s.transport /\ r.late = s.late /\ Kept(s, r)
      BY <1>1 DEF Kept, SocketStates
    <3> QED
      BY <3>1, <3>2 DEF Sane, Placed, Timers, Listed, Kept
  <2>4. Released(r)
    BY <1>1 DEF Released, Polls, SocketStates
  <2>5. MaybeReconnect(s) = ArmRetry(Connect(r))
    BY <1>6 DEF MaybeReconnect
  <2> HIDE DEF r
  <2>6. Good(r)
    BY <1>6, <2>2, <2>3, <2>4 DEF Good, Calm, Sane, Loop, Held, Kept
  <2>7. Good(Connect(r)) /\ Kept(r, Connect(r))
    BY <2>6, ConnectGood
  <2> QED
    BY <1>6, <2>3, <2>5, <2>7, ArmRetryGood DEF Kept, Good, Calm
<1>7. CASE s.reconnecting /\ ~s.connected /\ ~s.connecting /\ ~(s.attempts < MaxAttempts)
           /\ s.redo
  BY <1>7, ResetGood DEF MaybeReconnect
<1>8. CASE s.reconnecting /\ ~s.connected /\ ~s.connecting /\ ~(s.attempts < MaxAttempts)
           /\ ~s.redo
  <2> DEFINE first == IF s.spliced < Last THEN s.spliced + 1 ELSE 0
             r == [GiveUp(s) EXCEPT !.attempts = @ + 1, !.redo = TRUE, !.multiple = TRUE,
                                    !.transport = first]
  <2>1. PICK late, closing \in [1..Last -> Nat] :
          /\ GiveUp(s) = [s EXCEPT !.late = late, !.closing = closing, !.wire = "none"]
          /\ (\E k \in 2..Last : late[k] > 0) => Polls(s)
    BY GiveUpGood, ZenonT(40)
  <2>2. s.attempts = MaxAttempts /\ s.attempts + 1 \in 0..(MaxAttempts + 2)
        /\ first \in 0..Last /\ (s.spliced < Last => first = s.spliced + 1)
    <3>1. s.attempts <= MaxAttempts
      BY <1>8, Zenon DEF Sane, Placed
    <3> QED
      BY <1>1, <1>8, <3>1, StreamSocketAssumption
  <2>3. MaybeReconnect(s) = Connect(r)
    BY <1>8 DEF MaybeReconnect
  <2> HIDE DEF first
  <2> DEFINE q == [s EXCEPT !.late = late, !.closing = closing, !.wire = "none",
                            !.attempts = s.attempts + 1, !.redo = TRUE,
                            !.multiple = TRUE, !.transport = first]
  <2>4. r = q
    BY <1>1, <2>1 DEF SocketStates
  <2>5. q \in SocketStates
    BY <1>1, <2>1, <2>2, ZenonT(90) DEF SocketStates
  <2>6. Placed(q) /\ Timers(q) /\ Listed(q) /\ Kept(s, q)
    BY <1>1, <2>1, <2>2, StreamSocketAssumption
    DEF Sane, Placed, Timers, Listed, Kept, SocketStates
  <2>7. Released(q)
    BY <1>1, <2>1 DEF Released, Polls, SocketStates
  <2> HIDE DEF q, r
  <2>8. Good(q)
    BY <1>8, <2>5, <2>6, <2>7 DEF Good, Calm, Sane, Loop, Held, Kept
  <2> QED
    BY <2>3, <2>4, <2>8, ConnectGood
<1> QED
  BY <1>3, <1>4, <1>5, <1>6, <1>7, <1>8

\* 'connect_failed' steps the loop only after the last transport.
LEMMA ConnectFailedGood ==
  ASSUME NEW s, Good(s), s.spliced = Last
  PROVE  Good(ConnectFailed(s))
<1> QED
  BY MaybeReconnectGood DEF ConnectFailed, Good, Calm

\* A transport begins to open: a polling one releases the buffer.
LEMMA OpenTransportGood ==
  ASSUME NEW s, Sane(s), Timers(s), Loop(s), Listed(s), Released(s),
         s.connected => HeldBack(s), s.transport # 0
  PROVE  Good(OpenTransport(s))
<1> DEFINE old == s.oldTimers \/ s.timer
           r == [GiveUp(s) EXCEPT !.wire = "opening", !.connecting = TRUE, !.timer = TRUE,
                                  !.oldTimers = @ \/ s.timer]
<1>1. s \in SocketStates /\ s.spliced \in 0..Last /\ s.timer \in BOOLEAN
      /\ s.oldTimers \in BOOLEAN /\ old \in BOOLEAN /\ s.transport \in 1..Last
  BY Parts, StreamSocketAssumption DEF Sane
<1>2. PICK late, closing \in [1..Last -> Nat] :
        /\ GiveUp(s) = [s EXCEPT !.late = late, !.closing = closing, !.wire = "none"]
        /\ (\E k \in 2..Last : late[k] > 0) => Polls(s)
  BY GiveUpGood, ZenonT(40)
<1> DEFINE t == [s EXCEPT !.late = late, !.closing = closing, !.wire = "opening",
                          !.connecting = TRUE, !.timer = TRUE, !.oldTimers = old]
<1>3. OpenTransport(s) = IF r.transport = WS THEN r ELSE SetBuffer(r, FALSE)
  BY Zenon DEF OpenTransport
<1>4. r = t
  BY <1>1, <1>2 DEF SocketStates
<1> HIDE DEF old, r
<1>5. t \in SocketStates
  BY <1>1, <1>2, ZenonT(90) DEF SocketStates
<1>6. Placed(t) /\ Timers(t) /\ Listed(t) /\ Kept(s, t)
      /\ t.wire = "opening" /\ t.transport = s.transport
  BY <1>1, <1>2, StreamSocketAssumption
  DEF Sane, Placed, Timers, Listed, Kept, SocketStates
<1>7. t.transport = WS => Released(t)
  BY <1>1, <1>2 DEF Released, Polls, SocketStates
<1>8. t.doBuffer = s.doBuffer /\ t.posting = s.posting /\ t.overruled = s.overruled
  BY <1>1 DEF SocketStates
<1> HIDE DEF t
<1>9. CASE t.transport = WS
  <2>1. Held(t)
    BY <1>6, <1>8, <1>9 DEF Held, HeldBack, Waits, CanSend, Kept
  <2> QED
    BY <1>3, <1>4, <1>5, <1>6, <1>7, <1>9, <2>1 DEF Good, Calm, Sane, Loop, Kept
<1>10. CASE t.transport # WS
  <2>1. OpenTransport(s) = SetBuffer(t, FALSE)
    BY <1>3, <1>4, <1>10
  <2> QED
    BY <1>5, <1>6, <2>1, ReleaseGood DEF Good, Calm, Sane, Loop, Kept
<1> QED
  BY <1>9, <1>10

\* The first transport on the list is tried.
LEMMA TryTransportGood ==
  ASSUME NEW s, Sane(s), Timers(s), Loop(s), Released(s), Held(s), Listed(s) \/ ~s.connected
  PROVE  Good(TryTransport(s))
<1>1. s \in SocketStates /\ s.spliced \in 0..Last /\ 0 \in 0..Last
  BY Parts, Counts DEF Sane
<1>2. PICK late, closing \in [1..Last -> Nat] :
        /\ GiveUp(s) = [s EXCEPT !.late = late, !.closing = closing, !.wire = "none"]
        /\ (\E k \in 2..Last : late[k] > 0) => Polls(s)
  BY GiveUpGood, ZenonT(40)
<1> DEFINE At(n) == [s EXCEPT !.late = late, !.closing = closing, !.wire = "none",
                              !.transport = n]
<1>3. ASSUME NEW n \in 0..Last, s.spliced < Last => n = s.spliced + 1
      PROVE  /\ [GiveUp(s) EXCEPT !.transport = n] = At(n)
             /\ At(n) \in SocketStates /\ Placed(At(n)) /\ Timers(At(n)) /\ Loop(At(n))
             /\ Listed(At(n)) /\ Released(At(n)) /\ Kept(s, At(n))
             /\ At(n).transport = n /\ At(n).wire = "none"
             /\ At(n).doBuffer = s.doBuffer /\ At(n).buffered = s.buffered
             /\ At(n).posting = s.posting /\ At(n).overruled = s.overruled
             /\ At(n).webkit = s.webkit
  <2> DEFINE t == At(n)
  <2>1. [GiveUp(s) EXCEPT !.transport = n] = t
    BY <1>1, <1>2 DEF SocketStates
  <2>2. t \in SocketStates
    BY <1>1, <1>2, <1>3, ZenonT(60) DEF SocketStates
  <2>3. /\ Placed(t) /\ Timers(t) /\ Loop(t) /\ Listed(t) /\ Kept(s, t)
        /\ t.transport = n /\ t.wire = "none" /\ t.late = late
        /\ t.doBuffer = s.doBuffer /\ t.buffered = s.buffered
        /\ t.posting = s.posting /\ t.overruled = s.overruled /\ t.webkit = s.webkit
    BY <1>1, <1>2, <1>3, StreamSocketAssumption
    DEF Sane, Placed, Timers, Loop, Listed, Kept, SocketStates
  <2> HIDE DEF t
  <2>4. Released(t)
    BY <1>2, <2>3 DEF Released, Polls
  <2>5. QED
    BY <2>1, <2>2, <2>3, <2>4 DEF t
<1>4. CASE s.spliced = Last
  <2> DEFINE t == At(0)
  <2>1. TryTransport(s) = ConnectFailed([GiveUp(s) EXCEPT !.transport = 0])
    BY <1>4 DEF TryTransport
  <2>2. [GiveUp(s) EXCEPT !.transport = 0] = t /\ t \in SocketStates /\ Placed(t)
        /\ Timers(t) /\ Loop(t) /\ Listed(t) /\ Released(t) /\ Kept(s, t) /\ t.transport = 0
        /\ t.doBuffer = s.doBuffer /\ t.posting = s.posting /\ t.overruled = s.overruled
    <3>1. 0 \in 0..Last /\ ~(s.spliced < Last)
      BY <1>1, <1>4, StreamSocketAssumption
    <3> HIDE DEF At
    <3> QED
      BY <1>3, <3>1
  <2> HIDE DEF t
  <2>3. Held(t)
    BY <2>2 DEF Held, HeldBack, Waits, CanSend, Made, Kept
  <2> QED
    BY <1>4, <2>1, <2>2, <2>3, ConnectFailedGood DEF Good, Calm, Sane, Kept
<1>5. CASE s.spliced # Last
  <2> DEFINE n == s.spliced + 1
             t == At(n)
             u == [t EXCEPT !.deferred = @ + 1]
  <2>1. n \in 0..Last /\ n # 0
    BY <1>1, <1>5, StreamSocketAssumption
  <2>2. TryTransport(s) =
          LET r == [GiveUp(s) EXCEPT !.transport = s.spliced + 1]
          IN IF r.transport # WS /\ r.webkit THEN [r EXCEPT !.deferred = @ + 1]
             ELSE OpenTransport(r)
    BY <1>5 DEF TryTransport
  <2>3. [GiveUp(s) EXCEPT !.transport = s.spliced + 1] = t /\ t \in SocketStates /\ Placed(t)
        /\ Timers(t) /\ Loop(t) /\ Listed(t) /\ Released(t) /\ Kept(s, t) /\ t.transport = n
        /\ t.doBuffer = s.doBuffer /\ t.posting = s.posting /\ t.overruled = s.overruled
        /\ t.buffered = s.buffered /\ t.wire = "none"
    BY <1>3, <2>1
  <2> HIDE DEF t
  <2>4. s.connected => HeldBack(t)
    BY <2>3 DEF Held, HeldBack
  <2>5. CASE t.transport # WS /\ t.webkit
    <3>1. TryTransport(s) = u
      BY <2>2, <2>3, <2>5
    <3>2. t.deferred + 1 \in Nat
      BY <2>3, Parts, Counts
    <3>3. u \in SocketStates
      <4>1. t \in SocketStates
        BY <2>3
      <4> QED
        BY <3>2, <4>1, Zenon DEF SocketStates
    <3>4. s.connected => s.transport = n
      <4>1. s.spliced < Last
        BY <1>1, <1>5, StreamSocketAssumption
      <4> QED
        BY <4>1 DEF Listed
    <3>5. s.connected => Waits(t)
      <4>1. ASSUME s.connected PROVE CanSend(s) /\ Waits(s)
        <5>1. s.transport \notin {0, WS}
          BY <2>1, <2>3, <2>5, <3>4, <4>1
        <5> QED
          BY <4>1, <5>1 DEF Held, CanSend, Made
      <4> QED
        BY <2>3, <4>1 DEF Waits
    <3>6. Placed(u) /\ Timers(u) /\ Loop(u) /\ Listed(u) /\ Kept(t, u)
      BY <2>3 DEF Placed, Timers, Loop, Listed, Kept, SocketStates
    <3>7. Released(u) /\ (HeldBack(t) => HeldBack(u)) /\ (Waits(t) => Waits(u))
      BY <2>3 DEF Released, Polls, HeldBack, Waits, CanSend, Made, SocketStates
    <3> HIDE DEF u
    <3> QED
      BY <2>3, <2>4, <3>1, <3>3, <3>5, <3>6, <3>7 DEF Good, Calm, Sane, Held, Kept
  <2>6. CASE ~(t.transport # WS /\ t.webkit)
    <3>1. TryTransport(s) = OpenTransport(t)
      BY <2>2, <2>3, <2>6
    <3> QED
      BY <2>1, <2>3, <2>4, <3>1, OpenTransportGood DEF Sane, Kept
  <2> QED
    BY <2>5, <2>6
<1> QED
  BY <1>4, <1>5

\* The transport that failed is taken off the list.
LEMMA HandleReconnectionGood ==
  ASSUME NEW s, Good(s)
  PROVE  Good(HandleReconnection(s))
<1>1. CASE s.connected
  BY <1>1 DEF HandleReconnection
<1>2. CASE ~s.connected
  <2> DEFINE t == [s EXCEPT !.connecting = FALSE]
             rest == IF s.transport > s.spliced THEN s.transport ELSE Last
             u == [t EXCEPT !.spliced = rest]
  <2>1. HandleReconnection(s) =
          IF ~s.multiple THEN t
          ELSE IF rest = Last THEN ConnectFailed(u) ELSE TryTransport(u)
    BY <1>2 DEF HandleReconnection
  <2>2. s.transport \in 0..Last /\ s.spliced \in 0..Last /\ Last \in Nat \ {0}
        /\ s \in SocketStates
    BY StreamSocketAssumption, Parts DEF Good, Calm, Sane
  <2>3. rest \in 0..Last /\ (rest < Last => s.spliced < Last)
    BY <2>2
  <2>4. t \in SocketStates
    BY <2>2, Zenon DEF SocketStates
  <2>5. Placed(t) /\ Timers(t) /\ Loop(t) /\ Listed(t) /\ ~t.connected /\ t.spliced = s.spliced
    BY <1>2, <2>2 DEF Good, Calm, Sane, Placed, Timers, Loop, Listed, SocketStates
  <2>6. Released(t)
    BY <2>2 DEF Good, Calm, Released, Polls, SocketStates
  <2> HIDE DEF t, rest
  <2>7. u \in SocketStates
    BY <2>3, <2>4, Zenon DEF SocketStates
  <2>8. Placed(u) /\ Timers(u) /\ Loop(u) /\ ~u.connected /\ u.spliced = rest
    BY <2>3, <2>4, <2>5 DEF Placed, Timers, Loop, SocketStates
  <2>9. Released(u)
    BY <2>4, <2>6 DEF Released, Polls, SocketStates
  <2> HIDE DEF u
  <2>10. Good(t)
    BY <2>4, <2>5, <2>6 DEF Good, Calm, Sane, Held
  <2>11. rest = Last => Good(u)
    BY <2>2, <2>7, <2>8, <2>9 DEF Good, Calm, Sane, Held, Listed
  <2>12. Good(TryTransport(u))
    BY <2>7, <2>8, <2>9, TryTransportGood DEF Sane, Held
  <2> QED
    BY <2>1, <2>8, <2>10, <2>11, <2>12, ConnectFailedGood
<1> QED
  BY <1>1, <1>2

\* The socket is connected: what waits is sent, or the transport cannot send yet.
LEMMA OnConnectGood ==
  ASSUME NEW s, Good(s), s.connected \/ ~s.doBuffer \/ s.posting \/ s.overruled,
         s.connected \/ s.transport # 0 \/ s.spliced = Last
  PROVE  Good(OnConnect(s))
<1>1. CASE s.connected
  BY <1>1 DEF OnConnect
<1>2. CASE ~s.connected
  <2> DEFINE t == [s EXCEPT !.connected = TRUE, !.connecting = FALSE]
             u == IF t.doBuffer THEN t ELSE SetBuffer(t, FALSE)
             q == [u EXCEPT !.swallowed = TRUE]
             r == [u EXCEPT !.timer = FALSE]
  <2>1. OnConnect(s) = IF ~t.doBuffer /\ u.buffered THEN q ELSE MaybeReconnect(r)
    BY <1>2 DEF OnConnect
  <2>2. s \in SocketStates
    BY DEF Good, Calm, Sane
  <2>3. t \in SocketStates
    BY <2>2, Zenon DEF SocketStates
  <2>4. Placed(t) /\ Timers(t) /\ t.connected
    BY <2>2 DEF Good, Calm, Sane, Placed, Timers, SocketStates
  <2>5. Listed(t)
    <3>1. t.spliced = s.spliced /\ t.transport = s.transport
      BY <2>2 DEF SocketStates
    <3>2. s.spliced < Last => s.transport = s.spliced + 1
      BY <1>2, <2>2, Parts, StreamSocketAssumption DEF Good, Calm, Listed
    <3> QED
      BY <3>1, <3>2 DEF Listed
  <2>6. t.doBuffer => Released(t) /\ Held(t)
    BY <1>2, <2>2 DEF Good, Calm, Released, Polls, Held, HeldBack, Waits, SocketStates
  <2> HIDE DEF t
  <2>7. Sane(u) /\ Timers(u) /\ Listed(u) /\ Released(u) /\ Held(u) /\ u.connected
    BY <2>3, <2>4, <2>5, <2>6, ReleaseGood DEF Sane, Kept
  <2> HIDE DEF u
  <2>8. u \in SocketStates
    BY <2>7 DEF Sane
  <2>9. q \in SocketStates /\ r \in SocketStates
    BY <2>8, Zenon DEF SocketStates
  <2>10. Placed(q) /\ Timers(q) /\ Loop(q) /\ Listed(q)
    BY <2>7, <2>8 DEF Sane, Placed, Timers, Loop, Listed, SocketStates
  <2>11. Released(q) /\ Held(q)
    BY <2>7, <2>8 DEF Released, Polls, Held, HeldBack, Waits, CanSend, Made, SocketStates
  <2>12. Placed(r) /\ Timers(r) /\ Listed(r) /\ r.connected
    BY <2>7, <2>8 DEF Sane, Placed, Timers, Listed, SocketStates
  <2>13. Released(r) /\ Held(r)
    BY <2>7, <2>8 DEF Released, Polls, Held, HeldBack, Waits, CanSend, Made, SocketStates
  <2> HIDE DEF q, r
  <2>14. Good(q)
    BY <2>9, <2>10, <2>11 DEF Good, Calm, Sane
  <2>15. Good(MaybeReconnect(r))
    BY <2>9, <2>12, <2>13, MaybeReconnectGood DEF Sane
  <2> QED
    BY <2>1, <2>14, <2>15
<1> QED
  BY <1>1, <1>2

\* A connection that is there, or opens, is closed.
LEMMA CloseTransportGood ==
  ASSUME NEW s, Sane(s), Timers(s), Loop(s), Listed(s)
  PROVE  LET t == CloseTransport(s) IN
         /\ Sane(t) /\ Timers(t) /\ Loop(t) /\ Listed(t) /\ Kept(s, t)
         /\ Released(s) => Released(t)
<1>1. s \in SocketStates /\ s.closing \in [1..Last -> Nat]
  BY Parts DEF Sane
<1>2. CASE s.wire \notin {"opening", "open"}
  BY <1>2 DEF CloseTransport, Kept
<1>3. CASE s.wire \in {"opening", "open"}
  <2> DEFINE closing == IF s.transport = WS THEN [s.closing EXCEPT ![WS] = @ + 1]
                        ELSE s.closing
             t == [s EXCEPT !.wire = "closed", !.closing = closing]
  <2>1. CloseTransport(s) = t
    BY <1>1, <1>3 DEF CloseTransport, SocketStates
  <2>2. closing \in [1..Last -> Nat]
    BY <1>1, OneMore, StreamSocketAssumption DEF WS
  <2> HIDE DEF closing
  <2>3. t \in SocketStates
    BY <1>1, <2>2, Zenon DEF SocketStates
  <2>4. Placed(t) /\ Timers(t) /\ Loop(t) /\ Listed(t) /\ Kept(s, t)
    BY <1>1 DEF Sane, Placed, Timers, Loop, Listed, Kept, SocketStates
  <2>5. Released(s) => Released(t)
    BY <1>1 DEF Released, Polls, SocketStates
  <2> HIDE DEF t
  <2> QED
    BY <2>1, <2>3, <2>4, <2>5 DEF Sane
<1> QED
  BY <1>2, <1>3

\* The page asks for the connection again; the timer is the only one if there was none.
LEMMA ReconnectGood ==
  ASSUME NEW s, Sane(s), Listed(s), ~s.connected
  PROVE  LET t == Reconnect(s) IN
         /\ Sane(t) /\ Loop(t) /\ Listed(t) /\ ~t.connected
         /\ Timers(s) /\ (s.retryTimer => s.spliced = Last \/ s.advised \/ s.swallowed)
              => Timers(t)
         /\ Released(s) => Released(t)
<1> DEFINE r == [s EXCEPT !.reconnecting = TRUE, !.attempts = 0, !.saved = s.multiple,
                          !.multiple = FALSE]
<1>1. s \in SocketStates /\ s.multiple \in BOOLEAN /\ 0 \in 0..(MaxAttempts + 2)
  BY Parts, Counts DEF Sane
<1>2. Reconnect(s) = ArmRetry(r)
  BY Zenon DEF Reconnect
<1>3. r \in SocketStates
  BY <1>1, Zenon DEF SocketStates
<1>4. Placed(r) /\ Listed(r) /\ ~r.connected /\ r.reconnecting
      /\ r.retryTimer = s.retryTimer /\ r.spliced = s.spliced
      /\ r.advised = s.advised /\ r.swallowed = s.swallowed
      /\ (Timers(s) => Timers(r))
  BY <1>1, StreamSocketAssumption DEF Sane, Placed, Listed, Timers, SocketStates
<1>5. Released(s) => Released(r)
  BY <1>1 DEF Released, Polls, SocketStates
<1> HIDE DEF r
<1> QED
  BY <1>2, <1>3, <1>4, <1>5, ArmRetryGood DEF Sane, Loop

\* The connection is gone.
LEMMA OnDisconnectGood ==
  ASSUME NEW s, Sane(s), Timers(s), Loop(s), Listed(s)
  PROVE  LET t == OnDisconnect(s) IN
         /\ Sane(t) /\ Timers(t) /\ Loop(t) /\ Listed(t) /\ ~t.connected
         /\ Released(s) => Released(t)
<1> DEFINE t == [s EXCEPT !.connected = FALSE, !.connecting = FALSE]
           u == CloseTransport(t)
<1>1. OnDisconnect(s) \in {t, u} \/ (s.connected /\ OnDisconnect(s) = Reconnect(u))
  BY DEF OnDisconnect, PublishDisconnect
<1>2. s \in SocketStates
  BY DEF Sane
<1>3. t \in SocketStates
  BY <1>2, Zenon DEF SocketStates
<1>4. Placed(t) /\ Timers(t) /\ Loop(t) /\ Listed(t) /\ ~t.connected
      /\ t.spliced = s.spliced /\ t.retryTimer = s.retryTimer
      /\ t.advised = s.advised /\ t.swallowed = s.swallowed
  BY <1>2 DEF Sane, Placed, Timers, Loop, Listed, SocketStates
<1>5. Released(s) => Released(t)
  BY <1>2 DEF Released, Polls, SocketStates
<1> HIDE DEF t
<1>6. /\ Sane(u) /\ Timers(u) /\ Loop(u) /\ Listed(u) /\ Kept(t, u)
      /\ Released(t) => Released(u)
  BY <1>3, <1>4, CloseTransportGood DEF Sane
<1> HIDE DEF u
<1>7. s.connected => (s.retryTimer => s.spliced = Last \/ s.advised \/ s.swallowed)
  BY <1>2, Parts, StreamSocketAssumption DEF Timers, Loop
<1>8. CASE OnDisconnect(s) \in {t, u}
  BY <1>3, <1>4, <1>5, <1>6, <1>8 DEF Sane, Kept
<1>9. CASE s.connected /\ OnDisconnect(s) = Reconnect(u)
  BY <1>4, <1>5, <1>6, <1>7, <1>9, ReconnectGood DEF Kept
<1> QED
  BY <1>1, <1>8, <1>9

\* What holds the buffer back without a connection is remembered for those that poll.
LEMMA OverruleGood ==
  ASSUME NEW s, Sane(s), Timers(s), Loop(s), Listed(s), ~s.connected
  PROVE  Good(Overrule(s))
<1> DEFINE over == s.overruled \/ (s.doBuffer /\ ~s.posting /\ Polls(s))
           t == [s EXCEPT !.overruled = over]
<1>1. s \in SocketStates /\ over \in BOOLEAN
  BY Parts DEF Sane, Polls
<1>2. Overrule(s) = t
  BY Zenon DEF Overrule
<1>3. s.doBuffer /\ Polls(s) => s.posting \/ over
  OBVIOUS
<1> HIDE DEF over
<1>4. t \in SocketStates
  BY <1>1, Zenon DEF SocketStates
<1>5. Placed(t) /\ Timers(t) /\ Loop(t) /\ Listed(t) /\ ~t.connected
  BY <1>1 DEF Sane, Placed, Timers, Loop, Listed, SocketStates
<1>6. Released(t)
  BY <1>1, <1>3 DEF Released, Polls, SocketStates
<1> HIDE DEF t
<1> QED
  BY <1>2, <1>4, <1>5, <1>6 DEF Good, Calm, Sane, Held

\* A transport has closed or has failed.
LEMMA ClosedGood ==
  ASSUME NEW s, Calm(s), NEW k \in 1..Last
  PROVE  Good(Closed(s, k)) /\ Good(Failed(s, k))
<1> DEFINE n == IF k = WS THEN s.quick + 1 ELSE s.quick
           t == [s EXCEPT !.quick = n]
<1>1. ASSUME NEW r, Calm(r) PROVE Good(Closed(r, k))
  <2>1. Good(OnDisconnect(r)) /\ ~OnDisconnect(r).connected
    BY <1>1, OnDisconnectGood DEF Good, Calm, Held
  <2> QED
    BY <2>1, HoldGood DEF Closed
<1>2. s \in SocketStates /\ n \in Nat
  BY Parts, Counts DEF Calm, Sane
<1>3. Failed(s, k) = Closed(t, k)
  BY Zenon DEF Failed
<1> HIDE DEF n
<1>4. t \in SocketStates
  BY <1>2, Zenon DEF SocketStates
<1>5. Placed(t) /\ Timers(t) /\ Loop(t) /\ Listed(t)
  BY <1>2 DEF Calm, Sane, Placed, Timers, Loop, Listed, SocketStates
<1>6. Released(t)
  BY <1>2 DEF Calm, Released, Polls, SocketStates
<1> HIDE DEF t
<1> QED
  BY <1>1, <1>3, <1>4, <1>5, <1>6 DEF Calm, Sane

\* The server advises to reconnect.
LEMMA AdvisedGood ==
  ASSUME NEW s, Good(s), NEW open \in BOOLEAN
  PROVE  Good(Advised(s, open))
<1> DEFINE t == IF open THEN Packet(s) ELSE s
           u == OnDisconnect(t)
           r == Reconnect(u)
           q == [r EXCEPT !.advised = TRUE]
<1>1. Advised(s, open) \in {t, u, q}
  BY DEF Advised
<1>2. Good(t)
  BY PacketGood
<1> HIDE DEF t
<1>3. Good(u) /\ ~u.connected
  BY <1>2, OnDisconnectGood DEF Good, Calm, Held
<1> HIDE DEF u
<1>4. Sane(r) /\ Loop(r) /\ Listed(r) /\ ~r.connected /\ Released(r)
  BY <1>3, ReconnectGood DEF Good, Calm
<1> HIDE DEF r
<1>5. r \in SocketStates
  BY <1>4 DEF Sane
<1>6. q \in SocketStates
  BY <1>5, Zenon DEF SocketStates
<1>7. Placed(q) /\ Timers(q) /\ Loop(q) /\ Listed(q) /\ ~q.connected
  BY <1>4, <1>5 DEF Sane, Placed, Timers, Loop, Listed, SocketStates
<1>8. Released(q)
  BY <1>4, <1>5 DEF Released, Polls, SocketStates
<1> HIDE DEF q
<1>9. Good(q)
  BY <1>6, <1>7, <1>8 DEF Good, Calm, Sane, Held
<1> QED
  BY <1>1, <1>2, <1>3, <1>9

-----------------------------------------------------------------------------
(* The steps *)

\* The socket is as it should be when it is made.
LEMMA InitGood == Init => IInv
<1> SUFFICES ASSUME Init PROVE IInv
  OBVIOUS
<1>1. sock \in SocketStates
  BY StreamSocketAssumption DEF Init, SocketStates
<1>2. /\ sock.wire = "none" /\ sock.attempts = 0 /\ sock.connected = FALSE
      /\ sock.oldRetries = FALSE /\ sock.retryTimer = FALSE /\ sock.transport = 0
      /\ sock.doBuffer = FALSE /\ \A k \in 1..Last : sock.late[k] = 0
  BY DEF Init
<1>3. Placed(sock) /\ Timers(sock) /\ Loop(sock) /\ Listed(sock) /\ Released(sock) /\ Held(sock)
  BY <1>2, StreamSocketAssumption DEF Placed, Timers, Loop, Listed, Released, Held
<1> QED
  BY <1>1, <1>3, StreamSocketAssumption DEF Init, IInv, Good, Calm, Sane

\* What is on its way to the socket does not disturb it before it arrives.
Same(s, t) ==
  /\ Kept(s, t)
  /\ t.transport = s.transport /\ t.wire = s.wire /\ t.attempts = s.attempts
  /\ t.redo = s.redo /\ t.late = s.late /\ t.doBuffer = s.doBuffer
  /\ t.buffered = s.buffered /\ t.posting = s.posting /\ t.overruled = s.overruled

LEMMA SameGood ==
  ASSUME NEW s, Good(s), NEW t \in SocketStates, Same(s, t)
  PROVE  Good(t)
<1>1. Placed(t) /\ Timers(t) /\ Loop(t) /\ Listed(t)
  BY DEF Good, Calm, Sane, Placed, Timers, Loop, Listed, Same, Kept
<1>2. Released(t) /\ Held(t)
  BY DEF Good, Calm, Released, Polls, Held, HeldBack, Waits, CanSend, Made, Same, Kept
<1> QED
  BY <1>1, <1>2 DEF Good, Calm, Sane

\* A handshake, a timer or a call that was put off is taken.
LEMMA TakenGood ==
  ASSUME NEW s, Good(s), NEW n \in Nat
  PROVE  /\ Good([s EXCEPT !.handshakes = n])
         /\ Good([s EXCEPT !.handshakes = n, !.connecting = FALSE])
         /\ Good([s EXCEPT !.handshakes = n, !.refused = TRUE])
         /\ Good([s EXCEPT !.deferred = n])
         /\ Good([s EXCEPT !.quick = n])
         /\ Good([s EXCEPT !.timer = FALSE])
         /\ \A b \in BOOLEAN : Good([s EXCEPT !.connecting = b])
         /\ \A more \in BOOLEAN : Good([s EXCEPT !.oldTimers = more])
         /\ \A closing \in [1..Last -> Nat] : Good([s EXCEPT !.closing = closing])
<1>1. s \in SocketStates
  BY DEF Good, Calm, Sane
<1>2. Good([s EXCEPT !.handshakes = n])
  <2> DEFINE t == [s EXCEPT !.handshakes = n]
  <2>1. t \in SocketStates
    BY <1>1, Zenon DEF SocketStates
  <2>2. Same(s, t)
    BY <1>1 DEF Same, Kept, SocketStates
  <2> QED
    BY <2>1, <2>2, SameGood
<1>3. Good([s EXCEPT !.handshakes = n, !.connecting = FALSE])
  <2> DEFINE t == [s EXCEPT !.handshakes = n, !.connecting = FALSE]
  <2>1. t \in SocketStates
    BY <1>1, Zenon DEF SocketStates
  <2>2. Same(s, t)
    BY <1>1 DEF Same, Kept, SocketStates
  <2> QED
    BY <2>1, <2>2, SameGood
<1>4. Good([s EXCEPT !.handshakes = n, !.refused = TRUE])
  <2> DEFINE t == [s EXCEPT !.handshakes = n, !.refused = TRUE]
  <2>1. t \in SocketStates
    BY <1>1, Zenon DEF SocketStates
  <2>2. Same(s, t)
    BY <1>1 DEF Same, Kept, SocketStates
  <2> QED
    BY <2>1, <2>2, SameGood
<1>5. Good([s EXCEPT !.deferred = n])
  <2> DEFINE t == [s EXCEPT !.deferred = n]
  <2>1. t \in SocketStates
    BY <1>1, Zenon DEF SocketStates
  <2>2. Same(s, t)
    BY <1>1 DEF Same, Kept, SocketStates
  <2> QED
    BY <2>1, <2>2, SameGood
<1>6. Good([s EXCEPT !.quick = n])
  <2> DEFINE t == [s EXCEPT !.quick = n]
  <2>1. t \in SocketStates
    BY <1>1, Zenon DEF SocketStates
  <2>2. Same(s, t)
    BY <1>1 DEF Same, Kept, SocketStates
  <2> QED
    BY <2>1, <2>2, SameGood
<1>7. Good([s EXCEPT !.timer = FALSE])
  <2> DEFINE t == [s EXCEPT !.timer = FALSE]
  <2>1. t \in SocketStates
    BY <1>1, Zenon DEF SocketStates
  <2>2. Same(s, t)
    BY <1>1 DEF Same, Kept, SocketStates
  <2> QED
    BY <2>1, <2>2, SameGood
<1>8. ASSUME NEW b \in BOOLEAN PROVE Good([s EXCEPT !.connecting = b])
  <2> DEFINE t == [s EXCEPT !.connecting = b]
  <2>1. t \in SocketStates
    BY <1>1, Zenon DEF SocketStates
  <2>2. Same(s, t)
    BY <1>1 DEF Same, Kept, SocketStates
  <2> QED
    BY <2>1, <2>2, SameGood
<1>9. ASSUME NEW more \in BOOLEAN PROVE Good([s EXCEPT !.oldTimers = more])
  <2> DEFINE t == [s EXCEPT !.oldTimers = more]
  <2>1. t \in SocketStates
    BY <1>1, Zenon DEF SocketStates
  <2>2. Same(s, t)
    BY <1>1 DEF Same, Kept, SocketStates
  <2> QED
    BY <2>1, <2>2, SameGood
<1>10. ASSUME NEW closing \in [1..Last -> Nat] PROVE Good([s EXCEPT !.closing = closing])
  <2> DEFINE t == [s EXCEPT !.closing = closing]
  <2>1. t \in SocketStates
    BY <1>1, Zenon DEF SocketStates
  <2>2. Same(s, t)
    BY <1>1 DEF Same, Kept, SocketStates
  <2> QED
    BY <2>1, <2>2, SameGood
<1> QED
  BY <1>2, <1>3, <1>4, <1>5, <1>6, <1>7, <1>8, <1>9, <1>10

\* A transport says that it is connected.  A polling one has released the buffer.
LEMMA OpenedGood ==
  ASSUME NEW s, Calm(s), NEW k \in 1..Last,
         k # WS => Held(s) /\ (s.connected \/ ~s.doBuffer \/ s.posting \/ s.overruled),
         s.connected \/ s.transport # 0 \/ s.spliced = Last
  PROVE  Good(OnConnect(Opened(s, k)))
<1>1. CASE k = WS
  <2> DEFINE t == SetBuffer(s, FALSE)
  <2>1. Opened(s, k) = t
    BY <1>1 DEF Opened
  <2>2. /\ Sane(t) /\ Timers(t) /\ Listed(t) /\ Released(t) /\ Held(t)
        /\ Kept(s, t) /\ t.transport = s.transport /\ (~t.connected => ~t.doBuffer)
    BY ReleaseGood DEF Calm
  <2> HIDE DEF t
  <2>3. Good(t) /\ (t.connected \/ t.transport # 0 \/ t.spliced = Last)
    BY <2>2 DEF Good, Calm, Loop, Kept
  <2> QED
    BY <2>1, <2>2, <2>3, OnConnectGood
<1>2. CASE k # WS
  BY <1>2, OnConnectGood DEF Opened, Good
<1> QED
  BY <1>1, <1>2

\* The connection of the transport opens or is gone.
LEMMA WireGood ==
  ASSUME NEW s, Good(s), NEW w \in {"open", "closed"}, w = "open" => s.wire = "opening"
  PROVE  LET t == [s EXCEPT !.wire = w] IN
         Calm(t) /\ (w = "open" /\ s.transport # WS => Held(t))
<1> DEFINE t == [s EXCEPT !.wire = w]
<1>1. s \in SocketStates
  BY DEF Good, Calm, Sane
<1>2. t \in SocketStates
  BY <1>1, Zenon DEF SocketStates
<1>3. Placed(t) /\ Timers(t) /\ Loop(t) /\ Listed(t)
  BY <1>1 DEF Good, Calm, Sane, Placed, Timers, Loop, Listed, SocketStates
<1>4. Released(t)
  BY <1>1 DEF Good, Calm, Released, Polls, SocketStates
<1>5. s.transport # WS => Held(t)
  BY <1>1 DEF Good, Held, HeldBack, Waits, CanSend, Made, SocketStates
<1> HIDE DEF t
<1>6. Calm(t) /\ (w = "open" /\ s.transport # WS => Held(t))
  BY <1>2, <1>3, <1>4, <1>5 DEF Calm, Sane
<1> QED
  BY <1>6 DEF t

\* A transport that was given up while it was opening opens or fails after all.
LEMMA LateGood ==
  ASSUME NEW s, Good(s), NEW k \in 1..Last, s.late[k] > 0, NEW closing \in [1..Last -> Nat]
  PROVE  LET t == [s EXCEPT !.late[k] = @ - 1, !.closing = closing] IN
         /\ Good(t)
         /\ k # WS => ~t.doBuffer \/ t.posting \/ t.overruled
         /\ t.transport # 0 \/ t.spliced = Last
<1> DEFINE late == [s.late EXCEPT ![k] = @ - 1]
           t == [s EXCEPT !.late[k] = @ - 1, !.closing = closing]
           r == [s EXCEPT !.late = late, !.closing = closing]
<1>1. s \in SocketStates /\ s.spliced \in 0..Last /\ s.late \in [1..Last -> Nat]
  BY Parts DEF Good, Calm, Sane
<1>2. late \in [1..Last -> Nat]
  BY <1>1, OneMore
<1>3. \A j \in 1..Last : late[j] > 0 => s.late[j] > 0
  BY <1>1
<1>4. t = r
  BY <1>1 DEF SocketStates
<1>5. s.spliced < Last => s.transport = s.spliced + 1
  BY <1>1 DEF Good, Calm, Listed
<1>6. k # WS => Polls(s)
  BY <1>1, StreamSocketAssumption DEF Polls, WS
<1> HIDE DEF late, t
<1>7. r \in SocketStates
  BY <1>1, <1>2, Zenon DEF SocketStates
<1>8. /\ Placed(r) /\ Timers(r) /\ Loop(r) /\ Listed(r)
      /\ r.transport = s.transport /\ r.spliced = s.spliced /\ r.doBuffer = s.doBuffer
      /\ r.posting = s.posting /\ r.overruled = s.overruled
  BY <1>1, <1>5 DEF Good, Calm, Sane, Placed, Timers, Loop, Listed, SocketStates
<1>9. Polls(r) => Polls(s)
  BY <1>1, <1>2, <1>3 DEF Polls, SocketStates
<1>10. Held(r)
  BY <1>1 DEF Good, Held, HeldBack, Waits, CanSend, Made, SocketStates
<1> HIDE DEF r
<1>11. Good(r)
  BY <1>7, <1>8, <1>9, <1>10 DEF Good, Calm, Sane, Released
<1>12. k # WS => ~r.doBuffer \/ r.posting \/ r.overruled
  BY <1>6, <1>8 DEF Good, Calm, Released
<1>13. r.transport # 0 \/ r.spliced = Last
  BY <1>1, <1>5, <1>8, StreamSocketAssumption
<1> QED
  BY <1>4, <1>11, <1>12, <1>13 DEF t

\* A post is done or has failed: what its handler needs.
LEMMA PostGood ==
  ASSUME NEW s, Good(s), NEW more \in BOOLEAN
  PROVE  LET t == [s EXCEPT !.posting = more] IN
         Sane(t) /\ Timers(t) /\ Loop(t) /\ Listed(t)
<1> DEFINE t == [s EXCEPT !.posting = more]
<1>1. s \in SocketStates
  BY DEF Good, Calm, Sane
<1>2. t \in SocketStates
  BY <1>1, Zenon DEF SocketStates
<1>3. Placed(t) /\ Timers(t) /\ Loop(t) /\ Listed(t)
  BY <1>1 DEF Good, Calm, Sane, Placed, Timers, Loop, Listed, SocketStates
<1> QED
  BY <1>2, <1>3 DEF Sane

\* A timer of the loop ends.
LEMMA TimerGood ==
  ASSUME NEW s, Good(s)
  PROVE  /\ s.retryTimer => Good(MaybeReconnect([s EXCEPT !.retryTimer = FALSE]))
         /\ s.oldRetries =>
              \A more \in BOOLEAN : Good(MaybeReconnect([s EXCEPT !.oldRetries = more]))
<1>1. s \in SocketStates /\ s.spliced \in 0..Last
  BY Parts DEF Good, Calm, Sane
<1>2. Good(MaybeReconnect([s EXCEPT !.retryTimer = FALSE]))
  <2> DEFINE t == [s EXCEPT !.retryTimer = FALSE]
  <2>1. t \in SocketStates
    BY <1>1, Zenon DEF SocketStates
  <2>2. Placed(t) /\ Timers(t) /\ Listed(t) /\ t.retryTimer = FALSE
    BY <1>1 DEF Good, Calm, Sane, Placed, Timers, Listed, SocketStates
  <2>3. Released(t) /\ Held(t)
    BY <1>1 DEF Good, Calm, Released, Polls, Held, HeldBack, Waits, CanSend, Made, SocketStates
  <2> HIDE DEF t
  <2>4. Good(MaybeReconnect(t))
    BY <2>1, <2>2, <2>3, MaybeReconnectGood DEF Sane
  <2> QED
    BY <2>4 DEF t
<1>3. ASSUME s.oldRetries, NEW more \in BOOLEAN
      PROVE  Good(MaybeReconnect([s EXCEPT !.oldRetries = more]))
  <2> DEFINE t == [s EXCEPT !.oldRetries = more]
  <2>1. t \in SocketStates
    BY <1>1, <1>3, Zenon DEF SocketStates
  <2>2. s.spliced = Last \/ s.advised \/ s.swallowed
    BY <1>1, <1>3, StreamSocketAssumption DEF Good, Calm, Timers
  <2>3. Placed(t) /\ Listed(t)
        /\ t.spliced = s.spliced /\ t.advised = s.advised /\ t.swallowed = s.swallowed
    BY <1>1 DEF Good, Calm, Sane, Placed, Listed, SocketStates
  <2>4. Released(t) /\ Held(t)
    BY <1>1 DEF Good, Calm, Released, Polls, Held, HeldBack, Waits, CanSend, Made, SocketStates
  <2> HIDE DEF t
  <2>5. Timers(t)
    BY <1>1, <2>2, <2>3, StreamSocketAssumption DEF Timers
  <2>6. Good(MaybeReconnect(t))
    BY <2>1, <2>2, <2>3, <2>4, <2>5, MaybeReconnectGood DEF Sane
  <2> QED
    BY <2>6 DEF t
<1> QED
  BY <1>2, <1>3

\* The handlers keep what they need of each other.
LEMMA NextGood == IInv /\ [Next]_vars => IInv'
<1> SUFFICES ASSUME IInv, [Next]_vars PROVE IInv'
  OBVIOUS
<1>1. Good(sock) /\ faults \in 0..MaxFaults /\ sock \in SocketStates
  BY DEF IInv, Good, Calm, Sane
<1>2. ASSUME NEW s, Good(s), Do(s) PROVE IInv'
  BY <1>1, <1>2 DEF Do, IInv
<1>3. ASSUME NEW s, Good(s), Fault(s) PROVE IInv'
  <2>1. sock' = s /\ faults' \in 0..MaxFaults
    BY <1>1, <1>3, StreamSocketAssumption DEF Fault
  <2> QED
    BY <1>3, <2>1 DEF IInv
<1>4. CASE Emit
  BY <1>1, <1>2, <1>4, PacketGood DEF Emit
<1>5. CASE HandshakeOk
  <2>1. sock.handshakes - 1 \in Nat
    BY <1>1, <1>5, Parts, Counts DEF HandshakeOk
  <2>2. Good([sock EXCEPT !.handshakes = @ - 1])
    BY <1>1, <2>1, TakenGood, ZenonT(40)
  <2>3. Good(TryTransport([sock EXCEPT !.handshakes = @ - 1]))
    BY <2>2, TryTransportGood DEF Good, Calm
  <2> QED
    BY <1>2, <1>5, <2>3 DEF HandshakeOk
<1>6. CASE HandshakeFails
  <2>1. sock.handshakes - 1 \in Nat
    BY <1>1, <1>6, Parts, Counts DEF HandshakeFails
  <2>2. Good([sock EXCEPT !.handshakes = @ - 1, !.connecting = FALSE])
    BY <1>1, <2>1, TakenGood, ZenonT(40)
  <2> QED
    BY <1>3, <1>6, <2>2 DEF HandshakeFails
<1>7. CASE HandshakeRefused
  <2>1. sock.handshakes - 1 \in Nat
    BY <1>1, <1>7, Parts, Counts DEF HandshakeRefused
  <2>2. Good([sock EXCEPT !.handshakes = @ - 1, !.refused = TRUE])
    BY <1>1, <2>1, TakenGood, ZenonT(40)
  <2> QED
    BY <1>3, <1>7, <2>2 DEF HandshakeRefused
<1>8. CASE Ready
  <2> DEFINE s == [sock EXCEPT !.deferred = @ - 1]
  <2>1. sock.deferred - 1 \in Nat
    BY <1>1, <1>8, Parts, Counts DEF Ready
  <2>2. Good(s)
    BY <1>1, <2>1, TakenGood, ZenonT(40)
  <2>3. Do(IF s.transport = 0 THEN [s EXCEPT !.connecting = TRUE] ELSE OpenTransport(s))
    BY <1>8 DEF Ready
  <2> HIDE DEF s
  <2>4. Good([s EXCEPT !.connecting = TRUE])
    BY <2>2, TakenGood, Counts, ZenonT(40)
  <2>5. s.transport # 0 => Good(OpenTransport(s))
    BY <2>2, OpenTransportGood DEF Good, Calm, Held
  <2> QED
    BY <1>2, <2>3, <2>4, <2>5
<1>9. CASE Opens
  <2> DEFINE s == [sock EXCEPT !.wire = "open"]
  <2>1. Calm(s) /\ (sock.transport # WS => Held(s)) /\ sock.wire = "opening"
    BY <1>1, <1>9, WireGood, ZenonT(40) DEF Opens
  <2>2. sock.transport \in 1..Last
    BY <1>1, <2>1 DEF Good, Calm, Sane, Placed
  <2>3. /\ s.transport = sock.transport /\ s.doBuffer = sock.doBuffer
        /\ s.posting = sock.posting /\ s.overruled = sock.overruled
    BY <1>1 DEF SocketStates
  <2>4. sock.transport # WS => ~s.doBuffer \/ s.posting \/ s.overruled
    BY <1>1, <2>1, <2>3 DEF Good, Calm, Released, Polls
  <2>5. Do(OnConnect(Opened(s, sock.transport)))
    BY <1>9 DEF Opens
  <2> HIDE DEF s
  <2>6. s.transport # 0
    BY <2>2, <2>3
  <2>7. Good(OnConnect(Opened(s, sock.transport)))
    BY <2>1, <2>2, <2>4, <2>6, OpenedGood
  <2> QED
    BY <1>2, <2>5, <2>7
<1>10. CASE OpenFails
  <2>1. Calm([sock EXCEPT !.wire = "closed"]) /\ sock.transport \in 1..Last
    BY <1>1, <1>10, WireGood, ZenonT(40) DEF OpenFails, Good, Calm, Sane, Placed
  <2>2. Good(Failed([sock EXCEPT !.wire = "closed"], sock.transport))
    BY <2>1, ClosedGood
  <2> QED
    BY <1>3, <1>10, <2>2 DEF OpenFails
<1>11. CASE Lost
  <2> DEFINE s == [sock EXCEPT !.wire = "closed"]
  <2>1. Calm(s) /\ sock.transport \in 1..Last
    BY <1>1, <1>11, WireGood, ZenonT(40) DEF Lost, Good, Calm, Sane, Placed
  <2>2. s.transport = sock.transport
    BY <1>1 DEF SocketStates
  <2>3. Fault(Closed(s, s.transport)) \/ Fault(Failed(s, s.transport))
    BY <1>11 DEF Lost
  <2> HIDE DEF s
  <2>4. Good(Closed(s, s.transport)) /\ Good(Failed(s, s.transport))
    BY <2>1, <2>2, ClosedGood
  <2> QED
    BY <1>3, <2>3, <2>4
<1>12. CASE Silence
  <2> DEFINE c == CloseTransport(sock)
  <2>1. Sane(c) /\ Timers(c) /\ Loop(c) /\ Listed(c) /\ Released(c)
    BY <1>1, CloseTransportGood DEF Good, Calm
  <2> HIDE DEF c
  <2>2. Good(OnDisconnect(sock)) /\ Good(OnDisconnect(c))
    BY <1>1, <2>1, OnDisconnectGood DEF Good, Calm, Held
  <2> QED
    BY <1>3, <1>12, <2>2 DEF Silence, c
<1>13. CASE ReconnectAdvised
  BY <1>1, <1>3, <1>13, AdvisedGood DEF ReconnectAdvised
<1>14. ASSUME NEW k \in 1..Last, LateOpens(k) PROVE IInv'
  <2> DEFINE closing == [sock.closing EXCEPT ![k] = @ + 1]
             r == [sock EXCEPT !.late[k] = @ - 1, !.closing = closing]
             s == [sock EXCEPT !.late[k] = @ - 1, !.closing[k] = @ + 1]
  <2>1. closing \in [1..Last -> Nat] /\ sock.late[k] > 0
    BY <1>1, <1>14, Parts, OneMore DEF LateOpens
  <2>2. s = r
    BY <1>1 DEF SocketStates
  <2>3. Do(OnConnect(Opened(s, k)))
    BY <1>14 DEF LateOpens
  <2> HIDE DEF closing, s
  <2>4. /\ Good(r)
        /\ k # WS => ~r.doBuffer \/ r.posting \/ r.overruled
        /\ r.transport # 0 \/ r.spliced = Last
    BY <1>1, <2>1, LateGood, ZenonT(40)
  <2> HIDE DEF r
  <2>5. Good(OnConnect(Opened(r, k)))
    BY <2>4, OpenedGood DEF Good
  <2> QED
    BY <1>2, <2>2, <2>3, <2>5
<1>15. ASSUME NEW k \in 1..Last, LateFails(k) PROVE IInv'
  <2> DEFINE r == [sock EXCEPT !.late[k] = @ - 1, !.closing = sock.closing]
             s == [sock EXCEPT !.late[k] = @ - 1]
  <2>1. sock.closing \in [1..Last -> Nat] /\ sock.late[k] > 0
    BY <1>1, <1>15, Parts DEF LateFails
  <2>2. s = r
    BY <1>1 DEF SocketStates
  <2>3. Fault(Failed(s, k))
    BY <1>15 DEF LateFails
  <2> HIDE DEF s
  <2>4. Good(r)
    BY <1>1, <2>1, LateGood, ZenonT(40)
  <2> HIDE DEF r
  <2> QED
    BY <1>3, <2>2, <2>3, <2>4, ClosedGood DEF Good
<1>16. ASSUME NEW k \in 1..Last, CloseEvent(k) PROVE IInv'
  <2> DEFINE closing == [sock.closing EXCEPT ![k] = @ - 1]
             s == [sock EXCEPT !.closing[k] = @ - 1]
  <2>1. closing \in [1..Last -> Nat]
    BY <1>1, <1>16, Parts, OneMore DEF CloseEvent
  <2>2. s = [sock EXCEPT !.closing = closing]
    BY <1>1 DEF SocketStates
  <2>3. Do(Closed(s, k)) \/ Fault(Failed(s, k))
    BY <1>16 DEF CloseEvent
  <2> HIDE DEF s, closing
  <2>4. Good(s)
    BY <1>1, <2>1, <2>2, TakenGood, Counts, ZenonT(40)
  <2>5. Good(Closed(s, k)) /\ Good(Failed(s, k))
    BY <2>4, ClosedGood DEF Good
  <2> QED
    BY <1>2, <1>3, <2>3, <2>5
<1>17. CASE PostDone
  <2>1. PICK more \in BOOLEAN : Do(SetBuffer([sock EXCEPT !.posting = more], FALSE))
    BY <1>17 DEF PostDone
  <2> DEFINE s == [sock EXCEPT !.posting = more]
  <2>2. Sane(s) /\ Timers(s) /\ Loop(s) /\ Listed(s)
    BY <1>1, PostGood
  <2> HIDE DEF s
  <2>3. Good(SetBuffer(s, FALSE))
    BY <2>2, ReleaseGood DEF Good, Calm, Loop, Kept
  <2> QED
    BY <1>2, <2>1, <2>3 DEF s
<1>18. CASE PostFails
  <2>1. PICK more \in BOOLEAN :
          LET s == [sock EXCEPT !.posting = more] IN
          \/ Fault(Overrule(OnDisconnect(s)))
          \/ s.transport # WS /\ Fault(Overrule(OnDisconnect(CloseTransport(s))))
    BY <1>18 DEF PostFails
  <2> DEFINE s == [sock EXCEPT !.posting = more]
             c == CloseTransport(s)
  <2>2. Sane(s) /\ Timers(s) /\ Loop(s) /\ Listed(s)
    BY <1>1, PostGood
  <2>3. Fault(Overrule(OnDisconnect(s))) \/ Fault(Overrule(OnDisconnect(c)))
    BY <2>1
  <2> HIDE DEF s
  <2>4. Sane(c) /\ Timers(c) /\ Loop(c) /\ Listed(c)
    BY <2>2, CloseTransportGood
  <2> HIDE DEF c
  <2>5. ASSUME NEW r, Sane(r), Timers(r), Loop(r), Listed(r)
        PROVE  Good(Overrule(OnDisconnect(r)))
    BY <2>5, OnDisconnectGood, OverruleGood
  <2> QED
    BY <1>3, <2>2, <2>3, <2>4, <2>5
<1>19. CASE RetryTimer
  BY <1>1, <1>2, <1>19, TimerGood DEF RetryTimer
<1>20. CASE OldRetry
  BY <1>1, <1>2, <1>20, TimerGood DEF OldRetry
<1>21. CASE QuickFailover
  <2>1. sock.quick - 1 \in Nat
    BY <1>1, <1>21, Parts, Counts DEF QuickFailover
  <2>2. Good([sock EXCEPT !.quick = @ - 1])
    BY <1>1, <2>1, TakenGood, ZenonT(40)
  <2> QED
    BY <1>2, <1>21, <2>2, HandleReconnectionGood DEF QuickFailover
<1>22. CASE ConnectTimeout
  <2>1. ASSUME NEW s, Good(s), Timeout(s) PROVE IInv'
    BY <1>2, <1>3, <2>1, HandleReconnectionGood DEF Timeout
  <2>2. Good([sock EXCEPT !.timer = FALSE])
        /\ \A more \in BOOLEAN : Good([sock EXCEPT !.oldTimers = more])
    BY <1>1, TakenGood, Counts, ZenonT(40)
  <2> QED
    BY <1>22, <2>1, <2>2 DEF ConnectTimeout
<1>23. CASE UNCHANGED vars
  BY <1>1, <1>23 DEF vars, IInv
<1> QED
  BY <1>4, <1>5, <1>6, <1>7, <1>8, <1>9, <1>10, <1>11, <1>12, <1>13, <1>14, <1>15, <1>16,
     <1>17, <1>18, <1>19, <1>20, <1>21, <1>22, <1>23 DEF Next

\* IInv holds in every reachable state.
LEMMA Invariance == Spec => []IInv
<1> QED
  BY InitGood, NextGood, PTL DEF Spec

-----------------------------------------------------------------------------
(* Theorems *)

\* Whatever opens, fails, closes or times out in whatever order, the socket and its
\* counts are of their types: no transport past the last is spliced off the list.
THEOREM TypeCorrect == Spec => []TypeOK
<1>1. IInv => TypeOK
  BY DEF IInv, Good, Calm, Sane, TypeOK
<1> QED
  BY Invariance, <1>1, PTL

\* As long as a transport is left on the list, the server has not advised to
\* reconnect and no exception has swallowed a 'connect', one loop of reconnection
\* attempts runs, whichever transports of earlier attempts still close, fail or open.
THEOREM ReconnectsOnce == Spec => []OneLoop
<1>1. IInv => OneLoop
  BY DEF IInv, Good, Calm, Timers, OneLoop
<1> QED
  BY Invariance, <1>1, PTL

\* A connected socket whose transport can send holds packets back only for a post
\* that is under way, also when transports have been given up while they were opening,
\* unless the end of another transport overruled one that was opening.
THEOREM NothingHeldBack == Spec => []BufferIsFlushed
<1>1. IInv => BufferIsFlushed
  BY DEF IInv, Good, Held, Waits, BufferIsFlushed
<1> QED
  BY Invariance, <1>1, PTL
=============================================================================
