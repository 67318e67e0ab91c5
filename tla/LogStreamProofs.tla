-------------------------- MODULE LogStreamProofs --------------------------
(***************************************************************************)
(* Theorems about LogStream, for any jobs, any sizes of their logs and any *)
(* number of subscriptions: its types, and that the watch of a log has one *)
(* reference for each connection that follows it, and one for the page.    *)
(***************************************************************************)
EXTENDS LogStream, FiniteSetTheorems, WellFoundedInduction, TLAPS

Subscription == [type : {"subscribe"}, id : Conns, job : Jobs, position : Lines]
Unsubscription == [type : {"unsubscribe"}, job : Jobs]

\* What is on its way is in order.
Channels ==
  /\ toServer \in Seq(Subscription \cup Unsubscription)
  /\ toPage \in Seq(Message)

\* The page subscribes to the logs of its node, connections to the others.
Placed ==
  /\ session.subscribed \cap Remote = {}
  /\ session.subscribed # {} => starts >= 1
  /\ \A k \in Conns : conns[k].state # "none" => conns[k].job \in Remote

Subscribes(i) == toServer[i].type = "subscribe"
Unsubscribes(i, j) == toServer[i].type = "unsubscribe" /\ toServer[i].job = j

\* A subscription has one place: the channel, the lookups or the connections.
Numbered ==
  /\ \A k \in Conns : conns[k].state # "none" => k <= starts
  /\ \A q \in lookups : q.id <= starts /\ conns[q.id].state = "none"
  /\ \A q, r \in lookups : q.id = r.id => q = r
  /\ \A i \in 1..Len(toServer) : Subscribes(i) =>
       /\ toServer[i].id <= starts /\ conns[toServer[i].id].state = "none"
       /\ \A q \in lookups : q.id # toServer[i].id
       /\ \A h \in 1..Len(toServer) :
            Subscribes(h) /\ toServer[h].id = toServer[i].id => h = i

\* Between two subscriptions to a log the page gives the first one up.
InOrder ==
  \A i \in 1..Len(toServer) : Subscribes(i) =>
    /\ toServer[i].job \in session.subscribed =>
         \E h \in 1..(i - 1) : Unsubscribes(h, toServer[i].job)
    /\ \A e \in 1..(i - 1) : Subscribes(e) /\ toServer[e].job = toServer[i].job =>
         \E h \in (e + 1)..(i - 1) : Unsubscribes(h, toServer[i].job)

\* A viewer that does not read has given up what it subscribed to.
GivenUp ==
  \A j \in Jobs : ~viewer[j].reading =>
    /\ j \in session.subscribed => \E h \in 1..Len(toServer) : Unsubscribes(h, j)
    /\ \A i \in 1..Len(toServer) : Subscribes(i) /\ toServer[i].job = j =>
         \E h \in (i + 1)..Len(toServer) : Unsubscribes(h, j)

Alternating == InOrder /\ GivenUp

IInv == TypeOK /\ Channels /\ Placed /\ Numbered /\ Alternating /\ WatchesBalanced

-----------------------------------------------------------------------------
(* Types *)

\* The types of the parts of the state, as TypeOK has them.
Viewers == [Jobs -> [open : BOOLEAN, reading : BOOLEAN, position : Lines,
                     shown : SUBSET (1..MaxLines), erased : Lines,
                     told : SUBSET {"zerosize", "cantfind"}]]
Sessions == [open : BOOLEAN, subscribed : SUBSET Jobs, last : [Jobs -> Lines \cup {None}],
             remote : SUBSET Remote, conn : {None} \cup Conns]
Connections == [Conns -> [state : {"none", "connecting", "open", "closed"},
                          job : Jobs \cup {None}, position : Lines,
                          last : Lines \cup {None}]]

\* What sends of a log are made of is in the log.
LEMMA SendTypes ==
  ASSUME TypeOK, NEW j \in Jobs, NEW from \in Lines, NEW last \in Lines \cup {None}
  PROVE  /\ Sent(j, from) \in Seq(Message)
         /\ ReadPosition(j, from) \in Lines
         /\ LastAfter(j, from, last) \in Lines \cup {None}
<1>1. size[j] \in -1..MaxLines /\ MaxLines \in Nat /\ MaxSend \in Nat \ {0}
  BY LogStreamAssumption DEF TypeOK
<1>2. size[j] > 0 => size[j] \in Lines
  BY <1>1 DEF Lines
<1>3. ReadPosition(j, from) \in Lines
  BY <1>1 DEF ReadPosition, Lines
<1>4. LastAfter(j, from, last) \in Lines \cup {None}
  BY <1>1, <1>2 DEF LastAfter
<1>5. [type |-> "zerosize", job |-> j] \in Message
  BY DEF Message
<1>6. size[j] > 0 => [type |-> "lines", job |-> j, from |-> from, to |-> size[j]] \in Message
  BY <1>2 DEF Message
<1>7. Sent(j, from) \in Seq(Message)
  BY <1>1, <1>5, <1>6 DEF Sent
<1> QED
  BY <1>3, <1>4, <1>7

\* A set of positions of connections has a first one.
LEMMA FirstConn ==
  ASSUME NEW S \in SUBSET Nat, S # {}
  PROVE  \E k \in S : \A h \in S : k <= h
<1> DEFINE R == OpToRel(<, Nat)
<1>1. R = {ss \in Nat \X Nat : ss[1] < ss[2]}
  BY DEF OpToRel
<1>2. IsWellFoundedOn(R, Nat)
  BY NatLessThanWellFounded, ZenonT(40)
<1> HIDE DEF R
<1>3. PICK k \in S : \A h \in S : ~(<<h, k>> \in R)
  BY <1>2, WFMin
<1>4. ASSUME NEW h \in S PROVE k <= h
  <2>1. <<h, k>> \notin {ss \in Nat \X Nat : ss[1] < ss[2]}
    BY <1>1, <1>3
  <2> QED
    BY <2>1
<1> QED
  BY <1>4

\* The sends to the connections that are told are made one after the other.
LEMMA SendsType ==
  ASSUME TypeOK, Channels, NEW j \in Jobs, NEW told \in SUBSET Conns,
         \A k \in told : conns[k].last \in Lines
  PROVE  LET Send[k \in 0..MaxStarts] ==
               IF k = 0 THEN toPage
               ELSE IF k \in told THEN Send[k - 1] \o Sent(j, conns[k].last) ELSE Send[k - 1]
         IN Send[MaxStarts] \in Seq(Message)
<1> DEFINE Next1(g, k) == IF k = 0 THEN toPage
                          ELSE IF k \in told THEN g[k - 1] \o Sent(j, conns[k].last)
                          ELSE g[k - 1]
           Good(n) == \E g : g = [k \in 0..n |-> Next1(g, k)]
           Bad == {n \in 0..MaxStarts : ~Good(n)}
<1> HIDE DEF Good
<1>1. MaxStarts \in Nat /\ Bad \subseteq Nat
  BY LogStreamAssumption
<1>2. Bad = {}
  <2>1. SUFFICES ASSUME NEW n \in Bad, \A m \in Bad : n <= m
                 PROVE  FALSE
    BY <1>1, FirstConn
  <2>2. CASE n = 0
    <3> DEFINE g == [k \in 0..0 |-> toPage]
    <3>1. \A k \in 0..0 : Next1(g, k) = toPage
      OBVIOUS
    <3>2. g = [k \in 0..0 |-> Next1(g, k)]
      BY <3>1, Zenon
    <3> HIDE DEF g
    <3>3. Good(0)
      BY <3>2, Zenon DEF Good
    <3> QED
      BY <2>1, <2>2, <3>3
  <2>3. CASE n # 0
    <3>1. n - 1 \in 0..MaxStarts /\ n - 1 \notin Bad
      BY <1>1, <2>1, <2>3
    <3>2. PICK g : g = [k \in 0..(n - 1) |-> Next1(g, k)]
      BY <3>1 DEF Good
    <3>6. \A k \in 0..(n - 1) : g[k] = Next1(g, k)
      BY <3>2, Zenon
    <3> DEFINE h == [k \in 0..n |-> IF k = n THEN Next1(g, n) ELSE g[k]]
    <3>3. ASSUME NEW k \in 0..n PROVE h[k] = Next1(h, k)
      <4>1. CASE k = 0
        <5>1. g[0] = toPage
          BY <1>1, <2>3, <3>1, <3>2
        <5> QED
          BY <2>3, <4>1, <5>1
      <4>2. CASE k # 0
        <5>1. k - 1 \in 0..n /\ k - 1 # n /\ h[k - 1] = g[k - 1]
          BY <1>1, <4>2
        <5>2. k # n => k \in 0..(n - 1)
          BY <1>1
        <5>3. k # n => g[k] = Next1(g, k)
          BY <3>6, <5>2, Zenon
        <5> QED
          BY <4>2, <5>1, <5>3
      <4> QED
        BY <4>1, <4>2
    <3>4. h = [k \in 0..n |-> Next1(h, k)]
      BY <3>3
    <3> HIDE DEF h
    <3>5. Good(n)
      BY <3>4 DEF Good
    <3> QED
      BY <2>1, <3>5
  <2> QED
    BY <2>2, <2>3
<1> DEFINE Send[k \in 0..MaxStarts] == Next1(Send, k)
<1>3. Send = [k \in 0..MaxStarts |-> Next1(Send, k)]
  <2>1. MaxStarts \in 0..MaxStarts
    BY <1>1
  <2>2. Good(MaxStarts)
    BY <1>2, <2>1
  <2> QED
    BY <2>2, ZenonT(40) DEF Good
<1> HIDE DEF Send
<1> DEFINE Odd == {k \in 0..MaxStarts : Send[k] \notin Seq(Message)}
<1>4. Odd = {}
  <2>1. SUFFICES ASSUME NEW n \in Odd, \A m \in Odd : n <= m
                 PROVE  FALSE
    <3>1. Odd \in SUBSET Nat
      BY <1>1
    <3> HIDE DEF Odd
    <3> QED
      BY <3>1, FirstConn
  <2>2. Send[n] = Next1(Send, n)
    BY <1>3
  <2>3. CASE n = 0
    BY <2>2, <2>3 DEF Channels
  <2>4. CASE n # 0
    <3>1. n - 1 \in 0..MaxStarts /\ n - 1 \notin Odd
      BY <1>1, <2>1, <2>4
    <3>2. Send[n - 1] \in Seq(Message)
      BY <3>1
    <3>3. n \in told => Sent(j, conns[n].last) \in Seq(Message)
      BY SendTypes
    <3>4. Next1(Send, n) \in Seq(Message)
      BY <2>4, <3>2, <3>3
    <3> QED
      BY <2>1, <2>2, <3>4
  <2> QED
    BY <2>3, <2>4
<1>5. Send[MaxStarts] \in Seq(Message)
  BY <1>1, <1>4
<1> QED
  BY <1>5, Zenon DEF Send

-----------------------------------------------------------------------------
(* Watches *)

Watches == [Jobs -> [ref : Nat, size : Lines]]

\* The connections that follow a log are finitely many.
LEMMA FollowingFinite ==
  ASSUME NEW S \in SUBSET Conns
  PROVE  IsFiniteSet(S) /\ Cardinality(S) \in Nat /\ Cardinality(S) <= MaxStarts
<1>1. MaxStarts \in Nat
  BY LogStreamAssumption
<1>2. IsFiniteSet(Conns) /\ Cardinality(Conns) = MaxStarts
  BY <1>1, FS_Interval DEF Conns
<1>3. IsFiniteSet(S) /\ Cardinality(S) <= Cardinality(Conns)
  BY <1>2, FS_Subset
<1> QED
  BY <1>2, <1>3, FS_CardinalityType

\* add_watch takes one reference more.
LEMMA AddWatchCounts ==
  ASSUME TypeOK, NEW j \in Jobs
  PROVE  /\ AddWatch(watch, j) \in Watches
         /\ AddWatch(watch, j)[j].ref = watch[j].ref + 1
         /\ \A i \in Jobs \ {j} : AddWatch(watch, j)[i] = watch[i]
<1>1. /\ MaxStarts \in Nat /\ MaxLines \in Nat
      /\ watch \in [Jobs -> [ref : 0..MaxStarts, size : Lines]]
      /\ size[j] \in -1..MaxLines
  BY LogStreamAssumption DEF TypeOK
<1>2. watch \in Watches /\ watch[j].ref \in Nat
  BY <1>1 DEF Watches
<1>3. CASE watch[j].ref > 0
  BY <1>2, <1>3 DEF AddWatch, Watches
<1>4. CASE watch[j].ref = 0
  <2>1. (IF size[j] > 0 THEN size[j] ELSE 0) \in Lines
    BY <1>1 DEF Lines
  <2> QED
    BY <1>2, <1>4, <2>1 DEF AddWatch, Watches
<1> QED
  BY <1>2, <1>3, <1>4

\* remove_watch takes one reference away, if there is one.
LEMMA RemoveWatchCounts ==
  ASSUME TypeOK, NEW j \in Jobs
  PROVE  /\ RemoveWatch(watch, j) \in Watches
         /\ watch[j].ref >= 1 => RemoveWatch(watch, j)[j].ref = watch[j].ref - 1
         /\ \A i \in Jobs \ {j} : RemoveWatch(watch, j)[i] = watch[i]
<1>1. /\ MaxStarts \in Nat /\ MaxLines \in Nat
      /\ watch \in [Jobs -> [ref : 0..MaxStarts, size : Lines]]
  BY LogStreamAssumption DEF TypeOK
<1>2. watch \in Watches /\ watch[j].ref \in Nat /\ 0 \in Lines
  BY <1>1 DEF Watches, Lines
<1>3. CASE watch[j].ref > 1
  BY <1>2, <1>3 DEF RemoveWatch, Watches
<1>4. CASE ~(watch[j].ref > 1)
  BY <1>2, <1>4 DEF RemoveWatch, Watches
<1> QED
  BY <1>3, <1>4

\* What is not there counts for nothing.
Here(j) == IF j \in session.subscribed THEN 1 ELSE 0

\* WatchesBalanced bounds the references: a log is followed by connections or
\* by the page, not by both.
LEMMA RefBound ==
  ASSUME WatchesBalanced', Placed', starts' \in 0..MaxStarts, session' \in Sessions,
         watch' \in Watches
  PROVE  watch' \in [Jobs -> [ref : 0..MaxStarts, size : Lines]]
<1>1. MaxStarts \in Nat
  BY LogStreamAssumption
<1>2. ASSUME NEW j \in Jobs PROVE watch'[j].ref \in 0..MaxStarts
  <2> DEFINE F == Following(j)'
  <2>1. F \subseteq Conns
    BY DEF Following
  <2>2. Cardinality(F) \in Nat /\ Cardinality(F) <= MaxStarts
    BY <2>1, FollowingFinite
  <2>3. watch'[j].ref = Cardinality(F) + (IF j \in session'.subscribed THEN 1 ELSE 0)
    BY DEF WatchesBalanced
  <2>4. CASE j \notin session'.subscribed
    <3> HIDE DEF F
    <3> QED
      BY <1>1, <2>2, <2>3, <2>4
  <2>5. CASE j \in session'.subscribed
    <3>1. j \notin Remote /\ starts' >= 1
      BY <2>5 DEF Placed
    <3>2. F = {}
      BY <3>1 DEF Placed, Following
    <3>3. Cardinality(F) = 0
      BY <3>2, FS_EmptySet
    <3> HIDE DEF F
    <3> QED
      BY <1>1, <2>3, <2>5, <3>1, <3>3
  <2> QED
    BY <2>4, <2>5
<1>3. ASSUME NEW j \in Jobs PROVE watch'[j] \in [ref : 0..MaxStarts, size : Lines]
  BY <1>2 DEF Watches
<1> QED
  BY <1>3 DEF Watches

\* Nothing changes when neither the references, nor the subscriptions, nor who
\* is connected to what changes.
LEMMA BalanceKept ==
  ASSUME WatchesBalanced, session'.subscribed = session.subscribed,
         \A j \in Jobs : watch'[j].ref = watch[j].ref,
         \A k \in Conns : (conns'[k].state = "open") = (conns[k].state = "open"),
         \A k \in Conns : conns[k].state = "open" => conns'[k].job = conns[k].job
  PROVE  WatchesBalanced'
<1>1. ASSUME NEW j \in Jobs PROVE Following(j)' = Following(j)
  BY DEF Following
<1> QED
  BY <1>1 DEF WatchesBalanced

\* A connection that is there at last comes with a reference.
LEMMA BalanceOpened ==
  ASSUME WatchesBalanced, session' = session, NEW k \in Conns, conns[k].state # "open",
         conns' \in Connections, conns'[k].state = "open", NEW j \in Jobs, conns'[k].job = j,
         \A h \in Conns \ {k} : conns'[h] = conns[h],
         watch'[j].ref = watch[j].ref + 1, \A i \in Jobs \ {j} : watch'[i] = watch[i]
  PROVE  WatchesBalanced'
<1>1. Following(j)' = Following(j) \cup {k} /\ k \notin Following(j)
  BY DEF Following
<1>2. IsFiniteSet(Following(j)) /\ Cardinality(Following(j)) \in Nat
  BY FollowingFinite DEF Following
<1>3. Cardinality(Following(j)') = Cardinality(Following(j)) + 1
  BY <1>1, <1>2, FS_AddElement, ZenonT(40)
<1>4. ASSUME NEW i \in Jobs \ {j} PROVE Following(i)' = Following(i)
  BY DEF Following
<1>5. ASSUME NEW i \in Jobs
      PROVE  watch'[i].ref = Cardinality(Following(i)') + Here(i)'
  <2>1. watch[i].ref = Cardinality(Following(i)) + Here(i) /\ Here(i)' = Here(i)
    BY DEF WatchesBalanced, Here
  <2>2. Here(i) \in Nat
    BY DEF Here
  <2>3. CASE i = j
    BY <1>2, <1>3, <2>1, <2>2, <2>3
  <2>4. CASE i # j
    BY <1>4, <2>1, <2>4
  <2> QED
    BY <2>3, <2>4
<1> QED
  BY <1>5 DEF WatchesBalanced, Here

\* A connection that is closed takes its reference with it.
LEMMA FollowingClosed ==
  ASSUME NEW k \in Conns, conns[k].state = "open", NEW j \in Jobs, conns[k].job = j,
         conns' \in Connections, conns'[k].state = "closed",
         \A h \in Conns \ {k} : conns'[h] = conns[h]
  PROVE  /\ Cardinality(Following(j)') = Cardinality(Following(j)) - 1
         /\ Cardinality(Following(j)) \in Nat /\ Cardinality(Following(j)) >= 1
         /\ \A i \in Jobs \ {j} : Following(i)' = Following(i)
<1>1. Following(j)' = Following(j) \ {k} /\ k \in Following(j)
  BY DEF Following
<1>2. IsFiniteSet(Following(j)) /\ Cardinality(Following(j)) \in Nat
  BY FollowingFinite DEF Following
<1>3. Cardinality(Following(j)') = Cardinality(Following(j)) - 1
  BY <1>1, <1>2, FS_RemoveElement, ZenonT(40)
<1>4. ASSUME NEW i \in Jobs \ {j} PROVE Following(i)' = Following(i)
  BY DEF Following
<1>5. Cardinality(Following(j)) # 0
  BY <1>1, <1>2, FS_EmptySet
<1> QED
  BY <1>2, <1>3, <1>4, <1>5

-----------------------------------------------------------------------------
(* The channel to the pacemaker *)

\* The message that is received is off the channel.
LEMMA TailIndex ==
  ASSUME Channels, toServer # <<>>
  PROVE  /\ Head(toServer) = toServer[1]
         /\ Head(toServer) \in Subscription \cup Unsubscription
         /\ Tail(toServer) \in Seq(Subscription \cup Unsubscription)
         /\ Len(toServer) \in Nat /\ Len(Tail(toServer)) = Len(toServer) - 1
         /\ \A i \in 1..Len(Tail(toServer)) :
              i + 1 \in 1..Len(toServer) /\ Tail(toServer)[i] = toServer[i + 1]
BY DEF Channels

\* A message that is sent comes last.
LEMMA AppendIndex ==
  ASSUME Channels, NEW m \in Subscription \cup Unsubscription
  PROVE  /\ Append(toServer, m) \in Seq(Subscription \cup Unsubscription)
         /\ Len(toServer) \in Nat /\ Len(Append(toServer, m)) = Len(toServer) + 1
         /\ Append(toServer, m)[Len(toServer) + 1] = m
         /\ \A i \in 1..Len(toServer) : Append(toServer, m)[i] = toServer[i]
BY DEF Channels

\* The channel is in order when the pacemaker has taken a message off it: a
\* subscription that becomes one of the page, or one that is given up.
LEMMA AlternatingReceived ==
  ASSUME Channels, Alternating, toServer # <<>>, toServer' = Tail(toServer),
         \A j \in Jobs : ~viewer'[j].reading => ~viewer[j].reading,
         \A j \in session'.subscribed :
           \/ j \in session.subscribed /\ ~Unsubscribes(1, j)
           \/ Subscribes(1) /\ toServer[1].job = j
  PROVE  Alternating'
<1> DEFINE s == toServer
           t == toServer'
<1>1. /\ Len(s) \in Nat /\ Len(t) = Len(s) - 1
      /\ \A i \in 1..Len(t) : i + 1 \in 1..Len(s) /\ t[i] = s[i + 1]
  BY TailIndex
<1>2. Subscribes(1) => \A j \in Jobs : ~Unsubscribes(1, j)
  BY DEF Subscribes, Unsubscribes
<1>3. 1 \in 1..Len(s) /\ s[1] \in Subscription \cup Unsubscription
  BY TailIndex DEF Channels
<1>4. ASSUME NEW i \in 1..Len(t), t[i].type = "subscribe"
      PROVE  t[i].job \in Jobs
  BY <1>1, <1>4 DEF Channels, Subscription, Unsubscription
<1>5. ASSUME NEW i \in 1..Len(t), t[i].type = "subscribe",
             t[i].job \in session'.subscribed
      PROVE  \E h \in 1..(i - 1) : t[h].type = "unsubscribe" /\ t[h].job = t[i].job
  <2> DEFINE j == t[i].job
  <2>1. s[i + 1].type = "subscribe" /\ s[i + 1].job = j /\ i + 1 \in 1..Len(s)
    BY <1>1, <1>5
  <2>2. PICK h \in 2..i : Unsubscribes(h, j)
    <3>1. CASE j \in session.subscribed /\ ~Unsubscribes(1, j)
      <4>1. PICK h \in 1..((i + 1) - 1) : Unsubscribes(h, j)
        BY <2>1, <3>1 DEF Alternating, InOrder, GivenUp, Subscribes
      <4> QED
        BY <3>1, <4>1
    <3>2. CASE Subscribes(1) /\ toServer[1].job = j
      <4>1. 1 \in 1..((i + 1) - 1)
        OBVIOUS
      <4>2. PICK h \in (1 + 1)..((i + 1) - 1) : Unsubscribes(h, j)
        BY <2>1, <3>2, <4>1 DEF Alternating, InOrder, GivenUp, Subscribes
      <4> QED
        BY <4>2
    <3> QED
      BY <1>5, <3>1, <3>2
  <2>3. h - 1 \in 1..(i - 1) /\ t[h - 1] = s[h]
    BY <1>1
  <2> QED
    BY <2>2, <2>3 DEF Unsubscribes
<1>6. ASSUME NEW i \in 1..Len(t), t[i].type = "subscribe",
             NEW e \in 1..(i - 1), t[e].type = "subscribe", t[e].job = t[i].job
      PROVE  \E h \in (e + 1)..(i - 1) : t[h].type = "unsubscribe" /\ t[h].job = t[i].job
  <2>1. /\ s[i + 1].type = "subscribe" /\ s[i + 1].job = t[i].job
        /\ i + 1 \in 1..Len(s) /\ e + 1 \in 1..((i + 1) - 1)
        /\ s[e + 1].type = "subscribe" /\ s[e + 1].job = t[i].job
    BY <1>1, <1>6
  <2>2. PICK h \in ((e + 1) + 1)..((i + 1) - 1) : Unsubscribes(h, t[i].job)
    BY <2>1 DEF Alternating, InOrder, GivenUp, Subscribes
  <2>3. h - 1 \in (e + 1)..(i - 1) /\ t[h - 1] = s[h]
    BY <1>1
  <2> QED
    BY <2>2, <2>3 DEF Unsubscribes
<1>7. ASSUME NEW j \in Jobs, ~viewer'[j].reading, j \in session'.subscribed
      PROVE  \E h \in 1..Len(t) : t[h].type = "unsubscribe" /\ t[h].job = j
  <2>1. PICK h \in 2..Len(s) : Unsubscribes(h, j)
    <3>1. CASE j \in session.subscribed /\ ~Unsubscribes(1, j)
      <4>1. PICK h \in 1..Len(s) : Unsubscribes(h, j)
        BY <1>7, <3>1 DEF Alternating, InOrder, GivenUp
      <4> QED
        BY <3>1, <4>1
    <3>2. CASE Subscribes(1) /\ toServer[1].job = j
      <4>1. PICK h \in (1 + 1)..Len(s) : Unsubscribes(h, j)
        BY <1>3, <1>7, <3>2 DEF Alternating, InOrder, GivenUp
      <4> QED
        BY <4>1
    <3> QED
      BY <1>7, <3>1, <3>2
  <2>2. h - 1 \in 1..Len(t) /\ t[h - 1] = s[h]
    BY <1>1
  <2> QED
    BY <2>1, <2>2 DEF Unsubscribes
<1>8. ASSUME NEW j \in Jobs, ~viewer'[j].reading,
             NEW i \in 1..Len(t), t[i].type = "subscribe", t[i].job = j
      PROVE  \E h \in (i + 1)..Len(t) : t[h].type = "unsubscribe" /\ t[h].job = j
  <2>1. i + 1 \in 1..Len(s) /\ Subscribes(i + 1) /\ s[i + 1].job = j
    BY <1>1, <1>8 DEF Subscribes
  <2>2. PICK h \in ((i + 1) + 1)..Len(s) : Unsubscribes(h, j)
    BY <1>8, <2>1 DEF Alternating, InOrder, GivenUp
  <2>3. h - 1 \in (i + 1)..Len(t) /\ t[h - 1] = s[h]
    BY <1>1
  <2> QED
    BY <2>2, <2>3 DEF Unsubscribes
<1>9. InOrder'
  BY <1>5, <1>6 DEF InOrder, Subscribes, Unsubscribes
<1>10. GivenUp'
  <2> SUFFICES ASSUME NEW j \in Jobs, ~viewer'[j].reading
               PROVE  /\ j \in session'.subscribed =>
                           \E h \in 1..Len(t) : Unsubscribes(h, j)'
                      /\ \A i \in 1..Len(t) : Subscribes(i)' /\ t[i].job = j =>
                           \E h \in (i + 1)..Len(t) : Unsubscribes(h, j)'
    BY DEF GivenUp
  <2>1. ASSUME j \in session'.subscribed
        PROVE  \E h \in 1..Len(t) : Unsubscribes(h, j)'
    BY <1>7, <2>1 DEF Unsubscribes
  <2>2. ASSUME NEW i \in 1..Len(t), Subscribes(i)', t[i].job = j
        PROVE  \E h \in (i + 1)..Len(t) : Unsubscribes(h, j)'
    BY <1>8, <2>2 DEF Subscribes, Unsubscribes
  <2> QED
    BY <2>1, <2>2
<1> QED
  BY <1>9, <1>10 DEF Alternating

\* The same when the page has sent a message: a subscription by a viewer that
\* did not read, or that it gives the log up.
LEMMA AlternatingSent ==
  ASSUME Channels, Alternating, NEW m \in Subscription \cup Unsubscription,
         toServer' = Append(toServer, m), session' = session,
         m.type = "subscribe" => ~viewer[m.job].reading,
         \A j \in Jobs : ~viewer'[j].reading =>
           \/ ~viewer[j].reading /\ (m.type = "subscribe" => m.job # j)
           \/ m.type = "unsubscribe" /\ m.job = j
  PROVE  Alternating'
<1> DEFINE s == toServer
           t == Append(toServer, m)
           n == Len(toServer)
<1>1. /\ n \in Nat /\ Len(t) = n + 1 /\ t[n + 1] = m
      /\ \A i \in 1..n : t[i] = s[i]
  BY AppendIndex
<1>2. m.job \in Jobs
  BY DEF Subscription, Unsubscription
<1> HIDE DEF t, n
<1>3. \A i \in 1..Len(t) : i = n + 1 \/ i \in 1..n
  BY <1>1
<1>4. ASSUME NEW i \in 1..Len(t), t[i].type = "subscribe",
             t[i].job \in session'.subscribed
      PROVE  \E h \in 1..(i - 1) : t[h].type = "unsubscribe" /\ t[h].job = t[i].job
  <2>1. CASE i \in 1..n
    <3>1. PICK h \in 1..(i - 1) : Unsubscribes(h, t[i].job)
      BY <1>1, <1>4, <2>1 DEF Alternating, InOrder, GivenUp, Subscribes, n
    <3>2. h \in 1..n
      BY <1>1, <2>1
    <3> QED
      BY <1>1, <3>1, <3>2 DEF Unsubscribes
  <2>2. CASE i = n + 1
    <3>1. PICK h \in 1..n : Unsubscribes(h, m.job)
      BY <1>1, <1>2, <1>4, <2>2 DEF Alternating, InOrder, GivenUp, n
    <3>2. h \in 1..(i - 1) /\ t[i] = m
      BY <1>1, <2>2
    <3> QED
      BY <1>1, <3>1, <3>2 DEF Unsubscribes
  <2> QED
    BY <1>3, <2>1, <2>2
<1>5. ASSUME NEW i \in 1..Len(t), t[i].type = "subscribe",
             NEW e \in 1..(i - 1), t[e].type = "subscribe", t[e].job = t[i].job
      PROVE  \E h \in (e + 1)..(i - 1) : t[h].type = "unsubscribe" /\ t[h].job = t[i].job
  <2>1. CASE i \in 1..n
    <3>1. e \in 1..n /\ Subscribes(e) /\ Subscribes(i) /\ s[e].job = s[i].job /\ t[i] = s[i]
      BY <1>1, <1>5, <2>1 DEF Subscribes
    <3>2. PICK h \in (e + 1)..(i - 1) : Unsubscribes(h, s[i].job)
      BY <2>1, <3>1 DEF Alternating, InOrder, GivenUp, n
    <3>3. h \in 1..n
      BY <1>1, <2>1
    <3> QED
      BY <1>1, <3>1, <3>2, <3>3 DEF Unsubscribes
  <2>2. CASE i = n + 1
    <3>1. e \in 1..n /\ Subscribes(e) /\ s[e].job = m.job /\ t[i] = m
      BY <1>1, <1>5, <2>2 DEF Subscribes
    <3>2. PICK h \in (e + 1)..n : Unsubscribes(h, m.job)
      BY <1>2, <1>5, <3>1 DEF Alternating, InOrder, GivenUp, n
    <3>3. h \in 1..n /\ h \in (e + 1)..(i - 1)
      BY <1>1, <2>2
    <3> QED
      BY <1>1, <3>1, <3>2, <3>3 DEF Unsubscribes
  <2> QED
    BY <1>3, <2>1, <2>2
<1>6. ASSUME NEW j \in Jobs, ~viewer'[j].reading, j \in session'.subscribed
      PROVE  \E h \in 1..Len(t) : t[h].type = "unsubscribe" /\ t[h].job = j
  <2>1. CASE ~viewer[j].reading
    <3>1. PICK h \in 1..n : Unsubscribes(h, j)
      BY <1>6, <2>1 DEF Alternating, InOrder, GivenUp, n
    <3>2. h \in 1..Len(t) /\ t[h] = s[h]
      BY <1>1
    <3> QED
      BY <3>1, <3>2 DEF Unsubscribes
  <2>2. CASE m.type = "unsubscribe" /\ m.job = j
    <3>1. n + 1 \in 1..Len(t)
      BY <1>1
    <3> QED
      BY <1>1, <2>2, <3>1
  <2> QED
    BY <1>6, <2>1, <2>2
<1>7. ASSUME NEW j \in Jobs, ~viewer'[j].reading,
             NEW i \in 1..Len(t), t[i].type = "subscribe", t[i].job = j
      PROVE  \E h \in (i + 1)..Len(t) : t[h].type = "unsubscribe" /\ t[h].job = j
  <2>1. CASE ~viewer[j].reading /\ (m.type = "subscribe" => m.job # j)
    <3>1. i \in 1..n
      BY <1>1, <1>3, <1>7, <2>1
    <3>2. Subscribes(i) /\ s[i].job = j
      BY <1>1, <1>7, <3>1 DEF Subscribes
    <3>3. PICK h \in (i + 1)..n : Unsubscribes(h, j)
      BY <2>1, <3>1, <3>2 DEF Alternating, InOrder, GivenUp, n
    <3>4. h \in (i + 1)..Len(t) /\ h \in 1..n
      BY <1>1, <3>1
    <3> QED
      BY <1>1, <3>3, <3>4 DEF Unsubscribes
  <2>2. CASE m.type = "unsubscribe" /\ m.job = j
    <3>1. i \in 1..n
      BY <1>1, <1>3, <1>7, <2>2
    <3>2. n + 1 \in (i + 1)..Len(t)
      BY <1>1, <3>1
    <3> QED
      BY <1>1, <2>2, <3>2
  <2> QED
    BY <1>7, <2>1, <2>2
<1>8. InOrder'
  BY <1>4, <1>5 DEF InOrder, Subscribes, Unsubscribes, t
<1>9. GivenUp'
  BY <1>6, <1>7 DEF GivenUp, Subscribes, Unsubscribes, t
<1> QED
  BY <1>8, <1>9 DEF Alternating

-----------------------------------------------------------------------------
(* The numbers of the subscriptions *)

\* A subscription that is received keeps its number in the lookups.
LEMMA NumberedReceived ==
  ASSUME TypeOK, Channels, Numbered, toServer # <<>>, toServer' = Tail(toServer),
         starts' = starts,
         \A k \in Conns : conns'[k].state # "none" => conns[k].state # "none",
         \/ lookups' = lookups
         \/ Subscribes(1) /\ \E q : q.id = toServer[1].id /\ lookups' = lookups \cup {q}
  PROVE  Numbered'
<1> DEFINE s == toServer
           t == toServer'
<1>1. /\ Len(s) \in Nat /\ Len(t) = Len(s) - 1
      /\ \A i \in 1..Len(t) : i + 1 \in 1..Len(s) /\ t[i] = s[i + 1]
      /\ 1 \in 1..Len(s)
  BY TailIndex
<1>2. \A i \in 1..Len(s) : Subscribes(i) => s[i].id \in Conns
  BY DEF Channels, Subscribes, Subscription, Unsubscription
<1>3. \A k \in Conns : conns'[k].state # "none" => k <= starts'
  BY DEF Numbered
<1>4. \A q \in lookups : q.id \in Conns
  BY DEF TypeOK
<1>5. /\ \A q \in lookups' : q.id <= starts' /\ conns'[q.id].state = "none"
      /\ \A q, r \in lookups' : q.id = r.id => q = r
  <2>1. CASE lookups' = lookups
    BY <1>4, <2>1 DEF Numbered
  <2>2. CASE Subscribes(1) /\ \E q : q.id = s[1].id /\ lookups' = lookups \cup {q}
    <3>1. PICK q : q.id = s[1].id /\ lookups' = lookups \cup {q}
      BY <2>2
    <3>2. /\ q.id <= starts' /\ conns'[q.id].state = "none"
          /\ \A r \in lookups : r.id # q.id
      BY <1>1, <1>2, <2>2, <3>1 DEF Numbered
    <3> QED
      BY <1>4, <3>1, <3>2 DEF Numbered
  <2> QED
    BY <2>1, <2>2
<1>6. ASSUME NEW i \in 1..Len(t), Subscribes(i)'
      PROVE  /\ t[i].id <= starts' /\ conns'[t[i].id].state = "none"
             /\ \A q \in lookups' : q.id # t[i].id
             /\ \A h \in 1..Len(t) : Subscribes(h)' /\ t[h].id = t[i].id => h = i
  <2>1. i + 1 \in 1..Len(s) /\ Subscribes(i + 1) /\ t[i] = s[i + 1]
    BY <1>1, <1>6 DEF Subscribes
  <2>2. /\ t[i].id <= starts' /\ conns'[t[i].id].state = "none"
        /\ \A q \in lookups : q.id # t[i].id
        /\ \A h \in 1..Len(s) : Subscribes(h) /\ s[h].id = t[i].id => h = i + 1
    BY <1>2, <2>1 DEF Numbered
  <2>3. ASSUME NEW h \in 1..Len(t), Subscribes(h)', t[h].id = t[i].id PROVE h = i
    <3>1. h + 1 \in 1..Len(s) /\ Subscribes(h + 1) /\ s[h + 1].id = t[i].id
      BY <1>1, <2>3 DEF Subscribes
    <3>2. h + 1 = i + 1
      BY <2>2, <3>1
    <3> QED
      BY <3>2
  <2>4. Subscribes(1) => s[1].id # t[i].id
    BY <1>1, <2>2
  <2> QED
    BY <2>2, <2>3, <2>4
<1> HIDE DEF s, t
<1> QED
  BY <1>3, <1>5, <1>6 DEF Numbered, t

\* A lookup that is done leaves its number to a connection, or to nobody.
LEMMA NumberedFound ==
  ASSUME TypeOK, Channels, Numbered, NEW q \in lookups, lookups' = lookups \ {q},
         toServer' = toServer, starts' = starts,
         \A k \in Conns \ {q.id} : conns'[k].state # "none" => conns[k].state # "none"
  PROVE  Numbered'
<1>1. \A r \in lookups : r.id \in Conns
  BY DEF TypeOK
<1>2. \A i \in 1..Len(toServer) : Subscribes(i) => toServer[i].id \in Conns
  BY DEF Channels, Subscribes, Subscription, Unsubscription
<1>3. \A k \in Conns : conns'[k].state # "none" => k <= starts'
  BY DEF Numbered
<1>4. \A r \in lookups' : r \in lookups /\ r.id # q.id
  BY DEF Numbered
<1>5. /\ \A r \in lookups' : r.id <= starts' /\ conns'[r.id].state = "none"
      /\ \A r, p \in lookups' : r.id = p.id => r = p
  BY <1>1, <1>4 DEF Numbered
<1>6. ASSUME NEW i \in 1..Len(toServer), Subscribes(i)
      PROVE  /\ toServer[i].id <= starts' /\ conns'[toServer[i].id].state = "none"
             /\ \A r \in lookups' : r.id # toServer[i].id
             /\ \A h \in 1..Len(toServer) :
                  Subscribes(h) /\ toServer[h].id = toServer[i].id => h = i
  BY <1>2, <1>6 DEF Numbered
<1> QED
  BY <1>3, <1>5, <1>6 DEF Numbered, Subscribes

\* A new subscription has the next number; giving up has none.
LEMMA NumberedSent ==
  ASSUME TypeOK, Channels, Numbered, NEW m \in Subscription \cup Unsubscription,
         toServer' = Append(toServer, m), UNCHANGED <<lookups, conns>>,
         \/ m.type = "subscribe" /\ starts' = starts + 1 /\ m.id = starts'
         \/ m.type = "unsubscribe" /\ starts' = starts
  PROVE  Numbered'
<1> DEFINE t == Append(toServer, m)
           n == Len(toServer)
<1>1. /\ n \in Nat /\ Len(t) = n + 1 /\ t[n + 1] = m
      /\ \A i \in 1..n : t[i] = toServer[i]
  BY AppendIndex
<1>2. toServer' = t
  OBVIOUS
<1>3. starts \in Nat /\ Conns \subseteq Nat
  BY LogStreamAssumption DEF TypeOK, Conns
<1>4. \A q \in lookups : q.id \in Conns
  BY DEF TypeOK
<1>5. m.type = "subscribe" => m.id \in Conns
  BY DEF Subscription, Unsubscription
<1>6. \A i \in 1..n : Subscribes(i) => toServer[i].id \in Conns
  BY DEF Channels, Subscribes, Subscription, Unsubscription
<1>7. /\ \A k \in Conns : conns[k].state # "none" => k <= starts'
      /\ \A q \in lookups : q.id <= starts' /\ conns[q.id].state = "none"
      /\ \A q, r \in lookups : q.id = r.id => q = r
  <2>1. starts <= starts' /\ starts' \in Nat
    BY <1>3
  <2>2. \A k \in Conns : conns[k].state # "none" => k <= starts'
    BY <1>3, <2>1 DEF Numbered
  <2>3. ASSUME NEW q \in lookups PROVE q.id <= starts' /\ conns[q.id].state = "none"
    <3>1. q.id \in Nat
      BY <1>3, <1>4
    <3>2. q.id <= starts /\ conns[q.id].state = "none"
      BY DEF Numbered
    <3> QED
      BY <1>3, <2>1, <3>1, <3>2
  <2>4. \A q, r \in lookups : q.id = r.id => q = r
    BY DEF Numbered
  <2> QED
    BY <2>2, <2>3, <2>4
<1> HIDE DEF t
<1>8. ASSUME NEW i \in 1..(n + 1), t[i].type = "subscribe"
      PROVE  /\ t[i].id <= starts' /\ conns[t[i].id].state = "none"
             /\ \A q \in lookups : q.id # t[i].id
             /\ \A h \in 1..(n + 1) :
                  t[h].type = "subscribe" /\ t[h].id = t[i].id => h = i
  <2>1. \A h \in 1..n : Subscribes(h) => toServer[h].id <= starts
    BY DEF Numbered
  <2>2. CASE i \in 1..n
    <3>1. Subscribes(i) /\ t[i].id = toServer[i].id
      BY <1>1, <1>8, <2>2 DEF Subscribes
    <3>2. /\ t[i].id <= starts /\ conns[t[i].id].state = "none"
          /\ \A q \in lookups : q.id # t[i].id
          /\ \A h \in 1..n : Subscribes(h) /\ toServer[h].id = t[i].id => h = i
      BY <2>2, <3>1 DEF Numbered
    <3>3. t[i].id \in Nat
      BY <1>3, <1>6, <2>2, <3>1
    <3>4. ASSUME NEW h \in 1..(n + 1), t[h].type = "subscribe", t[h].id = t[i].id
          PROVE  h = i
      <4>1. CASE h \in 1..n
        BY <1>1, <3>2, <3>4, <4>1 DEF Subscribes
      <4>2. CASE h = n + 1
        BY <1>1, <1>3, <3>2, <3>3, <3>4, <4>2
      <4> QED
        BY <1>1, <4>1, <4>2
    <3> QED
      BY <1>3, <3>2, <3>3, <3>4
  <2>3. CASE i = n + 1
    <3>1. t[i] = m /\ m.id = starts + 1 /\ starts' = starts + 1
      BY <1>1, <1>8, <2>3
    <3>2. conns[m.id].state = "none" /\ \A q \in lookups : q.id # m.id
      BY <1>1, <1>3, <1>4, <1>5, <1>8, <2>3, <3>1 DEF Numbered
    <3>3. ASSUME NEW h \in 1..(n + 1), t[h].type = "subscribe", t[h].id = t[i].id
          PROVE  h = i
      <4>1. CASE h \in 1..n
        <5>1. Subscribes(h) /\ toServer[h].id = starts + 1
          BY <1>1, <3>1, <3>3, <4>1 DEF Subscribes
        <5> QED
          BY <1>3, <2>1, <4>1, <5>1
      <4> QED
        BY <1>1, <2>3, <4>1
    <3> QED
      BY <1>3, <3>1, <3>2, <3>3
  <2> QED
    BY <1>1, <2>2, <2>3
<1> HIDE DEF n
<1> QED
  BY <1>1, <1>2, <1>7, <1>8 DEF Numbered, Subscribes

-----------------------------------------------------------------------------
(* One lemma for each kind of step *)

\* Nobody has subscribed at first.
LEMMA InitSafe ==
  ASSUME Init
  PROVE  IInv
<1>1. MaxLines \in Nat /\ MaxStarts \in Nat
  BY LogStreamAssumption
<1>2. 0 \in Lines
  BY <1>1 DEF Lines
<1>3. viewer \in Viewers
  BY <1>2 DEF Init, NewViewer, Viewers
<1>4. session \in Sessions
  BY DEF Init, NewSession, Sessions
<1>5. conns \in Connections /\ \A k \in Conns : conns[k].state = "none"
  BY <1>2 DEF Init, NoConn, Connections
<1>6. watch \in [Jobs -> [ref : 0..MaxStarts, size : Lines]]
  BY <1>1, <1>2 DEF Init
<1>7. TypeOK
  BY <1>1, <1>3, <1>4, <1>5, <1>6, LogStreamAssumption
     DEF Init, TypeOK, Viewers, Sessions, Connections
<1>8. Channels
  BY DEF Init, Channels
<1>9. Placed /\ Numbered /\ Alternating
  BY <1>5 DEF Init, NewSession, Placed, Numbered, Alternating, InOrder, GivenUp
<1>10. WatchesBalanced
  <2>1. ASSUME NEW j \in Jobs PROVE Cardinality(Following(j)) = 0
    <3>1. Following(j) = {}
      BY <1>5 DEF Following
    <3> QED
      BY <3>1, FS_EmptySet
  <2> QED
    BY <2>1 DEF Init, NewSession, WatchesBalanced
<1> QED
  BY <1>7, <1>8, <1>9, <1>10 DEF IInv

\* The types of all parts make up TypeOK, once the references are balanced.
LEMMA TypesTogether ==
  ASSUME size' \in [Jobs -> -1..MaxLines], viewer' \in Viewers, starts' \in 0..MaxStarts,
         toServer' \in Seq(Subscription \cup Unsubscription), toPage' \in Seq(Message),
         session' \in Sessions, conns' \in Connections, watch' \in Watches,
         lookups' \subseteq [id : Conns, job : Jobs, position : Lines],
         Placed', WatchesBalanced'
  PROVE  TypeOK' /\ Channels'
<1>1. watch' \in [Jobs -> [ref : 0..MaxStarts, size : Lines]]
  BY RefBound
<1>2. \A i \in 1..Len(toServer') : toServer'[i] \in Subscription \cup Unsubscription
  OBVIOUS
<1>3. \A i \in 1..Len(toPage') : toPage'[i] \in Message
  OBVIOUS
<1>4. TypeOK'
  BY <1>1, <1>2, <1>3
     DEF TypeOK, Viewers, Sessions, Connections, Subscription, Unsubscription
<1> QED
  BY <1>4 DEF Channels

\* The types before the step.
LEMMA Types ==
  ASSUME IInv
  PROVE  /\ size \in [Jobs -> -1..MaxLines] /\ viewer \in Viewers /\ starts \in 0..MaxStarts
         /\ toServer \in Seq(Subscription \cup Unsubscription) /\ toPage \in Seq(Message)
         /\ session \in Sessions /\ conns \in Connections /\ watch \in Watches
         /\ lookups \subseteq [id : Conns, job : Jobs, position : Lines]
         /\ MaxLines \in Nat /\ MaxStarts \in Nat
<1>1. MaxLines \in Nat /\ MaxStarts \in Nat
  BY LogStreamAssumption
<1>2. watch \in Watches
  BY <1>1 DEF IInv, TypeOK, Watches
<1> QED
  BY <1>1, <1>2 DEF IInv, TypeOK, Channels, Viewers, Sessions, Connections

\* Start, Pause and Destroy: the page sends something to the pacemaker.
LEMMA SendStep ==
  ASSUME IInv, NEW m \in Subscription \cup Unsubscription,
         toServer' = Append(toServer, m), viewer' \in Viewers,
         UNCHANGED <<size, toPage, session, lookups, conns, watch>>,
         \/ /\ m.type = "subscribe" /\ starts < MaxStarts
            /\ starts' = starts + 1 /\ m.id = starts'
         \/ m.type = "unsubscribe" /\ starts' = starts,
         m.type = "subscribe" => ~viewer[m.job].reading,
         \A j \in Jobs : ~viewer'[j].reading =>
           \/ ~viewer[j].reading /\ (m.type = "subscribe" => m.job # j)
           \/ m.type = "unsubscribe" /\ m.job = j
  PROVE  IInv'
<1> USE DEF IInv
<1>1. Alternating'
  BY AlternatingSent
<1>2. Numbered'
  BY NumberedSent
<1>3. starts' \in 0..MaxStarts /\ starts' >= starts
  BY Types
<1>4. Placed'
  BY <1>3, Types DEF Placed
<1>5. WatchesBalanced'
  BY BalanceKept
<1>6. toServer' \in Seq(Subscription \cup Unsubscription)
  BY AppendIndex
<1>7. TypeOK' /\ Channels'
  BY <1>3, <1>4, <1>5, <1>6, Types, TypesTogether
<1> QED
  BY <1>1, <1>2, <1>4, <1>5, <1>7

\* The page.
LEMMA PageStep ==
  ASSUME IInv, NEW j \in Jobs, Start(j) \/ Pause(j) \/ Destroy(j)
  PROVE  IInv'
<1>1. viewer \in Viewers /\ 0 \in Lines
  BY Types DEF Lines
<1>2. CASE Start(j)
  <2> DEFINE m == [type |-> "subscribe", id |-> starts', job |-> j,
                   position |-> viewer[j].position]
  <2>1. starts' \in Conns /\ viewer[j].position \in Lines
    BY <1>1, <1>2, Types DEF Start, Conns, Viewers
  <2>2. m \in Subscription \cup Unsubscription
    BY <2>1 DEF Subscription
  <2>3. viewer' \in Viewers
    BY <1>1, <1>2 DEF Start, Viewers
  <2>4. \A i \in Jobs : ~viewer'[i].reading => ~viewer[i].reading /\ m.job # i
    BY <1>1, <1>2 DEF Start, Viewers
  <2>5. /\ toServer' = Append(toServer, m) /\ starts < MaxStarts /\ starts' = starts + 1
        /\ ~viewer[j].reading /\ UNCHANGED <<size, toPage, session, lookups, conns, watch>>
    BY <1>2 DEF Start
  <2>6. m.type = "subscribe" /\ m.id = starts' /\ m.job = j
    OBVIOUS
  <2> HIDE DEF m
  <2> QED
    BY <2>2, <2>3, <2>4, <2>5, <2>6, SendStep
<1> DEFINE m == [type |-> "unsubscribe", job |-> j]
<1>3. m \in Subscription \cup Unsubscription /\ m.type = "unsubscribe" /\ m.job = j
  BY DEF Unsubscription
<1>4. NewViewer \in [open : BOOLEAN, reading : BOOLEAN, position : Lines,
                     shown : SUBSET (1..MaxLines), erased : Lines,
                     told : SUBSET {"zerosize", "cantfind"}]
  BY <1>1 DEF NewViewer
<1>5. CASE Pause(j)
  <2>1. viewer' \in Viewers
    BY <1>1, <1>5 DEF Pause, Viewers
  <2>2. \A i \in Jobs : ~viewer'[i].reading => ~viewer[i].reading \/ i = j
    BY <1>1, <1>5 DEF Pause, Viewers
  <2>3. /\ toServer' = Append(toServer, m)
        /\ UNCHANGED <<size, starts, toPage, session, lookups, conns, watch>>
    BY <1>5 DEF Pause, Unsubscribe
  <2> HIDE DEF m
  <2> QED
    BY <1>3, <2>1, <2>2, <2>3, SendStep
<1>6. CASE Destroy(j)
  <2>1. viewer' = [viewer EXCEPT ![j] = NewViewer]
    BY <1>6 DEF Destroy
  <2>2. viewer' \in Viewers
    BY <1>1, <1>4, <2>1 DEF Viewers
  <2>3. \A i \in Jobs : ~viewer'[i].reading => ~viewer[i].reading \/ i = j
    BY <1>1, <2>1 DEF Viewers
  <2>4. UNCHANGED <<size, starts, toPage, session, lookups, conns, watch>>
    BY <1>6 DEF Destroy
  <2>5. CASE viewer[j].reading
    <3>1. toServer' = Append(toServer, m)
      BY <1>6, <2>5 DEF Destroy, Unsubscribe
    <3> HIDE DEF m
    <3> QED
      BY <1>3, <2>2, <2>3, <2>4, <3>1, SendStep
  <2>6. CASE ~viewer[j].reading
    <3>1. toServer' = toServer
      BY <1>6, <2>6 DEF Destroy
    <3>2. Numbered' /\ Placed'
      BY <2>4, <3>1 DEF IInv, Numbered, Placed, Subscribes
    <3>3. Alternating'
      <4>1. \A i \in Jobs : ~viewer'[i].reading => ~viewer[i].reading
        BY <2>3, <2>6
      <4>2. InOrder'
        BY <2>4, <3>1 DEF IInv, Alternating, InOrder, Subscribes, Unsubscribes
      <4>3. GivenUp'
        BY <2>4, <3>1, <4>1 DEF IInv, Alternating, GivenUp, Subscribes, Unsubscribes
      <4> QED
        BY <4>2, <4>3 DEF Alternating
    <3>4. WatchesBalanced'
      BY <2>4, BalanceKept DEF IInv
    <3>5. TypeOK' /\ Channels'
      BY <2>2, <2>4, <3>1, <3>2, <3>4, Types, TypesTogether
    <3> QED
      BY <3>2, <3>3, <3>4, <3>5 DEF IInv
  <2> QED
    BY <2>5, <2>6
<1> QED
  BY <1>2, <1>5, <1>6

\* PageReceives: what comes is shown, or replaces what is shown.
LEMMA PageReceivesStep ==
  ASSUME IInv, PageReceives
  PROVE  IInv'
<1> DEFINE m == Head(toPage)
           v == viewer[m.job]
           Record == [open : BOOLEAN, reading : BOOLEAN, position : Lines,
                      shown : SUBSET (1..MaxLines), erased : Lines,
                      told : SUBSET {"zerosize", "cantfind"}]
<1>1. /\ toPage # <<>> /\ toPage' = Tail(toPage)
      /\ viewer' = IF ~v.open THEN viewer
                   ELSE [viewer EXCEPT ![m.job] =
                           IF m.type = "lines" THEN OnLines(v, m) ELSE Replace(v, m.type)]
      /\ UNCHANGED <<size, starts, toServer, session, lookups, conns, watch>>
  BY DEF PageReceives
<1>2. toPage' \in Seq(Message) /\ m \in Message
  BY <1>1, Types
<1>3. m.job \in Jobs /\ v \in Record
  BY <1>2, Types DEF Message, Viewers
<1> DEFINE w == IF m.type = "lines" THEN OnLines(v, m) ELSE Replace(v, m.type)
<1>4. viewer' = viewer \/ viewer' = [viewer EXCEPT ![m.job] = w]
  BY <1>1
<1>5. v = viewer[m.job]
  OBVIOUS
<1> HIDE DEF v, m
<1>6. w \in Record /\ w.reading = v.reading
  <2>1. CASE m.type = "lines"
    <3>1. m.from \in Lines /\ m.to \in Lines
      BY <1>2, <2>1 DEF Message
    <3>2. ((m.from + 1)..m.to) \subseteq 1..MaxLines
      BY <3>1, Types DEF Lines
    <3>3. OnLines(v, m) \in Record /\ OnLines(v, m).reading = v.reading
      BY <1>3, <3>1, <3>2 DEF OnLines
    <3> QED
      BY <2>1, <3>3
  <2>2. CASE m.type # "lines"
    <3>1. m.type \in {"zerosize", "cantfind"}
      BY <1>2, <2>2 DEF Message
    <3>2. Replace(v, m.type) \in Record /\ Replace(v, m.type).reading = v.reading
      BY <1>3, <3>1 DEF Replace
    <3> QED
      BY <2>2, <3>2
  <2> QED
    BY <2>1, <2>2
<1> HIDE DEF w
<1>7. viewer' \in Viewers /\ \A j \in Jobs : viewer'[j].reading = viewer[j].reading
  <2>1. viewer \in Viewers
    BY Types
  <2> QED
    BY <1>3, <1>4, <1>5, <1>6, <2>1 DEF Viewers
<1>8. Numbered' /\ Placed'
  BY <1>1 DEF IInv, Numbered, Placed, Subscribes
<1>9. Alternating'
  <2>1. InOrder'
    BY <1>1 DEF IInv, Alternating, InOrder, Subscribes, Unsubscribes
  <2>2. GivenUp'
    BY <1>1, <1>7 DEF IInv, Alternating, GivenUp, Subscribes, Unsubscribes
  <2> QED
    BY <2>1, <2>2 DEF Alternating
<1>10. WatchesBalanced'
  BY <1>1, BalanceKept DEF IInv
<1>11. TypeOK' /\ Channels'
  BY <1>1, <1>2, <1>7, <1>8, <1>10, Types, TypesTogether
<1> QED
  BY <1>8, <1>9, <1>10, <1>11 DEF IInv

\* A subscription to a log of this node: the page did not follow it yet.
LEMMA FoundHereStep ==
  ASSUME IInv, toServer # <<>>, toServer' = Tail(toServer), UNCHANGED <<viewer, starts>>,
         Subscribes(1), toServer[1].job \notin Remote,
         FoundHere(toServer[1].job, toServer[1].position)
  PROVE  IInv'
<1> DEFINE j == toServer[1].job
           from == ReadPosition(j, toServer[1].position)
<1> USE DEF IInv
<1>1. /\ toPage' = toPage \o Sent(j, from)
      /\ session' = [session EXCEPT !.subscribed = @ \cup {j},
                                    !.last[j] = LastAfter(j, from, @)]
      /\ watch' = AddWatch(watch, j) /\ UNCHANGED <<size, lookups, conns>>
  BY DEF FoundHere
<1>2. 1 \in 1..Len(toServer) /\ toServer[1] \in Subscription
  BY TailIndex DEF Subscribes, Subscription, Unsubscription
<1>3. j \in Jobs /\ toServer[1].position \in Lines /\ toServer[1].id \in Conns
  BY <1>2 DEF Subscription
<1>4. session.last[j] \in Lines \cup {None}
  BY <1>3, Types DEF Sessions
<1>5. /\ Sent(j, from) \in Seq(Message) /\ from \in Lines
      /\ LastAfter(j, from, session.last[j]) \in Lines \cup {None}
  BY <1>3, <1>4, SendTypes
<1> DEFINE after == LastAfter(j, from, session.last[j])
<1>6. session' = [session EXCEPT !.subscribed = session.subscribed \cup {j},
                                 !.last = [session.last EXCEPT ![j] = after]]
  BY <1>1, <1>3, Types DEF Sessions
<1> HIDE DEF j, from, after
<1>7. session' \in Sessions /\ session'.subscribed = session.subscribed \cup {j}
  BY <1>3, <1>5, <1>6, Types DEF Sessions, after
<1>8. toPage' \in Seq(Message)
  BY <1>1, <1>5, Types
<1>9. j \notin session.subscribed
  <2>1. ~\E h \in 1..(1 - 1) : Unsubscribes(h, j)
    OBVIOUS
  <2> QED
    BY <1>2, <2>1 DEF Alternating, InOrder, j
<1>10. Placed'
  <2>1. starts >= 1
    <3>1. toServer[1].id <= starts
      BY <1>2 DEF Numbered
    <3> QED
      BY <1>3, <3>1, Types DEF Conns
  <2> QED
    BY <1>1, <1>7, <2>1 DEF Placed, j
<1>11. Numbered'
  BY <1>1, NumberedReceived
<1>12. Alternating'
  <2>1. \A i \in session.subscribed : ~Unsubscribes(1, i)
    BY DEF Subscribes, Unsubscribes
  <2> QED
    BY <1>7, <2>1, AlternatingReceived DEF j
<1>13. /\ watch' \in Watches /\ watch'[j].ref = watch[j].ref + 1
       /\ \A i \in Jobs \ {j} : watch'[i] = watch[i]
  BY <1>1, <1>3, AddWatchCounts
<1>14. WatchesBalanced'
  <2>1. ASSUME NEW i \in Jobs
        PROVE  watch'[i].ref = Cardinality(Following(i)') + Here(i)'
    <3>1. watch[i].ref = Cardinality(Following(i)) + Here(i) /\ Following(i)' = Following(i)
      BY <1>1 DEF WatchesBalanced, Here, Following
    <3>2. Cardinality(Following(i)) \in Nat
      BY FollowingFinite DEF Following
    <3>3. CASE i = j
      <4>1. Here(i) = 0 /\ Here(i)' = 1
        BY <1>7, <1>9, <3>3 DEF Here
      <4> QED
        BY <1>13, <3>1, <3>2, <3>3, <4>1
    <3>4. CASE i # j
      <4>1. Here(i)' = Here(i)
        BY <1>7, <3>4 DEF Here
      <4> QED
        BY <1>13, <3>1, <3>4, <4>1
    <3> QED
      BY <3>3, <3>4
  <2> QED
    BY <2>1 DEF WatchesBalanced, Here
<1>15. TypeOK' /\ Channels'
  BY <1>1, <1>7, <1>8, <1>10, <1>13, <1>14, TailIndex, Types, TypesTogether
<1> QED
  BY <1>10, <1>11, <1>12, <1>14, <1>15

\* A subscription whose log has to be looked up.
LEMMA LookupStep ==
  ASSUME IInv, toServer # <<>>, toServer' = Tail(toServer), UNCHANGED <<viewer, starts>>,
         Subscribes(1),
         lookups' = lookups \cup {[id |-> toServer[1].id, job |-> toServer[1].job,
                                   position |-> toServer[1].position]},
         UNCHANGED <<size, toPage, session, conns, watch>>
  PROVE  IInv'
<1> DEFINE q == [id |-> toServer[1].id, job |-> toServer[1].job,
                 position |-> toServer[1].position]
<1> USE DEF IInv
<1>1. toServer[1] \in Subscription
  BY TailIndex DEF Subscribes, Subscription, Unsubscription
<1>2. q \in [id : Conns, job : Jobs, position : Lines]
  BY <1>1 DEF Subscription
<1>3. Numbered'
  <2>1. q.id = toServer[1].id /\ lookups' = lookups \cup {q}
    OBVIOUS
  <2> HIDE DEF q
  <2> QED
    BY <2>1, NumberedReceived
<1>4. Alternating'
  <2>1. \A i \in session.subscribed : ~Unsubscribes(1, i)
    BY DEF Subscribes, Unsubscribes
  <2> QED
    BY <2>1, AlternatingReceived
<1>5. WatchesBalanced' /\ Placed'
  BY BalanceKept DEF Placed
<1>6. lookups' \subseteq [id : Conns, job : Jobs, position : Lines]
  BY <1>2, Types
<1>7. TypeOK' /\ Channels'
  BY <1>5, <1>6, TailIndex, Types, TypesTogether
<1> QED
  BY <1>3, <1>4, <1>5, <1>7

\* A subscription that is given up, of the page or of a connection.
LEMMA UnsubscribeStep ==
  ASSUME IInv, toServer # <<>>, toServer' = Tail(toServer), UNCHANGED <<viewer, starts>>,
         NEW j \in Jobs, Unsubscribes(1, j), UnsubscribeLocal(j),
         UNCHANGED <<size, toPage, lookups>>
  PROVE  IInv'
<1> USE DEF IInv
<1>1. session \in Sessions /\ conns \in Connections /\ watch \in Watches
  BY Types
<1>2. ASSUME session' \in Sessions, session'.subscribed = session.subscribed \ {j},
             conns' \in Connections, watch' \in Watches,
             \A k \in Conns : conns'[k].state # "none" =>
               conns[k].state # "none" /\ conns'[k].job = conns[k].job,
             WatchesBalanced'
      PROVE  IInv'
  <2>1. Numbered'
    BY <1>2, NumberedReceived
  <2>2. Alternating'
    BY <1>2, AlternatingReceived DEF Unsubscribes
  <2>3. Placed'
    BY <1>2 DEF Placed
  <2>4. TypeOK' /\ Channels'
    BY <1>2, <2>3, TailIndex, Types, TypesTogether
  <2> QED
    BY <1>2, <2>1, <2>2, <2>3, <2>4
<1>3. CASE j \in session.subscribed
  <2>1. /\ session' = [session EXCEPT !.subscribed = @ \ {j}]
        /\ watch' = RemoveWatch(watch, j) /\ conns' = conns
    BY <1>3 DEF UnsubscribeLocal
  <2>2. session' \in Sessions /\ session'.subscribed = session.subscribed \ {j}
    BY <1>1, <2>1 DEF Sessions
  <2>3. /\ watch' \in Watches
        /\ watch[j].ref >= 1 => watch'[j].ref = watch[j].ref - 1
        /\ \A i \in Jobs \ {j} : watch'[i] = watch[i]
    BY <2>1, RemoveWatchCounts
  <2>4. ASSUME NEW i \in Jobs
        PROVE  watch'[i].ref = Cardinality(Following(i)') + Here(i)'
    <3>1. watch[i].ref = Cardinality(Following(i)) + Here(i) /\ Following(i)' = Following(i)
      BY <2>1 DEF WatchesBalanced, Here, Following
    <3>2. Cardinality(Following(i)) \in Nat
      BY FollowingFinite DEF Following
    <3>3. CASE i = j
      <4>1. Here(i) = 1 /\ Here(i)' = 0
        BY <1>3, <2>2, <3>3 DEF Here
      <4> QED
        BY <2>3, <3>1, <3>2, <3>3, <4>1
    <3>4. CASE i # j
      <4>1. Here(i)' = Here(i)
        BY <2>2, <3>4 DEF Here
      <4> QED
        BY <2>3, <3>1, <3>4, <4>1
    <3> QED
      BY <3>3, <3>4
  <2>5. WatchesBalanced'
    BY <2>4 DEF WatchesBalanced, Here
  <2> QED
    BY <1>1, <1>2, <2>1, <2>2, <2>3, <2>5
<1>4. CASE j \notin session.subscribed /\ j \in session.remote
  <2> DEFINE k == session.conn
  <2>1. session' = [session EXCEPT !.remote = @ \ {j}, !.conn = None]
    BY <1>4 DEF UnsubscribeLocal
  <2>2. session' \in Sessions /\ session'.subscribed = session.subscribed \ {j}
    BY <1>1, <1>4, <2>1 DEF Sessions
  <2>3. session'.subscribed = session.subscribed
    BY <1>4, <2>2
  <2>4. CASE k # None /\ conns[k].state = "open"
    <3>1. conns' = [conns EXCEPT ![k].state = "closed"] /\ watch' = RemoveWatch(watch, conns[k].job)
      BY <1>4, <2>4 DEF UnsubscribeLocal
    <3>2. k \in Conns
      BY <1>1, <2>4 DEF Sessions
    <3>3. PICK i \in Jobs : i = conns[k].job
      BY <2>4, <3>2, LogStreamAssumption DEF Placed
    <3>4. /\ conns' \in Connections /\ conns'[k].state = "closed"
          /\ conns'[k].job = i /\ \A h \in Conns \ {k} : conns'[h] = conns[h]
      BY <1>1, <3>1, <3>2, <3>3 DEF Connections
    <3>5. /\ watch' \in Watches
          /\ watch[i].ref >= 1 => watch'[i].ref = watch[i].ref - 1
          /\ \A h \in Jobs \ {i} : watch'[h] = watch[h]
      BY <3>1, <3>3, RemoveWatchCounts
    <3> HIDE DEF k
    <3>6. /\ Cardinality(Following(i)') = Cardinality(Following(i)) - 1
          /\ Cardinality(Following(i)) \in Nat /\ Cardinality(Following(i)) >= 1
          /\ \A h \in Jobs \ {i} : Following(h)' = Following(h)
      BY <2>4, <3>2, <3>3, <3>4, FollowingClosed
    <3>7. ASSUME NEW h \in Jobs
          PROVE  watch'[h].ref = Cardinality(Following(h)') + Here(h)'
      <4>1. watch[h].ref = Cardinality(Following(h)) + Here(h)
        BY DEF WatchesBalanced, Here
      <4>2. Here(h) \in Nat /\ Here(h)' = Here(h)
        BY <2>3 DEF Here
      <4>3. CASE h = i
        <5>1. watch[i].ref >= 1 /\ watch[i].ref = Cardinality(Following(i)) + Here(i)
          BY <3>6, <4>1, <4>2, <4>3
        <5>2. watch'[i].ref = watch[i].ref - 1
          BY <3>5, <5>1
        <5> QED
          BY <3>6, <4>2, <4>3, <5>1, <5>2
      <4>4. CASE h # i
        BY <3>5, <3>6, <4>1, <4>2, <4>4
      <4> QED
        BY <4>3, <4>4
    <3>8. WatchesBalanced'
      BY <3>7 DEF WatchesBalanced, Here
    <3>9. \A h \in Conns : conns'[h].state # "none" =>
            conns[h].state # "none" /\ conns'[h].job = conns[h].job
      BY <2>4, <3>2, <3>3, <3>4
    <3> QED
      BY <1>2, <2>2, <3>4, <3>5, <3>8, <3>9
  <2>5. CASE ~(k # None /\ conns[k].state = "open")
    <3>1. UNCHANGED <<conns, watch>>
      BY <1>4, <2>5 DEF UnsubscribeLocal
    <3>2. WatchesBalanced'
      BY <2>3, <3>1, BalanceKept
    <3> QED
      BY <1>1, <1>2, <2>2, <3>1, <3>2
  <2> QED
    BY <2>4, <2>5
<1>5. CASE j \notin session.subscribed /\ j \notin session.remote
  <2>1. UNCHANGED <<session, watch, conns>>
    BY <1>5 DEF UnsubscribeLocal
  <2>2. session'.subscribed = session.subscribed \ {j}
    BY <1>5, <2>1
  <2>3. WatchesBalanced'
    BY <2>1, BalanceKept
  <2> QED
    BY <1>1, <1>2, <2>1, <2>2, <2>3
<1> QED
  BY <1>3, <1>4, <1>5

\* ServerReceives
LEMMA ServerReceivesStep ==
  ASSUME IInv, ServerReceives
  PROVE  IInv'
<1> DEFINE m == Head(toServer)
<1>1. /\ toServer # <<>> /\ toServer' = Tail(toServer) /\ UNCHANGED <<viewer, starts>>
      /\ IF m.type = "subscribe" THEN Locate(m)
         ELSE UnsubscribeLocal(m.job) /\ UNCHANGED <<size, toPage, lookups>>
  BY DEF ServerReceives
<1>2. m = toServer[1] /\ m \in Subscription \cup Unsubscription
  BY <1>1, TailIndex DEF IInv
<1>3. CASE m.type = "subscribe"
  <2>1. Subscribes(1) /\ Locate(toServer[1])
    BY <1>1, <1>2, <1>3 DEF Subscribes
  <2> QED
    BY <1>1, <2>1, FoundHereStep, LookupStep DEF Locate
<1>4. CASE m.type # "subscribe"
  <2>1. m.job \in Jobs /\ Unsubscribes(1, m.job)
    BY <1>2, <1>4 DEF Unsubscribes, Subscription, Unsubscription
  <2> QED
    BY <1>1, <1>4, <2>1, UnsubscribeStep
<1> QED
  BY <1>3, <1>4

\* Neither the page nor its channel takes part in the step.
LEMMA ChannelKept ==
  ASSUME IInv, UNCHANGED <<viewer, toServer>>, session'.subscribed = session.subscribed
  PROVE  Alternating'
<1>1. InOrder'
  BY DEF IInv, Alternating, InOrder, Subscribes, Unsubscribes
<1>2. GivenUp'
  BY DEF IInv, Alternating, GivenUp, Subscribes, Unsubscribes
<1> QED
  BY <1>1, <1>2 DEF Alternating

\* Found: a connection to the heart node is made, or the page is told why not.
LEMMA FoundStep ==
  ASSUME IInv, NEW q \in lookups, Found(q)
  PROVE  IInv'
<1> USE DEF IInv
<1>1. /\ lookups' = lookups \ {q}
      /\ UNCHANGED <<size, viewer, starts, toServer, watch>>
  BY DEF Found
<1>2. q.id \in Conns /\ q.job \in Jobs /\ q.position \in Lines /\ conns[q.id].state = "none"
  BY Types DEF Numbered
<1>3. session \in Sessions /\ conns \in Connections /\ watch \in Watches
  BY Types
<1>4. ASSUME session' \in Sessions, session'.subscribed = session.subscribed,
             conns' \in Connections, toPage' \in Seq(Message),
             \A k \in Conns \ {q.id} : conns'[k] = conns[k],
             \/ conns'[q.id] = conns[q.id]
             \/ conns'[q.id].state = "connecting" /\ conns'[q.id].job \in Remote
      PROVE  IInv'
  <2>1. Numbered'
    BY <1>1, <1>4, NumberedFound
  <2>2. Alternating'
    BY <1>1, <1>4, ChannelKept
  <2>3. Placed'
    BY <1>1, <1>2, <1>4 DEF Placed
  <2>4. WatchesBalanced'
    <3>1. ASSUME NEW k \in Conns
          PROVE  /\ (conns'[k].state = "open") = (conns[k].state = "open")
                 /\ conns[k].state = "open" => conns'[k].job = conns[k].job
      BY <1>2, <1>4
    <3> QED
      BY <1>1, <1>4, <3>1, BalanceKept
  <2>5. TypeOK' /\ Channels'
    BY <1>1, <1>4, <2>3, <2>4, Types, TypesTogether
  <2> QED
    BY <2>1, <2>2, <2>3, <2>4, <2>5
<1>5. CASE q.job \in Remote /\ Connecting(q) /\ UNCHANGED toPage
  <2> DEFINE c == [state |-> "connecting", job |-> q.job, position |-> q.position, last |-> None]
  <2>1. /\ conns' = [conns EXCEPT ![q.id] = c]
        /\ session' = [session EXCEPT !.remote = @ \cup {q.job}, !.conn = q.id]
    BY <1>5 DEF Connecting
  <2>2. conns' \in Connections
    BY <1>2, <1>3, <2>1 DEF Connections
  <2>3. session' \in Sessions /\ session'.subscribed = session.subscribed
    BY <1>2, <1>3, <1>5, <2>1 DEF Sessions
  <2>4. /\ \A k \in Conns \ {q.id} : conns'[k] = conns[k]
        /\ conns'[q.id].state = "connecting" /\ conns'[q.id].job \in Remote
    BY <1>2, <1>3, <1>5, <2>1 DEF Connections
  <2>5. toPage' \in Seq(Message)
    BY <1>5, Types
  <2> QED
    BY <1>4, <2>2, <2>3, <2>4, <2>5
<1>6. CASE /\ UNCHANGED <<session, conns>>
           /\ \E type \in {"zerosize", "cantfind"} :
                toPage' = Append(toPage, [type |-> type, job |-> q.job])
  <2>1. \A type \in {"zerosize", "cantfind"} : [type |-> type, job |-> q.job] \in Message
    BY <1>2 DEF Message
  <2>2. toPage' \in Seq(Message)
    BY <1>6, <2>1, Types
  <2> QED
    BY <1>3, <1>4, <1>6, <2>2
<1> QED
  BY <1>5, <1>6 DEF Found

\* Connected: the heart node watches the log for one connection more.
LEMMA ConnectedStep ==
  ASSUME IInv, NEW k \in Conns, Connected(k)
  PROVE  IInv'
<1> DEFINE j == conns[k].job
           from == ReadPosition(j, conns[k].position)
           after == LastAfter(j, from, conns[k].last)
<1> USE DEF IInv
<1>1. /\ conns[k].state = "connecting" /\ size' = Touched(size, j)
      /\ toPage' = toPage \o Sent(j, from)
      /\ conns' = [conns EXCEPT ![k].state = "open", ![k].last = LastAfter(j, from, @)]
      /\ watch' = AddWatch(watch, j)
      /\ UNCHANGED <<viewer, starts, toServer, session, lookups>>
  BY DEF Connected, pageVars
<1>2. conns \in Connections /\ size \in [Jobs -> -1..MaxLines] /\ MaxLines \in Nat
  BY Types
<1>3. j \in Jobs /\ j \in Remote
  BY <1>1, LogStreamAssumption DEF Placed
<1>4. conns[k].position \in Lines /\ conns[k].last \in Lines \cup {None}
  BY <1>2 DEF Connections
<1>5. /\ from \in Lines /\ Sent(j, from) \in Seq(Message)
      /\ after \in Lines \cup {None}
  BY <1>3, <1>4, SendTypes
<1>6. conns' = [conns EXCEPT ![k] = [conns[k] EXCEPT !.state = "open", !.last = after]]
  BY <1>1, <1>2 DEF Connections
<1>7. conns[k].job = j
  OBVIOUS
<1> HIDE DEF j, from, after
<1>8. /\ conns' \in Connections /\ conns'[k].state = "open" /\ conns'[k].job = j
      /\ \A h \in Conns \ {k} : conns'[h] = conns[h]
  BY <1>2, <1>3, <1>5, <1>6, <1>7 DEF Connections
<1>9. size' \in [Jobs -> -1..MaxLines]
  BY <1>1, <1>2, <1>3 DEF Touched
<1>10. toPage' \in Seq(Message)
  BY <1>1, <1>5, Types
<1>11. /\ watch' \in Watches /\ watch'[j].ref = watch[j].ref + 1
       /\ \A i \in Jobs \ {j} : watch'[i] = watch[i]
  BY <1>1, <1>3, AddWatchCounts
<1>12. WatchesBalanced'
  BY <1>1, <1>3, <1>8, <1>11, BalanceOpened
<1>13. Placed'
  BY <1>1, <1>3, <1>8 DEF Placed
<1>14. Numbered'
  <2>1. \A h \in Conns : conns'[h].state # "none" <=> conns[h].state # "none"
    BY <1>1, <1>8
  <2>2. \A q \in lookups : q.id \in Conns
    BY Types
  <2>3. \A i \in 1..Len(toServer) : Subscribes(i) => toServer[i].id \in Conns
    BY DEF Channels, Subscribes, Subscription, Unsubscription
  <2> QED
    BY <1>1, <2>1, <2>2, <2>3, ZenonT(40) DEF Numbered, Subscribes
<1>15. Alternating'
  BY <1>1, ChannelKept
<1>16. TypeOK' /\ Channels'
  BY <1>1, <1>8, <1>9, <1>10, <1>11, <1>12, <1>13, Types, TypesTogether
<1> QED
  BY <1>12, <1>13, <1>14, <1>15, <1>16

\* A log grows, or a line of it is sent to those who follow it.
LEMMA LogStep ==
  ASSUME IInv, NEW j \in Jobs, Grow(j) \/ CheckLogFile(j)
  PROVE  IInv'
<1> USE DEF IInv
<1>1. /\ session \in Sessions /\ conns \in Connections /\ watch \in Watches
      /\ size \in [Jobs -> -1..MaxLines] /\ MaxLines \in Nat /\ toPage \in Seq(Message)
  BY Types
<1>2. UNCHANGED <<viewer, starts, toServer, lookups>>
  BY DEF Grow, CheckLogFile, pageVars
<1>3. ASSUME size' \in [Jobs -> -1..MaxLines], session' \in Sessions,
             session'.subscribed = session.subscribed, conns' \in Connections,
             watch' \in Watches, toPage' \in Seq(Message),
             \A i \in Jobs : watch'[i].ref = watch[i].ref,
             \A k \in Conns : conns'[k].state = conns[k].state /\ conns'[k].job = conns[k].job
      PROVE  IInv'
  <2>1. WatchesBalanced'
    BY <1>3, BalanceKept
  <2>2. Placed' /\ Alternating'
    BY <1>2, <1>3, ChannelKept DEF Placed
  <2>3. Numbered'
    <3>1. \A q \in lookups : q.id \in Conns
      BY Types
    <3>2. \A i \in 1..Len(toServer) : Subscribes(i) => toServer[i].id \in Conns
      BY DEF Channels, Subscribes, Subscription, Unsubscription
    <3> QED
      BY <1>2, <1>3, <3>1, <3>2 DEF Numbered, Subscribes
  <2>4. TypeOK' /\ Channels'
    BY <1>2, <1>3, <2>1, <2>2, Types, TypesTogether
  <2> QED
    BY <2>1, <2>2, <2>3, <2>4
<1>4. CASE Grow(j)
  <2>1. /\ size[j] < MaxLines /\ size' = [size EXCEPT ![j] = @ + 1]
        /\ UNCHANGED <<toPage, session, conns, watch>>
    BY <1>4 DEF Grow
  <2>2. size' \in [Jobs -> -1..MaxLines]
    BY <1>1, <2>1
  <2> QED
    BY <1>1, <1>3, <2>1, <2>2
<1>5. CASE CheckLogFile(j)
  <2>1. /\ size[j] > 0 /\ watch' = [watch EXCEPT ![j].size = size[j]] /\ size' = size
        /\ NotifyThere(j) \/ NotifyHere(j)
    BY <1>5 DEF CheckLogFile
  <2>2. watch' \in Watches /\ \A i \in Jobs : watch'[i].ref = watch[i].ref
    <3>1. size[j] \in Lines
      BY <1>1, <2>1 DEF Lines
    <3> QED
      BY <1>1, <2>1, <3>1 DEF Watches
  <2>3. CASE NotifyHere(j)
    <3>1. CASE UNCHANGED <<toPage, session>> /\ UNCHANGED conns
      BY <1>1, <1>3, <2>1, <2>2, <3>1
    <3> DEFINE last == session.last[j]
               after == LastAfter(j, last, last)
    <3>2. CASE /\ last # None /\ toPage' = toPage \o Sent(j, last)
               /\ session' = [session EXCEPT !.last[j] = LastAfter(j, @, @)]
               /\ UNCHANGED conns
      <4>1. last \in Lines
        BY <1>1, <3>2 DEF Sessions
      <4>2. Sent(j, last) \in Seq(Message) /\ after \in Lines \cup {None}
        BY <4>1, SendTypes
      <4>3. session' = [session EXCEPT !.last = [session.last EXCEPT ![j] = after]]
        BY <1>1, <3>2 DEF Sessions
      <4> HIDE DEF after
      <4>4. session' \in Sessions /\ session'.subscribed = session.subscribed
        BY <1>1, <4>2, <4>3 DEF Sessions
      <4>5. toPage' \in Seq(Message)
        BY <1>1, <3>2, <4>2
      <4> QED
        BY <1>1, <1>3, <2>1, <2>2, <3>2, <4>4, <4>5
    <3> QED
      BY <2>3, <3>1, <3>2 DEF NotifyHere
  <2>4. CASE NotifyThere(j)
    <3> DEFINE ready == {k \in Following(j) : conns[k].last # None}
    <3>1. PICK told \in SUBSET ready :
            /\ LET Send[k \in 0..MaxStarts] ==
                     IF k = 0 THEN toPage
                     ELSE IF k \in told THEN Send[k - 1] \o Sent(j, conns[k].last) ELSE Send[k - 1]
               IN toPage' = Send[MaxStarts]
            /\ conns' = [k \in Conns |->
                 IF k \in told THEN [conns[k] EXCEPT !.last = LastAfter(j, @, @)] ELSE conns[k]]
            /\ UNCHANGED session
      BY <2>4, Zenon DEF NotifyThere
    <3>2. told \in SUBSET Conns /\ \A k \in told : conns[k].last \in Lines
      BY <1>1 DEF Following, Connections
    <3>3. toPage' \in Seq(Message)
      BY <3>1, <3>2, SendsType, Zenon
    <3>4. ASSUME NEW k \in told
          PROVE  LastAfter(j, conns[k].last, conns[k].last) \in Lines \cup {None}
      BY <3>2, SendTypes
    <3>5. /\ conns' \in Connections
          /\ \A k \in Conns : conns'[k].state = conns[k].state /\ conns'[k].job = conns[k].job
      <4>1. ASSUME NEW k \in Conns
            PROVE  /\ conns'[k] \in [state : {"none", "connecting", "open", "closed"},
                                     job : Jobs \cup {None}, position : Lines,
                                     last : Lines \cup {None}]
                   /\ conns'[k].state = conns[k].state /\ conns'[k].job = conns[k].job
        <5>1. CASE k \in told
          <6>1. conns'[k] = [conns[k] EXCEPT !.last = LastAfter(j, conns[k].last, conns[k].last)]
            BY <3>1, <5>1
          <6> QED
            BY <1>1, <3>4, <5>1, <6>1 DEF Connections
        <5>2. CASE k \notin told
          BY <1>1, <3>1, <5>2 DEF Connections
        <5> QED
          BY <5>1, <5>2
      <4>2. conns' = [k \in Conns |-> conns'[k]]
        BY <3>1
      <4> QED
        BY <4>1, <4>2 DEF Connections
    <3> QED
      BY <1>1, <1>3, <2>1, <2>2, <3>1, <3>3, <3>5
  <2> QED
    BY <2>1, <2>3, <2>4
<1> QED
  BY <1>4, <1>5

\* OnClose: the page and the connection that it has leave with their references.
LEMMA OnCloseStep ==
  ASSUME IInv, OnClose
  PROVE  IInv'
<1> DEFINE k == session.conn
           closes == k # None /\ conns[k].state = "open"
<1> USE DEF IInv
<1>1. /\ session' = [session EXCEPT !.open = FALSE, !.subscribed = {}]
      /\ conns' = IF closes THEN [conns EXCEPT ![k].state = "closed"] ELSE conns
      /\ watch' = [j \in Jobs |->
           IF j \in session.subscribed \/ (closes /\ conns[k].job = j)
           THEN RemoveWatch(watch, j)[j] ELSE watch[j]]
      /\ viewer' = [j \in Jobs |-> NewViewer]
      /\ toServer' = <<>>
      /\ UNCHANGED <<size, starts, toPage, lookups>>
  BY DEF OnClose
<1>2. session \in Sessions /\ conns \in Connections /\ watch \in Watches
  BY Types
<1>3. session' \in Sessions /\ session'.subscribed = {}
  BY <1>1, <1>2 DEF Sessions
<1>4. viewer' \in Viewers
  <2>1. 0 \in Lines
    BY Types DEF Lines
  <2> QED
    BY <1>1, <2>1 DEF NewViewer, Viewers
<1>5. k \in Conns \/ ~closes
  BY <1>2 DEF Sessions
<1>6. closes => conns[k].job \in Remote /\ conns[k].job \in Jobs
  BY <1>5, LogStreamAssumption DEF Placed
<1>7. /\ conns' \in Connections
      /\ \A h \in Conns : /\ conns'[h].state # "none" <=> conns[h].state # "none"
                          /\ conns'[h].job = conns[h].job
      /\ closes => conns'[k].state = "closed" /\ \A h \in Conns \ {k} : conns'[h] = conns[h]
      /\ ~closes => conns' = conns
  <2>1. CASE closes
    <3>1. conns' = [conns EXCEPT ![k].state = "closed"]
      BY <1>1, <2>1
    <3> QED
      BY <1>2, <1>5, <2>1, <3>1 DEF Connections
  <2>2. CASE ~closes
    <3>1. conns' = conns
      BY <1>1, <2>2
    <3> HIDE DEF closes
    <3> QED
      BY <1>2, <2>2, <3>1
  <2> QED
    BY <2>1, <2>2
<1>8. ASSUME NEW j \in Jobs
      PROVE  /\ watch'[j] \in [ref : Nat, size : Lines]
             /\ watch'[j].ref = Cardinality(Following(j)') + Here(j)'
  <2>1. /\ watch[j].ref = Cardinality(Following(j)) + Here(j)
        /\ Cardinality(Following(j)) \in Nat
    BY FollowingFinite DEF WatchesBalanced, Here, Following
  <2>2. Here(j)' = 0
    BY <1>3 DEF Here
  <2>3. CASE closes /\ conns[k].job = j
    <3>1. j \in Remote /\ k \in Conns
      BY <1>5, <1>6, <2>3
    <3>2. Here(j) = 0
      BY <3>1 DEF Here, Placed
    <3>3. /\ Cardinality(Following(j)') = Cardinality(Following(j)) - 1
          /\ Cardinality(Following(j)) >= 1
      <4>1. conns[k].state = "open" /\ conns'[k].state = "closed"
        BY <1>7, <2>3
      <4> HIDE DEF k
      <4> QED
        BY <1>7, <2>3, <3>1, <4>1, FollowingClosed
    <3>4. watch'[j] = RemoveWatch(watch, j)[j]
      BY <1>1, <2>3
    <3>5. /\ RemoveWatch(watch, j)[j] \in [ref : Nat, size : Lines]
          /\ watch[j].ref >= 1 => RemoveWatch(watch, j)[j].ref = watch[j].ref - 1
      BY RemoveWatchCounts DEF Watches
    <3> QED
      BY <2>1, <2>2, <3>2, <3>3, <3>4, <3>5
  <2>4. CASE ~(closes /\ conns[k].job = j)
    <3>1. Following(j)' = Following(j)
      <4>1. CASE closes
        <5>1. conns[k].job # j /\ k \in Conns /\ conns'[k].state = "closed"
          BY <1>5, <1>7, <2>4, <4>1
        <5> QED
          BY <1>7, <4>1, <5>1 DEF Following
      <4>2. CASE ~closes
        BY <1>7, <4>2 DEF Following
      <4> QED
        BY <4>1, <4>2
    <3>2. CASE j \in session.subscribed
      <4>1. Here(j) = 1
        BY <3>2 DEF Here
      <4>2. watch'[j] = RemoveWatch(watch, j)[j]
        BY <1>1, <3>2
      <4>3. /\ RemoveWatch(watch, j)[j] \in [ref : Nat, size : Lines]
            /\ watch[j].ref >= 1 => RemoveWatch(watch, j)[j].ref = watch[j].ref - 1
        BY RemoveWatchCounts DEF Watches
      <4> QED
        BY <2>1, <2>2, <3>1, <4>1, <4>2, <4>3
    <3>3. CASE j \notin session.subscribed
      <4>1. Here(j) = 0
        BY <3>3 DEF Here
      <4>2. watch'[j] = watch[j]
        BY <1>1, <2>4, <3>3
      <4> QED
        BY <1>2, <2>1, <2>2, <3>1, <4>1, <4>2 DEF Watches
    <3> QED
      BY <3>2, <3>3
  <2> QED
    BY <2>3, <2>4
<1>9. watch' \in Watches
  BY <1>1, <1>8 DEF Watches
<1>10. WatchesBalanced'
  BY <1>8 DEF WatchesBalanced, Here
<1>11. Placed'
  BY <1>1, <1>3, <1>7 DEF Placed
<1>12. Numbered'
  <2>1. \A q \in lookups : q.id \in Conns
    BY Types
  <2>2. Len(toServer') = 0
    BY <1>1
  <2> HIDE DEF k, closes
  <2> QED
    BY <1>1, <1>7, <2>1, <2>2 DEF Numbered
<1>13. Alternating'
  <2>1. Len(toServer') = 0
    BY <1>1
  <2> QED
    BY <1>3, <2>1 DEF Alternating, InOrder, GivenUp
<1>14. toServer' \in Seq(Subscription \cup Unsubscription)
  BY <1>1
<1>15. TypeOK' /\ Channels'
  BY <1>1, <1>3, <1>4, <1>7, <1>9, <1>10, <1>11, <1>14, Types, TypesTogether
<1> QED
  BY <1>10, <1>11, <1>12, <1>13, <1>15

\* Every step keeps the invariant.
LEMMA StepSafe ==
  ASSUME IInv, [Next]_vars
  PROVE  IInv'
<1>1. CASE PageReceives \/ ServerReceives
  BY <1>1, PageReceivesStep, ServerReceivesStep
<1>2. ASSUME NEW q \in lookups, Found(q) PROVE IInv'
  BY <1>2, FoundStep
<1>3. ASSUME NEW k \in Conns, Connected(k) PROVE IInv'
  BY <1>3, ConnectedStep
<1>4. ASSUME NEW j \in Jobs, Start(j) \/ Pause(j) \/ Destroy(j) PROVE IInv'
  BY <1>4, PageStep
<1>5. ASSUME NEW j \in Jobs, Grow(j) \/ CheckLogFile(j) PROVE IInv'
  BY <1>5, LogStep
<1>6. CASE OnClose
  BY <1>6, OnCloseStep
<1>7. CASE UNCHANGED vars
  <2>1. /\ TypeOK' /\ Channels' /\ Placed' /\ WatchesBalanced'
    BY <1>7 DEF IInv, TypeOK, Channels, Placed, WatchesBalanced, Following, vars
  <2>2. Numbered'
    BY <1>7 DEF IInv, Numbered, Subscribes, vars
  <2>3. Alternating'
    BY <1>7, ChannelKept DEF vars
  <2> QED
    BY <2>1, <2>2, <2>3 DEF IInv
<1> QED
  BY <1>1, <1>2, <1>3, <1>4, <1>5, <1>6, <1>7 DEF Next, Serving

-----------------------------------------------------------------------------
\* IInv holds in every state of every behaviour.
LEMMA Inductive == Spec => []IInv
<1>1. Init => IInv
  BY InitSafe
<1>2. IInv /\ [Next]_vars => IInv'
  BY StepSafe
<1> QED
  BY <1>1, <1>2, PTL DEF Spec

\* The viewers, the channels, the connections and the watches have their types;
\* in particular, no watch ever has more references than there are subscriptions.
THEOREM TypeCorrect == Spec => []TypeOK
<1>1. IInv => TypeOK
  BY DEF IInv
<1> QED
  BY <1>1, Inductive, PTL

\* Neither a pause, nor a new viewer, nor a connection that comes too late, nor
\* the end of the page leaves a watch behind or takes somebody else's away.
THEOREM WatchesAreBalanced == Spec => []WatchesBalanced
<1>1. IInv => WatchesBalanced
  BY DEF IInv
<1> QED
  BY <1>1, Inductive, PTL
=============================================================================
