----------------------------- MODULE LogStream -----------------------------
(***************************************************************************)
(* Following the logs of jobs in a browser: the log viewers of a page      *)
(* (static/js/views/widget/logviewer.js), their connection to the          *)
(* pacemaker and its connections to the node that has a log                *)
(* (pacemaker/controller/stream.py, common/api/log.py), and the watcher of *)
(* the log files of a node (util/joblogging.py).                           *)
(*                                                                         *)
(* A position is a number of lines.  A message of a remote node is         *)
(* forwarded as it is sent, so both hops to the page are one channel.      *)
(***************************************************************************)
EXTENDS Integers, Sequences, FiniteSets

CONSTANTS
  Jobs,      \* jobs with a log and a viewer on the page
  Remote,    \* those whose log is on a heart node, other than the log of the
             \* node itself; the others run on the pacemaker
  None,
  Start0,    \* [Jobs -> lines at first, or -1 when there is no file]
  MaxLines,  \* bound on the lines of a log
  MaxSend,   \* MAX_LOG_SIZE
  MaxStarts  \* bound on the subscriptions of the page

ASSUME LogStreamAssumption ==
  /\ Remote \subseteq Jobs /\ None \notin Jobs
  /\ MaxLines \in Nat /\ MaxSend \in Nat \ {0} /\ MaxStarts \in Nat
  /\ Start0 \in [Jobs -> -1..MaxLines]

VARIABLES
  size,      \* [Jobs -> lines of the log, -1 when there is no file]
  viewer,    \* [Jobs -> the viewer on the page]
  starts,    \* subscriptions so far
  toServer, toPage,
  session,   \* the connection of the page, on the pacemaker
  lookups,   \* subscriptions that wait for the database
  conns,     \* [1..MaxStarts -> a connection to the heart node]
  watch      \* [Jobs -> JobWatcher.watches, on the node with the log]

vars == <<size, viewer, starts, toServer, toPage, session, lookups, conns, watch>>

-----------------------------------------------------------------------------
Lines == 0..MaxLines
Conns == 1..MaxStarts

Message ==
  [type : {"lines"}, job : Jobs, from : Lines, to : Lines]
    \cup [type : {"zerosize", "cantfind"}, job : Jobs]

TypeOK ==
  /\ size \in [Jobs -> -1..MaxLines]
  /\ viewer \in [Jobs -> [open : BOOLEAN, reading : BOOLEAN, position : Lines,
                          shown : SUBSET (1..MaxLines), erased : Lines,
                          told : SUBSET {"zerosize", "cantfind"}]]
  /\ starts \in 0..MaxStarts
  /\ \A i \in 1..Len(toServer) :
       toServer[i] \in [type : {"subscribe"}, id : Conns, job : Jobs, position : Lines]
                         \cup [type : {"unsubscribe"}, job : Jobs]
  /\ \A i \in 1..Len(toPage) : toPage[i] \in Message
  /\ session \in [open : BOOLEAN, subscribed : SUBSET Jobs,
                  last : [Jobs -> Lines \cup {None}],
                  remote : SUBSET Remote, conn : {None} \cup Conns]
  /\ lookups \subseteq [id : Conns, job : Jobs, position : Lines]
  /\ conns \in [Conns -> [state : {"none", "connecting", "open", "closed"},
                          job : Jobs \cup {None}, position : Lines,
                          last : Lines \cup {None}]]
  /\ watch \in [Jobs -> [ref : 0..MaxStarts, size : Lines]]

NewViewer == [open |-> FALSE, reading |-> FALSE, position |-> 0, shown |-> {},
              erased |-> 0, told |-> {}]

NewSession == [open |-> TRUE, subscribed |-> {}, last |-> [j \in Jobs |-> None],
               remote |-> {}, conn |-> None]

NoConn == [state |-> "none", job |-> None, position |-> 0, last |-> None]

Init ==
  /\ size = Start0
  /\ viewer = [j \in Jobs |-> NewViewer]
  /\ starts = 0
  /\ toServer = <<>> /\ toPage = <<>>
  /\ session = NewSession
  /\ lookups = {}
  /\ conns = [k \in Conns |-> NoConn]
  /\ watch = [j \in Jobs |-> [ref |-> 0, size |-> 0]]

-----------------------------------------------------------------------------
(* The page *)
pageVars == <<viewer, starts, toServer>>

\* start: from the position of the last lines that came.
Start(j) ==
  /\ starts < MaxStarts /\ ~viewer[j].reading /\ session.open
  /\ starts' = starts + 1
  /\ viewer' = [viewer EXCEPT ![j].open = TRUE, ![j].reading = TRUE,
                            ![j].told = {}]
  /\ toServer' = Append(toServer,
       [type |-> "subscribe", id |-> starts', job |-> j, position |-> viewer[j].position])
  /\ UNCHANGED <<size, toPage, session, lookups, conns, watch>>

Unsubscribe(j) == Append(toServer, [type |-> "unsubscribe", job |-> j])

Pause(j) ==
  /\ viewer[j].reading
  /\ viewer' = [viewer EXCEPT ![j].reading = FALSE]
  /\ toServer' = Unsubscribe(j)
  /\ UNCHANGED <<size, starts, toPage, session, lookups, conns, watch>>

\* The next viewer of the job is a new one, with an empty element.
Destroy(j) ==
  /\ viewer[j].open
  /\ viewer' = [viewer EXCEPT ![j] = NewViewer]
  /\ toServer' = IF viewer[j].reading THEN Unsubscribe(j) ELSE toServer
  /\ UNCHANGED <<size, starts, toPage, session, lookups, conns, watch>>

\* The text of the element is replaced; its position is not.
Replace(v, text) == [v EXCEPT !.shown = {}, !.erased = v.position,
                                !.told = @ \cup {text}]

OnLines(v, m) ==
  [v EXCEPT !.position = m.to, !.shown = @ \cup ((m.from + 1)..m.to)]

PageReceives ==
  /\ toPage # <<>>
  /\ toPage' = Tail(toPage)
  /\ LET m == Head(toPage)
         v == viewer[m.job] IN
     viewer' = IF ~v.open THEN viewer
               ELSE [viewer EXCEPT ![m.job] =
                       IF m.type = "lines" THEN OnLines(v, m) ELSE Replace(v, m.type)]
  /\ UNCHANGED <<size, starts, toServer, session, lookups, conns, watch>>

-----------------------------------------------------------------------------
(* A node with a log: JobWatcher and the sending of a log *)

\* get_job_log_path creates the file.
Touched(s, j) == [s EXCEPT ![j] = IF @ = -1 THEN 0 ELSE @]

AddWatch(w, j) ==
  [w EXCEPT ![j] = IF @.ref > 0 THEN [ref |-> @.ref + 1, size |-> @.size]
                   ELSE [ref |-> 1, size |-> IF size[j] > 0 THEN size[j] ELSE 0]]

\* Mutant: the watch goes with the first who does not need it any more.
RemoveWatchNow(w, j) == [w EXCEPT ![j] = [ref |-> 0, size |-> 0]]

RemoveWatch(w, j) ==
  [w EXCEPT ![j] = IF @.ref > 1 THEN [ref |-> @.ref - 1, size |-> @.size]
                   ELSE [ref |-> 0, size |-> 0]]

\* send_job_log: what is sent, and log_last_positions after it.
Sent(j, from) ==
  IF size[j] <= 0 THEN <<[type |-> "zerosize", job |-> j]>>
  ELSE IF from < size[j] THEN <<[type |-> "lines", job |-> j, from |-> from, to |-> size[j]]>>
  ELSE <<>>

\* Mutant: the position after the next line.
LastAfterNext(j, from, last) == IF size[j] <= 0 THEN last ELSE size[j] + 1

LastAfter(j, from, last) == IF size[j] <= 0 THEN last
                            ELSE IF from < size[j] THEN size[j] ELSE from

\* Mutant: MAX_LOG_SIZE is taken for a position.
ReadPositionMax(j, position) == IF size[j] > MaxSend THEN MaxSend ELSE position

\* found_log: no more than MaxSend, whatever the position.
ReadPosition(j, position) == IF size[j] > MaxSend THEN size[j] - MaxSend ELSE position

-----------------------------------------------------------------------------
(* The pacemaker *)

\* The log is on this node: send it, and subscribe for future updates.
FoundHere(j, position) ==
  LET from == ReadPosition(j, position) IN
  /\ toPage' = toPage \o Sent(j, from)
  /\ session' = [session EXCEPT !.subscribed = @ \cup {j},
                                !.last[j] = LastAfter(j, from, @)]
  /\ watch' = AddWatch(watch, j)
  /\ UNCHANGED <<size, lookups, conns>>

\* locate_log: the file is here, or the database has to be asked.
Locate(m) ==
  IF m.job \notin Remote /\ size[m.job] >= 0
  THEN FoundHere(m.job, m.position)
  ELSE /\ lookups' = lookups \cup {[id |-> m.id, job |-> m.job, position |-> m.position]}
       /\ UNCHANGED <<size, toPage, session, conns, watch>>

\* The job is not among the subscriptions any more: a second subscription made
\* while one was there leaves the watch behind.
UnsubscribeLocal(j) ==
  IF j \in session.subscribed
  THEN /\ session' = [session EXCEPT !.subscribed = @ \ {j}]
       /\ watch' = RemoveWatch(watch, j)
       /\ UNCHANGED conns
  ELSE IF j \in session.remote
  THEN \* Its node's connection, which is that of the job subscribed last.  When
       \* it is gone, the lookup raises.
       LET k == session.conn IN
       /\ session' = [session EXCEPT !.remote = @ \ {j}, !.conn = None]
       /\ IF k # None /\ conns[k].state = "open"
          THEN /\ conns' = [conns EXCEPT ![k].state = "closed"]
               /\ watch' = RemoveWatch(watch, conns[k].job)
          ELSE UNCHANGED <<conns, watch>>
  ELSE UNCHANGED <<session, watch, conns>>

ServerReceives ==
  /\ toServer # <<>> /\ session.open
  /\ toServer' = Tail(toServer)
  /\ LET m == Head(toServer) IN
     IF m.type = "subscribe"
     THEN Locate(m)
     ELSE UnsubscribeLocal(m.job) /\ UNCHANGED <<size, toPage, lookups>>
  /\ UNCHANGED <<viewer, starts>>

\* handle_remote_subscribe.  It always makes a connection: the one to the node is
\* looked for by its name among the subscriptions, which have names of jobs.
Connecting(q) ==
  /\ conns' = [conns EXCEPT ![q.id] =
       [state |-> "connecting", job |-> q.job, position |-> q.position, last |-> None]]
  /\ session' = [session EXCEPT !.remote = @ \cup {q.job}, !.conn = q.id]

\* The database says which node has the log; it may be down.
Found(q) ==
  /\ q \in lookups
  /\ lookups' = lookups \ {q}
  /\ \/ q.job \in Remote /\ Connecting(q) /\ UNCHANGED toPage
     \/ /\ q.job \notin Remote
        /\ toPage' = Append(toPage, [type |-> "zerosize", job |-> q.job])
        /\ UNCHANGED <<session, conns>>
     \/ /\ q.job \in Remote
        /\ toPage' = Append(toPage, [type |-> "cantfind", job |-> q.job])
        /\ UNCHANGED <<session, conns>>
  /\ UNCHANGED <<size, viewer, starts, toServer, watch>>

\* The connection is there, even when it was closed before: the heart node gets
\* the subscription, and creates a log that is not there yet.
Connected(k) ==
  /\ conns[k].state = "connecting"
  /\ LET j == conns[k].job
         from == ReadPosition(j, conns[k].position) IN
     /\ size' = Touched(size, j)
     /\ toPage' = toPage \o Sent(j, from)
     /\ conns' = [conns EXCEPT ![k].state = "open", ![k].last = LastAfter(j, from, @)]
     /\ watch' = AddWatch(watch, j)
  /\ UNCHANGED <<pageVars, session, lookups>>
-----------------------------------------------------------------------------
(* The logs *)
Grow(j) ==
  /\ size[j] < MaxLines
  /\ size' = [size EXCEPT ![j] = @ + 1]
  /\ UNCHANGED <<pageVars, toPage, session, lookups, conns, watch>>

\* Connections to the heart node that follow j.
Following(j) == {k \in Conns : conns[k].state = "open" /\ conns[k].job = j}

\* log_message_update on the pacemaker; a position that was never set raises.
NotifyHere(j) ==
  /\ IF j \in session.subscribed /\ session.last[j] # None
     THEN /\ toPage' = toPage \o Sent(j, session.last[j])
          /\ session' = [session EXCEPT !.last[j] = LastAfter(j, @, @)]
     ELSE UNCHANGED <<toPage, session>>
  /\ UNCHANGED conns

\* The same for the connections to the heart node.  One that raises keeps the
\* message from those that come after it.
NotifyThere(j) ==
  LET ready == {k \in Following(j) : conns[k].last # None} IN
  \E told \in SUBSET ready :
    /\ ready = Following(j) => told = ready
    /\ LET Send[k \in 0..MaxStarts] ==
             IF k = 0 THEN toPage
             ELSE IF k \in told THEN Send[k - 1] \o Sent(j, conns[k].last) ELSE Send[k - 1]
       IN toPage' = Send[MaxStarts]
    /\ conns' = [k \in Conns |->
         IF k \in told THEN [conns[k] EXCEPT !.last = LastAfter(j, @, @)] ELSE conns[k]]
    /\ UNCHANGED session

\* _check_log_files, every 200 ms.
CheckLogFile(j) ==
  /\ watch[j].ref > 0 /\ size[j] > 0 /\ watch[j].size # size[j]
  /\ watch' = [watch EXCEPT ![j].size = size[j]]
  /\ IF j \in Remote THEN NotifyThere(j) ELSE NotifyHere(j)
  /\ UNCHANGED <<size, pageVars, lookups>>

-----------------------------------------------------------------------------
\* The page is closed.  close() of a connection that is not there yet does nothing.
OnClose ==
  /\ session.open
  /\ session' = [session EXCEPT !.open = FALSE, !.subscribed = {}]
  /\ LET k == session.conn
         closes == k # None /\ conns[k].state = "open" IN
     /\ conns' = IF closes THEN [conns EXCEPT ![k].state = "closed"] ELSE conns
     /\ watch' = [j \in Jobs |->
          IF j \in session.subscribed \/ (closes /\ conns[k].job = j)
          THEN RemoveWatch(watch, j)[j] ELSE watch[j]]
  /\ viewer' = [j \in Jobs |-> NewViewer]
  /\ toServer' = <<>>
  /\ UNCHANGED <<size, starts, toPage, lookups>>

Serving ==
  \/ PageReceives \/ ServerReceives
  \/ \E q \in lookups : Found(q)
  \/ \E k \in Conns : Connected(k)

Next ==
  \/ Serving
  \/ \E j \in Jobs : Start(j) \/ Pause(j) \/ Destroy(j) \/ Grow(j) \/ CheckLogFile(j)
  \/ OnClose

Fairness ==
  /\ WF_vars(PageReceives) /\ WF_vars(ServerReceives)
  /\ WF_vars(\E q \in lookups : Found(q))
  /\ \A k \in Conns : WF_vars(Connected(k))
  /\ \A j \in Jobs : WF_vars(CheckLogFile(j))

Spec == Init /\ [][Next]_vars /\ Fairness

-----------------------------------------------------------------------------
(* Properties *)

\* The lines of a log that its viewer is to show: not those before MAX_LOG_SIZE,
\* and not those that an error replaced.
Due(j) == {n \in 1..MaxLines : /\ n > viewer[j].erased /\ n > size[j] - MaxSend
                               /\ n <= size[j]}

\* A viewer that reads gets all lines that the log has or will have, however
\* often it is paused, destroyed and started again, unless it is told that the
\* log cannot be found.
FollowsLog ==
  \A j \in Jobs : viewer[j].reading ~>
    \/ Due(j) \subseteq viewer[j].shown
    \/ ~viewer[j].reading
    \/ "cantfind" \in viewer[j].told

\* The watch of a log lives as long as somebody follows it: one reference for
\* the page and one for each connection of a pacemaker.
WatchesBalanced ==
  \A j \in Jobs : watch[j].ref =
    Cardinality(Following(j)) + (IF j \in session.subscribed THEN 1 ELSE 0)
=============================================================================
