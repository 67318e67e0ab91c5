-------------------------- MODULE JobManagerProofs --------------------------
(***************************************************************************)
(* What holds of JobManager for every forest of jobs, every set of nodes   *)
(* and every bound: its types; that a job which Redis counts as a success  *)
(* has reported one; that a process starts a job once; and that an abort   *)
(* handler runs once.                                                      *)
(***************************************************************************)
EXTENDS JobManager, FiniteSetTheorems, TLAPS

JobOps == {"add", "tag", "fetch", "context", "get", "set", "store", "finish",
           "handler_job", "handler_context", "publish"}
TreeOps == {"list", "running", "tree"}
TreeConts == {"allow_execution", "handle_failure", "force_waiting", "force_running"}

\* The commands that the code can issue while the jobs D have called success():
\* each has the job or tree it works on, set_state_tree never sets SUCCESS, and
\* a command that carries SUCCESS is about a job of D.
Good(D) == {c \in Command :
  /\ c.op \in JobOps => c.job \in Jobs
  /\ c.op \in TreeOps \/ c.then \in TreeConts => c.tree \in Jobs
  /\ c.op = "list" => c.then \in TreeConts
  /\ c.op \in {"get", "set"} => c.then # "none"
  /\ c.then \in TreeConts => c.to \in {"WAITING", "ABORTED"}
  /\ c.to = "SUCCESS" => c.job \in D}

GoodCallback == {b \in Callback : b.run # "evaluate" => b.job \in Jobs}

NodeTypes ==
  /\ up \subseteq Nodes
  /\ inbox \in [Nodes -> Seq(Status)]
  /\ runners \in [Nodes -> SUBSET Jobs]
  /\ inStartup \in [Nodes -> SUBSET Jobs]
  /\ handlers \in [Nodes -> SUBSET Jobs]
  /\ seen \in [Nodes -> SUBSET Status]

RunnerTypes ==
  /\ act \in [Jobs -> Activities]
  /\ starts \in [Jobs -> Nat]
  /\ succeeded \subseteq Jobs
  /\ handled \in [Jobs -> Nat]
  /\ spent \in [crashes : Nat, aborts : Nat]

\* TypeOK is not inductive: a step that works on the job of a command needs to
\* know that the command has one.  Nor is SuccessIsEarned: a transaction puts
\* into the index what a command said long before.
IInv ==
  /\ StoreTypeOK
  /\ NodeTypes
  /\ RunnerTypes
  /\ cmds \in [Nodes -> Seq(Good(succeeded))]
  /\ loop \in [Nodes -> Seq(GoodCallback)]
  /\ SuccessIsEarned

-----------------------------------------------------------------------------
(* Sequences *)

\* Every set of jobs is finite, and an order of it is a sequence of its members.
LEMMA OrderIsSeq ==
  ASSUME NEW S \in SUBSET Jobs, NEW o \in SetToSeqs(S)
  PROVE  /\ o \in Seq(S)
         /\ \E k \in Nat : DOMAIN o = 1..k
         /\ \A i \in DOMAIN o : o[i] \in S
<1>1. IsFiniteSet(S)
  BY JobsAssumption, FS_Subset
<1>2. Cardinality(S) \in Nat
  BY <1>1, FS_CardinalityType
<1>3. o \in [1..Cardinality(S) -> S]
  BY DEF SetToSeqs
<1> QED
  BY <1>2, <1>3

LEMMA TailIsSeq ==
  ASSUME NEW S, NEW s \in Seq(S), s # <<>>
  PROVE  Head(s) \in S /\ Tail(s) \in Seq(S)
OBVIOUS

LEMMA ConcatIsSeq ==
  ASSUME NEW S, NEW s \in Seq(S), NEW t \in Seq(S)
  PROVE  s \o t \in Seq(S)
OBVIOUS

LEMMA UnitIsSeq ==
  ASSUME NEW S, NEW x \in S
  PROVE  <<x>> \in Seq(S)
OBVIOUS

-----------------------------------------------------------------------------
(* Commands *)

\* A job that has called success() never takes it back.
LEMMA GoodGrows ==
  ASSUME NEW D, NEW E, D \subseteq E
  PROVE  Good(D) \subseteq Good(E) /\ Seq(Good(D)) \subseteq Seq(Good(E))
<1>1. Good(D) \subseteq Good(E)
  BY DEF Good
<1> QED
  BY <1>1

LEMMA BlankType ==
  /\ Blank \in Command
  /\ Blank.op = "ready" /\ Blank.hop = FALSE /\ Blank.job = NoJob
  /\ Blank.from = "NEW" /\ Blank.to = "NEW" /\ Blank.then = "none"
  /\ Blank.left = {} /\ Blank.all = {} /\ Blank.tree = NoJob /\ Blank.by = NoJob
  /\ Blank.node = NoNode /\ Blank.todo = {}
BY DEF Blank, Command, Ops, Conts, States, Absent

LEMMA AddIsGood ==
  ASSUME NEW D, NEW j \in Jobs, NEW batch \in SUBSET Jobs, NEW by \in Jobs \cup {NoJob}
  PROVE  AddCommand(j, batch, by) \in Good(D)
<1>1. PICK child \in BOOLEAN : child = (Parent[j] # NoJob)
  BY Zenon
<1>2. [Blank EXCEPT !.op = "add", !.hop = child, !.job = j,
                    !.left = batch \ {j}, !.by = by] \in Good(D)
  BY BlankType, ZenonT(40) DEF Good, Command, Ops, JobOps, TreeOps, TreeConts
<1> QED
  BY <1>1, <1>2 DEF AddCommand

LEMMA ListIsGood ==
  ASSUME NEW D, NEW j \in Jobs, NEW from \in States, NEW to \in {"WAITING", "ABORTED"},
         NEW node \in Nodes \cup {NoNode}, NEW then \in TreeConts,
         NEW by \in Jobs \cup {NoJob}, NEW todo \in SUBSET Jobs
  PROVE  /\ ListCommand(j, from, to, node, then) \in Good(D)
         /\ [ListCommand(j, from, to, node, then) EXCEPT !.by = by] \in Good(D)
         /\ [ListCommand(j, from, to, node, then) EXCEPT !.todo = todo] \in Good(D)
<1> DEFINE L == ListCommand(j, from, to, node, then)
<1>1. L \in Command
  <2>1. "list" \in Ops /\ then \in Conts /\ to \in States
    BY DEF Ops, Conts, TreeConts, States
  <2> QED
    BY <2>1, BlankType DEF ListCommand, Command
<1>2. /\ L.op = "list" /\ L.to = to /\ L.then = then /\ L.tree = j
      /\ [L EXCEPT !.by = by] \in Command
      /\ [L EXCEPT !.by = by].op = "list" /\ [L EXCEPT !.by = by].to = to
      /\ [L EXCEPT !.by = by].then = then /\ [L EXCEPT !.by = by].tree = j
      /\ [L EXCEPT !.todo = todo] \in Command
      /\ [L EXCEPT !.todo = todo].op = "list" /\ [L EXCEPT !.todo = todo].to = to
      /\ [L EXCEPT !.todo = todo].then = then /\ [L EXCEPT !.todo = todo].tree = j
  BY <1>1, BlankType, ZenonT(40) DEF ListCommand, Command
<1>3. \A c \in Command : c.op = "list" /\ c.to = to /\ c.then = then /\ c.tree = j
                          => c \in Good(D)
  BY DEF Good, JobOps
<1> QED
  BY <1>1, <1>2, <1>3

LEMMA JobCommandIsGood ==
  ASSUME NEW D, NEW j \in Jobs, NEW op \in JobOps \ {"get", "set"}
  PROVE  /\ JobCommand(op, j) \in Good(D)
         /\ [JobCommand(op, j) EXCEPT !.hop = TRUE] \in Good(D)
<1> DEFINE J == JobCommand(op, j)
<1>1. J \in Command
  BY BlankType DEF JobCommand, Command, Ops, JobOps
<1>2. /\ J.op = op /\ J.job = j /\ J.to = "NEW" /\ J.then = "none"
      /\ [J EXCEPT !.hop = TRUE] \in Command
      /\ [J EXCEPT !.hop = TRUE].op = op /\ [J EXCEPT !.hop = TRUE].job = j
      /\ [J EXCEPT !.hop = TRUE].to = "NEW" /\ [J EXCEPT !.hop = TRUE].then = "none"
  BY <1>1, BlankType, ZenonT(40) DEF JobCommand, Command
<1>3. \A c \in Command : c.op = op /\ c.job = j /\ c.to = "NEW" /\ c.then = "none"
                          => c \in Good(D)
  BY DEF Good, JobOps, TreeOps, TreeConts
<1> QED
  BY <1>1, <1>2, <1>3

LEMMA TreeCommandIsGood ==
  ASSUME NEW D, NEW j \in Jobs, NEW op \in {"running", "tree"}
  PROVE  TreeCommand(op, j) \in Good(D)
BY BlankType DEF TreeCommand, Good, Command, Ops, JobOps, TreeOps, TreeConts

LEMMA PublishIsGood ==
  ASSUME NEW D, NEW j \in Jobs, NEW s \in States, s = "SUCCESS" => j \in D
  PROVE  Publish(j, s) \in Good(D)
BY BlankType DEF Publish, Good, Command, Ops, JobOps, TreeOps, TreeConts

LEMMA CompletedIsGood ==
  ASSUME NEW D, NEW j \in Jobs, NEW s \in States, s = "SUCCESS" => j \in D
  PROVE  Completed(j, s) \in Good(D)
BY BlankType, ZenonT(40) DEF Completed, Good, Command, Ops, JobOps, TreeOps, TreeConts

-----------------------------------------------------------------------------
(* The effect of a step on the queues *)

LEMMA IssueGood ==
  ASSUME NEW D, NEW E, D \subseteq E, cmds \in [Nodes -> Seq(Good(D))],
         NEW n \in Nodes, cmds[n] # <<>>, NEW next \in Seq(Good(E)), Issue(n, next)
  PROVE  cmds' \in [Nodes -> Seq(Good(E))]
<1>1. \A m \in Nodes : cmds[m] \in Seq(Good(E))
  BY GoodGrows
<1>2. Tail(cmds[n]) \o next \in Seq(Good(E))
  BY <1>1, TailIsSeq, ConcatIsSeq
<1> QED
  BY <1>1, <1>2 DEF Issue

LEMMA EnqueueGood ==
  ASSUME NEW D, NEW E, D \subseteq E, cmds \in [Nodes -> Seq(Good(D))],
         NEW n \in Nodes, NEW next \in Seq(Good(E)), Enqueue(n, next)
  PROVE  cmds' \in [Nodes -> Seq(Good(E))]
<1>1. \A m \in Nodes : cmds[m] \in Seq(Good(E))
  BY GoodGrows
<1>2. cmds[n] \o next \in Seq(Good(E))
  BY <1>1, ConcatIsSeq
<1> QED
  BY <1>1, <1>2 DEF Enqueue

LEMMA JobStatusGood ==
  ASSUME NEW n \in Nodes, NEW S \in SUBSET Jobs, NEW s \in States, NEW order,
         loop \in [Nodes -> Seq(GoodCallback)], seen \in [Nodes -> SUBSET Status],
         JobStatus(n, S, s, order)
  PROVE  /\ loop' \in [Nodes -> Seq(GoodCallback)]
         /\ seen' \in [Nodes -> SUBSET Status]
<1>1. seen' \in [Nodes -> SUBSET Status]
  BY DEF JobStatus, Filter, Status
<1>2. PICK fresh \in SetToSeqs({j \in S : [job |-> j, state |-> s] \notin Filter(n)}) :
        loop' = [loop EXCEPT ![n] =
                   @ \o [i \in DOMAIN fresh |-> CallbackFor(fresh[i], s)]]
  BY DEF JobStatus
<1>3. \A j \in Jobs : CallbackFor(j, s) \in GoodCallback
  BY DEF CallbackFor, GoodCallback, Callback
<1>4. [i \in DOMAIN fresh |-> CallbackFor(fresh[i], s)] \in Seq(GoodCallback)
  <2>1. /\ \E k \in Nat : DOMAIN fresh = 1..k
        /\ \A i \in DOMAIN fresh : fresh[i] \in Jobs
    BY OrderIsSeq
  <2> QED
    BY <2>1, <1>3
<1>5. loop[n] \o [i \in DOMAIN fresh |-> CallbackFor(fresh[i], s)] \in Seq(GoodCallback)
  BY <1>4, ConcatIsSeq
<1> QED
  BY <1>1, <1>2, <1>5

LEMMA SendGood ==
  ASSUME NEW n \in Nodes, NEW S \in SUBSET Jobs, NEW s \in States,
         NEW D, NEW E, D \subseteq E, s = "SUCCESS" => S \subseteq E,
         cmds \in [Nodes -> Seq(Good(D))],
         loop \in [Nodes -> Seq(GoodCallback)], seen \in [Nodes -> SUBSET Status],
         NEW before \in Seq(Good(D)), NEW next \in Seq(Good(E)),
         SendJobStatus(n, S, s, before, next)
  PROVE  /\ cmds' \in [Nodes -> Seq(Good(E))]
         /\ loop' \in [Nodes -> Seq(GoodCallback)]
         /\ seen' \in [Nodes -> SUBSET Status]
<1>1. PICK order \in SetToSeqs(S) :
        /\ JobStatus(n, S, s, order)
        /\ cmds' = [cmds EXCEPT ![n] =
                      before \o [i \in DOMAIN order |-> Publish(order[i], s)] \o next]
  BY DEF SendJobStatus
<1>2. loop' \in [Nodes -> Seq(GoodCallback)] /\ seen' \in [Nodes -> SUBSET Status]
  BY <1>1, JobStatusGood
<1>3. [i \in DOMAIN order |-> Publish(order[i], s)] \in Seq(Good(E))
  <2>1. PICK k \in Nat : DOMAIN order = 1..k
    BY OrderIsSeq
  <2>2. \A j \in S : Publish(j, s) \in Good(E)
    BY PublishIsGood
  <2>3. \A i \in 1..k : Publish(order[i], s) \in Good(E)
    BY <2>1, <2>2, OrderIsSeq
  <2> QED
    BY <2>1, <2>3
<1>4. before \in Seq(Good(E)) /\ \A m \in Nodes : cmds[m] \in Seq(Good(E))
  BY GoodGrows
<1>5. before \o [i \in DOMAIN order |-> Publish(order[i], s)] \o next \in Seq(Good(E))
  BY <1>3, <1>4, ConcatIsSeq
<1> QED
  BY <1>1, <1>2, <1>4, <1>5

LEMMA JobCommandsGood ==
  ASSUME NEW D, NEW S \in SUBSET Jobs, NEW order \in SetToSeqs(S),
         NEW op \in JobOps \ {"get", "set"}
  PROVE  [i \in DOMAIN order |-> JobCommand(op, order[i])] \in Seq(Good(D))
<1>1. PICK k \in Nat : DOMAIN order = 1..k
  BY OrderIsSeq
<1>2. \A i \in 1..k : JobCommand(op, order[i]) \in Good(D)
  BY <1>1, OrderIsSeq, JobCommandIsGood
<1> QED
  BY <1>1, <1>2

\* The commands that wait, and the one whose turn it is.
LEMMA HeadIsGood ==
  ASSUME IInv, NEW n \in Nodes, cmds[n] # <<>>
  PROVE  /\ Head(cmds[n]) \in Good(succeeded)
         /\ Head(cmds[n]) \in Command
         /\ Tail(cmds[n]) \in Seq(Good(succeeded))
         /\ cmds[n] \in Seq(Good(succeeded))
<1>1. cmds[n] \in Seq(Good(succeeded))
  BY DEF IInv
<1>2. Good(succeeded) \subseteq Command
  BY DEF Good
<1> QED
  BY <1>1, <1>2, TailIsSeq

\* A transaction of set_attrs keeps the store in order.
LEMMA SetTxSafe ==
  ASSUME IInv, NEW j \in Jobs, NEW from, NEW to \in States,
         to = "SUCCESS" => j \in succeeded, SetTx(j, from, to)
  PROVE  StoreTypeOK' /\ idx'["SUCCESS"] \subseteq succeeded
<1>1. state' \in [Jobs -> States \cup {Absent}] /\ ctx' \subseteq Jobs
  BY DEF IInv, StoreTypeOK, SetTx
<1>2. \A s \in States : idx'[s] \in SUBSET Jobs
  BY DEF IInv, StoreTypeOK, SetTx
<1>3. idx' \in [States -> SUBSET Jobs]
  BY <1>2 DEF SetTx
<1>4. "SUCCESS" \in States
  BY DEF States
<1> QED
  BY <1>1, <1>3, <1>4 DEF IInv, StoreTypeOK, SetTx, SuccessIsEarned

-----------------------------------------------------------------------------
(* set_state_tree *)

LEMMA TreeSetSafe ==
  ASSUME IInv, NEW n \in Nodes, cmds[n] # <<>>, NEW c \in Good(succeeded),
         c.then \in TreeConts, TreeSet(n, c)
  PROVE  /\ NodeTypes' /\ RunnerTypes' /\ succeeded \subseteq succeeded'
         /\ cmds' \in [Nodes -> Seq(Good(succeeded'))]
         /\ loop' \in [Nodes -> Seq(GoodCallback)]
<1>1. /\ c \in Command /\ c.tree \in Jobs /\ c.by \in Jobs \cup {NoJob}
      /\ c.all \in SUBSET Jobs /\ c.todo \in SUBSET Jobs
      /\ c.node \in Nodes \cup {NoNode}
  BY DEF Good, Command
<1>2. /\ cmds \in [Nodes -> Seq(Good(succeeded))]
      /\ loop \in [Nodes -> Seq(GoodCallback)]
      /\ seen \in [Nodes -> SUBSET Status]
      /\ Tail(cmds[n]) \in Seq(Good(succeeded))
      /\ NodeTypes /\ RunnerTypes
  BY HeadIsGood DEF IInv, NodeTypes
<1>3. "WAITING" \in States /\ "ABORTED" \in States /\ "SUCCESS" \in States
      /\ "RUNNING" \in States
  BY DEF States
<1>4. \A D : <<>> \in Seq(Good(D))
  OBVIOUS
<1>5. ASSUME NEW S \in SUBSET Jobs, NEW s \in {"WAITING", "ABORTED"},
             NEW next \in Seq(Good(succeeded)),
             SendJobStatus(n, S, s, Tail(cmds[n]), next), UNCHANGED <<act, succeeded>>
      PROVE  /\ NodeTypes' /\ RunnerTypes' /\ succeeded \subseteq succeeded'
             /\ cmds' \in [Nodes -> Seq(Good(succeeded'))]
             /\ loop' \in [Nodes -> Seq(GoodCallback)]
  <2>1. /\ cmds' \in [Nodes -> Seq(Good(succeeded))]
        /\ loop' \in [Nodes -> Seq(GoodCallback)]
        /\ seen' \in [Nodes -> SUBSET Status]
    BY <1>2, <1>3, <1>5, SendGood
  <2> QED
    BY <1>2, <1>5, <2>1 DEF TreeSet, NodeTypes, RunnerTypes
<1>6. CASE /\ c.then = "allow_execution" /\ c.by # NoJob
           /\ SendJobStatus(n, {c.tree}, "WAITING", Tail(cmds[n]),
                            <<Completed(c.by, "SUCCESS")>>)
           /\ act' = [act EXCEPT ![c.by] = "reported"]
           /\ succeeded' = succeeded \cup {c.by}
  <2>1. c.by \in Jobs /\ c.by \in succeeded' /\ succeeded \subseteq succeeded'
    BY <1>1, <1>6
  <2>2. <<Completed(c.by, "SUCCESS")>> \in Seq(Good(succeeded'))
    BY <1>3, <2>1, CompletedIsGood, UnitIsSeq
  <2>3. /\ cmds' \in [Nodes -> Seq(Good(succeeded'))]
        /\ loop' \in [Nodes -> Seq(GoodCallback)]
        /\ seen' \in [Nodes -> SUBSET Status]
    <3> HIDE DEF Good, GoodCallback
    <3>1. {c.tree} \in SUBSET Jobs
      BY <1>1
    <3> QED
      BY <1>2, <1>3, <1>6, <2>1, <2>2, <3>1, SendGood
  <2> QED
    BY <1>2, <1>6, <2>1, <2>3 DEF TreeSet, NodeTypes, RunnerTypes, Activities
<1>7. CASE /\ c.then = "allow_execution" /\ c.by = NoJob
           /\ SendJobStatus(n, {c.tree}, "WAITING", Tail(cmds[n]), <<>>)
           /\ UNCHANGED <<act, succeeded>>
  BY <1>1, <1>4, <1>5, <1>7
<1>8. CASE /\ SendJobStatus(n, c.all, "ABORTED", Tail(cmds[n]), <<>>)
           /\ UNCHANGED <<act, succeeded>>
  BY <1>1, <1>4, <1>5, <1>8
<1>9. CASE /\ SendJobStatus(n, c.all, "ABORTED", Tail(cmds[n]),
                <<[ListCommand(c.tree, "RUNNING", "ABORTED", c.node, "force_running")
                     EXCEPT !.todo = c.todo]>>)
           /\ UNCHANGED <<act, succeeded>>
  <2>1. [ListCommand(c.tree, "RUNNING", "ABORTED", c.node, "force_running")
           EXCEPT !.todo = c.todo] \in Good(succeeded)
    BY <1>1, <1>3, ListIsGood DEF TreeConts
  <2> QED
    BY <1>1, <1>5, <1>9, <2>1, UnitIsSeq
<1>10. CASE /\ \E j \in c.todo : SendJobStatus(n, c.all, "ABORTED", Tail(cmds[n]),
                                   <<ForceAbort(j, c.node, c.todo \ {j})>>)
            /\ UNCHANGED <<act, succeeded>>
  <2>1. PICK j \in c.todo : SendJobStatus(n, c.all, "ABORTED", Tail(cmds[n]),
                              <<ForceAbort(j, c.node, c.todo \ {j})>>)
    BY <1>10
  <2>2. ForceAbort(j, c.node, c.todo \ {j}) \in Good(succeeded)
    BY <1>1, <1>3, ListIsGood DEF ForceAbort, TreeConts
  <2> QED
    BY <1>1, <1>5, <1>10, <2>1, <2>2, UnitIsSeq
<1> QED
  BY <1>6, <1>7, <1>8, <1>9, <1>10 DEF TreeSet

LEMMA NextInTreeSafe ==
  ASSUME IInv, NEW n \in Nodes, cmds[n] # <<>>, NEW c \in Good(succeeded),
         c.then \in TreeConts, NextInTree(n, c)
  PROVE  /\ NodeTypes' /\ RunnerTypes' /\ succeeded \subseteq succeeded'
         /\ cmds' \in [Nodes -> Seq(Good(succeeded'))]
         /\ loop' \in [Nodes -> Seq(GoodCallback)]
<1>1. CASE c.left = {} /\ TreeSet(n, c)
  BY <1>1, TreeSetSafe
<1>2. CASE /\ \E j \in c.left :
                Issue(n, <<[c EXCEPT !.op = "get", !.job = j, !.left = c.left \ {j}]>>)
           /\ UNCHANGED <<up, loop, inbox, managerVars, act, history, spent>>
  <2>1. PICK j \in c.left :
          Issue(n, <<[c EXCEPT !.op = "get", !.job = j, !.left = c.left \ {j}]>>)
    BY <1>2, ZenonT(40)
  <2>2. [c EXCEPT !.op = "get", !.job = j, !.left = c.left \ {j}] \in Good(succeeded)
    BY DEF Good, Command, Ops, JobOps, TreeOps, TreeConts
  <2>3. cmds' \in [Nodes -> Seq(Good(succeeded))]
    BY <2>1, <2>2, UnitIsSeq, IssueGood DEF IInv
  <2> QED
    BY <1>2, <2>3 DEF IInv, NodeTypes, RunnerTypes, managerVars, history
<1> QED
  BY <1>1, <1>2, ZenonT(40) DEF NextInTree

-----------------------------------------------------------------------------
(* Steps *)

LEMMA InitSafe == Init => IInv
<1> SUFFICES ASSUME Init
             PROVE  IInv
  OBVIOUS
<1>1. StoreTypeOK
  BY DEF Init, StoreInit, StoreTypeOK
<1>2. NodeTypes
  BY DEF Init, NodeTypes
<1>3. RunnerTypes
  BY DEF Init, RunnerTypes, Activities
<1>4. SuccessIsEarned
  BY DEF Init, StoreInit, SuccessIsEarned, States
<1> QED
  BY <1>1, <1>2, <1>3, <1>4 DEF Init, IInv

\* A step that leaves the store alone and puts good commands into one pipeline,
\* at its head or at its end, needs no more than typed values elsewhere.
LEMMA QueueStepSafe ==
  ASSUME IInv, NEW n \in Nodes, NEW next \in Seq(Good(succeeded)),
         (cmds[n] # <<>> /\ Issue(n, next)) \/ Enqueue(n, next) \/ UNCHANGED cmds,
         UNCHANGED <<storeVars, succeeded>>, NodeTypes', RunnerTypes',
         loop' \in [Nodes -> Seq(GoodCallback)]
  PROVE  IInv'
<1>1. cmds' \in [Nodes -> Seq(Good(succeeded))]
  BY IssueGood, EnqueueGood DEF IInv
<1>2. StoreTypeOK'
  BY DEF IInv, StoreTypeOK, storeVars
<1> QED
  BY <1>1, <1>2 DEF IInv, SuccessIsEarned, storeVars

\* A callback that runs was a good one, and the rest of the queue still is.
LEMMA RunsGood ==
  ASSUME IInv, NEW n \in Nodes, NEW what, Runs(n, what)
  PROVE  /\ Head(loop[n]) \in GoodCallback
         /\ what # "evaluate" => Head(loop[n]).job \in Jobs
         /\ loop' \in [Nodes -> Seq(GoodCallback)]
<1>1. loop[n] \in Seq(GoodCallback) /\ loop[n] # <<>>
  BY DEF IInv, Runs
<1>2. Head(loop[n]) \in GoodCallback /\ Tail(loop[n]) \in Seq(GoodCallback)
  BY <1>1, TailIsSeq
<1>3. loop' \in [Nodes -> Seq(GoodCallback)]
  BY <1>2 DEF IInv, Runs
<1> QED
  BY <1>2, <1>3 DEF GoodCallback, Runs

\* The replies that only issue the next commands.
LEMMA ReadSafe ==
  ASSUME IInv, NEW n \in Nodes,
         \/ GetRoot(n) \/ WaitingJobs(n) \/ StartJobs(n) \/ Instantiate(n)
         \/ GotContext(n) \/ GotCurrentState(n) \/ FindAbortHandlers(n)
         \/ AbortHandlerJob(n) \/ RunAbortHandler(n) \/ NodeJobs(n)
  PROVE  IInv'
<1> DEFINE c == Head(cmds[n])
<1>1. cmds[n] # <<>>
  BY DEF GetRoot, WaitingJobs, StartJobs, Instantiate, GotContext, GotCurrentState,
         FindAbortHandlers, AbortHandlerJob, RunAbortHandler, NodeJobs, Answer
<1>2. c \in Good(succeeded) /\ c \in Command
  BY <1>1, HeadIsGood
<1>3. c.op \in JobOps => c.job \in Jobs
  BY <1>2 DEF Good
<1>4. NodeTypes /\ RunnerTypes /\ loop \in [Nodes -> Seq(GoodCallback)] /\ StoreTypeOK
  BY DEF IInv
<1> HIDE DEF c
<1>5. CASE GetRoot(n)
  <2>1. [c EXCEPT !.hop = FALSE] \in Good(succeeded)
    BY <1>2, ZenonT(40) DEF Good, Command
  <2>2. <<[c EXCEPT !.hop = FALSE]>> \in Seq(Good(succeeded))
    BY <2>1, UnitIsSeq
  <2>3. /\ Issue(n, <<[c EXCEPT !.hop = FALSE]>>)
        /\ UNCHANGED <<storeVars, succeeded, loop>> /\ NodeTypes' /\ RunnerTypes'
    BY <1>4, <1>5 DEF GetRoot, c, NodeTypes, RunnerTypes, managerVars, history
  <2> QED
    BY <1>1, <1>4, <2>2, <2>3, QueueStepSafe
<1>6. CASE WaitingJobs(n)
  <2> DEFINE waiting == idx["WAITING"] \cap JobsOf(n)
             next == IF waiting = {} THEN <<>>
                     ELSE <<[Blank EXCEPT !.op = "count", !.left = waiting]>>
  <2>1. waiting \in SUBSET Jobs
    BY DEF JobsOf
  <2>2. [Blank EXCEPT !.op = "count", !.left = waiting] \in Good(succeeded)
    <3> HIDE DEF waiting
    <3> QED
      BY <2>1, BlankType DEF Good, Command, Ops, JobOps, TreeOps, TreeConts
  <2>3. next \in Seq(Good(succeeded))
    BY <2>2, UnitIsSeq
  <2>4. /\ Issue(n, next)
        /\ UNCHANGED <<storeVars, succeeded, loop>> /\ NodeTypes' /\ RunnerTypes'
    BY <1>4, <1>6 DEF WaitingJobs, NodeTypes, RunnerTypes, managerVars, history
  <2> QED
    BY <1>1, <1>4, <2>3, <2>4, QueueStepSafe
<1>7. CASE StartJobs(n)
  <2> DEFINE new == {j \in c.left : Ready(j)} \ inStartup[n]
  <2>1. new \in SUBSET Jobs
    BY <1>2 DEF Command
  <2>2. PICK order \in SetToSeqs(new) :
          Issue(n, [i \in DOMAIN order |-> JobCommand("fetch", order[i])])
    BY <1>7 DEF StartJobs, c
  <2>3. [i \in DOMAIN order |-> JobCommand("fetch", order[i])] \in Seq(Good(succeeded))
    BY <2>1, JobCommandsGood DEF JobOps
  <2>4. UNCHANGED <<storeVars, succeeded, loop>> /\ NodeTypes' /\ RunnerTypes'
    BY <1>4, <1>7, <2>1 DEF StartJobs, c, NodeTypes, RunnerTypes, history
  <2> QED
    BY <1>1, <1>4, <2>2, <2>3, <2>4, QueueStepSafe
<1>8. CASE Instantiate(n)
  <2>1. c.job \in Jobs
    BY <1>3, <1>8 DEF Instantiate, Answer, JobOps, c
  <2>2. <<[JobCommand("context", c.job) EXCEPT !.hop = TRUE]>> \in Seq(Good(succeeded))
    BY <2>1, JobCommandIsGood, UnitIsSeq DEF JobOps
  <2>3. /\ Issue(n, <<[JobCommand("context", c.job) EXCEPT !.hop = TRUE]>>)
        /\ UNCHANGED <<storeVars, succeeded, loop>> /\ NodeTypes' /\ RunnerTypes'
    BY <1>4, <1>8, <2>1 DEF Instantiate, c, NodeTypes, RunnerTypes, history
  <2> QED
    BY <1>1, <1>4, <2>2, <2>3, QueueStepSafe
<1>9. CASE GotContext(n)
  <2> DEFINE next == [JobCommand("get", c.job) EXCEPT !.to = "RUNNING",
                        !.then = "on_running", !.all = ContextOf(c.job)]
  <2>1. c.job \in Jobs /\ ContextOf(c.job) \in SUBSET Jobs
    BY <1>3, <1>4, <1>9 DEF GotContext, Answer, JobOps, c, ContextOf, StoreTypeOK
  <2>2. next \in Good(succeeded)
    BY <2>1, BlankType DEF JobCommand, Good, Command, Ops, Conts, States,
                           JobOps, TreeOps, TreeConts
  <2>3. /\ Issue(n, <<next>>)
        /\ UNCHANGED <<storeVars, succeeded, loop>> /\ NodeTypes' /\ RunnerTypes'
    BY <1>4, <1>9 DEF GotContext, c, NodeTypes, RunnerTypes, managerVars, history
  <2>4. <<next>> \in Seq(Good(succeeded))
    BY <2>2, UnitIsSeq
  <2> QED
    BY <1>1, <1>4, <2>3, <2>4, QueueStepSafe
<1>10. CASE GotCurrentState(n)
  <2> DEFINE next == [c EXCEPT !.op = "set", !.from = state[c.job]]
  <2>1. c.op = "get" /\ c.job \in Jobs /\ state[c.job] \in States \cup {Absent}
    BY <1>3, <1>4, <1>10 DEF GotCurrentState, Answer, JobOps, c, StoreTypeOK
  <2>2. next \in Good(succeeded)
    BY <1>2, <2>1 DEF Good, Command, Ops, JobOps, TreeOps
  <2>3. /\ Issue(n, <<next>>)
        /\ UNCHANGED <<storeVars, succeeded, loop>> /\ NodeTypes' /\ RunnerTypes'
    BY <1>4, <1>10 DEF GotCurrentState, c, NodeTypes, RunnerTypes, managerVars, history
  <2>4. <<next>> \in Seq(Good(succeeded))
    BY <2>2, UnitIsSeq
  <2> QED
    BY <1>1, <1>4, <2>3, <2>4, QueueStepSafe
<1>11. CASE FindAbortHandlers(n)
  <2> DEFINE found == {k \in Tree(c.tree) \cap JobsOf(n) \cap handlers[n] : Exists(k)}
  <2>1. found \in SUBSET Jobs
    BY DEF JobsOf
  <2>2. PICK order \in SetToSeqs(found) :
          Issue(n, [i \in DOMAIN order |-> JobCommand("handler_job", order[i])])
    BY <1>11 DEF FindAbortHandlers, c
  <2>3. [i \in DOMAIN order |-> JobCommand("handler_job", order[i])] \in Seq(Good(succeeded))
    BY <2>1, JobCommandsGood DEF JobOps
  <2>4. UNCHANGED <<storeVars, succeeded, loop>> /\ NodeTypes' /\ RunnerTypes'
    BY <1>4, <1>11 DEF FindAbortHandlers, NodeTypes, RunnerTypes, history
  <2> QED
    BY <1>1, <1>4, <2>2, <2>3, <2>4, QueueStepSafe
<1>12. CASE AbortHandlerJob(n)
  <2>1. c.job \in Jobs
    BY <1>3, <1>12 DEF AbortHandlerJob, Answer, JobOps, c
  <2>2. <<[JobCommand("handler_context", c.job) EXCEPT !.hop = TRUE]>>
          \in Seq(Good(succeeded))
    BY <2>1, JobCommandIsGood, UnitIsSeq DEF JobOps
  <2>3. /\ Issue(n, <<[JobCommand("handler_context", c.job) EXCEPT !.hop = TRUE]>>)
        /\ UNCHANGED <<storeVars, succeeded, loop>> /\ NodeTypes' /\ RunnerTypes'
    BY <1>4, <1>12 DEF AbortHandlerJob, c, NodeTypes, RunnerTypes, managerVars, history
  <2> QED
    BY <1>1, <1>4, <2>2, <2>3, QueueStepSafe
<1>13. CASE RunAbortHandler(n)
  <2>1. c.job \in Jobs
    BY <1>3, <1>13 DEF RunAbortHandler, Answer, JobOps, c
  <2>2. /\ Issue(n, <<>>)
        /\ UNCHANGED <<storeVars, succeeded, loop>> /\ NodeTypes' /\ RunnerTypes'
    BY <1>4, <1>13, <2>1 DEF RunAbortHandler, c, NodeTypes, RunnerTypes, managerVars
  <2>3. <<>> \in Seq(Good(succeeded))
    OBVIOUS
  <2> QED
    BY <1>1, <1>4, <2>2, <2>3, QueueStepSafe
<1>14. CASE NodeJobs(n)
  <2> DEFINE found == JobsOf(c.node) \cap (idx["RUNNING"] \cup
                                          IF c.node = n THEN {} ELSE idx["WAITING"])
  <2>1. found \in SUBSET Jobs /\ c.node \in Nodes \cup {NoNode}
    BY <1>2 DEF JobsOf, Command
  <2>2. UNCHANGED <<storeVars, succeeded, loop>> /\ NodeTypes' /\ RunnerTypes'
    BY <1>4, <1>14 DEF NodeJobs, NodeTypes, RunnerTypes, managerVars, history
  <2>3. CASE Issue(n, <<>>)
    <3>1. <<>> \in Seq(Good(succeeded))
      OBVIOUS
    <3> QED
      BY <1>1, <1>4, <2>2, <2>3, <3>1, QueueStepSafe
  <2>4. CASE \E j \in found : Issue(n, <<ForceAbort(j, c.node, found \ {j})>>)
    <3>1. PICK j \in found : Issue(n, <<ForceAbort(j, c.node, found \ {j})>>)
      BY <2>4
    <3>2. "WAITING" \in States /\ "force_waiting" \in TreeConts /\ j \in Jobs
          /\ found \ {j} \in SUBSET Jobs
      BY <2>1 DEF States, TreeConts
    <3>3. ForceAbort(j, c.node, found \ {j}) \in Good(succeeded)
      BY <2>1, <3>2, ListIsGood DEF ForceAbort
    <3>4. <<ForceAbort(j, c.node, found \ {j})>> \in Seq(Good(succeeded))
      BY <3>3, UnitIsSeq
    <3> QED
      BY <1>1, <1>4, <2>2, <3>1, <3>4, QueueStepSafe
  <2> QED
    BY <1>14, <2>3, <2>4 DEF NodeJobs, c
<1> QED
  BY <1>5, <1>6, <1>7, <1>8, <1>9, <1>10, <1>11, <1>12, <1>13, <1>14

\* on_state_updated: runners and the queues stay in order.
LEMMA FinishSafe ==
  ASSUME IInv, NEW n \in Nodes, cmds[n] # <<>>, NEW j \in Jobs, NEW s \in States,
         s = "SUCCESS" => j \in succeeded, FinishRunner(n, j, s)
  PROVE  /\ NodeTypes' /\ RunnerTypes' /\ succeeded' = succeeded
         /\ cmds' \in [Nodes -> Seq(Good(succeeded))]
         /\ loop' \in [Nodes -> Seq(GoodCallback)]
<1>1. /\ cmds \in [Nodes -> Seq(Good(succeeded))]
      /\ loop \in [Nodes -> Seq(GoodCallback)]
      /\ seen \in [Nodes -> SUBSET Status]
      /\ Tail(cmds[n]) \in Seq(Good(succeeded))
      /\ NodeTypes /\ RunnerTypes
  BY HeadIsGood DEF IInv, NodeTypes
<1>2. {j} \in SUBSET Jobs /\ (s = "SUCCESS" => {j} \subseteq succeeded)
      /\ <<>> \in Seq(Good(succeeded))
  OBVIOUS
<1>3. SendJobStatus(n, {j}, s, Tail(cmds[n]), <<>>)
  BY DEF FinishRunner
<1>4. /\ cmds' \in [Nodes -> Seq(Good(succeeded))]
      /\ loop' \in [Nodes -> Seq(GoodCallback)]
      /\ seen' \in [Nodes -> SUBSET Status]
  BY <1>1, <1>2, <1>3, SendGood, ZenonT(40)
<1> QED
  BY <1>1, <1>4 DEF FinishRunner, NodeTypes, RunnerTypes, history

\* add_job goes on to set the tags.
LEMMA TagIsGood ==
  ASSUME NEW D, NEW c \in Good(D), c.op = "add"
  PROVE  [c EXCEPT !.op = "tag", !.hop = TRUE] \in Good(D)
<1> DEFINE x == [c EXCEPT !.op = "tag", !.hop = TRUE]
<1>1. c \in Command /\ c.job \in Jobs
  BY DEF Good, JobOps
<1>2. /\ x \in Command /\ x.op = "tag" /\ x.job = c.job /\ x.to = c.to
      /\ x.then = c.then /\ x.tree = c.tree
  BY <1>1, ZenonT(40) DEF Command, Ops
<1> QED
  BY <1>1, <1>2 DEF Good, JobOps, TreeOps

\* add_tree goes on to the next job, or makes the tree executable.
LEMMA AddNextGood ==
  ASSUME NEW D, cmds \in [Nodes -> Seq(Good(D))], NEW n \in Nodes, cmds[n] # <<>>,
         NEW c \in Command, c.job \in Jobs, AddNext(n, c)
  PROVE  cmds' \in [Nodes -> Seq(Good(D))]
<1>1. c.left \in SUBSET Jobs /\ c.by \in Jobs \cup {NoJob}
  BY DEF Command
<1>2. CASE \E j \in NextJobs(c.job, c.left) : Issue(n, <<AddCommand(j, c.left, c.by)>>)
  <2>1. PICK j \in c.left : Issue(n, <<AddCommand(j, c.left, c.by)>>)
    BY <1>2 DEF NextJobs
  <2>2. <<AddCommand(j, c.left, c.by)>> \in Seq(Good(D))
    BY <1>1, AddIsGood, UnitIsSeq
  <2> QED
    BY <2>1, <2>2, IssueGood
<1>3. CASE Issue(n, <<[ListCommand(Root[c.job], "NEW", "WAITING", NoNode,
                                   "allow_execution") EXCEPT !.by = c.by]>>)
  <2>1. Root[c.job] \in Jobs /\ "NEW" \in States /\ "allow_execution" \in TreeConts
    BY ForestAssumption DEF States, TreeConts
  <2>2. [ListCommand(Root[c.job], "NEW", "WAITING", NoNode, "allow_execution")
           EXCEPT !.by = c.by] \in Good(D)
    BY <1>1, <2>1, ListIsGood
  <2> QED
    BY <1>3, <2>2, IssueGood, UnitIsSeq
<1> QED
  BY <1>2, <1>3 DEF AddNext

\* The replies that write to the store, send a status or start a callback.
LEMMA WriteSafe ==
  ASSUME IInv, NEW n \in Nodes,
         \/ AddJob(n) \/ TagJob(n) \/ StartRunner(n) \/ StateUpdated(n)
         \/ ContextStored(n) \/ GotFinishedJob(n) \/ ListTree(n) \/ TreeJobSet(n) \/ AbortRunners(n)
         \/ PublishStatus(n)
  PROVE  IInv'
<1> DEFINE c == Head(cmds[n])
<1>1. cmds[n] # <<>>
  BY ZenonT(40) DEF AddJob, TagJob, StartRunner, StateUpdated, ContextStored, GotFinishedJob, ListTree,
         TreeJobSet, AbortRunners, PublishStatus, Answer
<1>2. c \in Good(succeeded) /\ c \in Command
  BY <1>1, HeadIsGood
<1>3. c.op \in JobOps => c.job \in Jobs
  BY <1>2 DEF Good
<1>4. /\ NodeTypes /\ RunnerTypes /\ StoreTypeOK /\ SuccessIsEarned
      /\ loop \in [Nodes -> Seq(GoodCallback)]
      /\ cmds \in [Nodes -> Seq(Good(succeeded))]
  BY DEF IInv
<1>5. /\ c.to \in States /\ c.left \in SUBSET Jobs /\ c.by \in Jobs \cup {NoJob}
      /\ c.to = "SUCCESS" => c.job \in succeeded
  BY <1>2 DEF Good, Command
<1> HIDE DEF c
<1>6. CASE AddJob(n)
  <2>1. c.job \in Jobs
    BY <1>3, <1>6 DEF AddJob, Answer, JobOps, c
  <2>2. StoreTypeOK' /\ SuccessIsEarned' /\ succeeded' = succeeded
    BY <1>4, <1>6, <2>1 DEF AddJob, AddTx, StoreTypeOK, SuccessIsEarned, States, c, history
  <2>3. NodeTypes' /\ RunnerTypes' /\ loop' = loop
    BY <1>4, <1>6, <2>1 DEF AddJob, NodeTypes, RunnerTypes, c, history
  <2>4. cmds' \in [Nodes -> Seq(Good(succeeded))]
    <3>1. CASE AddNext(n, c)
      BY <1>1, <1>2, <1>4, <2>1, <3>1, AddNextGood
    <3>2. CASE Issue(n, <<[c EXCEPT !.op = "tag", !.hop = TRUE]>>)
      <4>1. c.op = "add"
        BY <1>6 DEF AddJob, Answer, c
      <4>2. [c EXCEPT !.op = "tag", !.hop = TRUE] \in Good(succeeded)
        BY <1>2, <4>1, TagIsGood
      <4> QED
        BY <1>1, <1>4, <3>2, <4>2, IssueGood, UnitIsSeq
    <3> QED
      BY <1>6, <3>1, <3>2 DEF AddJob, c
  <2> QED
    BY <1>4, <2>2, <2>3, <2>4 DEF IInv
<1>7. CASE StartRunner(n)
  <2>1. c.job \in Jobs
    BY <1>3, <1>7 DEF StartRunner, Answer, JobOps, c
  <2>2. StoreTypeOK' /\ idx'["SUCCESS"] \subseteq succeeded
    BY <1>5, <1>7, <2>1, SetTxSafe DEF StartRunner, c
  <2>3. NodeTypes' /\ RunnerTypes' /\ UNCHANGED <<loop, succeeded>>
    BY <1>4, <1>7, <2>1 DEF StartRunner, NodeTypes, RunnerTypes, Activities, managerVars, c
  <2>4. <<>> \in Seq(Good(succeeded))
    OBVIOUS
  <2>5. cmds' \in [Nodes -> Seq(Good(succeeded))]
    BY <1>1, <1>4, <1>7, <2>4, IssueGood DEF StartRunner
  <2> QED
    BY <1>4, <2>2, <2>3, <2>5 DEF IInv, SuccessIsEarned
<1>8. CASE StateUpdated(n)
  <2>1. c.job \in Jobs /\ SetTx(c.job, c.from, c.to) /\ FinishRunner(n, c.job, c.to)
    BY <1>3, <1>8 DEF StateUpdated, Answer, JobOps, c
  <2>2. StoreTypeOK' /\ idx'["SUCCESS"] \subseteq succeeded
    BY <1>5, <2>1, SetTxSafe
  <2>3. /\ NodeTypes' /\ RunnerTypes' /\ succeeded' = succeeded
        /\ cmds' \in [Nodes -> Seq(Good(succeeded))]
        /\ loop' \in [Nodes -> Seq(GoodCallback)]
    BY <1>1, <1>5, <2>1, FinishSafe
  <2> QED
    BY <2>2, <2>3 DEF IInv, SuccessIsEarned
<1>9. CASE ContextStored(n)
  <2> DEFINE next == [JobCommand("finish", c.job) EXCEPT !.to = c.to]
  <2>1. c.job \in Jobs
    BY <1>3, <1>9 DEF ContextStored, Answer, JobOps, c
  <2>2. next \in Good(succeeded)
    BY <1>5, <2>1, BlankType DEF JobCommand, Good, Command, Ops, JobOps, TreeOps, TreeConts
  <2>3. cmds' \in [Nodes -> Seq(Good(succeeded))]
    BY <1>1, <1>4, <1>9, <2>2, UnitIsSeq, IssueGood DEF ContextStored, c
  <2>4. StoreTypeOK' /\ SuccessIsEarned' /\ succeeded' = succeeded
    BY <1>4, <1>9, <2>1
       DEF ContextStored, ContextTx, StoreTypeOK, SuccessIsEarned, c, history
  <2>5. NodeTypes' /\ RunnerTypes' /\ loop' = loop
    BY <1>4, <1>9 DEF ContextStored, NodeTypes, RunnerTypes, managerVars, history
  <2> QED
    BY <1>4, <2>3, <2>4, <2>5 DEF IInv
<1>10. CASE GotFinishedJob(n)
  <2>1. c.op = "finish" /\ c.job \in Jobs /\ UNCHANGED storeVars
    BY <1>3, <1>10 DEF GotFinishedJob, Answer, JobOps, c
  <2>2. CASE FinishRunner(n, c.job, c.to)
    <3>1. /\ NodeTypes' /\ RunnerTypes' /\ succeeded' = succeeded
          /\ cmds' \in [Nodes -> Seq(Good(succeeded))]
          /\ loop' \in [Nodes -> Seq(GoodCallback)]
      BY <1>1, <1>5, <2>1, <2>2, FinishSafe
    <3> QED
      BY <1>4, <2>1, <3>1 DEF IInv, StoreTypeOK, SuccessIsEarned, storeVars
  <2>3. CASE /\ Issue(n, <<[c EXCEPT !.op = "get", !.then = "on_state_updated"]>>)
             /\ UNCHANGED <<up, loop, inbox, managerVars, act, history, spent>>
    <3>1. [c EXCEPT !.op = "get", !.then = "on_state_updated"] \in Good(succeeded)
      BY <1>2, <2>1, ZenonT(40) DEF Good, Command, Ops, Conts, JobOps, TreeOps, TreeConts
    <3>2. <<[c EXCEPT !.op = "get", !.then = "on_state_updated"]>> \in Seq(Good(succeeded))
      BY <3>1, UnitIsSeq
    <3>3. UNCHANGED <<storeVars, succeeded, loop>> /\ NodeTypes' /\ RunnerTypes'
      BY <1>4, <2>1, <2>3 DEF NodeTypes, RunnerTypes, managerVars, history
    <3> QED
      BY <1>1, <1>4, <2>3, <3>2, <3>3, QueueStepSafe
  <2> QED
    BY <1>10, <2>2, <2>3 DEF GotFinishedJob, c
<1>11. CASE ListTree(n)
  <2> DEFINE found == {j \in idx[c.from] \cap Tree(c.tree) :
                         c.node = NoNode \/ NodeOf[j] = c.node}
             d == [c EXCEPT !.left = found, !.all = found]
  <2>1. c.op = "list" /\ UNCHANGED storeVars /\ NextInTree(n, d)
    BY <1>11 DEF ListTree, Answer, c
  <2>2. found \in SUBSET Jobs
    BY DEF Tree
  <2>3. d \in Good(succeeded) /\ d.then \in TreeConts
    <3> HIDE DEF found
    <3> QED
      BY <1>2, <2>1, <2>2 DEF Good, Command, Ops, JobOps, TreeOps
  <2>4. /\ NodeTypes' /\ RunnerTypes' /\ succeeded \subseteq succeeded'
        /\ cmds' \in [Nodes -> Seq(Good(succeeded'))]
        /\ loop' \in [Nodes -> Seq(GoodCallback)]
    <3> HIDE DEF d
    <3> QED
      BY <1>1, <2>1, <2>3, NextInTreeSafe
  <2> QED
    BY <1>4, <2>1, <2>4 DEF IInv, StoreTypeOK, SuccessIsEarned, storeVars
<1>12. CASE TreeJobSet(n)
  <2>1. /\ c.op = "set" /\ c.then \notin {"on_running", "on_state_updated"}
        /\ SetTx(c.job, c.from, c.to) /\ NextInTree(n, c)
    BY <1>12 DEF TreeJobSet, Answer, c
  <2>2. c.then \in TreeConts
    BY <1>2, <2>1 DEF Good, Command, Conts, TreeConts
  <2>3. StoreTypeOK' /\ idx'["SUCCESS"] \subseteq succeeded
    BY <1>3, <1>5, <2>1, SetTxSafe DEF JobOps
  <2>4. /\ NodeTypes' /\ RunnerTypes' /\ succeeded \subseteq succeeded'
        /\ cmds' \in [Nodes -> Seq(Good(succeeded'))]
        /\ loop' \in [Nodes -> Seq(GoodCallback)]
    BY <1>1, <1>2, <2>1, <2>2, NextInTreeSafe
  <2> QED
    BY <2>3, <2>4 DEF IInv, SuccessIsEarned
<1>13. CASE AbortRunners(n)
  <2> DEFINE running == idx["RUNNING"] \cap Tree(c.tree) \cap JobsOf(n) \cap runners[n]
  <2>1. running \in SUBSET Jobs
    BY DEF JobsOf
  <2>2. PICK order \in SetToSeqs(running) :
          loop' = [loop EXCEPT ![n] = @ \o
                    [i \in DOMAIN order |-> [run |-> "abort_job", job |-> order[i]]]]
    BY <1>13 DEF AbortRunners, c
  <2>3. PICK k \in Nat : DOMAIN order = 1..k
    BY <2>1, OrderIsSeq
  <2>4. \A i \in 1..k : [run |-> "abort_job", job |-> order[i]] \in GoodCallback
    BY <2>1, <2>3, OrderIsSeq DEF GoodCallback, Callback
  <2>5. [i \in DOMAIN order |-> [run |-> "abort_job", job |-> order[i]]] \in Seq(GoodCallback)
    BY <2>3, <2>4
  <2>6. loop' \in [Nodes -> Seq(GoodCallback)]
    BY <1>4, <2>2, <2>5, ConcatIsSeq
  <2>7. <<>> \in Seq(Good(succeeded)) /\ Issue(n, <<>>)
    BY <1>13 DEF AbortRunners
  <2>8. UNCHANGED <<storeVars, succeeded>> /\ NodeTypes' /\ RunnerTypes'
    BY <1>4, <1>13 DEF AbortRunners, NodeTypes, RunnerTypes, managerVars, history
  <2> QED
    BY <1>1, <2>6, <2>7, <2>8, QueueStepSafe
<1>14. CASE PublishStatus(n)
  <2>1. [job |-> c.job, state |-> c.to] \in Status
    BY <1>3, <1>5, <1>14 DEF PublishStatus, Answer, JobOps, Status, c
  <2>2. \A m \in Nodes : Append(inbox[m], [job |-> c.job, state |-> c.to]) \in Seq(Status)
    BY <1>4, <2>1 DEF NodeTypes
  <2>3. inbox' \in [Nodes -> Seq(Status)]
    BY <1>4, <1>14, <2>2 DEF PublishStatus, NodeTypes, c
  <2>4. <<>> \in Seq(Good(succeeded)) /\ Issue(n, <<>>)
    BY <1>14 DEF PublishStatus
  <2>5. UNCHANGED <<storeVars, succeeded, loop>> /\ NodeTypes' /\ RunnerTypes'
    BY <1>4, <1>14, <2>3 DEF PublishStatus, NodeTypes, RunnerTypes, managerVars, history
  <2> QED
    BY <1>1, <1>4, <2>4, <2>5, QueueStepSafe
<1>15. CASE TagJob(n)
  <2>1. c.job \in Jobs
    BY <1>3, <1>15 DEF TagJob, Answer, JobOps, c
  <2>2. /\ AddNext(n, c) /\ UNCHANGED storeVars
        /\ UNCHANGED <<up, loop, inbox, managerVars, act, history, spent>>
    BY <1>15 DEF TagJob, c
  <2>3. cmds' \in [Nodes -> Seq(Good(succeeded))]
    BY <1>1, <1>2, <1>4, <2>1, <2>2, AddNextGood
  <2> QED
    BY <1>4, <2>2, <2>3 DEF IInv, StoreTypeOK, SuccessIsEarned, NodeTypes, RunnerTypes,
                            storeVars, managerVars, history
<1> QED
  BY <1>6, <1>7, <1>8, <1>9, <1>10, <1>11, <1>12, <1>13, <1>14, <1>15

LEMMA RunSafe ==
  ASSUME IInv, NEW n \in Nodes, Run(n)
  PROVE  IInv'
<1> DEFINE j == Head(loop[n]).job
<1>1. /\ NodeTypes /\ RunnerTypes /\ StoreTypeOK /\ SuccessIsEarned
      /\ loop \in [Nodes -> Seq(GoodCallback)]
      /\ cmds \in [Nodes -> Seq(Good(succeeded))]
  BY DEF IInv
<1>2. CASE Evaluate(n)
  <2>1. <<[Blank EXCEPT !.op = "ready"]>> \in Seq(Good(succeeded))
    <3>1. [Blank EXCEPT !.op = "ready"] \in Good(succeeded)
      BY BlankType DEF Good, Command, Ops, JobOps, TreeOps, TreeConts
    <3> QED
      BY <3>1, UnitIsSeq
  <2>2. Runs(n, "evaluate") /\ Enqueue(n, <<[Blank EXCEPT !.op = "ready"]>>)
    BY <1>2 DEF Evaluate
  <2>3. UNCHANGED <<storeVars, succeeded>> /\ NodeTypes' /\ RunnerTypes'
    BY <1>1, <1>2 DEF Evaluate, NodeTypes, RunnerTypes, managerVars, history
  <2> QED
    BY <2>1, <2>2, <2>3, RunsGood, QueueStepSafe
<1>3. CASE HandleFailure(n)
  <2> DEFINE next == <<ListCommand(j, "WAITING", "ABORTED", n, "handle_failure"),
                       TreeCommand("running", j), TreeCommand("tree", j)>>
  <2>1. Runs(n, "handle_failure") /\ Enqueue(n, next)
    BY <1>3 DEF HandleFailure
  <2>2. j \in Jobs /\ "WAITING" \in States /\ "handle_failure" \in TreeConts
    BY <2>1, RunsGood DEF States, TreeConts
  <2>3. /\ ListCommand(j, "WAITING", "ABORTED", n, "handle_failure") \in Good(succeeded)
        /\ TreeCommand("running", j) \in Good(succeeded)
        /\ TreeCommand("tree", j) \in Good(succeeded)
    BY <2>2, ListIsGood, TreeCommandIsGood
  <2>4. next \in Seq(Good(succeeded))
    BY <2>3
  <2>5. UNCHANGED <<storeVars, succeeded>> /\ NodeTypes' /\ RunnerTypes'
    BY <1>1, <1>3 DEF HandleFailure, NodeTypes, RunnerTypes, managerVars, history
  <2> QED
    BY <2>1, <2>4, <2>5, RunsGood, QueueStepSafe
<1>4. CASE AbortJob(n)
  <2>1. Runs(n, "abort_job")
    BY <1>4 DEF AbortJob
  <2>2. j \in Jobs /\ "ABORTED" \in States
    BY <2>1, RunsGood DEF States
  <2>3. <<Completed(j, "ABORTED")>> \in Seq(Good(succeeded))
    BY <2>2, CompletedIsGood, UnitIsSeq
  <2>4. Enqueue(n, <<Completed(j, "ABORTED")>>) \/ UNCHANGED cmds
    BY <1>4 DEF AbortJob
  <2>5. act' \in [Jobs -> Activities]
    BY <1>1, <1>4, <2>2 DEF AbortJob, RunnerTypes, Activities
  <2>6. UNCHANGED <<storeVars, succeeded>> /\ NodeTypes' /\ RunnerTypes'
    BY <1>1, <1>4, <2>5 DEF AbortJob, NodeTypes, RunnerTypes, managerVars, history
  <2> QED
    BY <2>1, <2>3, <2>4, <2>6, RunsGood, QueueStepSafe
<1>5. CASE Receive(n)
  <2> DEFINE m == Head(inbox[n])
  <2>1. m \in Status /\ Tail(inbox[n]) \in Seq(Status)
    BY <1>1, <1>5, TailIsSeq DEF Receive, NodeTypes
  <2>2. {m.job} \in SUBSET Jobs /\ m.state \in States
    BY <2>1 DEF Status
  <2>3. JobStatus(n, {m.job}, m.state, <<m.job>>)
    BY <1>5 DEF Receive
  <2>4. seen \in [Nodes -> SUBSET Status]
    BY <1>1 DEF NodeTypes
  <2>5. loop' \in [Nodes -> Seq(GoodCallback)] /\ seen' \in [Nodes -> SUBSET Status]
    <3> HIDE DEF m
    <3> QED
      BY <1>1, <2>2, <2>3, <2>4, JobStatusGood
  <2>6. inbox' \in [Nodes -> Seq(Status)]
    BY <1>1, <1>5, <2>1 DEF Receive, NodeTypes
  <2>7. UNCHANGED <<storeVars, succeeded, cmds>> /\ NodeTypes' /\ RunnerTypes'
    BY <1>1, <1>5, <2>5, <2>6 DEF Receive, NodeTypes, RunnerTypes, history
  <2> QED
    BY <2>5, <2>7 DEF IInv, StoreTypeOK, SuccessIsEarned, storeVars
<1> QED
  BY <1>2, <1>3, <1>4, <1>5 DEF Run

\* success() counts a job as succeeded before Redis hears of it.
LEMMA RunnerSafe ==
  ASSUME IInv, NEW j \in Jobs, Runner(j)
  PROVE  IInv'
<1>1. /\ NodeTypes /\ RunnerTypes /\ StoreTypeOK /\ SuccessIsEarned
      /\ loop \in [Nodes -> Seq(GoodCallback)]
      /\ cmds \in [Nodes -> Seq(Good(succeeded))]
  BY DEF IInv
<1>2. NodeOf[j] \in Nodes
  BY ForestAssumption
<1>3. "SUCCESS" \in States /\ "FAILED" \in States
  BY DEF States
<1>4. CASE Succeed(j)
  <2>1. /\ succeeded' = succeeded \cup {j}
        /\ Enqueue(NodeOf[j], <<Completed(j, "SUCCESS")>>)
        /\ UNCHANGED <<storeVars, loop>>
    BY <1>4 DEF Succeed
  <2>2. <<Completed(j, "SUCCESS")>> \in Seq(Good(succeeded'))
    BY <1>3, <2>1, CompletedIsGood, UnitIsSeq
  <2>3. cmds' \in [Nodes -> Seq(Good(succeeded'))]
    <3>1. succeeded \subseteq succeeded'
      BY <2>1
    <3> QED
      BY <1>1, <1>2, <2>1, <2>2, <3>1, EnqueueGood
  <2>4. NodeTypes' /\ RunnerTypes'
    BY <1>1, <1>4 DEF Succeed, NodeTypes, RunnerTypes, Activities, managerVars
  <2> QED
    BY <1>1, <2>1, <2>3, <2>4 DEF IInv, StoreTypeOK, SuccessIsEarned, storeVars
<1>5. CASE Fail(j)
  <2>1. <<Completed(j, "FAILED")>> \in Seq(Good(succeeded))
    BY <1>3, CompletedIsGood, UnitIsSeq
  <2>2. /\ Enqueue(NodeOf[j], <<Completed(j, "FAILED")>>)
        /\ UNCHANGED <<storeVars, succeeded, loop>> /\ NodeTypes' /\ RunnerTypes'
    BY <1>1, <1>5 DEF Fail, NodeTypes, RunnerTypes, Activities, managerVars, history
  <2> QED
    BY <1>1, <1>2, <2>1, <2>2, QueueStepSafe
<1>6. CASE AddJobs(j)
  <2>1. PICK k \in AddedWith(j) : Enqueue(NodeOf[j], <<AddCommand(k, AddedWith(j), j)>>)
    BY <1>6 DEF AddJobs
  <2>2. k \in Jobs /\ AddedWith(j) \in SUBSET Jobs
    BY DEF AddedWith
  <2>3. <<AddCommand(k, AddedWith(j), j)>> \in Seq(Good(succeeded))
    BY <2>2, AddIsGood, UnitIsSeq
  <2>4. UNCHANGED <<storeVars, succeeded, loop>> /\ NodeTypes' /\ RunnerTypes'
    BY <1>1, <1>6 DEF AddJobs, NodeTypes, RunnerTypes, Activities, managerVars, history
  <2> QED
    BY <1>1, <1>2, <2>1, <2>3, <2>4, QueueStepSafe
<1> QED
  BY <1>4, <1>5, <1>6 DEF Runner

\* Users, the health check, other trees, crashes and restarts.
LEMMA EnvironmentSafe ==
  ASSUME IInv,
         \/ \E n \in Nodes : OtherStatus(n) \/ Crash(n) \/ Restart(n) \/ SweepNode(n)
         \/ \E j \in Jobs : Submit(j) \/ UserAbort(j)
  PROVE  IInv'
<1>1. /\ NodeTypes /\ RunnerTypes /\ StoreTypeOK /\ SuccessIsEarned
      /\ loop \in [Nodes -> Seq(GoodCallback)]
      /\ cmds \in [Nodes -> Seq(Good(succeeded))]
  BY DEF IInv
<1>2. ASSUME NEW n \in Nodes, OtherStatus(n)
      PROVE  IInv'
  <2>1. [Blank EXCEPT !.op = "ready"] \in Good(succeeded)
    BY BlankType DEF Good, Command, Ops, JobOps, TreeOps, TreeConts
  <2>2. /\ Enqueue(n, <<[Blank EXCEPT !.op = "ready"]>>)
        /\ UNCHANGED <<storeVars, succeeded, loop>> /\ NodeTypes' /\ RunnerTypes'
    BY <1>1, <1>2 DEF OtherStatus, NodeTypes, RunnerTypes, managerVars, history
  <2> QED
    BY <1>1, <2>1, <2>2, UnitIsSeq, QueueStepSafe
<1>3. ASSUME NEW n \in Nodes, NEW t \in Nodes,
             Enqueue(n, <<[Blank EXCEPT !.op = "node_jobs", !.node = t]>>),
             UNCHANGED <<storeVars, succeeded, loop>>, NodeTypes', RunnerTypes'
      PROVE  IInv'
  <2>1. [Blank EXCEPT !.op = "node_jobs", !.node = t] \in Good(succeeded)
    BY BlankType DEF Good, Command, Ops, JobOps, TreeOps, TreeConts
  <2> QED
    BY <1>1, <1>3, <2>1, UnitIsSeq, QueueStepSafe
<1>4. ASSUME NEW n \in Nodes, Restart(n)
      PROVE  IInv'
  <2>1. /\ Enqueue(n, <<[Blank EXCEPT !.op = "node_jobs", !.node = n]>>)
        /\ UNCHANGED <<storeVars, succeeded, loop>> /\ NodeTypes' /\ RunnerTypes'
    BY <1>1, <1>4, ZenonT(40) DEF Restart, NodeTypes, RunnerTypes, managerVars, history
  <2> QED
    BY <1>3, <2>1, ZenonT(40)
<1>5. ASSUME NEW t \in Nodes, SweepNode(t)
      PROVE  IInv'
  <2>1. /\ Enqueue(Pacemaker, <<[Blank EXCEPT !.op = "node_jobs", !.node = t]>>)
        /\ UNCHANGED <<storeVars, succeeded, loop>>
    BY <1>5, ZenonT(40) DEF SweepNode, history
  <2>2. spent' \in [crashes : Nat, aborts : Nat]
    <3>1. spent.aborts + 1 \in Nat
      BY <1>1 DEF RunnerTypes
    <3> QED
      BY <1>1, <1>5, <3>1, ZenonT(40) DEF SweepNode, RunnerTypes
  <2>3. NodeTypes' /\ RunnerTypes'
    BY <1>1, <1>5, <2>2, ZenonT(40) DEF SweepNode, NodeTypes, RunnerTypes, managerVars, history
  <2> QED
    BY <1>3, <2>1, <2>3, ManagerAssumption, ZenonT(40)
<1>6. ASSUME NEW n \in Nodes, Crash(n)
      PROVE  IInv'
  <2>1. /\ cmds' = [cmds EXCEPT ![n] = <<>>] /\ loop' = [loop EXCEPT ![n] = <<>>]
        /\ UNCHANGED <<storeVars, succeeded>>
    BY <1>6 DEF Crash, history
  <2>2. cmds' \in [Nodes -> Seq(Good(succeeded))]
    BY <1>1, <2>1
  <2>3. loop' \in [Nodes -> Seq(GoodCallback)]
    BY <1>1, <2>1
  <2>4. NodeTypes'
    <3>1. inbox' \in [Nodes -> Seq(Status)]
      BY <1>1, <1>6 DEF Crash, NodeTypes
    <3>2. /\ runners' \in [Nodes -> SUBSET Jobs] /\ inStartup' \in [Nodes -> SUBSET Jobs]
          /\ handlers' \in [Nodes -> SUBSET Jobs]
      BY <1>1, <1>6 DEF Crash, NodeTypes
    <3>3. seen' \in [Nodes -> SUBSET Status] /\ up' \subseteq Nodes
      BY <1>1, <1>6 DEF Crash, NodeTypes
    <3> QED
      BY <3>1, <3>2, <3>3 DEF NodeTypes
  <2>5. RunnerTypes'
    <3>1. spent.crashes + 1 \in Nat
      BY <1>1 DEF RunnerTypes
    <3>2. spent' \in [crashes : Nat, aborts : Nat]
      BY <1>1, <1>6, <3>1 DEF Crash, RunnerTypes
    <3>3. act' \in [Jobs -> Activities]
      BY <1>1, <1>6 DEF Crash, RunnerTypes, Activities
    <3> QED
      BY <1>1, <1>6, <3>2, <3>3 DEF Crash, RunnerTypes, history
  <2> QED
    BY <1>1, <2>1, <2>2, <2>3, <2>4, <2>5 DEF IInv, StoreTypeOK, SuccessIsEarned, storeVars
<1>7. ASSUME NEW r \in Jobs, Submit(r)
      PROVE  IInv'
  <2> DEFINE batch == {j \in Tree(r) : AddedBy[j] = NoJob}
  <2>1. batch \in SUBSET Jobs /\ Submitter[r] \in Nodes
    BY ManagerAssumption DEF Tree
  <2>2. <<AddCommand(r, batch, NoJob)>> \in Seq(Good(succeeded))
    BY <2>1, AddIsGood, UnitIsSeq
  <2>3. /\ Enqueue(Submitter[r], <<AddCommand(r, batch, NoJob)>>)
        /\ UNCHANGED <<storeVars, succeeded, loop>> /\ NodeTypes' /\ RunnerTypes'
    BY <1>1, <1>7 DEF Submit, NodeTypes, RunnerTypes, managerVars, history
  <2> QED
    BY <1>1, <2>1, <2>2, <2>3, QueueStepSafe
<1>8. ASSUME NEW j \in Jobs, UserAbort(j)
      PROVE  IInv'
  <2>1. /\ Pacemaker \in Nodes /\ {j} \in SUBSET Jobs /\ "ABORTED" \in States
        /\ seen \in [Nodes -> SUBSET Status]
        /\ cmds[Pacemaker] \in Seq(Good(succeeded)) /\ <<>> \in Seq(Good(succeeded))
    BY <1>1, ManagerAssumption DEF States, NodeTypes
  <2>2. SendJobStatus(Pacemaker, {j}, "ABORTED", cmds[Pacemaker], <<>>)
    BY <1>8 DEF UserAbort
  <2>3. /\ cmds' \in [Nodes -> Seq(Good(succeeded))]
        /\ loop' \in [Nodes -> Seq(GoodCallback)]
        /\ seen' \in [Nodes -> SUBSET Status]
    BY <1>1, <2>1, <2>2, SendGood
  <2>4. spent' \in [crashes : Nat, aborts : Nat]
    <3>1. spent.aborts + 1 \in Nat
      BY <1>1 DEF RunnerTypes
    <3> QED
      BY <1>1, <1>8, <3>1 DEF UserAbort, RunnerTypes
  <2>5. UNCHANGED <<storeVars, succeeded>> /\ NodeTypes' /\ RunnerTypes'
    BY <1>1, <1>8, <2>3, <2>4 DEF UserAbort, NodeTypes, RunnerTypes, history
  <2> QED
    BY <2>3, <2>5 DEF IInv, StoreTypeOK, SuccessIsEarned, storeVars
<1> QED
  BY <1>2, <1>4, <1>5, <1>6, <1>7, <1>8

LEMMA StepSafe == IInv /\ [Next]_vars => IInv'
<1> SUFFICES ASSUME IInv, [Next]_vars
             PROVE  IInv'
  OBVIOUS
<1>1. CASE UNCHANGED vars
  BY <1>1 DEF vars, IInv, StoreTypeOK, NodeTypes, RunnerTypes, SuccessIsEarned
<1>2. ASSUME NEW n \in Nodes, Reply(n)
      PROVE  IInv'
  BY <1>2, ReadSafe, WriteSafe DEF Reply
<1> QED
  BY <1>1, <1>2, RunSafe, RunnerSafe, EnvironmentSafe DEF Next

LEMMA Typed == IInv => TypeOK
<1>1. Good(succeeded) \subseteq Command /\ GoodCallback \subseteq Callback
  BY DEF Good, GoodCallback
<1>2. /\ Seq(Good(succeeded)) \subseteq Seq(Command)
      /\ Seq(GoodCallback) \subseteq Seq(Callback)
  BY <1>1
<1> QED
  BY <1>2 DEF IInv, NodeTypes, RunnerTypes, TypeOK

LEMMA Inductive == Spec => []IInv
BY InitSafe, StepSafe, PTL DEF Spec

-----------------------------------------------------------------------------
(* Theorems *)

\* Every value the managers and the store hold has the type the code gives it;
\* no command is ever issued for a job or a tree that does not exist
\* (manager.py, backendredis.py).
THEOREM TypeCorrect == Spec => []TypeOK
BY Inductive, Typed, PTL

\* However the commands of all nodes interleave, with crashes, restarts, user
\* aborts and force aborts: Redis counts a job as a success, and so lets its
\* parent start, only if the runner of that job has called success()
\* (completed, get_ready_to_run).
THEOREM SuccessEarned == Spec => []SuccessIsEarned
<1>1. IInv => SuccessIsEarned
  BY DEF IInv
<1> QED
  BY <1>1, Inductive, PTL

-----------------------------------------------------------------------------
(* What happens once *)

\* q has an element of T; and it has one at most.
Has(q, T) == \E i \in DOMAIN q : q[i] \in T
Once(q, T) == \A i, k \in DOMAIN q : q[i] \in T /\ q[k] \in T => i = k

-----------------------------------------------------------------------------
(* Commands that must not be about twice *)

\* _start_job, up to on_running.
Starting == {c \in Command : \/ c.op \in {"fetch", "context"}
                             \/ c.op \in {"get", "set"} /\ c.then = "on_running"}
Chain(j) == {c \in Starting : c.job = j}

\* A run of an abort handler.
Handling(h) == {c \in Command : c.op \in {"handler_job", "handler_context"} /\ c.job = h}

\* The jobs that one call of add_tree adds, and the node that calls it.
Batch(k) == {i \in Jobs : /\ AddedBy[i] = AddedBy[k]
                          /\ AddedBy[k] = NoJob => Root[i] = Root[k]}
Adder(k) == IF AddedBy[k] = NoJob THEN Submitter[Root[k]] ELSE NodeOf[AddedBy[k]]

\* add_tree at any job of the batch of k, before it adds k, and past its start.
Adding == {"add", "tag"}
Adds(k) == {c \in Command : c.op \in Adding /\ c.job \in Batch(k)}
Pending(k) == {c \in Adds(k) : k \in c.left \/ (c.op = "add" /\ k = c.job)}
Late(k) == {c \in Adds(k) : AddedBy[k] # NoJob \/ c.job # Root[k] \/ c.op = "tag"}

\* The other commands.
Plain == {c \in Command : c \notin Starting /\
            c.op \notin Adding \cup {"count", "handler_job", "handler_context"}}

\* The commands a node issues: it starts its own jobs, runs handlers of its own
\* jobs and adds what it was asked to add.
Place(n) == {c \in Command :
  /\ c \in Starting => NodeOf[c.job] = n
  /\ c.op = "count" => c.left \subseteq JobsOf(n)
  /\ c.op \in {"handler_job", "handler_context"} => NodeOf[c.job] = n
  /\ c.op \in Adding => /\ c.job \in Jobs /\ Adder(c.job) = n
                        /\ c.by = AddedBy[c.job]
                        /\ c.left \subseteq Batch(c.job) \ {c.job}}

-----------------------------------------------------------------------------
(* The invariant *)

\* How many processes a node can have had.
Lives(n) == IF n \in Crashing THEN spent.crashes + 1 ELSE 1

\* A job goes through _start_job once in the life of its node.
StartInv(j) ==
  LET n == NodeOf[j] IN
  /\ Once(cmds[n], Chain(j))
  /\ Has(cmds[n], Chain(j)) => j \in inStartup[n] /\ starts[j] < Lives(n)
  /\ starts[j] <= Lives(n)
  /\ starts[j] = Lives(n) => j \in inStartup[n]
  /\ act[j] = "active" => starts[j] > 0

\* The abort handler of a job has not been registered, on its own node.
Fresh(h) ==
  /\ h \notin handlers[NodeOf[h]]
  /\ ~Has(cmds[NodeOf[h]], Handling(h))
  /\ handled[h] = 0

\* add_tree has been called for the batch of k, and will not be again.
Begun(k) == IF AddedBy[k] = NoJob THEN Exists(Root[k])
            ELSE starts[AddedBy[k]] > 0 /\ act[AddedBy[k]] # "active"

AddInv(k) ==
  LET q == cmds[Adder(k)] IN
  /\ Once(q, Adds(k))
  /\ Has(q, Late(k)) => Begun(k)
  /\ Has(q, Pending(k)) => Fresh(k)
  /\ ~Fresh(k) => Begun(k)

HandlerInv(h) ==
  LET n == NodeOf[h] IN
  /\ Once(cmds[n], Handling(h))
  /\ h \in handlers[n] => ~Has(cmds[n], Handling(h)) /\ handled[h] = 0
  /\ Has(cmds[n], Handling(h)) => handled[h] = 0
  /\ handled[h] <= 1

Placed == \A n \in Nodes : cmds[n] \in Seq(Place(n))
StartsInv == \A j \in Jobs : StartInv(j)
AddsInv == \A k \in Jobs : AddInv(k) /\ HandlerInv(k)

\* Jobs that add jobs are on nodes that do not crash under them.
AddersStay == \A k \in Jobs : AddedBy[k] # NoJob => NodeOf[AddedBy[k]] \notin Crashing

OnceInv == Placed /\ StartsInv /\ (AddersStay => AddsInv)

-----------------------------------------------------------------------------
(* Sequences *)

\* q has nothing of T that p has not, and nothing of T twice unless p has.
Fewer(q, p, T) == (Has(q, T) => Has(p, T)) /\ (Once(p, T) => Once(q, T))

\* Without its head a sequence has fewer of everything.
LEMMA DropFewer ==
  ASSUME NEW S, NEW q \in Seq(S), q # <<>>, NEW T
  PROVE  /\ Fewer(Tail(q), q, T)
         /\ Head(q) \in T => Has(q, T)
         /\ Head(q) \in T /\ Once(q, T) => ~Has(Tail(q), T)
<1>1. /\ Len(q) \in Nat /\ Len(q) > 0 /\ DOMAIN q = 1..Len(q)
      /\ DOMAIN Tail(q) = 1..(Len(q) - 1)
      /\ Head(q) = q[1] /\ 1 \in DOMAIN q
  OBVIOUS
<1>2. \A i \in DOMAIN Tail(q) :
        i \in Nat /\ i + 1 \in DOMAIN q /\ i + 1 # 1 /\ Tail(q)[i] = q[i + 1]
  BY <1>1
<1>3. Has(Tail(q), T) => Has(q, T)
  BY <1>2 DEF Has
<1>4. ASSUME Once(q, T), NEW i \in DOMAIN Tail(q), NEW k \in DOMAIN Tail(q),
             Tail(q)[i] \in T, Tail(q)[k] \in T
      PROVE  i = k
  <2>1. i + 1 = k + 1
    BY <1>2, <1>4 DEF Once
  <2> QED
    BY <1>2, <2>1
<1>5. ASSUME Head(q) \in T, Once(q, T), Has(Tail(q), T)
      PROVE  FALSE
  <2>1. PICK i \in DOMAIN Tail(q) : Tail(q)[i] \in T
    BY <1>5 DEF Has
  <2>2. i + 1 = 1
    BY <1>1, <1>2, <1>5, <2>1 DEF Once
  <2> QED
    BY <1>2, <2>1, <2>2
<1> QED
  BY <1>1, <1>3, <1>4, <1>5 DEF Fewer, Has, Once

\* What is put behind a sequence counts only by itself.
LEMMA AppendTokens ==
  ASSUME NEW S, NEW q \in Seq(S), NEW R, NEW r \in Seq(R), NEW T
  PROVE  /\ Has(q \o r, T) <=> Has(q, T) \/ Has(r, T)
         /\ Once(q, T) /\ Once(r, T) /\ ~(Has(q, T) /\ Has(r, T)) => Once(q \o r, T)
<1>1. /\ Len(q) \in Nat /\ Len(r) \in Nat
      /\ DOMAIN q = 1..Len(q) /\ DOMAIN r = 1..Len(r)
      /\ DOMAIN (q \o r) = 1..(Len(q) + Len(r))
  OBVIOUS
<1>2. \A i \in DOMAIN (q \o r) :
        (q \o r)[i] = IF i \in DOMAIN q THEN q[i] ELSE r[i - Len(q)]
  BY <1>1
<1>3. \A i \in DOMAIN (q \o r) : i \in DOMAIN q \/ i - Len(q) \in DOMAIN r
  BY <1>1
<1>4. /\ \A i \in DOMAIN q : i \in DOMAIN (q \o r) /\ (q \o r)[i] = q[i]
      /\ \A i \in DOMAIN r : /\ i + Len(q) \in DOMAIN (q \o r)
                             /\ (q \o r)[i + Len(q)] = r[i]
  BY <1>1
<1>5. Has(q \o r, T) <=> Has(q, T) \/ Has(r, T)
  BY <1>2, <1>3, <1>4 DEF Has
<1>6. ASSUME Once(q, T), Once(r, T), ~(Has(q, T) /\ Has(r, T)),
             NEW i \in DOMAIN (q \o r), NEW k \in DOMAIN (q \o r),
             (q \o r)[i] \in T, (q \o r)[k] \in T
      PROVE  i = k
  <2>1. CASE i \in DOMAIN q /\ k \in DOMAIN q
    BY <1>2, <1>6, <2>1 DEF Once
  <2>2. CASE i \notin DOMAIN q /\ k \notin DOMAIN q
    <3>1. /\ i - Len(q) \in DOMAIN r /\ k - Len(q) \in DOMAIN r
          /\ r[i - Len(q)] \in T /\ r[k - Len(q)] \in T
      BY <1>2, <1>3, <1>6, <2>2
    <3>2. i - Len(q) = k - Len(q)
      BY <1>6, <3>1 DEF Once
    <3> QED
      BY <1>1, <3>2
  <2>3. CASE i \in DOMAIN q /\ k \notin DOMAIN q
    BY <1>2, <1>3, <1>6, <2>3 DEF Has
  <2>4. CASE i \notin DOMAIN q /\ k \in DOMAIN q
    BY <1>2, <1>3, <1>6, <2>4 DEF Has
  <2> QED
    BY <2>1, <2>2, <2>3, <2>4
<1> QED
  BY <1>5, <1>6 DEF Once

\* One command.
LEMMA UnitTokens ==
  ASSUME NEW x, NEW T
  PROVE  (Has(<<x>>, T) <=> x \in T) /\ Once(<<x>>, T)
<1>1. DOMAIN <<x>> = {1} /\ <<x>>[1] = x
  OBVIOUS
<1> QED
  BY <1>1 DEF Has, Once

\* None of the commands R is in T.
LEMMA ForeignTokens ==
  ASSUME NEW R, NEW r \in Seq(R), NEW T, T \cap R = {}
  PROVE  ~Has(r, T) /\ Once(r, T)
<1>1. \A i \in DOMAIN r : r[i] \in R
  OBVIOUS
<1> QED
  BY <1>1 DEF Has, Once

\* Putting such commands behind a sequence changes nothing.
LEMMA ExtendFewer ==
  ASSUME NEW S, NEW q \in Seq(S), NEW R, NEW r \in Seq(R), NEW T, T \cap R = {}
  PROVE  Fewer(q \o r, q, T)
BY AppendTokens, ForeignTokens DEF Fewer

\* Nor does a sequence with nothing of T in it.
LEMMA ExtendWithout ==
  ASSUME NEW S, NEW q \in Seq(S), NEW R, NEW r \in Seq(R), NEW T,
         ~Has(r, T), Once(r, T)
  PROVE  Fewer(q \o r, q, T)
BY AppendTokens DEF Fewer

\* A command may take the place of the head when it counts no more than it.
LEMMA ReplaceFewer ==
  ASSUME NEW S, NEW q \in Seq(S), q # <<>>, NEW x \in S, NEW T,
         x \in T => Head(q) \in T
  PROVE  Fewer(Tail(q) \o <<x>>, q, T)
<1>1. Tail(q) \in Seq(S) /\ <<x>> \in Seq(S)
  BY TailIsSeq, UnitIsSeq
<1>2. /\ Has(Tail(q) \o <<x>>, T) <=> Has(Tail(q), T) \/ x \in T
      /\ Once(Tail(q), T) /\ ~(Has(Tail(q), T) /\ x \in T) => Once(Tail(q) \o <<x>>, T)
  BY <1>1, AppendTokens, UnitTokens
<1>3. /\ Fewer(Tail(q), q, T)
      /\ Head(q) \in T => Has(q, T)
      /\ Head(q) \in T /\ Once(q, T) => ~Has(Tail(q), T)
  BY DropFewer
<1> QED
  BY <1>2, <1>3 DEF Fewer

\* Nothing, and fewer still.
LEMMA FewerFacts ==
  ASSUME NEW q, NEW p, NEW o, NEW T
  PROVE  /\ Fewer(q, q, T)
         /\ Fewer(q, p, T) /\ Fewer(p, o, T) => Fewer(q, o, T)
BY DEF Fewer

\* An empty pipeline.
LEMMA EmptyTokens == ASSUME NEW T PROVE ~Has(<<>>, T) /\ Once(<<>>, T)
BY DEF Has, Once

\* One command each for the jobs S, no two of which are in T together.
LEMMA OrderTokens ==
  ASSUME NEW S \in SUBSET Jobs, NEW order \in SetToSeqs(S), NEW op, NEW T,
         \A i, k \in S : JobCommand(op, i) \in T /\ JobCommand(op, k) \in T => i = k
  PROVE  LET r == [i \in DOMAIN order |-> JobCommand(op, order[i])] IN
         /\ Once(r, T)
         /\ Has(r, T) => \E j \in S : JobCommand(op, j) \in T
<1> DEFINE r == [i \in DOMAIN order |-> JobCommand(op, order[i])]
<1>1. /\ \A i \in DOMAIN order : order[i] \in S
      /\ \A i, k \in DOMAIN order : order[i] = order[k] => i = k
  <2>1. /\ order \in [1..Cardinality(S) -> S]
        /\ \A i, k \in 1..Cardinality(S) : i # k => order[i] # order[k]
    BY Zenon DEF SetToSeqs
  <2>2. DOMAIN order = 1..Cardinality(S)
    BY <2>1
  <2> QED
    BY <2>1, <2>2
<1>2. DOMAIN r = DOMAIN order /\ \A i \in DOMAIN order : r[i] = JobCommand(op, order[i])
  OBVIOUS
<1> HIDE DEF r
<1>3. Once(r, T)
  BY <1>1, <1>2 DEF Once
<1>4. Has(r, T) => \E j \in S : JobCommand(op, j) \in T
  BY <1>1, <1>2 DEF Has
<1> QED
  BY <1>3, <1>4 DEF r

-----------------------------------------------------------------------------
(* Commands *)

\* The sets of commands that count have no plain one.
LEMMA TokenSets ==
  ASSUME NEW j
  PROVE  /\ Chain(j) \subseteq Command \ Plain
         /\ Handling(j) \subseteq Command \ Plain
         /\ Adds(j) \subseteq Command \ Plain
         /\ Pending(j) \subseteq Command \ Plain
         /\ Late(j) \subseteq Command \ Plain
BY DEF Chain, Starting, Handling, Adds, Pending, Late, Plain, Adding

\* Plain commands may be issued by every node.
LEMMA PlainIsPlaced ==
  ASSUME NEW n
  PROVE  Plain \subseteq Place(n) /\ Seq(Plain) \subseteq Seq(Place(n))
<1>1. Plain \subseteq Place(n)
  BY DEF Plain, Place, Adding
<1> QED
  BY <1>1

\* What is plain.
LEMMA PlainFacts ==
  ASSUME NEW c \in Command,
         \/ c.op \in {"ready", "store", "finish", "list", "running", "tree", "node_jobs", "publish"}
         \/ c.op \in {"get", "set"} /\ c.then # "on_running"
  PROVE  c \in Plain
BY DEF Plain, Starting, Adding

\* The commands of set_state_tree.
LEMMA ListIsPlain ==
  ASSUME NEW j \in Jobs, NEW from \in States, NEW to \in {"WAITING", "ABORTED"},
         NEW node \in Nodes \cup {NoNode}, NEW then \in TreeConts,
         NEW by \in Jobs \cup {NoJob}, NEW todo \in SUBSET Jobs
  PROVE  /\ ListCommand(j, from, to, node, then) \in Plain
         /\ [ListCommand(j, from, to, node, then) EXCEPT !.by = by] \in Plain
         /\ [ListCommand(j, from, to, node, then) EXCEPT !.todo = todo] \in Plain
<1>1. /\ ListCommand(j, from, to, node, then) \in Command
      /\ [ListCommand(j, from, to, node, then) EXCEPT !.by = by] \in Command
      /\ [ListCommand(j, from, to, node, then) EXCEPT !.todo = todo] \in Command
  BY ListIsGood DEF Good
<1>2. /\ ListCommand(j, from, to, node, then).op = "list"
      /\ [ListCommand(j, from, to, node, then) EXCEPT !.by = by].op = "list"
      /\ [ListCommand(j, from, to, node, then) EXCEPT !.todo = todo].op = "list"
  BY BlankType DEF ListCommand, Command
<1> QED
  BY <1>1, <1>2, PlainFacts

\* The other two searches of handle_failure.
LEMMA TreeCommandIsPlain ==
  ASSUME NEW j \in Jobs, NEW op \in {"running", "tree"}
  PROVE  TreeCommand(op, j) \in Plain
<1>1. TreeCommand(op, j) \in Command
  BY TreeCommandIsGood DEF Good
<1>2. TreeCommand(op, j).op = op
  BY BlankType DEF TreeCommand, Command
<1> QED
  BY <1>1, <1>2, PlainFacts

\* A job ends, and its state is published.
LEMMA StatusIsPlain ==
  ASSUME NEW j \in Jobs, NEW s \in States
  PROVE  Publish(j, s) \in Plain /\ Completed(j, s) \in Plain
<1>1. Publish(j, s) \in Command /\ Completed(j, s) \in Command
  BY PublishIsGood, CompletedIsGood DEF Good
<1>2. /\ Publish(j, s).op = "publish"
      /\ Completed(j, s).op \in {"store", "finish"}
  BY BlankType DEF Publish, Completed, Command
<1> QED
  BY <1>1, <1>2, PlainFacts

-----------------------------------------------------------------------------
(* Steps that issue plain commands only *)

\* No pipeline gets a command that is not plain.
Quiet == \A m \in Nodes : \A T \in SUBSET (Command \ Plain) : Fewer(cmds'[m], cmds[m], T)

\* What a node issues it may issue.
LEMMA QueuePlaced ==
  ASSUME IInv, Placed, NEW n \in Nodes, NEW next \in Seq(Place(n)),
         (cmds[n] # <<>> /\ Issue(n, next)) \/ Enqueue(n, next)
  PROVE  Placed'
<1>1. /\ \A m \in Nodes : cmds[m] \in Seq(Place(m))
      /\ DOMAIN cmds = Nodes
  BY DEF Placed, IInv
<1>2. CASE cmds[n] # <<>> /\ Issue(n, next)
  <2>1. Tail(cmds[n]) \o next \in Seq(Place(n))
    BY <1>1, <1>2, TailIsSeq, ConcatIsSeq
  <2> QED
    BY <1>1, <1>2, <2>1 DEF Placed, Issue
<1>3. CASE Enqueue(n, next)
  <2>1. cmds[n] \o next \in Seq(Place(n))
    BY <1>1, ConcatIsSeq
  <2> QED
    BY <1>1, <1>3, <2>1 DEF Placed, Enqueue
<1> QED
  BY <1>2, <1>3

\* Commands outside T leave T alone.
LEMMA QueueFewer ==
  ASSUME IInv, Placed, NEW n \in Nodes, NEW R, NEW next \in Seq(R),
         (cmds[n] # <<>> /\ Issue(n, next)) \/ Enqueue(n, next),
         NEW T, T \cap R = {}, NEW m \in Nodes
  PROVE  Fewer(cmds'[m], cmds[m], T)
<1>1. cmds[n] \in Seq(Place(n)) /\ DOMAIN cmds = Nodes
  BY DEF Placed, IInv
<1>2. CASE m = n /\ cmds[n] # <<>> /\ Issue(n, next)
  <2>1. Tail(cmds[n]) \in Seq(Place(n)) /\ cmds'[n] = Tail(cmds[n]) \o next
    BY <1>1, <1>2, TailIsSeq DEF Issue
  <2>2. Fewer(Tail(cmds[n]) \o next, Tail(cmds[n]), T) /\ Fewer(Tail(cmds[n]), cmds[n], T)
    BY <1>1, <1>2, <2>1, ExtendFewer, DropFewer
  <2> QED
    BY <1>2, <2>1, <2>2, FewerFacts
<1>3. CASE m = n /\ Enqueue(n, next)
  BY <1>1, <1>3, ExtendFewer DEF Enqueue
<1>4. CASE m # n
  BY <1>1, <1>4, FewerFacts DEF Issue, Enqueue
<1> QED
  BY <1>2, <1>3, <1>4

\* A reply is taken off or not, and plain commands are issued.
LEMMA PlainIssue ==
  ASSUME IInv, Placed, NEW n \in Nodes, NEW next \in Seq(Plain),
         (cmds[n] # <<>> /\ Issue(n, next)) \/ Enqueue(n, next) \/ UNCHANGED cmds
  PROVE  Quiet /\ Placed'
<1>1. CASE UNCHANGED cmds
  BY <1>1, FewerFacts DEF Quiet, Placed
<1>2. CASE (cmds[n] # <<>> /\ Issue(n, next)) \/ Enqueue(n, next)
  <2>1. Placed'
    BY <1>2, PlainIsPlaced, QueuePlaced
  <2>2. ASSUME NEW m \in Nodes, NEW T \in SUBSET (Command \ Plain)
        PROVE  Fewer(cmds'[m], cmds[m], T)
    <3>1. T \cap Plain = {}
      OBVIOUS
    <3> QED
      BY <1>2, <3>1, QueueFewer
  <2> QED
    BY <2>1, <2>2 DEF Quiet
<1> QED
  BY <1>1, <1>2

\* A status is sent, and then plain commands are issued.
LEMMA PlainSend ==
  ASSUME IInv, Placed, NEW n \in Nodes, NEW S \in SUBSET Jobs, NEW s \in States,
         NEW before, before = cmds[n] \/ (cmds[n] # <<>> /\ before = Tail(cmds[n])),
         NEW next \in Seq(Plain), SendJobStatus(n, S, s, before, next)
  PROVE  Quiet /\ Placed'
<1>1. PICK order \in SetToSeqs(S) :
        cmds' = [cmds EXCEPT ![n] =
                   before \o [i \in DOMAIN order |-> Publish(order[i], s)] \o next]
  BY DEF SendJobStatus
<1> DEFINE sent == [i \in DOMAIN order |-> Publish(order[i], s)]
<1>2. sent \in Seq(Plain)
  <2>1. PICK k \in Nat : DOMAIN order = 1..k
    BY OrderIsSeq
  <2>2. \A j \in Jobs : Publish(j, s) \in Plain
    BY StatusIsPlain
  <2>3. \A i \in 1..k : Publish(order[i], s) \in Plain
    BY <2>1, <2>2, OrderIsSeq
  <2> QED
    BY <2>1, <2>3
<1>3. cmds' = [cmds EXCEPT ![n] = (before \o sent) \o next]
  BY <1>1
<1> HIDE DEF sent
<1>4. /\ \A m \in Nodes : cmds[m] \in Seq(Place(m))
      /\ sent \in Seq(Place(n)) /\ next \in Seq(Place(n))
      /\ DOMAIN cmds = Nodes
  BY <1>2, PlainIsPlaced DEF Placed, IInv
<1>5. before \in Seq(Place(n)) /\ before \o sent \in Seq(Place(n))
  BY <1>4, TailIsSeq, ConcatIsSeq
<1>6. /\ \A m \in Nodes \ {n} : cmds'[m] = cmds[m]
      /\ cmds'[n] = (before \o sent) \o next
  BY <1>3, <1>4
<1>7. cmds'[n] \in Seq(Place(n))
  BY <1>4, <1>5, <1>6, ConcatIsSeq
<1>8. ASSUME NEW T \in SUBSET (Command \ Plain)
      PROVE  Fewer(cmds'[n], cmds[n], T)
  <2>1. Fewer((before \o sent) \o next, before \o sent, T)
    BY <1>5, ExtendFewer
  <2>2. Fewer(before \o sent, before, T)
    BY <1>2, <1>5, ExtendFewer
  <2>3. Fewer(before, cmds[n], T)
    BY <1>4, DropFewer, FewerFacts
  <2> QED
    BY <1>6, <2>1, <2>2, <2>3, FewerFacts
<1> QED
  BY <1>4, <1>6, <1>7, <1>8, FewerFacts DEF Quiet, Placed

-----------------------------------------------------------------------------
(* What keeps each part of the invariant *)

\* Nothing is started, added or handled, and no job is lost.
Calm ==
  /\ UNCHANGED <<inStartup, handlers, starts, handled>>
  /\ spent'.crashes = spent.crashes
  /\ \A j \in Jobs : act'[j] = "active" => act[j] = "active"

Grows == \A j \in Jobs : Exists(j) => Exists(j)'

\* Nothing is started.
LEMMA StartKept ==
  ASSUME NEW j \in Jobs, StartInv(j),
         Fewer(cmds'[NodeOf[j]], cmds[NodeOf[j]], Chain(j)),
         j \in inStartup[NodeOf[j]] => j \in inStartup'[NodeOf[j]],
         starts'[j] = starts[j], spent'.crashes = spent.crashes,
         act'[j] = "active" => act[j] = "active"
  PROVE  StartInv(j)'
BY DEF StartInv, Fewer, Lives

\* A batch that has begun stays so.
LEMMA BegunGrows ==
  ASSUME NEW k \in Jobs, starts \in [Jobs -> Nat], starts' \in [Jobs -> Nat],
         Grows,
         \A j \in Jobs : starts[j] <= starts'[j],
         \A j \in Jobs : act'[j] = "active" => act[j] = "active"
  PROVE  Begun(k) => Begun(k)'
<1>1. Root[k] \in Jobs /\ AddedBy[k] \in Jobs \cup {NoJob}
  BY ForestAssumption, ManagerAssumption
<1>2. \A j \in Jobs : starts[j] > 0 => starts'[j] > 0
  <2> TAKE j \in Jobs
  <2>1. starts[j] \in Nat /\ starts'[j] \in Nat /\ starts[j] <= starts'[j]
    OBVIOUS
  <2> QED
    BY <2>1
<1> QED
  BY <1>1, <1>2 DEF Begun, Grows

\* Nothing is added.
LEMMA AddKept ==
  ASSUME NEW k \in Jobs, AddInv(k),
         Fewer(cmds'[Adder(k)], cmds[Adder(k)], Adds(k)),
         Fewer(cmds'[Adder(k)], cmds[Adder(k)], Late(k)),
         Fewer(cmds'[Adder(k)], cmds[Adder(k)], Pending(k)),
         Begun(k) => Begun(k)', Fresh(k) => Fresh(k)'
  PROVE  AddInv(k)'
BY DEF AddInv, Fewer

\* No handler is registered, taken out or run.
LEMMA HandlerKept ==
  ASSUME NEW h \in Jobs, HandlerInv(h),
         Fewer(cmds'[NodeOf[h]], cmds[NodeOf[h]], Handling(h)),
         h \in handlers'[NodeOf[h]] => h \in handlers[NodeOf[h]],
         handled'[h] = handled[h]
  PROVE  HandlerInv(h)' /\ (Fresh(h) => Fresh(h)')
BY DEF HandlerInv, Fewer, Fresh

\* Jobs are started, handled and added on nodes.
LEMMA NodesOf ==
  ASSUME NEW j \in Jobs
  PROVE  NodeOf[j] \in Nodes /\ Adder(j) \in Nodes /\ Root[j] \in Jobs
BY ForestAssumption, ManagerAssumption DEF Adder

\* No pipeline gets a command that counts.
Tame ==
  \A j \in Jobs :
    /\ Fewer(cmds'[NodeOf[j]], cmds[NodeOf[j]], Chain(j))
    /\ Fewer(cmds'[NodeOf[j]], cmds[NodeOf[j]], Handling(j))
    /\ Fewer(cmds'[Adder(j)], cmds[Adder(j)], Adds(j))
    /\ Fewer(cmds'[Adder(j)], cmds[Adder(j)], Late(j))
    /\ Fewer(cmds'[Adder(j)], cmds[Adder(j)], Pending(j))

\* Plain commands do not count.
LEMMA QuietIsTame == Quiet => Tame
BY TokenSets, NodesOf DEF Quiet, Tame

\* A step that starts, adds and handles nothing.
LEMMA TameSafe ==
  ASSUME IInv, OnceInv, Tame, Placed', Calm, Grows
  PROVE  OnceInv'
<1>1. ASSUME NEW j \in Jobs
      PROVE  StartInv(j)'
  BY <1>1, StartKept DEF Tame, Calm, OnceInv, StartsInv
<1>2. ASSUME AddersStay, NEW j \in Jobs
      PROVE  AddInv(j)' /\ HandlerInv(j)'
  <2>1. AddInv(j) /\ HandlerInv(j)
    BY <1>2 DEF OnceInv, AddsInv
  <2>2. HandlerInv(j)' /\ (Fresh(j) => Fresh(j)')
    BY <2>1, HandlerKept DEF Tame, Calm
  <2>3. Begun(j) => Begun(j)'
    <3>1. starts \in [Jobs -> Nat] /\ starts' \in [Jobs -> Nat]
          /\ \A i \in Jobs : starts[i] <= starts'[i]
      BY DEF IInv, RunnerTypes, Calm
    <3> QED
      BY <3>1, BegunGrows DEF Calm
  <2> QED
    BY <2>1, <2>2, <2>3, AddKept DEF Tame
<1> QED
  BY <1>1, <1>2 DEF OnceInv, StartsInv, AddsInv

\* A step that issues plain commands, and starts, adds and handles nothing.
LEMMA QuietSafe ==
  ASSUME IInv, OnceInv, Quiet, Placed', Calm, Grows
  PROVE  OnceInv'
BY QuietIsTame, TameSafe

\* No transaction makes a job vanish.
LEMMA StoreGrows ==
  ASSUME IInv,
         \/ UNCHANGED storeVars
         \/ \E j \in Jobs : AddTx(j) \/ ContextTx(j)
         \/ \E j \in Jobs, from \in States \cup {Absent}, to \in States : SetTx(j, from, to)
  PROVE  Grows
<1>1. state \in [Jobs -> States \cup {Absent}] /\ Absent \notin States
  BY DEF IInv, StoreTypeOK, States, Absent
<1>2. CASE UNCHANGED storeVars \/ \E j \in Jobs : ContextTx(j)
  BY <1>2 DEF storeVars, ContextTx, Grows, Exists
<1>3. ASSUME NEW j \in Jobs, NEW to \in States, state' = [state EXCEPT ![j] = to]
      PROVE  Grows
  BY <1>1, <1>3 DEF Grows, Exists
<1>4. "NEW" \in States
  BY DEF States
<1> QED
  BY <1>2, <1>3, <1>4 DEF AddTx, SetTx

-----------------------------------------------------------------------------
(* The quiet steps *)

\* The callback of set_state_tree.
LEMMA TreeSetQuiet ==
  ASSUME IInv, Placed, NEW n \in Nodes, cmds[n] # <<>>, NEW c \in Good(succeeded),
         c.then \in TreeConts, TreeSet(n, c)
  PROVE  Quiet /\ Placed' /\ (UNCHANGED spent => Calm)
<1>1. /\ c \in Command /\ c.tree \in Jobs /\ c.by \in Jobs \cup {NoJob}
      /\ c.all \in SUBSET Jobs /\ c.todo \in SUBSET Jobs
      /\ c.node \in Nodes \cup {NoNode}
  BY DEF Good, Command
<1>2. "WAITING" \in States /\ "ABORTED" \in States /\ "SUCCESS" \in States
      /\ "RUNNING" \in States /\ <<>> \in Seq(Plain)
  BY DEF States
<1>3. ASSUME NEW S \in SUBSET Jobs, NEW s \in {"WAITING", "ABORTED"},
             NEW next \in Seq(Plain), SendJobStatus(n, S, s, Tail(cmds[n]), next)
      PROVE  Quiet /\ Placed'
  BY <1>2, <1>3, PlainSend
<1>4. UNCHANGED spent => Calm
  <2>1. \A j \in Jobs : act'[j] = "active" => act[j] = "active"
    <3>1. act' = act \/ act' = [act EXCEPT ![c.by] = "reported"]
      BY DEF TreeSet
    <3>2. act \in [Jobs -> Activities]
      BY DEF IInv, RunnerTypes
    <3> QED
      BY <3>1, <3>2
  <2> QED
    BY <2>1 DEF TreeSet, Calm
<1>5. CASE \E next \in {<<>>} \cup {<<Completed(c.by, "SUCCESS")>>} :
             /\ next # <<>> => c.by # NoJob
             /\ SendJobStatus(n, {c.tree}, "WAITING", Tail(cmds[n]), next)
  <2>1. PICK next : /\ next = <<>> \/ (next = <<Completed(c.by, "SUCCESS")>> /\ c.by # NoJob)
                    /\ SendJobStatus(n, {c.tree}, "WAITING", Tail(cmds[n]), next)
    BY <1>5
  <2>2. next \in Seq(Plain)
    BY <1>1, <1>2, <2>1, StatusIsPlain, UnitIsSeq
  <2> QED
    BY <1>1, <1>3, <1>4, <2>1, <2>2
<1>6. CASE SendJobStatus(n, c.all, "ABORTED", Tail(cmds[n]), <<>>)
  BY <1>1, <1>2, <1>3, <1>4, <1>6
<1>7. CASE SendJobStatus(n, c.all, "ABORTED", Tail(cmds[n]),
             <<[ListCommand(c.tree, "RUNNING", "ABORTED", c.node, "force_running")
                  EXCEPT !.todo = c.todo]>>)
  <2>1. [ListCommand(c.tree, "RUNNING", "ABORTED", c.node, "force_running")
           EXCEPT !.todo = c.todo] \in Plain
    BY <1>1, <1>2, ListIsPlain DEF TreeConts
  <2> QED
    BY <1>1, <1>3, <1>4, <1>7, <2>1, UnitIsSeq
<1>8. CASE \E j \in c.todo : SendJobStatus(n, c.all, "ABORTED", Tail(cmds[n]),
                                <<ForceAbort(j, c.node, c.todo \ {j})>>)
  <2>1. PICK j \in c.todo : SendJobStatus(n, c.all, "ABORTED", Tail(cmds[n]),
                              <<ForceAbort(j, c.node, c.todo \ {j})>>)
    BY <1>8
  <2>2. ForceAbort(j, c.node, c.todo \ {j}) \in Plain
    BY <1>1, <1>2, ListIsPlain DEF ForceAbort, TreeConts
  <2> QED
    BY <1>1, <1>3, <1>4, <2>1, <2>2, UnitIsSeq
<1> QED
  BY <1>5, <1>6, <1>7, <1>8 DEF TreeSet

\* set_state_tree goes on with the next job, or ends.
LEMMA NextInTreeQuiet ==
  ASSUME IInv, Placed, NEW n \in Nodes, cmds[n] # <<>>, NEW c \in Good(succeeded),
         c.then \in TreeConts, NextInTree(n, c)
  PROVE  Quiet /\ Placed' /\ Calm
<1>1. CASE c.left = {} /\ TreeSet(n, c)
  <2>1. UNCHANGED spent
    BY <1>1 DEF TreeSet
  <2> QED
    BY <1>1, <2>1, TreeSetQuiet
<1>2. CASE /\ \E j \in c.left :
                Issue(n, <<[c EXCEPT !.op = "get", !.job = j, !.left = c.left \ {j}]>>)
           /\ UNCHANGED <<up, loop, inbox, managerVars, act, history, spent>>
  <2>1. PICK j \in c.left :
          Issue(n, <<[c EXCEPT !.op = "get", !.job = j, !.left = c.left \ {j}]>>)
    BY <1>2, ZenonT(40)
  <2>2. [c EXCEPT !.op = "get", !.job = j, !.left = c.left \ {j}] \in Plain
    BY DEF Good, Command, Ops, TreeConts, Plain, Starting, Adding
  <2> QED
    BY <1>2, <2>1, <2>2, UnitIsSeq, PlainIssue DEF Calm, managerVars, history
<1> QED
  BY <1>1, <1>2, ZenonT(40) DEF NextInTree

\* on_state_updated.
LEMMA FinishQuiet ==
  ASSUME IInv, Placed, NEW n \in Nodes, cmds[n] # <<>>, NEW j \in Jobs, NEW s \in States,
         FinishRunner(n, j, s)
  PROVE  Quiet /\ Placed' /\ Calm
<1>1. {j} \in SUBSET Jobs /\ <<>> \in Seq(Plain)
  OBVIOUS
<1>2. SendJobStatus(n, {j}, s, Tail(cmds[n]), <<>>)
  BY DEF FinishRunner
<1>3. Quiet /\ Placed'
  BY <1>1, <1>2, PlainSend
<1> QED
  BY <1>3 DEF FinishRunner, Calm, history

\* Replies that issue nothing that counts.
LEMMA QuietReply ==
  ASSUME IInv, OnceInv, NEW n \in Nodes,
         \/ StateUpdated(n) \/ ContextStored(n) \/ GotFinishedJob(n) \/ ListTree(n)
         \/ TreeJobSet(n) \/ AbortRunners(n) \/ NodeJobs(n) \/ PublishStatus(n)
  PROVE  OnceInv'
<1> DEFINE c == Head(cmds[n])
<1>1. cmds[n] # <<>>
  BY ZenonT(40) DEF StateUpdated, ContextStored, GotFinishedJob, ListTree, TreeJobSet,
         AbortRunners, NodeJobs, PublishStatus, Answer
<1>2. c \in Good(succeeded) /\ c \in Command
  BY <1>1, HeadIsGood
<1>3. c.op \in JobOps => c.job \in Jobs
  BY <1>2 DEF Good
<1>4. /\ c.to \in States /\ c.from \in States \cup {Absent} /\ <<>> \in Seq(Plain)
      /\ Placed
  BY <1>2 DEF Command, OnceInv
<1> HIDE DEF c
<1>5. CASE StateUpdated(n)
  <2>1. c.job \in Jobs /\ SetTx(c.job, c.from, c.to) /\ FinishRunner(n, c.job, c.to)
    BY <1>3, <1>5 DEF StateUpdated, Answer, JobOps, c
  <2>2. Grows
    BY <1>4, <2>1, StoreGrows
  <2> QED
    BY <1>1, <1>4, <2>1, <2>2, FinishQuiet, QuietSafe
<1>6. CASE ContextStored(n)
  <2> DEFINE next == [JobCommand("finish", c.job) EXCEPT !.to = c.to]
  <2>1. c.job \in Jobs /\ ContextTx(c.job) /\ Issue(n, <<next>>)
    BY <1>3, <1>6 DEF ContextStored, Answer, JobOps, c
  <2>2. next \in Plain
    BY <1>4, <2>1, BlankType DEF JobCommand, Command, Ops, Plain, Starting, Adding
  <2>3. Quiet /\ Placed'
    <3> HIDE DEF next
    <3> QED
      BY <1>1, <1>4, <2>1, <2>2, UnitIsSeq, PlainIssue
  <2>4. Calm
    BY <1>6 DEF ContextStored, Calm, managerVars, history
  <2> QED
    BY <2>1, <2>3, <2>4, StoreGrows, QuietSafe
<1>7. CASE GotFinishedJob(n)
  <2>1. c.op = "finish" /\ c.job \in Jobs /\ UNCHANGED storeVars
    BY <1>3, <1>7 DEF GotFinishedJob, Answer, JobOps, c
  <2>2. CASE FinishRunner(n, c.job, c.to)
    BY <1>1, <1>4, <2>1, <2>2, FinishQuiet, StoreGrows, QuietSafe
  <2>3. CASE /\ Issue(n, <<[c EXCEPT !.op = "get", !.then = "on_state_updated"]>>)
             /\ UNCHANGED <<up, loop, inbox, managerVars, act, history, spent>>
    <3>1. [c EXCEPT !.op = "get", !.then = "on_state_updated"] \in Plain
      <4>1. [c EXCEPT !.op = "get", !.then = "on_state_updated"] \in Command
        BY <1>2 DEF Command, Ops, Conts
      <4>2. /\ [c EXCEPT !.op = "get", !.then = "on_state_updated"].op = "get"
            /\ [c EXCEPT !.op = "get", !.then = "on_state_updated"].then = "on_state_updated"
        BY <1>2 DEF Command
      <4> QED
        BY <4>1, <4>2, PlainFacts
    <3>2. Quiet /\ Placed'
      BY <1>1, <1>4, <2>3, <3>1, UnitIsSeq, PlainIssue
    <3>3. Calm
      BY <2>3 DEF Calm, managerVars, history
    <3> QED
      BY <2>1, <3>2, <3>3, StoreGrows, QuietSafe
  <2> QED
    BY <1>7, <2>2, <2>3 DEF GotFinishedJob, c
<1>8. CASE ListTree(n)
  <2> DEFINE found == {j \in idx[c.from] \cap Tree(c.tree) :
                         c.node = NoNode \/ NodeOf[j] = c.node}
             d == [c EXCEPT !.left = found, !.all = found]
  <2>1. c.op = "list" /\ UNCHANGED storeVars /\ NextInTree(n, d)
    BY <1>8 DEF ListTree, Answer, c
  <2>2. found \in SUBSET Jobs
    BY DEF Tree
  <2>3. d \in Good(succeeded) /\ d.then \in TreeConts
    <3> HIDE DEF found
    <3> QED
      BY <1>2, <2>1, <2>2 DEF Good, Command, Ops, JobOps, TreeOps
  <2>4. Quiet /\ Placed' /\ Calm
    <3> HIDE DEF d
    <3> QED
      BY <1>1, <1>4, <2>1, <2>3, NextInTreeQuiet
  <2> QED
    BY <2>1, <2>4, StoreGrows, QuietSafe
<1>9. CASE TreeJobSet(n)
  <2>1. /\ c.op = "set" /\ c.then \notin {"on_running", "on_state_updated"}
        /\ SetTx(c.job, c.from, c.to) /\ NextInTree(n, c)
    BY <1>9 DEF TreeJobSet, Answer, c
  <2>2. c.then \in TreeConts
    BY <1>2, <2>1 DEF Good, Command, Conts, TreeConts
  <2>3. Grows
    BY <1>3, <1>4, <2>1, StoreGrows DEF JobOps
  <2> QED
    BY <1>1, <1>2, <1>4, <2>1, <2>2, <2>3, NextInTreeQuiet, QuietSafe
<1>10. CASE AbortRunners(n)
  <2>1. Issue(n, <<>>) /\ Calm /\ UNCHANGED storeVars
    BY <1>10 DEF AbortRunners, Calm, managerVars, history
  <2> QED
    BY <1>1, <1>4, <2>1, PlainIssue, StoreGrows, QuietSafe
<1>11. CASE NodeJobs(n)
  <2> DEFINE found == JobsOf(c.node) \cap (idx["RUNNING"] \cup
                                          IF c.node = n THEN {} ELSE idx["WAITING"])
  <2>1. Calm /\ UNCHANGED storeVars
    BY <1>11 DEF NodeJobs, Calm, managerVars, history
  <2>2. \/ Issue(n, <<>>)
        \/ \E j \in found : Issue(n, <<ForceAbort(j, c.node, found \ {j})>>)
    BY <1>11 DEF NodeJobs, c
  <2>3. found \in SUBSET Jobs /\ c.node \in Nodes \cup {NoNode}
    BY <1>2 DEF JobsOf, Command
  <2> HIDE DEF found
  <2>4. \A j \in found : ForceAbort(j, c.node, found \ {j}) \in Plain
    BY <2>3, ListIsPlain DEF ForceAbort, TreeConts, States
  <2>5. Quiet /\ Placed'
    BY <1>1, <1>4, <2>2, <2>4, UnitIsSeq, PlainIssue
  <2> QED
    BY <2>1, <2>5, StoreGrows, QuietSafe
<1>12. CASE PublishStatus(n)
  <2>1. Issue(n, <<>>) /\ Calm /\ UNCHANGED storeVars
    BY <1>12 DEF PublishStatus, Calm, managerVars, history
  <2> QED
    BY <1>1, <1>4, <2>1, PlainIssue, StoreGrows, QuietSafe
<1> QED
  BY <1>5, <1>6, <1>7, <1>8, <1>9, <1>10, <1>11, <1>12

\* The IO loop, messages, runners that end, users, checks and restarts.
LEMMA QuietRun ==
  ASSUME IInv, OnceInv,
         \/ \E n \in Nodes : Run(n) \/ OtherStatus(n) \/ Restart(n) \/ SweepNode(n)
         \/ \E j \in Jobs : Succeed(j) \/ Fail(j) \/ UserAbort(j)
  PROVE  OnceInv'
<1>1. Placed /\ act \in [Jobs -> Activities] /\ spent \in [crashes : Nat, aborts : Nat]
      /\ "SUCCESS" \in States /\ "FAILED" \in States /\ "ABORTED" \in States
      /\ "WAITING" \in States
  BY DEF OnceInv, IInv, RunnerTypes, States
<1>2. ASSUME NEW n \in Nodes, NEW next \in Seq(Plain), Enqueue(n, next) \/ UNCHANGED cmds,
             Calm, UNCHANGED storeVars
      PROVE  OnceInv'
  BY <1>1, <1>2, PlainIssue, StoreGrows, QuietSafe
<1>3. ASSUME NEW n \in Nodes, Evaluate(n) \/ OtherStatus(n)
      PROVE  OnceInv'
  <2>1. [Blank EXCEPT !.op = "ready"] \in Plain
    BY BlankType DEF Command, Ops, Plain, Starting, Adding
  <2>2. /\ Enqueue(n, <<[Blank EXCEPT !.op = "ready"]>>)
        /\ Calm /\ UNCHANGED storeVars
    BY <1>3 DEF Evaluate, OtherStatus, Calm, managerVars, history
  <2> QED
    BY <1>2, <2>1, <2>2, UnitIsSeq
<1>4. ASSUME NEW n \in Nodes, HandleFailure(n)
      PROVE  OnceInv'
  <2> DEFINE j == Head(loop[n]).job
             next == <<ListCommand(j, "WAITING", "ABORTED", n, "handle_failure"),
                       TreeCommand("running", j), TreeCommand("tree", j)>>
  <2>1. Runs(n, "handle_failure") /\ Enqueue(n, next) /\ Calm /\ UNCHANGED storeVars
    BY <1>4 DEF HandleFailure, Calm, managerVars, history
  <2>2. j \in Jobs
    BY <2>1, RunsGood
  <2>3. /\ ListCommand(j, "WAITING", "ABORTED", n, "handle_failure") \in Plain
        /\ TreeCommand("running", j) \in Plain /\ TreeCommand("tree", j) \in Plain
    BY <1>1, <2>2, ListIsPlain, TreeCommandIsPlain DEF TreeConts
  <2>4. next \in Seq(Plain)
    BY <2>3
  <2> HIDE DEF next
  <2> QED
    BY <1>2, <2>1, <2>4
<1>5. ASSUME NEW n \in Nodes, AbortJob(n)
      PROVE  OnceInv'
  <2> DEFINE j == Head(loop[n]).job
  <2>1. Runs(n, "abort_job") /\ UNCHANGED storeVars
    BY <1>5 DEF AbortJob
  <2>2. j \in Jobs
    BY <2>1, RunsGood
  <2>3. <<Completed(j, "ABORTED")>> \in Seq(Plain)
    BY <1>1, <2>2, StatusIsPlain, UnitIsSeq
  <2>4. Enqueue(n, <<Completed(j, "ABORTED")>>) \/ UNCHANGED cmds
    BY <1>5 DEF AbortJob
  <2>5. Calm
    BY <1>1, <1>5, <2>2 DEF AbortJob, Calm, managerVars, history
  <2> QED
    BY <1>2, <2>1, <2>3, <2>4, <2>5
<1>6. ASSUME NEW n \in Nodes, Receive(n)
      PROVE  OnceInv'
  <2>1. UNCHANGED cmds /\ Calm /\ UNCHANGED storeVars
    BY <1>6 DEF Receive, Calm, history
  <2>2. <<>> \in Seq(Plain)
    OBVIOUS
  <2> QED
    BY <1>2, <2>1, <2>2
<1>7. ASSUME NEW n \in Nodes, NEW t \in Nodes,
             Enqueue(n, <<[Blank EXCEPT !.op = "node_jobs", !.node = t]>>),
             Calm, UNCHANGED storeVars
      PROVE  OnceInv'
  <2>1. [Blank EXCEPT !.op = "node_jobs", !.node = t] \in Plain
    BY BlankType DEF Command, Ops, Plain, Starting, Adding
  <2> QED
    BY <1>2, <1>7, <2>1, UnitIsSeq
<1>8. ASSUME NEW n \in Nodes, Restart(n)
      PROVE  OnceInv'
  <2>1. /\ Enqueue(n, <<[Blank EXCEPT !.op = "node_jobs", !.node = n]>>)
        /\ Calm /\ UNCHANGED storeVars
    BY <1>8, ZenonT(40) DEF Restart, Calm, managerVars, history
  <2> QED
    BY <1>7, <2>1, ZenonT(40)
<1>9. ASSUME NEW t \in Nodes, SweepNode(t)
      PROVE  OnceInv'
  <2>1. /\ Enqueue(Pacemaker, <<[Blank EXCEPT !.op = "node_jobs", !.node = t]>>)
        /\ Calm /\ UNCHANGED storeVars
    BY <1>1, <1>9, ZenonT(40) DEF SweepNode, Calm, managerVars, history
  <2> QED
    BY <1>7, <2>1, ManagerAssumption, ZenonT(40)
<1>10. ASSUME NEW j \in Jobs, Succeed(j) \/ Fail(j)
       PROVE  OnceInv'
  <2>1. PICK s \in {"SUCCESS", "FAILED"} : Enqueue(NodeOf[j], <<Completed(j, s)>>)
    BY <1>10 DEF Succeed, Fail
  <2>2. Calm /\ UNCHANGED storeVars
    BY <1>1, <1>10 DEF Succeed, Fail, Calm, managerVars, history
  <2>3. <<Completed(j, s)>> \in Seq(Plain)
    BY <1>1, StatusIsPlain, UnitIsSeq
  <2> QED
    BY <1>2, <2>1, <2>2, <2>3, NodesOf
<1>11. ASSUME NEW j \in Jobs, UserAbort(j)
       PROVE  OnceInv'
  <2>1. SendJobStatus(Pacemaker, {j}, "ABORTED", cmds[Pacemaker], <<>>)
    BY <1>11 DEF UserAbort
  <2>2. Pacemaker \in Nodes /\ {j} \in SUBSET Jobs /\ <<>> \in Seq(Plain)
    BY ManagerAssumption
  <2>3. Quiet /\ Placed'
    BY <1>1, <2>1, <2>2, PlainSend
  <2>4. Calm /\ UNCHANGED storeVars
    BY <1>1, <1>11 DEF UserAbort, Calm, history
  <2> QED
    BY <2>3, <2>4, StoreGrows, QuietSafe
<1> QED
  BY <1>3, <1>4, <1>5, <1>6, <1>8, <1>9, <1>10, <1>11 DEF Run

-----------------------------------------------------------------------------
(* The steps of _start_job, of add_tree and of abort handlers *)

\* A command takes the place of the head, which counted as much.
LEMMA ReplaceSafe ==
  ASSUME IInv, OnceInv, NEW n \in Nodes, cmds[n] # <<>>, NEW x \in Place(n),
         Issue(n, <<x>>), Calm, Grows,
         \A j \in Jobs : /\ x \in Chain(j) => Head(cmds[n]) \in Chain(j)
                         /\ x \in Handling(j) => Head(cmds[n]) \in Handling(j)
                         /\ x \in Adds(j) => Head(cmds[n]) \in Adds(j)
                         /\ x \in Late(j) => Head(cmds[n]) \in Late(j)
                         /\ x \in Pending(j) => Head(cmds[n]) \in Pending(j)
  PROVE  OnceInv'
<1>1. Placed /\ cmds[n] \in Seq(Place(n)) /\ DOMAIN cmds = Nodes
  BY DEF OnceInv, Placed, IInv
<1>2. Placed'
  BY <1>1, UnitIsSeq, QueuePlaced
<1>3. cmds'[n] = Tail(cmds[n]) \o <<x>> /\ \A m \in Nodes \ {n} : cmds'[m] = cmds[m]
  BY <1>1 DEF Issue
<1>4. ASSUME NEW T, x \in T => Head(cmds[n]) \in T, NEW m \in Nodes
      PROVE  Fewer(cmds'[m], cmds[m], T)
  BY <1>1, <1>3, <1>4, ReplaceFewer, FewerFacts
<1>5. ASSUME NEW j \in Jobs
      PROVE  /\ Fewer(cmds'[NodeOf[j]], cmds[NodeOf[j]], Chain(j))
             /\ Fewer(cmds'[NodeOf[j]], cmds[NodeOf[j]], Handling(j))
             /\ Fewer(cmds'[Adder(j)], cmds[Adder(j)], Adds(j))
             /\ Fewer(cmds'[Adder(j)], cmds[Adder(j)], Late(j))
             /\ Fewer(cmds'[Adder(j)], cmds[Adder(j)], Pending(j))
  <2>1. NodeOf[j] \in Nodes /\ Adder(j) \in Nodes
    BY NodesOf
  <2>2. Fewer(cmds'[NodeOf[j]], cmds[NodeOf[j]], Chain(j))
    BY <1>4, <2>1
  <2>3. Fewer(cmds'[NodeOf[j]], cmds[NodeOf[j]], Handling(j))
    BY <1>4, <2>1
  <2>4. Fewer(cmds'[Adder(j)], cmds[Adder(j)], Adds(j))
    BY <1>4, <2>1
  <2>5. Fewer(cmds'[Adder(j)], cmds[Adder(j)], Late(j))
    BY <1>4, <2>1
  <2>6. Fewer(cmds'[Adder(j)], cmds[Adder(j)], Pending(j))
    BY <1>4, <2>1
  <2> QED
    BY <2>2, <2>3, <2>4, <2>5, <2>6
<1> QED
  BY <1>2, <1>5, TameSafe DEF Tame

\* The lookups of the root before a command is executed, and the round trips
\* of _start_job and of an abort handler.
LEMMA RoundTrip ==
  ASSUME IInv, OnceInv, NEW n \in Nodes,
         \/ GetRoot(n) \/ Instantiate(n) \/ GotContext(n) \/ GotCurrentState(n)
         \/ AbortHandlerJob(n)
  PROVE  OnceInv'
<1> DEFINE c == Head(cmds[n])
<1>1. cmds[n] # <<>> /\ UNCHANGED storeVars
  BY DEF GetRoot, Instantiate, GotContext, GotCurrentState, AbortHandlerJob, Answer
<1>2. c \in Good(succeeded) /\ c \in Command /\ c \in Place(n)
  <2>1. cmds[n] \in Seq(Place(n))
    BY DEF OnceInv, Placed
  <2> QED
    BY <1>1, <2>1, HeadIsGood, TailIsSeq
<1>3. c.op \in JobOps => c.job \in Jobs
  BY <1>2 DEF Good
<1>4. Grows
  BY <1>1, StoreGrows
<1>5. Calm
  <2>1. CASE GetRoot(n) \/ Instantiate(n) \/ GotContext(n)
    BY <2>1 DEF GetRoot, Instantiate, GotContext, Calm, managerVars, history
  <2>2. CASE GotCurrentState(n) \/ AbortHandlerJob(n)
    BY <2>2 DEF GotCurrentState, AbortHandlerJob, Calm, managerVars, history
  <2> QED
    BY <2>1, <2>2
<1> HIDE DEF c
<1>6. ASSUME NEW x \in Command, Issue(n, <<x>>), x.job = c.job,
             x \in Starting => c \in Starting,
             x.op \in {"handler_job", "handler_context"} =>
               c.op \in {"handler_job", "handler_context"},
             x.op # "count", x.op \notin Adding
      PROVE  OnceInv'
  <2>1. x \in Place(n)
    BY <1>2, <1>6 DEF Place, Adding
  <2>2. \A j \in Jobs : /\ x \in Chain(j) => c \in Chain(j)
                        /\ x \in Handling(j) => c \in Handling(j)
                        /\ x \notin Adds(j) /\ x \notin Late(j) /\ x \notin Pending(j)
    BY <1>2, <1>6 DEF Chain, Handling, Adds, Late, Pending
  <2> QED
    BY <1>1, <1>4, <1>5, <1>6, <2>1, <2>2, ReplaceSafe DEF c
<1>7. CASE GetRoot(n)
  <2> DEFINE x == [c EXCEPT !.hop = FALSE]
  <2>1. /\ x \in Command /\ x.op = c.op /\ x.job = c.job /\ x.left = c.left
        /\ x.then = c.then /\ x.by = c.by
    BY <1>2 DEF Command
  <2>2. Issue(n, <<x>>)
    BY <1>7 DEF GetRoot, c
  <2> HIDE DEF x
  <2>3. x \in Place(n)
    BY <1>2, <2>1 DEF Place, Starting
  <2>4. \A j \in Jobs : /\ x \in Chain(j) => c \in Chain(j)
                        /\ x \in Handling(j) => c \in Handling(j)
                        /\ x \in Adds(j) => c \in Adds(j)
                        /\ x \in Late(j) => c \in Late(j)
                        /\ x \in Pending(j) => c \in Pending(j)
    BY <1>2, <2>1 DEF Chain, Starting, Handling, Adds, Late, Pending
  <2> QED
    BY <1>1, <1>4, <1>5, <2>2, <2>3, <2>4, ReplaceSafe DEF c
<1>8. CASE Instantiate(n)
  <2> DEFINE x == [JobCommand("context", c.job) EXCEPT !.hop = TRUE]
  <2>1. c.op = "fetch" /\ Issue(n, <<x>>) /\ c.job \in Jobs
    BY <1>3, <1>8 DEF Instantiate, Answer, JobOps, c
  <2>2. x \in Command /\ x.op = "context" /\ x.job = c.job
    BY <2>1, BlankType DEF JobCommand, Command, Ops
  <2> HIDE DEF x
  <2>3. c \in Starting
    BY <1>2, <2>1 DEF Starting
  <2> QED
    BY <1>6, <2>1, <2>2, <2>3 DEF Adding
<1>9. CASE GotContext(n)
  <2> DEFINE x == [JobCommand("get", c.job) EXCEPT !.to = "RUNNING",
                     !.then = "on_running", !.all = ContextOf(c.job)]
  <2>1. c.op = "context" /\ Issue(n, <<x>>) /\ c.job \in Jobs
    BY <1>3, <1>9 DEF GotContext, Answer, JobOps, c
  <2>2. ContextOf(c.job) \in SUBSET Jobs
    BY DEF ContextOf, Tree
  <2>3. x \in Command /\ x.op = "get" /\ x.job = c.job
    <3> HIDE DEF c
    <3> QED
      BY <2>1, <2>2, BlankType DEF JobCommand, Command, Ops, Conts, States
  <2> HIDE DEF x
  <2>4. c \in Starting
    BY <1>2, <2>1 DEF Starting
  <2> QED
    BY <1>6, <2>1, <2>3, <2>4 DEF Adding
<1>10. CASE GotCurrentState(n)
  <2> DEFINE x == [c EXCEPT !.op = "set", !.from = state[c.job]]
  <2>1. c.op = "get" /\ Issue(n, <<x>>) /\ c.job \in Jobs
    BY <1>3, <1>10 DEF GotCurrentState, Answer, JobOps, c
  <2>2. state[c.job] \in States \cup {Absent}
    BY <2>1 DEF IInv, StoreTypeOK
  <2>3. x \in Command /\ x.op = "set" /\ x.job = c.job /\ x.then = c.then
    BY <1>2, <2>2 DEF Command, Ops
  <2> HIDE DEF x
  <2>4. x \in Starting => c \in Starting
    BY <1>2, <2>1, <2>3 DEF Starting
  <2> QED
    BY <1>6, <2>1, <2>3, <2>4 DEF Adding
<1>11. CASE AbortHandlerJob(n)
  <2> DEFINE x == [JobCommand("handler_context", c.job) EXCEPT !.hop = TRUE]
  <2>1. c.op = "handler_job" /\ Issue(n, <<x>>) /\ c.job \in Jobs
    BY <1>3, <1>11 DEF AbortHandlerJob, Answer, JobOps, c
  <2>2. x \in Command /\ x.op = "handler_context" /\ x.job = c.job
    BY <2>1, BlankType DEF JobCommand, Command, Ops
  <2> HIDE DEF x
  <2>3. x \notin Starting
    BY <2>2 DEF Starting
  <2> QED
    BY <1>6, <2>1, <2>2, <2>3 DEF Adding
<1> QED
  BY <1>7, <1>8, <1>9, <1>10, <1>11

\* evaluate looks for waiting jobs of its own node.
LEMMA WaitingSafe ==
  ASSUME IInv, OnceInv, NEW n \in Nodes, WaitingJobs(n)
  PROVE  OnceInv'
<1> DEFINE waiting == idx["WAITING"] \cap JobsOf(n)
           x == [Blank EXCEPT !.op = "count", !.left = waiting]
<1>1. /\ cmds[n] # <<>> /\ UNCHANGED storeVars /\ Calm
      /\ Issue(n, <<>>) \/ Issue(n, <<x>>)
  BY DEF WaitingJobs, Answer, Calm, managerVars, history
<1>2. Grows /\ Placed
  BY <1>1, StoreGrows DEF OnceInv
<1>3. CASE Issue(n, <<>>)
  <2>1. <<>> \in Seq(Plain)
    OBVIOUS
  <2> QED
    BY <1>1, <1>2, <1>3, <2>1, PlainIssue, QuietSafe
<1>4. CASE Issue(n, <<x>>)
  <2>1. waiting \subseteq JobsOf(n) /\ waiting \in SUBSET Jobs
    BY DEF JobsOf
  <2> HIDE DEF waiting
  <2>2. x \in Command /\ x.op = "count" /\ x.left = waiting
    BY <2>1, BlankType DEF Command, Ops
  <2> HIDE DEF x
  <2>3. x \in Place(n)
    BY <2>1, <2>2 DEF Place, Starting, Adding
  <2>4. \A j \in Jobs : /\ x \notin Chain(j) /\ x \notin Handling(j) /\ x \notin Adds(j)
                        /\ x \notin Late(j) /\ x \notin Pending(j)
    BY <2>2 DEF Chain, Starting, Handling, Adds, Late, Pending, Adding
  <2> QED
    BY <1>1, <1>2, <1>4, <2>3, <2>4, ReplaceSafe
<1> QED
  BY <1>1, <1>3, <1>4

\* A node has had one process, and one more after each of its crashes.
LEMMA LivesFacts ==
  ASSUME IInv, NEW n \in Nodes
  PROVE  Lives(n) \in Nat /\ Lives(n) > 0 /\ (n \notin Crashing => Lives(n) = 1)
<1>1. spent.crashes \in Nat
  BY DEF IInv, RunnerTypes
<1> QED
  BY <1>1 DEF Lives

\* _start_job for the ready jobs that are not in in_startup.
LEMMA StartJobsSafe ==
  ASSUME IInv, OnceInv, NEW n \in Nodes, StartJobs(n)
  PROVE  OnceInv'
<1> DEFINE c == Head(cmds[n])
           new == {j \in c.left : Ready(j)} \ inStartup[n]
<1>1. /\ cmds[n] # <<>> /\ c.op = "count" /\ UNCHANGED storeVars
      /\ inStartup' = [inStartup EXCEPT ![n] = @ \cup new]
      /\ UNCHANGED <<handlers, starts, handled, spent, act>>
  BY DEF StartJobs, Answer, history
<1>2. PICK order \in SetToSeqs(new) :
        Issue(n, [i \in DOMAIN order |-> JobCommand("fetch", order[i])])
  BY DEF StartJobs
<1> DEFINE r == [i \in DOMAIN order |-> JobCommand("fetch", order[i])]
<1>3. /\ Placed /\ cmds[n] \in Seq(Place(n)) /\ DOMAIN cmds = Nodes
      /\ inStartup \in [Nodes -> SUBSET Jobs] /\ starts \in [Jobs -> Nat]
  BY DEF OnceInv, Placed, IInv, NodeTypes, RunnerTypes
<1>4. new \in SUBSET Jobs /\ new \subseteq JobsOf(n) /\ new \cap inStartup[n] = {}
  <2>1. c \in Place(n) /\ c \in Command
    BY <1>1, <1>3, TailIsSeq, HeadIsGood
  <2> QED
    BY <1>1, <2>1 DEF Place, Command
<1> HIDE DEF c, new
<1>5. \A j \in Jobs : /\ JobCommand("fetch", j) \in Command
                      /\ JobCommand("fetch", j).op = "fetch"
                      /\ JobCommand("fetch", j).job = j
  BY BlankType DEF JobCommand, Command, Ops
<1> DEFINE Fetches == {d \in Command : d.op = "fetch" /\ NodeOf[d.job] = n}
<1>6. r \in Seq(Fetches)
  <2>1. PICK k \in Nat : DOMAIN order = 1..k
    BY <1>4, OrderIsSeq
  <2>2. \A i \in 1..k : JobCommand("fetch", order[i]) \in Fetches
    BY <1>4, <1>5, <2>1, OrderIsSeq DEF JobsOf
  <2> QED
    BY <2>1, <2>2
<1>7. r \in Seq(Place(n))
  <2>1. Fetches \subseteq Place(n)
    BY DEF Place, Starting, Adding
  <2> QED
    BY <1>6, <2>1
<1>8. \A j \in Jobs : JobCommand("fetch", j) \in Chain(j)
                      /\ \A i \in Jobs : JobCommand("fetch", i) \in Chain(j) => i = j
  BY <1>5 DEF Chain, Starting
<1>9. ASSUME NEW j \in Jobs
      PROVE  Once(r, Chain(j)) /\ (Has(r, Chain(j)) => j \in new)
  <2>1. \A i, k \in new : JobCommand("fetch", i) \in Chain(j)
                          /\ JobCommand("fetch", k) \in Chain(j) => i = k
    BY <1>4, <1>8
  <2>2. /\ Once(r, Chain(j))
        /\ Has(r, Chain(j)) => \E i \in new : JobCommand("fetch", i) \in Chain(j)
    BY <1>4, <2>1, OrderTokens
  <2> QED
    BY <1>4, <1>8, <2>2
<1> HIDE DEF r, Fetches
<1>10. /\ cmds'[n] = Tail(cmds[n]) \o r
       /\ \A m \in Nodes \ {n} : cmds'[m] = cmds[m]
  BY <1>2, <1>3 DEF Issue, r
<1>11. Placed' /\ Issue(n, r)
  BY <1>1, <1>2, <1>3, <1>7, QueuePlaced DEF r
<1>12. Grows
  BY <1>1, StoreGrows
<1>13. ASSUME NEW j \in Jobs
       PROVE  StartInv(j)'
  <2>1. StartInv(j) /\ NodeOf[j] \in Nodes
    BY NodesOf DEF OnceInv, StartsInv
  <2>2. CASE NodeOf[j] # n
    <3>1. cmds'[NodeOf[j]] = cmds[NodeOf[j]] /\ inStartup'[NodeOf[j]] = inStartup[NodeOf[j]]
      BY <1>1, <1>3, <1>10, <2>1, <2>2
    <3> QED
      BY <1>1, <2>1, <3>1, FewerFacts, StartKept
  <2>3. CASE NodeOf[j] = n /\ j \notin new
    <3>1. Tail(cmds[n]) \in Seq(Place(n)) /\ Fewer(Tail(cmds[n]), cmds[n], Chain(j))
      BY <1>1, <1>3, TailIsSeq, DropFewer
    <3>2. ~Has(r, Chain(j)) /\ Once(r, Chain(j))
      BY <1>9, <2>3
    <3>3. Fewer(cmds'[n], cmds[n], Chain(j))
      <4>1. Fewer(Tail(cmds[n]) \o r, Tail(cmds[n]), Chain(j))
        BY <1>7, <3>1, <3>2, ExtendWithout
      <4> QED
        BY <1>10, <3>1, <4>1, FewerFacts
    <3>4. j \in inStartup[n] => j \in inStartup'[n]
      BY <1>1, <1>3
    <3> QED
      BY <1>1, <2>1, <2>3, <3>3, <3>4, StartKept
  <2>4. CASE NodeOf[j] = n /\ j \in new
    <3>1. Tail(cmds[n]) \in Seq(Place(n)) /\ Fewer(Tail(cmds[n]), cmds[n], Chain(j))
      BY <1>1, <1>3, TailIsSeq, DropFewer
    <3>2. j \notin inStartup[n] /\ j \in inStartup'[n]
      BY <1>1, <1>3, <1>4, <2>4
    <3>3. starts[j] <= Lives(n) /\ starts[j] # Lives(n) /\ ~Has(cmds[n], Chain(j))
          /\ (act[j] = "active" => starts[j] > 0)
      BY <2>1, <2>4, <3>2 DEF StartInv
    <3>4. starts[j] < Lives(n)
      BY <1>3, <3>3, LivesFacts
    <3>5. ~Has(Tail(cmds[n]), Chain(j)) /\ Once(Tail(cmds[n]), Chain(j))
      BY <3>1, <3>3 DEF Fewer, Has, Once
    <3>6. Once(cmds'[n], Chain(j))
      BY <1>7, <1>9, <1>10, <3>1, <3>5, AppendTokens
    <3>7. Lives(n)' = Lives(n) /\ starts'[j] = starts[j] /\ act'[j] = act[j]
      BY <1>1 DEF Lives
    <3> QED
      BY <2>4, <3>2, <3>3, <3>4, <3>6, <3>7 DEF StartInv
  <2> QED
    BY <2>2, <2>3, <2>4
<1>14. ASSUME AddersStay, NEW k \in Jobs
       PROVE  AddInv(k)' /\ HandlerInv(k)'
  <2>1. AddInv(k) /\ HandlerInv(k) /\ NodeOf[k] \in Nodes /\ Adder(k) \in Nodes
    BY <1>14, NodesOf DEF OnceInv, AddsInv
  <2>2. /\ Handling(k) \cap Fetches = {} /\ Adds(k) \cap Fetches = {}
        /\ Late(k) \cap Fetches = {} /\ Pending(k) \cap Fetches = {}
    BY DEF Handling, Adds, Late, Pending, Fetches, Adding
  <2>3. /\ Fewer(cmds'[NodeOf[k]], cmds[NodeOf[k]], Handling(k))
        /\ Fewer(cmds'[Adder(k)], cmds[Adder(k)], Adds(k))
        /\ Fewer(cmds'[Adder(k)], cmds[Adder(k)], Late(k))
        /\ Fewer(cmds'[Adder(k)], cmds[Adder(k)], Pending(k))
    BY <1>1, <1>3, <1>6, <1>11, <2>1, <2>2, QueueFewer
  <2>4. HandlerInv(k)' /\ (Fresh(k) => Fresh(k)')
    BY <1>1, <2>1, <2>3, HandlerKept
  <2>5. Begun(k) => Begun(k)'
    BY <1>1, <1>3, <1>12, BegunGrows
  <2> QED
    BY <2>1, <2>3, <2>4, <2>5, AddKept
<1> QED
  BY <1>11, <1>13, <1>14 DEF OnceInv, StartsInv, AddsInv

\* on_running starts the runner, once.
LEMMA StartRunnerSafe ==
  ASSUME IInv, OnceInv, NEW n \in Nodes, StartRunner(n)
  PROVE  OnceInv'
<1> DEFINE c == Head(cmds[n])
<1>0. PICK j : j = c.job
  OBVIOUS
<1>1. /\ cmds[n] # <<>> /\ c.op = "set" /\ c.then = "on_running" /\ SetTx(j, c.from, c.to)
      /\ act' = [act EXCEPT ![j] = "active"]
      /\ starts' = [starts EXCEPT ![j] = @ + 1]
      /\ Issue(n, <<>>) /\ UNCHANGED <<inStartup, handlers, handled, spent>>
  BY <1>0 DEF StartRunner, Answer, managerVars
<1>2. /\ Placed /\ cmds[n] \in Seq(Place(n)) /\ DOMAIN cmds = Nodes
      /\ starts \in [Jobs -> Nat] /\ act \in [Jobs -> Activities]
  BY DEF OnceInv, Placed, IInv, RunnerTypes
<1>3. c \in Command /\ j \in Jobs /\ c \in Chain(j) /\ NodeOf[j] = n
  <2>1. c \in Place(n) /\ c \in Command /\ c \in Good(succeeded)
    BY <1>1, <1>2, TailIsSeq, HeadIsGood
  <2>2. j \in Jobs
    BY <1>0, <1>1, <2>1 DEF Good, JobOps
  <2> QED
    BY <1>0, <1>1, <2>1, <2>2 DEF Place, Starting, Chain
<1>4. Grows
  BY <1>1, <1>3, StoreGrows DEF Command
<1>5. Quiet /\ Placed'
  <2>1. <<>> \in Seq(Plain)
    OBVIOUS
  <2> QED
    BY <1>1, <1>2, <2>1, PlainIssue
<1>6. Tame
  BY <1>5, QuietIsTame
<1>7. StartInv(j) /\ Has(cmds[n], Chain(j)) /\ starts[j] < Lives(n) /\ j \in inStartup[n]
  <2>1. StartInv(j) /\ Has(cmds[n], Chain(j))
    BY <1>1, <1>2, <1>3, DropFewer DEF OnceInv, StartsInv
  <2> QED
    BY <1>3, <2>1 DEF StartInv
<1> HIDE DEF c
<1>8. StartInv(j)'
  <2>1. cmds'[n] = Tail(cmds[n])
    <3>1. Tail(cmds[n]) \o <<>> = Tail(cmds[n])
      BY <1>1, <1>2, TailIsSeq
    <3> QED
      BY <1>1, <1>2, <3>1 DEF Issue
  <2>2. ~Has(cmds'[n], Chain(j)) /\ Once(cmds'[n], Chain(j))
    BY <1>1, <1>2, <1>3, <1>7, <2>1, DropFewer DEF StartInv, Fewer, c
  <2>3. starts'[j] = starts[j] + 1 /\ starts[j] \in Nat /\ Lives(n) \in Nat /\ Lives(n)' = Lives(n)
    BY <1>1, <1>2, <1>3, LivesFacts DEF Lives
  <2>4. starts'[j] <= Lives(n)' /\ starts'[j] > 0
    BY <1>7, <2>3
  <2>5. j \in inStartup'[n]
    BY <1>1, <1>7
  <2> QED
    BY <1>3, <2>2, <2>4, <2>5 DEF StartInv
<1>9. ASSUME NEW i \in Jobs, i # j
      PROVE  StartInv(i)'
  <2>1. StartInv(i) /\ starts'[i] = starts[i] /\ act'[i] = act[i]
    BY <1>1, <1>2, <1>9 DEF OnceInv, StartsInv
  <2> QED
    BY <1>1, <1>6, <2>1, StartKept DEF Tame
<1>10. ASSUME AddersStay, NEW k \in Jobs
       PROVE  AddInv(k)' /\ HandlerInv(k)'
  <2>1. AddInv(k) /\ HandlerInv(k)
    BY <1>10 DEF OnceInv, AddsInv
  <2>2. HandlerInv(k)' /\ (Fresh(k) => Fresh(k)')
    BY <1>1, <1>6, <2>1, HandlerKept DEF Tame
  <2>3. CASE AddedBy[k] # j
    <3>1. AddedBy[k] \in Jobs \cup {NoJob} /\ Root[k] \in Jobs
      BY ForestAssumption, ManagerAssumption
    <3>2. AddedBy[k] \in Jobs => /\ starts'[AddedBy[k]] = starts[AddedBy[k]]
                                 /\ act'[AddedBy[k]] = act[AddedBy[k]]
      BY <1>1, <1>2, <2>3
    <3>3. Begun(k) => Begun(k)'
      BY <1>4, <3>1, <3>2 DEF Begun, Grows
    <3> QED
      BY <1>6, <2>1, <2>2, <3>3, AddKept DEF Tame
  <2>4. CASE AddedBy[k] = j
    <3>1. j # NoJob /\ n \notin Crashing
      BY <1>3, <1>10, <2>4, JobsAssumption DEF AddersStay
    <3>2. ~(starts[j] > 0)
      BY <1>2, <1>3, <1>7, <3>1, LivesFacts
    <3>3. ~Begun(k)
      BY <2>4, <3>1, <3>2 DEF Begun
    <3>4. Fresh(k)' /\ ~Has(cmds[Adder(k)], Late(k)) /\ Once(cmds[Adder(k)], Adds(k))
      BY <2>1, <2>2, <3>3 DEF AddInv
    <3> QED
      BY <1>6, <2>2, <3>4 DEF AddInv, Tame, Fewer
  <2> QED
    BY <2>2, <2>3, <2>4
<1> QED
  BY <1>5, <1>8, <1>9, <1>10 DEF OnceInv, StartsInv, AddsInv

\* Only the store's jobs and handlers matter to a step that starts nothing.
LEMMA NothingStarted ==
  ASSUME IInv, OnceInv, Grows, UNCHANGED <<inStartup, starts>>,
         spent'.crashes = spent.crashes,
         \A j \in Jobs : act'[j] = "active" => act[j] = "active",
         \A j \in Jobs : Fewer(cmds'[NodeOf[j]], cmds[NodeOf[j]], Chain(j))
  PROVE  StartsInv' /\ \A k \in Jobs : Begun(k) => Begun(k)'
<1>1. \A j \in Jobs : StartInv(j)'
  BY StartKept DEF OnceInv, StartsInv
<1>2. ASSUME NEW k \in Jobs
      PROVE  Begun(k) => Begun(k)'
  <2>1. /\ starts \in [Jobs -> Nat] /\ starts' \in [Jobs -> Nat]
        /\ \A j \in Jobs : starts[j] <= starts'[j]
    BY DEF IInv, RunnerTypes
  <2> QED
    BY <2>1, BegunGrows
<1> QED
  BY <1>1, <1>2 DEF StartsInv

\* on_complete_tree: handlers are taken out of abort_handlers as they are run.
LEMMA FindHandlersSafe ==
  ASSUME IInv, OnceInv, NEW n \in Nodes, FindAbortHandlers(n)
  PROVE  OnceInv'
<1>1. PICK found : found = {k \in Tree(Head(cmds[n]).tree) \cap JobsOf(n) \cap handlers[n] : Exists(k)}
  OBVIOUS
<1>2. /\ cmds[n] # <<>> /\ UNCHANGED storeVars
      /\ handlers' = [handlers EXCEPT ![n] = @ \ found]
      /\ UNCHANGED <<inStartup, starts, handled, spent, act>>
  BY <1>1 DEF FindAbortHandlers, Answer, history
<1>3. PICK order \in SetToSeqs(found) :
        Issue(n, [i \in DOMAIN order |-> JobCommand("handler_job", order[i])])
  BY <1>1 DEF FindAbortHandlers
<1>4. PICK r : r = [i \in DOMAIN order |-> JobCommand("handler_job", order[i])]
  OBVIOUS
<1>5. /\ Placed /\ cmds[n] \in Seq(Place(n)) /\ DOMAIN cmds = Nodes
      /\ handlers \in [Nodes -> SUBSET Jobs]
  BY DEF OnceInv, Placed, IInv, NodeTypes
<1>6. found \in SUBSET Jobs /\ found \subseteq JobsOf(n) /\ found \subseteq handlers[n]
  BY <1>1 DEF JobsOf
<1>7. \A j \in Jobs : /\ JobCommand("handler_job", j) \in Command
                      /\ JobCommand("handler_job", j).op = "handler_job"
                      /\ JobCommand("handler_job", j).job = j
  BY BlankType DEF JobCommand, Command, Ops
<1> DEFINE Lookups == {d \in Command : d.op = "handler_job" /\ NodeOf[d.job] = n}
<1>8. r \in Seq(Lookups)
  <2>1. PICK k \in Nat : DOMAIN order = 1..k
    BY <1>6, OrderIsSeq
  <2>2. \A i \in 1..k : JobCommand("handler_job", order[i]) \in Lookups
    BY <1>6, <1>7, <2>1, OrderIsSeq DEF JobsOf
  <2> QED
    BY <1>4, <2>1, <2>2
<1>9. r \in Seq(Place(n))
  <2>1. Lookups \subseteq Place(n)
    BY DEF Place, Starting, Adding
  <2> QED
    BY <1>8, <2>1
<1>10. ASSUME NEW j \in Jobs
       PROVE  Once(r, Handling(j)) /\ (Has(r, Handling(j)) => j \in found)
  <2>1. \A i \in Jobs : JobCommand("handler_job", i) \in Handling(j) => i = j
    BY <1>7 DEF Handling
  <2>2. \A i, k \in found : JobCommand("handler_job", i) \in Handling(j)
                            /\ JobCommand("handler_job", k) \in Handling(j) => i = k
    BY <1>6, <2>1
  <2>3. /\ Once(r, Handling(j))
        /\ Has(r, Handling(j)) => \E i \in found : JobCommand("handler_job", i) \in Handling(j)
    BY <1>4, <1>6, <2>2, OrderTokens
  <2> QED
    BY <1>6, <2>1, <2>3
<1> HIDE DEF Lookups
<1>11. /\ cmds'[n] = Tail(cmds[n]) \o r
       /\ \A m \in Nodes \ {n} : cmds'[m] = cmds[m]
  BY <1>3, <1>4, <1>5 DEF Issue
<1>12. Placed' /\ Issue(n, r)
  BY <1>2, <1>3, <1>4, <1>5, <1>9, QueuePlaced
<1>13. Grows
  BY <1>2, StoreGrows
<1>14. ASSUME NEW j \in Jobs
       PROVE  /\ Fewer(cmds'[NodeOf[j]], cmds[NodeOf[j]], Chain(j))
              /\ Fewer(cmds'[Adder(j)], cmds[Adder(j)], Adds(j))
              /\ Fewer(cmds'[Adder(j)], cmds[Adder(j)], Late(j))
              /\ Fewer(cmds'[Adder(j)], cmds[Adder(j)], Pending(j))
  <2>1. /\ Chain(j) \cap Lookups = {} /\ Adds(j) \cap Lookups = {}
        /\ Late(j) \cap Lookups = {} /\ Pending(j) \cap Lookups = {}
    BY DEF Chain, Starting, Adds, Late, Pending, Lookups, Adding
  <2> QED
    BY <1>2, <1>5, <1>8, <1>12, <2>1, NodesOf, QueueFewer
<1>15. StartsInv' /\ \A k \in Jobs : Begun(k) => Begun(k)'
  BY <1>2, <1>13, <1>14, NothingStarted
<1>16. ASSUME AddersStay, NEW h \in Jobs
       PROVE  HandlerInv(h)' /\ (Fresh(h) => Fresh(h)')
  <2>1. HandlerInv(h) /\ NodeOf[h] \in Nodes
    BY <1>16, NodesOf DEF OnceInv, AddsInv
  <2>2. CASE NodeOf[h] # n
    <3>1. cmds'[NodeOf[h]] = cmds[NodeOf[h]] /\ handlers'[NodeOf[h]] = handlers[NodeOf[h]]
      BY <1>2, <1>5, <1>11, <2>1, <2>2
    <3> QED
      BY <1>2, <2>1, <3>1, FewerFacts, HandlerKept
  <2>3. CASE NodeOf[h] = n /\ h \notin found
    <3>1. Tail(cmds[n]) \in Seq(Place(n)) /\ Fewer(Tail(cmds[n]), cmds[n], Handling(h))
      BY <1>2, <1>5, TailIsSeq, DropFewer
    <3>2. ~Has(r, Handling(h)) /\ Once(r, Handling(h))
      BY <1>10, <2>3
    <3>3. Fewer(Tail(cmds[n]) \o r, Tail(cmds[n]), Handling(h))
      BY <1>9, <3>1, <3>2, ExtendWithout
    <3>4. Fewer(cmds'[n], cmds[n], Handling(h))
      BY <1>11, <3>1, <3>3, FewerFacts
    <3>5. h \in handlers'[n] => h \in handlers[n]
      BY <1>2, <1>5
    <3> QED
      BY <1>2, <2>1, <2>3, <3>4, <3>5, HandlerKept
  <2>4. CASE NodeOf[h] = n /\ h \in found
    <3>1. Tail(cmds[n]) \in Seq(Place(n)) /\ Fewer(Tail(cmds[n]), cmds[n], Handling(h))
      BY <1>2, <1>5, TailIsSeq, DropFewer
    <3>2. h \in handlers[n] /\ h \notin handlers'[n]
      BY <1>2, <1>5, <1>6, <2>4
    <3>3. ~Has(cmds[n], Handling(h)) /\ handled[h] = 0 /\ ~Fresh(h) /\ Once(cmds[n], Handling(h))
      BY <2>1, <2>4, <3>2 DEF HandlerInv, Fresh
    <3>4. ~Has(Tail(cmds[n]), Handling(h)) /\ Once(Tail(cmds[n]), Handling(h))
      BY <3>1, <3>3 DEF Fewer
    <3>5. Once(cmds'[n], Handling(h))
      BY <1>9, <1>10, <1>11, <3>1, <3>4, AppendTokens
    <3> QED
      BY <1>2, <2>4, <3>2, <3>3, <3>5 DEF HandlerInv
  <2> QED
    BY <2>2, <2>3, <2>4
<1>17. ASSUME AddersStay, NEW k \in Jobs
       PROVE  AddInv(k)'
  <2>1. AddInv(k)
    BY <1>17 DEF OnceInv, AddsInv
  <2> QED
    BY <1>14, <1>15, <1>16, <1>17, <2>1, AddKept
<1> QED
  BY <1>12, <1>15, <1>16, <1>17 DEF OnceInv, AddsInv

\* The abort handler runs, and is not registered any more.
LEMMA RunHandlerSafe ==
  ASSUME IInv, OnceInv, NEW n \in Nodes, RunAbortHandler(n)
  PROVE  OnceInv'
<1>1. PICK i : i = Head(cmds[n]).job
  OBVIOUS
<1>2. /\ cmds[n] # <<>> /\ Head(cmds[n]).op = "handler_context" /\ UNCHANGED storeVars
      /\ handled' = [handled EXCEPT ![i] = @ + 1] /\ Issue(n, <<>>)
      /\ UNCHANGED <<inStartup, handlers, starts, spent, act>>
  BY <1>1 DEF RunAbortHandler, Answer, managerVars
<1>3. /\ Placed /\ cmds[n] \in Seq(Place(n)) /\ DOMAIN cmds = Nodes
      /\ handled \in [Jobs -> Nat]
  BY DEF OnceInv, Placed, IInv, RunnerTypes
<1>4. i \in Jobs /\ NodeOf[i] = n /\ Head(cmds[n]) \in Handling(i)
  <2>1. Head(cmds[n]) \in Place(n) /\ Head(cmds[n]) \in Command
        /\ Head(cmds[n]) \in Good(succeeded)
    BY <1>2, <1>3, TailIsSeq, HeadIsGood
  <2>2. i \in Jobs
    BY <1>1, <1>2, <2>1 DEF Good, JobOps
  <2> QED
    BY <1>1, <1>2, <2>1, <2>2 DEF Place, Handling
<1>5. Quiet /\ Placed'
  <2>1. <<>> \in Seq(Plain)
    OBVIOUS
  <2> QED
    BY <1>2, <1>3, <2>1, PlainIssue
<1>6. Tame
  BY <1>5, QuietIsTame
<1>7. Grows
  BY <1>2, StoreGrows
<1>8. StartsInv' /\ \A k \in Jobs : Begun(k) => Begun(k)'
  BY <1>2, <1>6, <1>7, NothingStarted DEF Tame
<1>9. ASSUME AddersStay
      PROVE  HandlerInv(i)' /\ ~Fresh(i)
  <2>1. HandlerInv(i) /\ Has(cmds[n], Handling(i))
    BY <1>2, <1>3, <1>4, <1>9, DropFewer DEF OnceInv, AddsInv
  <2>2. handled[i] = 0 /\ i \notin handlers[n] /\ Once(cmds[n], Handling(i))
    BY <1>4, <2>1 DEF HandlerInv
  <2>3. cmds'[n] = Tail(cmds[n])
    <3>1. Tail(cmds[n]) \o <<>> = Tail(cmds[n])
      BY <1>2, <1>3, TailIsSeq
    <3> QED
      BY <1>2, <1>3, <3>1 DEF Issue
  <2>4. ~Has(cmds'[n], Handling(i)) /\ Once(cmds'[n], Handling(i))
    BY <1>2, <1>3, <1>4, <2>2, <2>3, DropFewer DEF Fewer
  <2>5. handled'[i] = 1 /\ i \notin handlers'[n]
    BY <1>2, <1>3, <1>4, <2>2
  <2> QED
    BY <1>4, <2>1, <2>4, <2>5 DEF HandlerInv, Fresh
<1>10. ASSUME AddersStay, NEW h \in Jobs
       PROVE  HandlerInv(h)' /\ (Fresh(h) => Fresh(h)')
  <2>1. CASE h = i
    BY <1>9, <1>10, <2>1
  <2>2. CASE h # i
    <3>1. HandlerInv(h) /\ handled'[h] = handled[h]
      BY <1>2, <1>3, <1>10, <2>2 DEF OnceInv, AddsInv
    <3> QED
      BY <1>2, <1>6, <3>1, HandlerKept DEF Tame
  <2> QED
    BY <2>1, <2>2
<1>11. ASSUME AddersStay, NEW k \in Jobs
       PROVE  AddInv(k)'
  <2>1. AddInv(k)
    BY <1>11 DEF OnceInv, AddsInv
  <2> QED
    BY <1>6, <1>8, <1>10, <1>11, <2>1, AddKept DEF Tame
<1> QED
  BY <1>5, <1>8, <1>10, <1>11 DEF OnceInv, AddsInv

\* The jobs of one call of add_tree share their batch and its node.
LEMMA BatchFacts ==
  ASSUME NEW i \in Jobs, NEW k \in Jobs
  PROVE  /\ i \in Batch(i)
         /\ i \in Batch(k) => k \in Batch(i)
         /\ i \in Batch(k) => /\ Batch(i) = Batch(k) /\ Adder(i) = Adder(k)
                              /\ AddedBy[i] = AddedBy[k]
                              /\ AddedBy[k] = NoJob => Root[i] = Root[k]
BY DEF Batch, Adder

\* The command that adds j and then the rest of a batch, on the node that adds it.
LEMMA AddCommandFacts ==
  ASSUME NEW n, NEW j \in Jobs, Adder(j) = n, NEW left \in SUBSET Batch(j),
         NEW by, by = AddedBy[j]
  PROVE  \E x \in Place(n) :
           /\ x = AddCommand(j, left, by)
           /\ x \in Command /\ x.op = "add" /\ x.job = j /\ x.left = left \ {j}
<1>1. PICK x : x = AddCommand(j, left, by)
  OBVIOUS
<1>2. left \in SUBSET Jobs /\ by \in Jobs \cup {NoJob}
  BY ManagerAssumption DEF Batch
<1>3. x \in Command
  BY <1>1, <1>2, AddIsGood DEF Good
<1>4. x.op = "add" /\ x.job = j /\ x.left = left \ {j} /\ x.by = by
  BY <1>1, <1>2, BlankType DEF AddCommand, Command
<1>5. x \in Place(n)
  BY <1>2, <1>3, <1>4 DEF Place, Starting
<1> QED
  BY <1>1, <1>3, <1>4, <1>5

\* add_tree goes on with a job of its batch, or is done with it.
LEMMA AddNextFacts ==
  ASSUME NEW n \in Nodes, NEW c \in Command \cap Place(n), c.op \in Adding, AddNext(n, c)
  PROVE  \E x \in Command :
           /\ Issue(n, <<x>>)
           /\ x \in Place(n)
           /\ \/ x \in Plain
              \/ x.op = "add" /\ x.job \in c.left /\ x.left \subseteq c.left
<1>1. /\ c.job \in Jobs /\ Adder(c.job) = n /\ c.by = AddedBy[c.job]
      /\ c.left \subseteq Batch(c.job) \ {c.job}
  BY DEF Place
<1>2. c.left \in SUBSET Jobs /\ c.by \in Jobs \cup {NoJob} /\ Root[c.job] \in Jobs
  BY <1>1, NodesOf DEF Command
<1>3. CASE \E j \in NextJobs(c.job, c.left) : Issue(n, <<AddCommand(j, c.left, c.by)>>)
  <2>1. PICK j \in c.left : Issue(n, <<AddCommand(j, c.left, c.by)>>)
    BY <1>3 DEF NextJobs
  <2>2. /\ j \in Jobs /\ Adder(j) = n /\ c.left \in SUBSET Batch(j)
        /\ c.by = AddedBy[j]
    BY <1>1, <1>2, <2>1, BatchFacts
  <2>3. PICK x \in Place(n) :
          /\ x = AddCommand(j, c.left, c.by)
          /\ x \in Command /\ x.op = "add" /\ x.job = j /\ x.left = c.left \ {j}
    BY <2>2, AddCommandFacts
  <2> QED
    BY <2>1, <2>3
<1>4. CASE Issue(n, <<[ListCommand(Root[c.job], "NEW", "WAITING", NoNode,
                                   "allow_execution") EXCEPT !.by = c.by]>>)
  <2>1. [ListCommand(Root[c.job], "NEW", "WAITING", NoNode, "allow_execution")
           EXCEPT !.by = c.by] \in Plain
    BY <1>2, ListIsPlain DEF TreeConts, States
  <2>2. Plain \subseteq Command /\ Plain \subseteq Place(n)
    BY PlainIsPlaced DEF Plain
  <2> QED
    BY <1>4, <2>1, <2>2
<1> QED
  BY <1>3, <1>4 DEF AddNext

\* add_tree adds the next job, registers its abort handler, and goes on.
LEMMA AddJobSafe ==
  ASSUME IInv, OnceInv, NEW n \in Nodes, AddJob(n)
  PROVE  OnceInv'
<1>1. PICK c : c = Head(cmds[n])
  OBVIOUS
<1>2. PICK i : i = c.job
  OBVIOUS
<1>3. /\ cmds[n] # <<>> /\ c.op = "add" /\ AddTx(i)
      /\ handlers' = [handlers EXCEPT ![n] = @ \cup ({i} \cap AbortHandlers)]
      /\ UNCHANGED <<inStartup, starts, handled, spent, act>>
  BY <1>1, <1>2 DEF AddJob, Answer, history
<1>4. /\ Placed /\ cmds[n] \in Seq(Place(n)) /\ DOMAIN cmds = Nodes
      /\ handlers \in [Nodes -> SUBSET Jobs]
  BY DEF OnceInv, Placed, IInv, NodeTypes
<1>5. /\ c \in Command /\ i \in Jobs /\ Adder(i) = n /\ c.by = AddedBy[i]
      /\ c.left \subseteq Batch(i) \ {i}
  <2>1. c \in Place(n)
    BY <1>1, <1>3, <1>4, TailIsSeq
  <2> QED
    BY <1>2, <1>3, <2>1 DEF Place, Adding
<1>6. c.left \in SUBSET Jobs /\ c.by \in Jobs \cup {NoJob} /\ Root[i] \in Jobs
  BY <1>5, NodesOf DEF Command
<1>7. PICK x \in Command :
        /\ Issue(n, <<x>>)
        /\ x \in Place(n)
        /\ \/ x \in Plain
           \/ x.op = "add" /\ x.job \in c.left /\ x.left \subseteq c.left
           \/ x.op = "tag" /\ x.job = i /\ x.left = c.left
  <2>1. CASE AddNext(n, c)
    <3>1. c \in Place(n)
      BY <1>1, <1>3, <1>4, TailIsSeq
    <3> QED
      BY <1>3, <1>5, <2>1, <3>1, AddNextFacts DEF Adding
  <2>2. CASE Issue(n, <<[c EXCEPT !.op = "tag", !.hop = TRUE]>>)
    <3>1. PICK x : x = [c EXCEPT !.op = "tag", !.hop = TRUE]
      OBVIOUS
    <3>2. x \in Command /\ x.op = "tag" /\ x.job = i /\ x.left = c.left /\ x.by = c.by
      BY <1>2, <1>5, <3>1 DEF Command, Ops
    <3>3. x \in Place(n)
      BY <1>5, <3>2 DEF Place, Starting, Adding
    <3> QED
      BY <2>2, <3>1, <3>2, <3>3
  <2> QED
    BY <1>1, <2>1, <2>2 DEF AddJob
<1>8. /\ cmds'[n] = Tail(cmds[n]) \o <<x>>
      /\ \A m \in Nodes \ {n} : cmds'[m] = cmds[m]
      /\ Placed'
  BY <1>3, <1>4, <1>7, UnitIsSeq, QueuePlaced DEF Issue
<1>9. ASSUME NEW T, x \in T => c \in T, NEW m \in Nodes
      PROVE  Fewer(cmds'[m], cmds[m], T)
  <2>1. CASE m = n
    <3>1. Fewer(Tail(cmds[n]) \o <<x>>, cmds[n], T)
      BY <1>1, <1>3, <1>4, <1>7, <1>9, ReplaceFewer
    <3> QED
      BY <1>8, <2>1, <3>1
  <2>2. CASE m # n
    BY <1>8, <2>2, FewerFacts
  <2> QED
    BY <2>1, <2>2
<1>10. Grows
  BY <1>3, <1>5, StoreGrows
<1>11. ASSUME NEW k \in Jobs
       PROVE  /\ x \notin Chain(k) /\ x \notin Handling(k)
              /\ x \in Adds(k) => i \in Batch(k) /\ c \in Adds(k)
              /\ x \in Pending(k) => c \in Pending(k) /\ k # i
  <2>1. CASE x \in Plain
    BY <2>1, TokenSets
  <2>2. CASE x.op = "add" /\ x.job \in c.left /\ x.left \subseteq c.left
    <3>1. x.job \in Jobs /\ x.job \in Batch(i) /\ x.job # i
      BY <1>5, <1>6, <2>2
    <3>2. x \notin Chain(k) /\ x \notin Handling(k)
      BY <2>2 DEF Chain, Starting, Handling
    <3>3. x \in Adds(k) => i \in Batch(k) /\ c \in Adds(k)
      <4>1. x.job \in Batch(k) => i \in Batch(k)
        BY <1>5, <3>1, BatchFacts
      <4> QED
        BY <1>2, <1>3, <1>5, <4>1 DEF Adds, Adding
    <3>4. x \in Pending(k) => c \in Pending(k) /\ k # i
      <4>1. ASSUME x \in Pending(k)
            PROVE  k \in c.left
        BY <2>2, <4>1 DEF Pending
      <4> QED
        BY <1>5, <3>3, <4>1 DEF Pending
    <3> QED
      BY <3>2, <3>3, <3>4
  <2>3. CASE x.op = "tag" /\ x.job = i /\ x.left = c.left
    <3>1. x \notin Chain(k) /\ x \notin Handling(k)
      BY <2>3 DEF Chain, Starting, Handling
    <3>2. x \in Adds(k) => i \in Batch(k) /\ c \in Adds(k)
      BY <1>2, <1>3, <1>5, <2>3 DEF Adds, Adding
    <3>3. x \in Pending(k) => c \in Pending(k) /\ k # i
      BY <1>5, <2>3, <3>2 DEF Pending
    <3> QED
      BY <3>1, <3>2, <3>3
  <2> QED
    BY <1>7, <2>1, <2>2, <2>3
<1>12. StartsInv' /\ \A k \in Jobs : Begun(k) => Begun(k)'
  <2>1. \A j \in Jobs : Fewer(cmds'[NodeOf[j]], cmds[NodeOf[j]], Chain(j))
    BY <1>9, <1>11, NodesOf
  <2> QED
    BY <1>3, <1>10, <2>1, NothingStarted
<1>13. ASSUME AddersStay, NEW k \in Jobs, k # i
       PROVE  HandlerInv(k)' /\ (Fresh(k) => Fresh(k)')
  <2>1. HandlerInv(k)
    BY <1>13 DEF OnceInv, AddsInv
  <2>2. Fewer(cmds'[NodeOf[k]], cmds[NodeOf[k]], Handling(k))
    BY <1>9, <1>11, NodesOf
  <2>3. k \in handlers'[NodeOf[k]] => k \in handlers[NodeOf[k]]
    BY <1>3, <1>4, <1>13, NodesOf
  <2> QED
    BY <1>3, <2>1, <2>2, <2>3, HandlerKept
<1>14. c \in Adds(i) /\ c \in Pending(i)
  BY <1>2, <1>3, <1>5, BatchFacts DEF Adds, Pending, Adding
<1>15. ASSUME AddersStay
       PROVE  HandlerInv(i)'
  <2>1. AddInv(i) /\ HandlerInv(i)
    BY <1>5, <1>15 DEF OnceInv, AddsInv
  <2>2. Fresh(i)
    <3>1. Has(cmds[n], Pending(i))
      BY <1>1, <1>3, <1>4, <1>14, DropFewer
    <3> QED
      BY <1>5, <2>1, <3>1 DEF AddInv
  <2>3. Fewer(cmds'[NodeOf[i]], cmds[NodeOf[i]], Handling(i))
    BY <1>5, <1>9, <1>11, NodesOf
  <2> QED
    BY <1>3, <2>1, <2>2, <2>3 DEF HandlerInv, Fresh, Fewer
<1>16. ASSUME NEW k \in Jobs, i \in Batch(k), Has(cmds[n], Late(k)) => Begun(k)
       PROVE  Begun(k)'
  <2>1. CASE c \in Late(k)
    <3>1. Has(cmds[n], Late(k))
      BY <1>1, <1>3, <1>4, <2>1, DropFewer
    <3> QED
      BY <1>12, <1>16, <3>1
  <2>2. CASE c \notin Late(k)
    <3>1. AddedBy[k] = NoJob /\ i = Root[k]
      BY <1>2, <1>3, <1>5, <1>16, <2>2 DEF Late, Adds, Adding
    <3>2. Exists(i)'
      BY <1>3, <1>5 DEF AddTx, IInv, StoreTypeOK, Exists, Absent
    <3> QED
      BY <3>1, <3>2 DEF Begun, Exists
  <2> QED
    BY <2>1, <2>2
<1>17. ASSUME AddersStay, NEW k \in Jobs
       PROVE  AddInv(k)'
  <2>1. AddInv(k)
    BY <1>17 DEF OnceInv, AddsInv
  <2>2. /\ Fewer(cmds'[Adder(k)], cmds[Adder(k)], Adds(k))
        /\ Fewer(cmds'[Adder(k)], cmds[Adder(k)], Pending(k))
    BY <1>9, <1>11, NodesOf
  <2>3. CASE i \notin Batch(k)
    <3>1. k # i
      BY <1>5, <2>3, BatchFacts
    <3>2. x \notin Late(k)
      BY <1>11, <2>3 DEF Late
    <3>3. Fewer(cmds'[Adder(k)], cmds[Adder(k)], Late(k))
      BY <1>9, <3>2, NodesOf
    <3> QED
      BY <1>12, <1>13, <1>17, <2>1, <2>2, <3>1, <3>3, AddKept
  <2>4. CASE i \in Batch(k)
    <3>1. Adder(k) = n
      BY <1>5, <2>4, BatchFacts
    <3>2. Begun(k)'
      BY <1>16, <2>1, <2>4, <3>1 DEF AddInv
    <3>3. Has(cmds'[Adder(k)], Pending(k)) => Fresh(k)'
      <4>1. CASE k # i
        BY <1>13, <1>17, <2>1, <2>2, <4>1 DEF AddInv, Fewer
      <4>2. CASE k = i
        <5>1. Once(cmds[n], Adds(i))
          BY <2>1, <3>1, <4>2 DEF AddInv
        <5>2. ~Has(Tail(cmds[n]), Adds(i))
          BY <1>1, <1>3, <1>4, <1>14, <5>1, DropFewer
        <5>3. ~Has(Tail(cmds[n]), Pending(i))
          BY <5>2 DEF Has, Pending
        <5>4. ~Has(<<x>>, Pending(i))
          BY <1>5, <1>11, UnitTokens
        <5>5. ~Has(cmds'[n], Pending(i))
          BY <1>3, <1>4, <1>7, <1>8, <5>3, <5>4, TailIsSeq, UnitIsSeq, AppendTokens
        <5> QED
          BY <3>1, <4>2, <5>5
      <4> QED
        BY <4>1, <4>2
    <3> QED
      BY <2>1, <2>2, <3>2, <3>3 DEF AddInv, Fewer
  <2> QED
    BY <2>3, <2>4
<1> QED
  BY <1>8, <1>12, <1>13, <1>15, <1>17 DEF OnceInv, AddsInv

\* add_tree goes on after the tags of a job.
LEMMA TagJobSafe ==
  ASSUME IInv, OnceInv, NEW n \in Nodes, TagJob(n)
  PROVE  OnceInv'
<1>1. PICK c : c = Head(cmds[n])
  OBVIOUS
<1>2. /\ cmds[n] # <<>> /\ c.op = "tag" /\ AddNext(n, c) /\ UNCHANGED storeVars /\ Calm
  BY <1>1 DEF TagJob, Answer, Calm, managerVars, history
<1>3. c \in Command \cap Place(n)
  <2>1. cmds[n] \in Seq(Place(n))
    BY DEF OnceInv, Placed
  <2> QED
    BY <1>1, <1>2, <2>1, HeadIsGood, TailIsSeq
<1>4. c.job \in Jobs /\ c.left \subseteq Batch(c.job) \ {c.job}
  BY <1>2, <1>3 DEF Place, Adding
<1>5. PICK x \in Command :
        /\ Issue(n, <<x>>)
        /\ x \in Place(n)
        /\ \/ x \in Plain
           \/ x.op = "add" /\ x.job \in c.left /\ x.left \subseteq c.left
  BY <1>2, <1>3, AddNextFacts DEF Adding
<1>6. ASSUME NEW k \in Jobs
      PROVE  /\ x \notin Chain(k) /\ x \notin Handling(k)
             /\ x \in Adds(k) => c \in Adds(k)
             /\ x \in Late(k) => c \in Late(k)
             /\ x \in Pending(k) => c \in Pending(k)
  <2>1. CASE x \in Plain
    BY <2>1, TokenSets
  <2>2. CASE x.op = "add" /\ x.job \in c.left /\ x.left \subseteq c.left
    <3>1. x \notin Chain(k) /\ x \notin Handling(k)
      BY <2>2 DEF Chain, Starting, Handling
    <3>2. x.job \in Jobs /\ x.job \in Batch(c.job)
      BY <1>4, <2>2 DEF Batch
    <3>3. x \in Adds(k) => c \in Adds(k)
      <4>1. x.job \in Batch(k) => c.job \in Batch(k)
        BY <1>4, <3>2, BatchFacts
      <4> QED
        BY <1>2, <1>3, <4>1 DEF Adds, Adding
    <3>4. x \in Late(k) => c \in Late(k)
      BY <1>2, <3>3 DEF Late
    <3>5. x \in Pending(k) => c \in Pending(k)
      <4>1. ASSUME x \in Pending(k)
            PROVE  k \in c.left
        BY <2>2, <4>1 DEF Pending
      <4> QED
        BY <3>3, <4>1 DEF Pending
    <3> QED
      BY <3>1, <3>3, <3>4, <3>5
  <2> QED
    BY <1>5, <2>1, <2>2
<1>7. Grows
  BY <1>2, StoreGrows
<1> QED
  BY <1>1, <1>2, <1>5, <1>6, <1>7, ReplaceSafe

\* add_tree is called for a batch that has not begun.
LEMMA BeginSafe ==
  ASSUME IInv, OnceInv, NEW n \in Nodes, NEW x \in Place(n), x.op = "add",
         Enqueue(n, <<x>>), UNCHANGED storeVars,
         UNCHANGED <<inStartup, handlers, starts, handled, spent>>,
         \A j \in Jobs : act'[j] = "active" => act[j] = "active",
         AddersStay => \A k \in Batch(x.job) : /\ ~Begun(k)
                                               /\ ~Has(cmds[n], Adds(k))
                                               /\ x \in Late(k) => Begun(k)'
  PROVE  OnceInv'
<1>1. Placed /\ cmds[n] \in Seq(Place(n)) /\ DOMAIN cmds = Nodes
  BY DEF OnceInv, Placed, IInv
<1>2. x \in Command /\ x.job \in Jobs /\ Adder(x.job) = n
  BY DEF Place, Adding
<1>3. /\ cmds'[n] = cmds[n] \o <<x>>
      /\ \A m \in Nodes \ {n} : cmds'[m] = cmds[m]
      /\ Placed'
  BY <1>1, UnitIsSeq, QueuePlaced DEF Enqueue
<1>4. ASSUME NEW T, x \notin T, NEW m \in Nodes
      PROVE  Fewer(cmds'[m], cmds[m], T)
  <2>1. <<x>> \in Seq({x}) /\ T \cap {x} = {}
    BY <1>4
  <2> QED
    BY <1>1, <1>4, <2>1, QueueFewer
<1>5. ASSUME NEW T
      PROVE  /\ Has(cmds'[n], T) <=> Has(cmds[n], T) \/ x \in T
             /\ Once(cmds[n], T) /\ ~Has(cmds[n], T) => Once(cmds'[n], T)
  <2>1. <<x>> \in Seq({x}) /\ (Has(<<x>>, T) <=> x \in T) /\ Once(<<x>>, T)
    BY UnitTokens
  <2>2. /\ Has(cmds[n] \o <<x>>, T) <=> Has(cmds[n], T) \/ Has(<<x>>, T)
        /\ Once(cmds[n], T) /\ Once(<<x>>, T) /\ ~(Has(cmds[n], T) /\ Has(<<x>>, T))
             => Once(cmds[n] \o <<x>>, T)
    BY <1>1, <2>1, AppendTokens
  <2> QED
    BY <1>3, <2>1, <2>2
<1>6. \A j \in Jobs : x \notin Chain(j) /\ x \notin Handling(j)
  BY DEF Chain, Starting, Handling
<1>7. Grows
  BY StoreGrows
<1>8. StartsInv' /\ \A k \in Jobs : Begun(k) => Begun(k)'
  BY <1>4, <1>6, <1>7, NodesOf, NothingStarted
<1>9. ASSUME AddersStay, NEW k \in Jobs
      PROVE  HandlerInv(k)' /\ (Fresh(k) => Fresh(k)')
  <2>1. HandlerInv(k)
    BY <1>9 DEF OnceInv, AddsInv
  <2> QED
    BY <1>4, <1>6, <2>1, NodesOf, HandlerKept
<1>10. ASSUME AddersStay, NEW k \in Jobs
       PROVE  AddInv(k)'
  <2>1. AddInv(k)
    BY <1>10 DEF OnceInv, AddsInv
  <2>2. CASE x.job \notin Batch(k)
    <3>1. x \notin Adds(k) /\ x \notin Late(k) /\ x \notin Pending(k)
      BY <2>2 DEF Adds, Late, Pending
    <3> QED
      BY <1>4, <1>8, <1>9, <1>10, <2>1, <3>1, NodesOf, AddKept
  <2>3. CASE x.job \in Batch(k)
    <3>1. k \in Batch(x.job) /\ Adder(k) = n
      BY <1>2, <2>3, BatchFacts
    <3>2. ~Begun(k) /\ ~Has(cmds[n], Adds(k)) /\ (x \in Late(k) => Begun(k)')
      BY <1>10, <3>1
    <3>3. Fresh(k)'
      BY <1>9, <1>10, <2>1, <3>2 DEF AddInv
    <3>4. Once(cmds'[n], Adds(k))
      <4>1. Once(cmds[n], Adds(k))
        BY <3>2 DEF Has, Once
      <4> QED
        BY <1>5, <3>2, <4>1
    <3>5. Has(cmds'[n], Late(k)) => Begun(k)'
      <4>1. ~Has(cmds[n], Late(k))
        BY <3>2 DEF Has, Late
      <4> QED
        BY <1>5, <3>2, <4>1
    <3> QED
      BY <3>1, <3>3, <3>4, <3>5 DEF AddInv
  <2> QED
    BY <2>2, <2>3
<1> QED
  BY <1>3, <1>8, <1>9, <1>10 DEF OnceInv, AddsInv

\* A request job adds its jobs: it does so once in its run.
LEMMA AddJobsSafe ==
  ASSUME IInv, OnceInv, NEW a \in Jobs, AddJobs(a)
  PROVE  OnceInv'
<1>1. PICK n \in Nodes : n = NodeOf[a]
  BY NodesOf
<1>2. /\ act[a] = "active" /\ act' = [act EXCEPT ![a] = "adding"]
      /\ UNCHANGED storeVars /\ UNCHANGED <<inStartup, handlers, starts, handled, spent>>
  BY DEF AddJobs, managerVars, history
<1>3. PICK k0 \in AddedWith(a) : Enqueue(n, <<AddCommand(k0, AddedWith(a), a)>>)
  BY <1>1 DEF AddJobs
<1>4. k0 \in Jobs /\ AddedBy[k0] = a /\ a # NoJob
  BY <1>3, JobsAssumption DEF AddedWith
<1>5. Adder(k0) = n /\ Batch(k0) = AddedWith(a)
  BY <1>1, <1>4 DEF Adder, Batch, AddedWith
<1>6. PICK x \in Place(n) : /\ x = AddCommand(k0, AddedWith(a), a)
                            /\ x.op = "add" /\ x.job = k0
  BY <1>4, <1>5, AddCommandFacts
<1>7. act \in [Jobs -> Activities]
  BY DEF IInv, RunnerTypes
<1>8. \A j \in Jobs : act'[j] = "active" => act[j] = "active"
  BY <1>2, <1>7
<1>9. ASSUME AddersStay, NEW k \in Batch(x.job)
      PROVE  ~Begun(k) /\ ~Has(cmds[n], Adds(k)) /\ Begun(k)'
  <2>1. k \in Jobs /\ AddedBy[k] = a /\ Adder(k) = n
    BY <1>1, <1>4, <1>5, <1>6, <1>9 DEF AddedWith, Adder
  <2>2. ~Begun(k)
    BY <1>2, <1>4, <2>1 DEF Begun
  <2>3. ~Has(cmds[n], Late(k))
    BY <1>9, <2>1, <2>2 DEF OnceInv, AddsInv, AddInv
  <2>4. Late(k) = Adds(k)
    BY <1>4, <2>1 DEF Late
  <2>5. starts[a] > 0
    BY <1>2 DEF OnceInv, StartsInv, StartInv
  <2>6. starts'[a] > 0 /\ act'[a] # "active"
    BY <1>2, <1>7, <2>5
  <2>7. Begun(k)'
    BY <1>4, <2>1, <2>6 DEF Begun
  <2> QED
    BY <2>2, <2>3, <2>4, <2>7
<1> QED
  BY <1>2, <1>3, <1>6, <1>8, <1>9, BeginSafe

\* A tree is submitted while no job of it exists or is being added.
LEMMA SubmitSafe ==
  ASSUME IInv, OnceInv, NEW r \in Jobs, Submit(r)
  PROVE  OnceInv'
<1>1. PICK n \in Nodes : n = Submitter[r]
  BY ManagerAssumption
<1>2. /\ Parent[r] = NoJob /\ AddedBy[r] = NoJob /\ ~Submitted(r)
      /\ UNCHANGED storeVars /\ UNCHANGED <<inStartup, handlers, starts, handled, spent, act>>
  BY DEF Submit, managerVars, history
<1>3. Root[r] = r
  BY <1>2, ForestAssumption
<1>4. PICK batch : batch = {j \in Tree(r) : AddedBy[j] = NoJob}
  OBVIOUS
<1>5. Enqueue(n, <<AddCommand(r, batch, NoJob)>>)
  BY <1>1, <1>4 DEF Submit
<1>6. Adder(r) = n /\ Batch(r) = batch
  BY <1>1, <1>2, <1>3, <1>4 DEF Adder, Batch, Tree
<1>7. PICK x \in Place(n) : /\ x = AddCommand(r, batch, NoJob)
                            /\ x.op = "add" /\ x.job = r
  BY <1>2, <1>6, AddCommandFacts
<1>8. ASSUME AddersStay, NEW k \in Batch(x.job)
      PROVE  ~Begun(k) /\ ~Has(cmds[n], Adds(k)) /\ x \notin Late(k)
  <2>1. k \in Jobs /\ AddedBy[k] = NoJob /\ Root[k] = r /\ Adder(k) = n
    BY <1>2, <1>3, <1>6, <1>7, <1>8, BatchFacts DEF Batch
  <2>2. ~Begun(k)
    BY <1>2, <2>1 DEF Begun, Submitted
  <2>3. ~Has(cmds[n], Late(k))
    BY <1>8, <2>1, <2>2 DEF OnceInv, AddsInv, AddInv
  <2>4. ~Has(cmds[n], Adds(k))
    BY <1>2, <2>1, <2>3 DEF Has, Late, Adds, Submitted, Adding
  <2>5. x \notin Late(k)
    BY <1>7, <2>1 DEF Late
  <2> QED
    BY <2>2, <2>4, <2>5
<1> QED
  BY <1>2, <1>5, <1>7, <1>8, BeginSafe

\* A crash empties what the node holds, and a next process may start its jobs.
LEMMA CrashSafe ==
  ASSUME IInv, OnceInv, NEW n \in Nodes, Crash(n)
  PROVE  OnceInv'
<1>1. /\ n \in Crashing
      /\ spent' = [spent EXCEPT !.crashes = @ + 1]
      /\ cmds' = [cmds EXCEPT ![n] = <<>>]
      /\ inStartup' = [inStartup EXCEPT ![n] = {}]
      /\ handlers' = [handlers EXCEPT ![n] = {}]
      /\ act' = [j \in Jobs |-> IF NodeOf[j] = n THEN "idle" ELSE act[j]]
      /\ UNCHANGED storeVars /\ UNCHANGED <<starts, handled>>
  BY DEF Crash, history
<1>2. /\ Placed /\ DOMAIN cmds = Nodes
      /\ inStartup \in [Nodes -> SUBSET Jobs] /\ handlers \in [Nodes -> SUBSET Jobs]
      /\ spent \in [crashes : Nat, aborts : Nat]
      /\ starts \in [Jobs -> Nat] /\ act \in [Jobs -> Activities]
  BY DEF OnceInv, IInv, NodeTypes, RunnerTypes
<1>3. /\ cmds'[n] = <<>> /\ inStartup'[n] = {} /\ handlers'[n] = {}
      /\ \A m \in Nodes \ {n} : /\ cmds'[m] = cmds[m] /\ inStartup'[m] = inStartup[m]
                                /\ handlers'[m] = handlers[m]
  BY <1>1, <1>2
<1>4. Placed'
  <2>1. ASSUME NEW m \in Nodes
        PROVE  cmds'[m] \in Seq(Place(m))
    <3>1. <<>> \in Seq(Place(m)) /\ cmds[m] \in Seq(Place(m))
      BY <1>2 DEF Placed
    <3> QED
      BY <1>3, <3>1
  <2> QED
    BY <2>1 DEF Placed
<1>5. \A j \in Jobs : act'[j] = "active" => act[j] = "active" /\ NodeOf[j] # n
  BY <1>1
<1>6. spent.crashes \in Nat /\ spent'.crashes = spent.crashes + 1
  BY <1>1, <1>2
<1>7. \A m \in Nodes : /\ Lives(m) \in Nat /\ Lives(m)' \in Nat
                       /\ Lives(m)' = IF m \in Crashing THEN Lives(m) + 1 ELSE Lives(m)
  BY <1>6 DEF Lives
<1>8. ASSUME NEW m \in Nodes, NEW T
      PROVE  Fewer(cmds'[m], cmds[m], T)
  <2>1. CASE m = n
    BY <1>3, <2>1, EmptyTokens DEF Fewer
  <2>2. CASE m # n
    BY <1>3, <2>2, FewerFacts
  <2> QED
    BY <2>1, <2>2
<1>9. ASSUME NEW j \in Jobs
      PROVE  StartInv(j)'
  <2>1. PICK m \in Nodes : m = NodeOf[j]
    BY NodesOf
  <2>2. /\ StartInv(j) /\ starts[j] \in Nat /\ starts'[j] = starts[j]
        /\ Fewer(cmds'[m], cmds[m], Chain(j))
    BY <1>1, <1>2, <1>8 DEF OnceInv, StartsInv
  <2>3. starts[j] <= Lives(m) /\ Once(cmds[m], Chain(j))
    BY <2>1, <2>2 DEF StartInv
  <2>4. act'[j] = "active" => starts'[j] > 0
    BY <1>5, <2>2 DEF StartInv
  <2>5. CASE m \in Crashing
    <3>1. starts'[j] < Lives(m)'
      BY <1>7, <2>2, <2>3, <2>5
    <3>2. Has(cmds'[m], Chain(j)) => j \in inStartup'[m]
      <4>1. CASE m = n
        BY <1>3, <4>1, EmptyTokens
      <4>2. CASE m # n
        BY <1>3, <2>1, <2>2, <4>2 DEF StartInv
      <4> QED
        BY <4>1, <4>2
    <3>3. starts'[j] <= Lives(m)' /\ starts'[j] # Lives(m)'
      BY <1>7, <2>2, <3>1
    <3> QED
      BY <2>1, <2>2, <2>3, <2>4, <3>1, <3>2, <3>3 DEF StartInv, Fewer
  <2>6. CASE m \notin Crashing
    <3>1. m # n /\ Lives(m)' = Lives(m)
      BY <1>1, <1>7, <2>6
    <3>2. cmds'[m] = cmds[m] /\ inStartup'[m] = inStartup[m]
      BY <1>3, <3>1
    <3> QED
      BY <2>1, <2>2, <2>4, <3>1, <3>2 DEF StartInv
  <2> QED
    BY <2>5, <2>6
<1>10. ASSUME AddersStay, NEW k \in Jobs
       PROVE  AddInv(k)' /\ HandlerInv(k)'
  <2>1. AddInv(k) /\ HandlerInv(k) /\ NodeOf[k] \in Nodes /\ Adder(k) \in Nodes
    BY <1>10, NodesOf DEF OnceInv, AddsInv
  <2>2. k \in handlers'[NodeOf[k]] => k \in handlers[NodeOf[k]]
    BY <1>3, <2>1
  <2>3. HandlerInv(k)' /\ (Fresh(k) => Fresh(k)')
    BY <1>1, <1>8, <2>1, <2>2, HandlerKept
  <2>4. Begun(k) => Begun(k)'
    <3>1. Grows
      BY <1>1, StoreGrows
    <3> QED
      BY <1>1, <1>2, <1>5, <3>1, BegunGrows
  <2> QED
    BY <1>8, <2>1, <2>3, <2>4, AddKept
<1> QED
  BY <1>4, <1>9, <1>10 DEF OnceInv, StartsInv, AddsInv

\* Nothing has been issued, started or registered.
LEMMA OnceInit == Init => OnceInv
<1> SUFFICES ASSUME Init
             PROVE  OnceInv
  OBVIOUS
<1>1. /\ cmds = [n \in Nodes |-> <<>>] /\ inStartup = [n \in Nodes |-> {}]
      /\ handlers = [n \in Nodes |-> {}] /\ act = [j \in Jobs |-> "idle"]
      /\ starts = [j \in Jobs |-> 0] /\ handled = [j \in Jobs |-> 0]
      /\ spent.crashes = 0
  BY DEF Init
<1>2. Placed
  <2>1. \A n \in Nodes : <<>> \in Seq(Place(n))
    OBVIOUS
  <2> QED
    BY <1>1, <2>1 DEF Placed
<1>3. ASSUME NEW j \in Jobs
      PROVE  StartInv(j)
  <2>1. cmds[NodeOf[j]] = <<>> /\ starts[j] = 0 /\ act[j] = "idle"
    BY <1>1, NodesOf
  <2>2. Lives(NodeOf[j]) = 1
    BY <1>1 DEF Lives
  <2> QED
    BY <2>1, <2>2, EmptyTokens DEF StartInv
<1>4. ASSUME NEW k \in Jobs
      PROVE  AddInv(k) /\ HandlerInv(k)
  <2>1. /\ cmds[NodeOf[k]] = <<>> /\ cmds[Adder(k)] = <<>>
        /\ handlers[NodeOf[k]] = {} /\ handled[k] = 0
    BY <1>1, NodesOf
  <2>2. Fresh(k)
    BY <2>1, EmptyTokens DEF Fresh
  <2> QED
    BY <2>1, <2>2, EmptyTokens DEF AddInv, HandlerInv
<1> QED
  BY <1>2, <1>3, <1>4 DEF OnceInv, StartsInv, AddsInv

\* Every step of the managers keeps the invariant.
LEMMA OnceStep == IInv /\ OnceInv /\ [Next]_vars => OnceInv'
<1> SUFFICES ASSUME IInv, OnceInv, [Next]_vars
             PROVE  OnceInv'
  OBVIOUS
<1>1. CASE UNCHANGED vars
  <2>1. Quiet /\ Placed' /\ Calm
    BY <1>1, FewerFacts DEF vars, Quiet, OnceInv, Placed, Calm
  <2>2. Grows
    BY <1>1 DEF vars, Grows, Exists
  <2> QED
    BY <2>1, <2>2, QuietSafe
<1>2. ASSUME NEW n \in Nodes, Reply(n)
      PROVE  OnceInv'
  BY <1>2, RoundTrip, WaitingSafe, StartJobsSafe, StartRunnerSafe, FindHandlersSafe,
     RunHandlerSafe, AddJobSafe, TagJobSafe, QuietReply DEF Reply
<1>3. ASSUME NEW n \in Nodes, Run(n) \/ OtherStatus(n) \/ Restart(n) \/ SweepNode(n)
      PROVE  OnceInv'
  BY <1>3, QuietRun
<1>4. ASSUME NEW j \in Jobs, Runner(j) \/ Submit(j) \/ UserAbort(j)
      PROVE  OnceInv'
  BY <1>4, QuietRun, AddJobsSafe, SubmitSafe DEF Runner
<1> QED
  BY <1>1, <1>2, <1>3, <1>4, CrashSafe DEF Next

\* The invariant holds throughout.
LEMMA OnceInductive == Spec => [](IInv /\ OnceInv)
BY InitSafe, OnceInit, StepSafe, OnceStep, PTL DEF Spec

-----------------------------------------------------------------------------
(* Theorems *)

\* start_job is called for a job once per process of its node: again only when
\* that node has crashed since (_start_job, in_startup).
StartsCounted == \A j \in Jobs : starts[j] <= Lives(NodeOf[j])

\* However evaluations, failures and aborts interleave, also while other nodes
\* crash and come back, the processes of a node call start_job for a job no
\* oftener than there can have been processes (evaluate, _start_job).
THEOREM StartsPerProcess == Spec => []StartsCounted
<1>1. OnceInv => StartsCounted
  BY DEF OnceInv, StartsInv, StartInv, StartsCounted
<1> QED
  BY <1>1, OnceInductive, PTL

\* Where the nodes that have jobs do not crash, start_job is called at most
\* once for each job (_start_job, in_startup).
THEOREM StartsOnce ==
  ASSUME \A j \in Jobs : NodeOf[j] \notin Crashing
  PROVE  Spec => []StartedOnce
<1>1. IInv /\ OnceInv => StartedOnce
  <2> SUFFICES ASSUME IInv, OnceInv, NEW j \in Jobs
               PROVE  starts[j] <= 1
    BY DEF StartedOnce
  <2>1. NodeOf[j] \in Nodes /\ NodeOf[j] \notin Crashing
    BY NodesOf
  <2>2. Lives(NodeOf[j]) = 1
    BY <2>1, LivesFacts
  <2>3. starts[j] <= Lives(NodeOf[j])
    BY DEF OnceInv, StartsInv, StartInv
  <2> QED
    BY <2>2, <2>3
<1> QED
  BY <1>1, OnceInductive, PTL

\* Where request jobs, which add jobs, are on nodes that do not crash, an abort
\* handler runs at most once, whatever fails or is aborted how often and
\* whichever other nodes crash (handle_failure, abort_handlers).
THEOREM HandlersRunOnce ==
  ASSUME AddersStay
  PROVE  Spec => []HandlerRunsOnce
<1>1. OnceInv => HandlerRunsOnce
  BY DEF OnceInv, AddsInv, HandlerInv, HandlerRunsOnce
<1> QED
  BY <1>1, OnceInductive, PTL
=============================================================================
