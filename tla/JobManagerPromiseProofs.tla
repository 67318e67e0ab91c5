---------------------- MODULE JobManagerPromiseProofs -----------------------
(***************************************************************************)
(* What the job managers keep of the promise to the authors of jobs, for   *)
(* every forest, every set of nodes and every bound: that they implement   *)
(* JobTree; that a job gets the context of all its children; that it       *)
(* starts once, also on a node that crashes, where no request job extends  *)
(* its tree; and that its index sets follow its state and its end is final *)
(* where, besides, nothing in its tree fails, is aborted or crashes.       *)
(***************************************************************************)
EXTENDS JobManagerTreeProofs, JobManagerRefinement

-----------------------------------------------------------------------------
(* The runners *)

\* A command of request job a, behind which every job that a adds is in Redis, or
\* is still to be added by it.
Whole(a) == {c \in By(a) : \A k \in AddedWith(a) :
  Exists(k) \/ (c.op \in Adding /\ k \in c.left) \/ (c.op = "add" /\ k = c.job)}

\* A runner works after start_job, and until it calls success().
RunnerInv(j) == act[j] \in {"active", "adding"} => starts[j] > 0 /\ j \notin succeeded

\* While a request job adds its jobs, its runner waits for that.
BusyInv(a) ==
  LET q == cmds[NodeOf[a]] IN
  \A i \in DOMAIN q : q[i] \in By(a) => act[a] = "adding" /\ q[i] \in Whole(a)

WorkInv == /\ \A j \in Jobs : RunnerInv(j)
           /\ \A a \in Adders : BusyInv(a)

\* Request jobs have no abort_job (coordinate/*.py, manifestreader.py).
AddersRunOn == \A k \in Jobs : AddedBy[k] \notin Abortable

\* The request jobs that add go on, or have succeeded.
KeepsAdding ==
  \A a \in Adders : act[a] = "adding" =>
    act'[a] \in {"active", "adding"} \/ a \in succeeded'

\* No job is added, starts or succeeds; some runners may be gone.
Lull ==
  /\ UNCHANGED <<starts, succeeded>>
  /\ \A j \in Jobs : Exists(j)' <=> Exists(j)
  /\ \A j \in Jobs : \/ act'[j] = act[j]
                     \/ act'[j] \in {"idle", "reported"} /\ (j \in Adders => act[j] # "adding")

\* A mild step leaves the commands of a request job whole.
LEMMA MildWork ==
  ASSUME IInv, IInv', OnceInv, TreeInv, TreeInv', WorkInv, Mildly, KeepsAdding,
         \A j \in Jobs : RunnerInv(j)'
  PROVE  WorkInv'
<1> SUFFICES ASSUME NEW a \in Adders, NEW i \in DOMAIN cmds'[NodeOf[a]], NEW e,
                    e = cmds'[NodeOf[a]][i], e \in By(a)
             PROVE  act'[a] = "adding" /\ e \in Whole(a)'
  BY DEF WorkInv, BusyInv
<1>1. PICK n \in Nodes : \E d, c, x : Mild(n, d, c, x)
  BY DEF Mildly
<1>2. PICK d, c, x : Mild(n, d, c, x)
  BY <1>1
<1>3. Turn(n, d, c, x) /\ Inherits(c, x) /\ \A j \in Jobs : Exists(j)' <=> Exists(j)
  BY <1>2 DEF Mild, Settles
<1>4. a \in Jobs /\ NodeOf[a] \in Nodes /\ By(a) \cap Dull = {} /\ BusyInv(a)
  BY AdderFacts, NoDull DEF WorkInv
<1>5. act[a] = "adding" => act'[a] = "adding"
  <2>1. Has(cmds'[NodeOf[a]], By(a))
    BY DEF Has
  <2>2. a \notin succeeded' /\ act'[a] # "active"
    BY <2>1 DEF TreeInv, AdderInv
  <2> QED
    BY <2>2 DEF KeepsAdding
<1>6. ASSUME NEW y \in Whole(a)
      PROVE  y \in Whole(a)'
  BY <1>3, <1>6 DEF Whole, AddedWith
<1>7. CASE \E k \in DOMAIN cmds[NodeOf[a]] : e = cmds[NodeOf[a]][k]
  BY <1>4, <1>5, <1>6, <1>7 DEF BusyInv
<1>8. CASE NodeOf[a] = n /\ e = x
  <2>1. c \in By(a) /\ (x.op \in Adding <=> c.op \in Adding)
    BY <1>3, <1>4, <1>8 DEF Inherits
  <2>2. d = 1 /\ cmds[n] # <<>> /\ c = Head(cmds[n])
    BY <1>3, <1>4, <2>1, BlankIsDull DEF Turn
  <2>3. 1 \in DOMAIN cmds[n] /\ c = cmds[n][1]
    <3>1. cmds[n] \in Seq(Command)
      BY PipelineType
    <3> QED
      BY <2>2, <3>1
  <2>4. act[a] = "adding" /\ c \in Whole(a)
    BY <1>4, <1>8, <2>1, <2>3 DEF BusyInv
  <2>5. x \in Whole(a)
    <3>1. CASE x.op \in Adding
      <4>1. x = [c EXCEPT !.hop = FALSE] /\ c \in Command
        BY <1>3, <2>1, <3>1 DEF Inherits, By
      <4>2. x.op = c.op /\ x.left = c.left /\ x.job = c.job
        BY <4>1, HopFacts
      <4> QED
        BY <1>8, <2>4, <4>2 DEF Whole
    <3>2. CASE x.op \notin Adding
      BY <1>8, <2>1, <2>4, <3>2 DEF Whole, Adding
    <3> QED
      BY <3>1, <3>2
  <2> QED
    BY <1>5, <1>6, <1>8, <2>4, <2>5
<1> QED
  BY <1>3, <1>4, <1>7, <1>8, TurnFacts

\* No job comes or goes in a mild step.
LEMMA MildLives == ASSUME Mildly PROVE \A j \in Jobs : Exists(j)' <=> Exists(j)
BY DEF Mildly, Mild, Settles

\* In a lull the request jobs go on.
LEMMA LullWork ==
  ASSUME IInv, IInv', OnceInv, TreeInv, TreeInv', WorkInv, Mildly, Lull
  PROVE  WorkInv'
<1>1. KeepsAdding
  BY AdderFacts DEF Lull, KeepsAdding
<1>2. \A j \in Jobs : RunnerInv(j)'
  BY DEF Lull, WorkInv, RunnerInv
<1> QED
  BY <1>1, <1>2, MildWork

\* A runner calls success(), when all that it adds has been added.
Done(a) ==
  /\ act[a] \in {"active", "adding"} /\ \A k \in AddedWith(a) : Exists(k)
  /\ act' = [act EXCEPT ![a] = "reported"] /\ succeeded' = succeeded \cup {a}
  /\ UNCHANGED starts

\* Then the other request jobs go on.
LEMMA DoneWork ==
  ASSUME IInv, IInv', OnceInv, TreeInv, TreeInv', WorkInv, Mildly, NEW a \in Jobs, Done(a)
  PROVE  WorkInv'
<1>1. act \in [Jobs -> Activities]
  BY DEF IInv, RunnerTypes
<1>2. KeepsAdding
  BY <1>1, AdderFacts DEF Done, KeepsAdding
<1>3. \A j \in Jobs : RunnerInv(j)'
  BY <1>1 DEF Done, WorkInv, RunnerInv
<1> QED
  BY <1>2, <1>3, MildWork

-----------------------------------------------------------------------------
(* What a step does to the runners *)

\* Most replies do nothing to them.
LEMMA ReplyLull ==
  ASSUME IInv, Mildly, NEW n \in Nodes,
         \/ GetRoot(n) \/ WaitingJobs(n) \/ StartJobs(n) \/ Instantiate(n)
         \/ GotContext(n) \/ GotCurrentState(n) \/ StateUpdated(n) \/ ContextStored(n)
         \/ GotFinishedJob(n) \/ AbortRunners(n) \/ FindAbortHandlers(n)
         \/ AbortHandlerJob(n) \/ RunAbortHandler(n) \/ NodeJobs(n) \/ PublishStatus(n)
  PROVE  Lull
<1>1. UNCHANGED <<act, starts, succeeded>>
  <2>1. CASE GetRoot(n) \/ WaitingJobs(n) \/ StartJobs(n) \/ Instantiate(n) \/ GotContext(n)
    BY <2>1 DEF GetRoot, WaitingJobs, StartJobs, Instantiate, GotContext, history
  <2>2. CASE GotCurrentState(n) \/ ContextStored(n) \/ AbortRunners(n) \/ FindAbortHandlers(n)
    BY <2>2 DEF GotCurrentState, ContextStored, AbortRunners, FindAbortHandlers, history
  <2>3. CASE StateUpdated(n) \/ GotFinishedJob(n)
    BY <2>3 DEF StateUpdated, GotFinishedJob, FinishRunner, history
  <2>4. CASE AbortHandlerJob(n) \/ RunAbortHandler(n) \/ NodeJobs(n) \/ PublishStatus(n)
    BY <2>4 DEF AbortHandlerJob, RunAbortHandler, NodeJobs, PublishStatus, history
  <2> QED
    BY <2>1, <2>2, <2>3, <2>4
<1> QED
  BY <1>1, MildLives DEF Lull

\* set_state_tree does nothing to them, or ends the request job that called
\* allow_execution.
LEMMA SetTreeDone ==
  ASSUME IInv, IInv', OnceInv, TreeInv, WorkInv, Mildly, NEW n \in Nodes,
         ListTree(n) \/ TreeJobSet(n)
  PROVE  Lull \/ \E a \in Jobs : Done(a)
<1>1. PICK h : h = Head(cmds[n])
  OBVIOUS
<1>2. /\ cmds[n] # <<>> /\ h.op \in {"list", "set"}
      /\ \E c : c.by = h.by /\ NextInTree(n, c)
  <2>1. CASE ListTree(n)
    <3>1. PICK found : found = {j \in idx[h.from] \cap Tree(h.tree) :
                                  h.node = NoNode \/ NodeOf[j] = h.node}
      OBVIOUS
    <3>2. PICK c : c = [h EXCEPT !.left = found, !.all = found]
      OBVIOUS
    <3>3. cmds[n] # <<>> /\ h.op = "list" /\ NextInTree(n, c)
      BY <1>1, <2>1, <3>1, <3>2 DEF ListTree, Answer
    <3>4. h \in Command
      BY <1>1, <3>3, HeadLives
    <3>5. c.by = h.by
      BY <3>2, <3>4 DEF Command
    <3> QED
      BY <3>3, <3>5
  <2>2. CASE TreeJobSet(n)
    BY <1>1, <2>2 DEF TreeJobSet, Answer
  <2> QED
    BY <2>1, <2>2
<1>3. PICK c : c.by = h.by /\ NextInTree(n, c)
  BY <1>2
<1>4. h \in Command /\ h \in Ordered(n)
  BY <1>1, <1>2, HeadLives
<1>5. \/ UNCHANGED <<act, starts, succeeded>>
      \/ /\ c.by # NoJob /\ act' = [act EXCEPT ![c.by] = "reported"]
         /\ succeeded' = succeeded \cup {c.by} /\ UNCHANGED starts
  BY <1>3, ZenonT(40) DEF NextInTree, TreeSet, history
<1>6. CASE UNCHANGED <<act, starts, succeeded>>
  BY <1>6, MildLives DEF Lull
<1>7. CASE /\ c.by # NoJob /\ act' = [act EXCEPT ![c.by] = "reported"]
           /\ succeeded' = succeeded \cup {c.by} /\ UNCHANGED starts
  <2>1. PICK a \in Adders : a = c.by /\ NodeOf[a] = n
    BY <1>3, <1>4, <1>7 DEF Ordered
  <2>2. h \in By(a) /\ a \in Jobs /\ BusyInv(a)
    BY <1>3, <1>4, <2>1, AdderFacts DEF By, WorkInv
  <2>3. 1 \in DOMAIN cmds[n] /\ cmds[n][1] = h
    <3>1. cmds[n] \in Seq(Command)
      BY PipelineType
    <3> QED
      BY <1>1, <1>2, <3>1
  <2>4. act[a] = "adding" /\ h \in Whole(a)
    BY <2>1, <2>2, <2>3 DEF BusyInv
  <2>5. \A k \in AddedWith(a) : Exists(k)
    BY <1>2, <2>4 DEF Whole, Adding
  <2> QED
    BY <1>7, <2>1, <2>2, <2>4, <2>5 DEF Done
<1> QED
  BY <1>5, <1>6, <1>7

\* The IO loop, messages, users, checks, crashes and restarts at most stop some.
LEMMA RunLull ==
  ASSUME IInv, Requests, AddersRunOn, Mildly, NEW n \in Nodes,
         \/ Run(n) \/ OtherStatus(n) \/ Crash(n) \/ Restart(n) \/ SweepNode(n)
         \/ \E j \in Jobs : UserAbort(j)
  PROVE  Lull
<1>1. act \in [Jobs -> Activities]
  BY DEF IInv, RunnerTypes
<1>2. CASE UNCHANGED <<act, starts, succeeded>>
  BY <1>2, MildLives DEF Lull
<1>3. CASE AbortJob(n)
  <2>1. PICK j : j = Head(loop[n]).job
    OBVIOUS
  <2>2. /\ UNCHANGED <<starts, succeeded>>
        /\ (j \in Abortable /\ act' = [act EXCEPT ![j] = "reported"]) \/ UNCHANGED act
    BY <1>3, <2>1 DEF AbortJob, history
  <2>3. j \in Abortable => j \notin Adders
    BY DEF AddersRunOn, Adders
  <2> QED
    BY <1>1, <2>2, <2>3, MildLives DEF Lull
<1>4. CASE Crash(n)
  <2>1. /\ act' = [j \in Jobs |-> IF NodeOf[j] = n THEN "idle" ELSE act[j]]
        /\ UNCHANGED <<starts, succeeded>> /\ n \in Crashing
    BY <1>4 DEF Crash, history
  <2>2. \A j \in Adders : NodeOf[j] # n
    BY <2>1 DEF Requests, AddersStay, Adders
  <2> QED
    BY <2>1, <2>2, MildLives DEF Lull
<1>5. CASE Evaluate(n) \/ HandleFailure(n) \/ Receive(n) \/ OtherStatus(n)
  BY <1>2, <1>5 DEF Evaluate, HandleFailure, Receive, OtherStatus, history
<1>6. CASE Restart(n) \/ SweepNode(n) \/ \E j \in Jobs : UserAbort(j)
  BY <1>2, <1>6 DEF Restart, SweepNode, UserAbort, history
<1> QED
  BY <1>3, <1>4, <1>5, <1>6 DEF Run

\* A job that fails has not begun to add.
LEMMA FailLull ==
  ASSUME IInv, Mildly, NEW j \in Jobs, Fail(j)
  PROVE  Lull
<1>1. act \in [Jobs -> Activities]
  BY DEF IInv, RunnerTypes
<1> QED
  BY <1>1, MildLives DEF Fail, Lull, history

\* A job whose start_job is called starts to work.
LEMMA StartWork ==
  ASSUME IInv, IInv', OnceInv, TreeInv, TreeInv', WorkInv, Mildly, StartedOnce',
         NEW n \in Nodes, StartRunner(n)
  PROVE  /\ WorkInv'
         /\ \E j \in Jobs :
              /\ Exists(j) /\ starts[j] = 0 /\ starts' = [starts EXCEPT ![j] = @ + 1]
              /\ act' = [act EXCEPT ![j] = "active"] /\ UNCHANGED succeeded
<1>1. PICK j : j = Head(cmds[n]).job
  OBVIOUS
<1>2. /\ starts' = [starts EXCEPT ![j] = @ + 1]
      /\ act' = [act EXCEPT ![j] = "active"] /\ UNCHANGED succeeded
      /\ cmds[n] # <<>> /\ Head(cmds[n]).op = "set"
  BY <1>1 DEF StartRunner, Answer
<1>3. j \in Jobs /\ Exists(j)
  BY <1>1, <1>2, HeadLives DEF Doing, Living
<1>4. act \in [Jobs -> Activities] /\ starts \in [Jobs -> Nat]
  BY DEF IInv, RunnerTypes
<1>5. starts[j] = 0
  <2>1. starts'[j] = starts[j] + 1
    BY <1>2, <1>3, <1>4
  <2>2. starts'[j] <= 1
    BY <1>3 DEF StartedOnce
  <2> QED
    BY <1>3, <1>4, <2>1, <2>2
<1>6. j \notin succeeded
  BY <1>5 DEF TreeInv, LiveInv
<1>7. KeepsAdding
  BY <1>2, <1>3, <1>4, AdderFacts DEF KeepsAdding
<1>8. \A i \in Jobs : RunnerInv(i)'
  <2> SUFFICES ASSUME NEW i \in Jobs
               PROVE  RunnerInv(i)'
    OBVIOUS
  <2>1. CASE i = j
    BY <1>2, <1>3, <1>4, <1>5, <1>6, <2>1 DEF RunnerInv
  <2>2. CASE i # j
    BY <1>2, <1>4, <2>2 DEF WorkInv, RunnerInv
  <2> QED
    BY <2>1, <2>2
<1> QED
  BY <1>2, <1>3, <1>5, <1>7, <1>8, MildWork

\* A turn of add_tree loses sight of no job.
LEMMA AddWork ==
  ASSUME IInv, IInv', OnceInv, TreeInv, WorkInv,
         NEW n \in Nodes, NEW c, NEW x, AddTurn(n, c, x)
  PROVE  WorkInv'
<1>1. /\ Turn(n, 1, c, x) /\ UNCHANGED <<starts, succeeded, act>> /\ cmds[n] # <<>>
      /\ c = Head(cmds[n]) /\ c.op \in Adding /\ x \in Command /\ x.by = c.by
  BY DEF AddTurn
<1>2. \A j \in Jobs : Exists(j)' <=> Exists(j) \/ (c.op = "add" /\ j = c.job)
  BY AddGrows
<1>3. \A j \in Jobs : RunnerInv(j)'
  BY <1>1 DEF WorkInv, RunnerInv
<1> SUFFICES ASSUME NEW a \in Adders, NEW i \in DOMAIN cmds'[NodeOf[a]], NEW e,
                    e = cmds'[NodeOf[a]][i], e \in By(a)
             PROVE  act'[a] = "adding" /\ e \in Whole(a)'
  BY <1>3 DEF WorkInv, BusyInv
<1>4. a \in Jobs /\ NodeOf[a] \in Nodes /\ By(a) \cap Dull = {} /\ BusyInv(a)
  BY AdderFacts, NoDull DEF WorkInv
<1>5. ASSUME NEW y \in Whole(a)
      PROVE  y \in Whole(a)'
  BY <1>2, <1>5 DEF Whole, AddedWith
<1>6. CASE \E k \in DOMAIN cmds[NodeOf[a]] : e = cmds[NodeOf[a]][k]
  BY <1>1, <1>4, <1>5, <1>6 DEF BusyInv
<1>7. CASE NodeOf[a] = n /\ e = x
  <2>1. c \in Command /\ \E k \in DOMAIN cmds[n] : cmds[n][k] = c
    BY <1>1, AddPlace
  <2>2. c \in By(a)
    BY <1>1, <1>7, <2>1 DEF By
  <2>3. act[a] = "adding" /\ c \in Whole(a)
    BY <1>4, <1>7, <2>1, <2>2 DEF BusyInv
  <2>4. \A k \in AddedWith(a) : Exists(k)' \/ k \in c.left
    BY <1>2, <2>3 DEF Whole, AddedWith
  <2>5. \/ x.op = "add" /\ x.left = c.left \ {x.job}
        \/ x.op = "tag" /\ x.left = c.left
        \/ c.left = {}
    BY DEF AddTurn
  <2>6. x \in Whole(a)'
    BY <1>7, <2>4, <2>5 DEF Whole, AddedWith, Adding
  <2> QED
    BY <1>1, <1>7, <2>3, <2>6
<1> QED
  BY <1>1, <1>4, <1>6, <1>7, TurnFacts

\* A request job begins with all that it adds; a tree that is submitted begins
\* beside the request jobs.
LEMMA BeginWork ==
  ASSUME IInv, IInv', OnceInv, TreeInv, WorkInv, NEW j \in Jobs, AddJobs(j) \/ Submit(j)
  PROVE  /\ WorkInv' /\ UNCHANGED <<starts, succeeded, state>>
         /\ UNCHANGED act \/ (act[j] = "active" /\ act' = [act EXCEPT ![j] = "adding"])
<1>1. /\ UNCHANGED <<starts, succeeded, state>>
      /\ UNCHANGED act \/ (act[j] = "active" /\ act' = [act EXCEPT ![j] = "adding"])
  BY DEF AddJobs, Submit, history, storeVars
<1>2. act \in [Jobs -> Activities]
  BY DEF IInv, RunnerTypes
<1>3. PICK k \in Jobs, batch \in SUBSET Jobs, by \in Jobs \cup {NoJob}, n \in Nodes :
        /\ Enqueue(n, <<AddCommand(k, batch, by)>>)
        /\ by # NoJob => by = j /\ batch = AddedWith(j) /\ act[j] = "active"
                         /\ act' = [act EXCEPT ![j] = "adding"]
        /\ by = NoJob => UNCHANGED act
  <2>1. CASE AddJobs(j)
    <3>1. PICK n \in Nodes, batch \in SUBSET Jobs : n = NodeOf[j] /\ batch = AddedWith(j)
      BY NodesOf DEF AddedWith
    <3>2. j # NoJob
      BY JobsAssumption
    <3>3. PICK k \in batch : Enqueue(n, <<AddCommand(k, batch, j)>>)
      BY <2>1, <3>1 DEF AddJobs
    <3> QED
      BY <2>1, <3>1, <3>2, <3>3 DEF AddJobs
  <2>2. CASE Submit(j)
    <3>1. PICK n \in Nodes, batch \in SUBSET Jobs :
            n = Submitter[j] /\ batch = {i \in Tree(j) : AddedBy[i] = NoJob}
      BY ManagerAssumption DEF Tree
    <3>2. Enqueue(n, <<AddCommand(j, batch, NoJob)>>) /\ UNCHANGED act
      BY <2>2, <3>1 DEF Submit
    <3> QED
      BY <3>1, <3>2
  <2> QED
    BY <2>1, <2>2
<1>4. PICK x \in Command : x = AddCommand(k, batch, by)
  BY <1>3, AddIsGood DEF Good
<1>5. x.op = "add" /\ x.job = k /\ x.left = batch \ {k} /\ x.by = by
  BY <1>3, <1>4, BlankType DEF AddCommand, Command
<1>6. Turn(n, 0, Blank, x)
  BY <1>3, <1>4, OneTurn
<1>7. \A i \in Jobs : RunnerInv(i)'
  BY <1>1, <1>2 DEF WorkInv, RunnerInv
<1>8. ASSUME NEW a \in Adders, NEW i \in DOMAIN cmds'[NodeOf[a]], NEW e,
             e = cmds'[NodeOf[a]][i], e \in By(a)
      PROVE  act'[a] = "adding" /\ e \in Whole(a)'
  <2>1. a \in Jobs /\ NodeOf[a] \in Nodes /\ By(a) \cap Dull = {} /\ BusyInv(a)
    BY AdderFacts, NoDull DEF WorkInv
  <2>2. CASE \E h \in DOMAIN cmds[NodeOf[a]] : e = cmds[NodeOf[a]][h]
    <3>1. act[a] = "adding" /\ e \in Whole(a)
      BY <1>8, <2>1, <2>2 DEF BusyInv
    <3>2. Whole(a)' = Whole(a)
      BY <1>1 DEF Whole, Exists
    <3> QED
      BY <1>1, <1>2, <2>1, <3>1, <3>2
  <2>3. CASE e = x
    <3>1. by = a /\ a # NoJob
      BY <1>5, <1>8, <2>3, AdderFacts DEF By
    <3>2. act'[a] = "adding" /\ batch = AddedWith(a)
      BY <1>2, <1>3, <2>1, <3>1
    <3> QED
      BY <1>5, <1>8, <2>3, <3>2 DEF Whole, Adding, AddedWith
  <2> QED
    BY <1>6, <1>8, <2>1, <2>2, <2>3, TurnFacts
<1> QED
  BY <1>1, <1>7, <1>8 DEF WorkInv, BusyInv

-----------------------------------------------------------------------------
(* What a step does to the phases *)

\* In a lull some started jobs may end.
LEMMA LullEnds ==
  ASSUME Lull
  PROVE  \E S \in SUBSET Jobs : Promise!End(S)
<1>1. PICK S \in SUBSET Jobs : S = {j \in Jobs : PhaseOf(j) = "started" /\ act'[j] # act[j]}
  OBVIOUS
<1>2. ASSUME NEW j \in Jobs
      PROVE  PhaseOf(j)' = IF j \in S THEN "ended" ELSE PhaseOf(j)
  <2>1. /\ starts' = starts /\ succeeded' = succeeded /\ (Exists(j)' <=> Exists(j))
        /\ act'[j] = act[j] \/ act'[j] \in {"idle", "reported"}
    BY DEF Lull
  <2> QED
    BY <1>1, <2>1 DEF PhaseOf
<1>3. \A j \in S : PhaseOf(j) = "started"
  BY <1>1
<1>4. UNCHANGED starts
  BY DEF Lull
<1> QED
  BY <1>1, <1>2, <1>3, <1>4 DEF Promise!End

\* A job whose runner calls success() succeeds in the tree.
LEMMA DoneSucceeds ==
  ASSUME IInv, WorkInv, NEW a \in Jobs, Done(a), \A j \in Jobs : Exists(j)' <=> Exists(j)
  PROVE  Promise!Succeed(a)
<1>1. act \in [Jobs -> Activities]
  BY DEF IInv, RunnerTypes
<1>2. PhaseOf(a) = "started"
  BY DEF Done, WorkInv, RunnerInv, PhaseOf
<1>3. \A k \in Jobs : AddedBy[k] = a => PhaseOf(k) # "absent"
  BY DEF Done, AddedWith, PhaseOf
<1>4. ASSUME NEW j \in Jobs
      PROVE  PhaseOf(j)' = IF j = a THEN "succeeded" ELSE PhaseOf(j)
  <2>1. /\ starts' = starts /\ succeeded' = succeeded \cup {a} /\ (Exists(j)' <=> Exists(j))
        /\ act' = [act EXCEPT ![a] = "reported"]
    BY DEF Done
  <2>2. CASE j = a
    BY <2>1, <2>2 DEF PhaseOf
  <2>3. CASE j # a
    <3>1. act'[j] = act[j] /\ (j \in succeeded' <=> j \in succeeded)
      BY <1>1, <2>1, <2>3
    <3> QED
      BY <2>1, <2>3, <3>1 DEF PhaseOf
  <2> QED
    BY <2>2, <2>3
<1>5. UNCHANGED starts
  BY DEF Done
<1> QED
  BY <1>2, <1>3, <1>4, <1>5 DEF Promise!Succeed, Promise!Become

\* A job whose start_job is called starts in the tree, after its children.
LEMMA StartStarts ==
  ASSUME IInv, TreeInv, TreeInv', NEW j \in Jobs, \A i \in Jobs : Exists(i)' <=> Exists(i),
         Exists(j), starts[j] = 0, starts' = [starts EXCEPT ![j] = @ + 1],
         act' = [act EXCEPT ![j] = "active"], UNCHANGED succeeded
  PROVE  Promise!Start(j)
<1>1. act \in [Jobs -> Activities] /\ starts \in [Jobs -> Nat]
  BY DEF IInv, RunnerTypes
<1>2. \A i \in Jobs : ~Exists(i) => starts[i] = 0 /\ i \notin succeeded
  BY <1>1 DEF TreeInv, LiveInv
<1>3. j \notin succeeded /\ starts'[j] > 0
  BY <1>1 DEF TreeInv, LiveInv
<1>4. Children(j) \subseteq succeeded
  <2>1. LeavesInv'
    BY DEF TreeInv
  <2>2. Children(j)' \subseteq succeeded'
    BY <1>3, <2>1 DEF LeavesInv, Launched
  <2>3. Children(j)' = Children(j)
    BY DEF Children
  <2> QED
    BY <2>2, <2>3
<1>5. PhaseOf(j) = "added"
  BY <1>3 DEF PhaseOf
<1>6. ASSUME NEW k \in Jobs, Parent[k] = j
      PROVE  PhaseOf(k) \in {"absent", "succeeded"}
  <2>1. Exists(k) => k \in succeeded
    BY <1>4, <1>6 DEF Children
  <2>2. ~Exists(k) => starts[k] = 0
    BY <1>2
  <2> QED
    BY <2>1, <2>2 DEF PhaseOf
<1>7. ASSUME NEW i \in Jobs
      PROVE  PhaseOf(i)' = IF i = j THEN "started" ELSE PhaseOf(i)
  <2>1. CASE i = j
    BY <1>1, <1>3, <2>1 DEF PhaseOf
  <2>2. CASE i # j
    <3>1. act'[i] = act[i] /\ starts'[i] = starts[i] /\ (Exists(i)' <=> Exists(i))
      BY <1>1, <2>2
    <3> QED
      BY <2>2, <3>1 DEF PhaseOf
  <2> QED
    BY <2>1, <2>2
<1> QED
  BY <1>5, <1>6, <1>7 DEF Promise!Start, Promise!Become

\* add_job puts a job below one that waits; a request job does so while it runs.
LEMMA AddAdds ==
  ASSUME IInv, IInv', OnceInv, TreeInv, WorkInv, Requests,
         NEW n \in Nodes, NEW c, NEW x, AddTurn(n, c, x)
  PROVE  Lull \/ \E j \in Jobs : Promise!Add(j)
<1>1. /\ UNCHANGED <<starts, succeeded, act>> /\ cmds[n] # <<>>
      /\ c = Head(cmds[n]) /\ c.op \in Adding
  BY DEF AddTurn
<1>2. \A j \in Jobs : Exists(j)' <=> Exists(j) \/ (c.op = "add" /\ j = c.job)
  BY AddGrows
<1>3. CASE c.op = "tag"
  BY <1>1, <1>2, <1>3 DEF Lull
<1>4. CASE c.op = "add"
  <2>1. PICK j \in Jobs : j = c.job
    BY <1>1, AddPlace
  <2>2. /\ ~Exists(j)
        /\ Parent[j] = NoJob \/ (Parent[j] \in Living /\ ~Launched(Parent[j]))
        /\ AddedBy[j] # NoJob => AddedBy[j] \in Adders /\ c \in By(AddedBy[j])
    BY <1>1, <1>4, <2>1, WhereAdded
  <2>3. \A i \in Jobs : ~Exists(i) => starts[i] = 0 /\ i \notin succeeded
    <3>1. starts \in [Jobs -> Nat]
      BY DEF IInv, RunnerTypes
    <3> QED
      BY <3>1 DEF TreeInv, LiveInv
  <2>4. PhaseOf(j) = "absent"
    BY <2>2, <2>3 DEF PhaseOf
  <2>5. Parent[j] \in Jobs => PhaseOf(Parent[j]) = "added"
    <3> SUFFICES ASSUME NEW p \in Jobs, p = Parent[j]
                 PROVE  PhaseOf(p) = "added"
      OBVIOUS
    <3>1. Exists(p) /\ ~Launched(p)
      BY <2>2, JobsAssumption DEF Living
    <3>2. ~(starts[p] > 0) /\ p \notin succeeded
      BY <3>1 DEF Launched, TreeInv, LiveInv
    <3> QED
      BY <3>1, <3>2 DEF PhaseOf
  <2>6. AddedBy[j] \in Jobs => PhaseOf(AddedBy[j]) = "started"
    <3> SUFFICES ASSUME NEW a \in Jobs, a = AddedBy[j]
                 PROVE  PhaseOf(a) = "started"
      OBVIOUS
    <3>1. a \in Adders /\ c \in By(a)
      BY <2>2, JobsAssumption
    <3>2. NodeOf[a] = n
      <4>1. c \in Ordered(n) /\ c.by = a /\ a # NoJob
        BY <1>1, <3>1, AddPlace, AdderFacts DEF By
      <4> QED
        BY <4>1 DEF Ordered
    <3>3. \E i \in DOMAIN cmds[n] : cmds[n][i] = c
      BY <1>1, AddPlace
    <3>4. act[a] = "adding"
      BY <3>1, <3>2, <3>3 DEF WorkInv, BusyInv
    <3> QED
      BY <3>4 DEF WorkInv, RunnerInv, PhaseOf
  <2>7. ASSUME NEW i \in Jobs
        PROVE  PhaseOf(i)' = IF i = j THEN "added" ELSE PhaseOf(i)
    <3>1. Exists(i)' <=> Exists(i) \/ i = j
      BY <1>2, <1>4, <2>1
    <3>2. starts[j] = 0 /\ j \notin succeeded
      BY <2>2, <2>3
    <3> QED
      BY <1>1, <3>1, <3>2 DEF PhaseOf
  <2>8. UNCHANGED starts
    BY <1>1
  <2> QED
    BY <2>4, <2>5, <2>6, <2>7, <2>8 DEF Promise!Add, Promise!Become
<1> QED
  BY <1>1, <1>3, <1>4 DEF Adding

\* A job that begins to add goes on.
LEMMA BeginStutters ==
  ASSUME IInv, NEW j \in Jobs, UNCHANGED <<starts, succeeded, state>>,
         UNCHANGED act \/ (act[j] = "active" /\ act' = [act EXCEPT ![j] = "adding"])
  PROVE  UNCHANGED Promise!jobVars
<1>1. act \in [Jobs -> Activities]
  BY DEF IInv, RunnerTypes
<1>2. ASSUME NEW i \in Jobs
      PROVE  PhaseOf(i)' = PhaseOf(i)
  <2>1. Exists(i)' <=> Exists(i)
    BY DEF Exists
  <2>2. act'[i] = act[i] \/ (act[i] = "active" /\ act'[i] = "adding")
    BY <1>1
  <2> QED
    BY <2>1, <2>2 DEF PhaseOf
<1> QED
  BY <1>2 DEF Promise!jobVars

-----------------------------------------------------------------------------
(* The job managers implement the promise *)

\* No runner works at first, and no job is there.
LEMMA WorkInit == Init => WorkInv /\ Promise!Init
<1> SUFFICES ASSUME Init
             PROVE  WorkInv /\ Promise!Init
  OBVIOUS
<1>1. /\ state = [j \in Jobs |-> Absent] /\ cmds = [n \in Nodes |-> <<>>]
      /\ starts = [j \in Jobs |-> 0] /\ act = [j \in Jobs |-> "idle"] /\ succeeded = {}
  BY DEF Init, StoreInit
<1>2. \A j \in Jobs : RunnerInv(j)
  BY <1>1 DEF RunnerInv
<1>3. \A a \in Adders : BusyInv(a)
  <2>1. \A n \in Nodes : DOMAIN cmds[n] = {}
    BY <1>1
  <2> QED
    BY <2>1, AdderFacts DEF BusyInv
<1>4. \A j \in Jobs : PhaseOf(j) = "absent"
  BY <1>1 DEF PhaseOf, Exists
<1>5. Promise!Init
  BY <1>1, <1>4 DEF Promise!Init
<1> QED
  BY <1>2, <1>3, <1>5 DEF WorkInv

\* A mild step in which runners at most stop, and one in which one calls success().
LEMMA MildPromise ==
  ASSUME IInv, IInv', OnceInv, TreeInv, TreeInv', WorkInv, Mildly,
         Lull \/ \E a \in Jobs : Done(a)
  PROVE  WorkInv' /\ Promise!Next
<1>1. CASE Lull
  BY <1>1, LullWork, LullEnds DEF Promise!Next
<1>2. ASSUME NEW a \in Jobs, Done(a)
      PROVE  WorkInv' /\ Promise!Next
  BY <1>2, DoneWork, DoneSucceeds, MildLives DEF Promise!Next
<1> QED
  BY <1>1, <1>2

\* A reply takes a step of the tree, or none.
LEMMA ReplyPromise ==
  ASSUME IInv, IInv', OnceInv, TreeInv, TreeInv', WorkInv, StartedOnce', Requests,
         NEW n \in Nodes, Reply(n)
  PROVE  WorkInv' /\ Promise!Next
<1>1. AddJob(n) \/ TagJob(n) \/ Mildly
  BY RoundTripTree, StartJobsTree, DullReply, StartRunnerTree, FinishTree,
     SetTreeTree, AbortRunnersTree DEF Reply
<1>2. CASE AddJob(n) \/ TagJob(n)
  <2>1. PICK y, z : AddTurn(n, y, z)
    BY <1>2, AddJobTree
  <2>2. WorkInv'
    BY <2>1, AddWork
  <2>3. Lull \/ \E j \in Jobs : Promise!Add(j)
    BY <2>1, AddAdds
  <2> QED
    BY <2>2, <2>3, LullEnds DEF Promise!Next
<1>3. CASE StartRunner(n) /\ Mildly
  <2>1. WorkInv'
    BY <1>3, StartWork
  <2>2. PICK j \in Jobs :
          /\ Exists(j) /\ starts[j] = 0 /\ starts' = [starts EXCEPT ![j] = @ + 1]
          /\ act' = [act EXCEPT ![j] = "active"] /\ UNCHANGED succeeded
    BY <1>3, StartWork
  <2>3. Promise!Start(j)
    BY <1>3, <2>2, StartStarts, MildLives
  <2> QED
    BY <2>1, <2>3 DEF Promise!Next
<1>4. CASE (ListTree(n) \/ TreeJobSet(n)) /\ Mildly
  BY <1>4, SetTreeDone, MildPromise
<1>5. \/ AddJob(n) \/ TagJob(n) \/ StartRunner(n) \/ ListTree(n) \/ TreeJobSet(n)
      \/ Mildly => Lull
  BY ReplyLull DEF Reply
<1> QED
  BY <1>1, <1>2, <1>3, <1>4, <1>5, MildPromise

\* So does a step of a runner, and the submission of a tree.
LEMMA RunnerPromise ==
  ASSUME IInv, IInv', OnceInv, TreeInv, TreeInv', WorkInv, Requests,
         NEW j \in Jobs, Runner(j) \/ Submit(j)
  PROVE  WorkInv' /\ [Promise!Next]_(Promise!jobVars)
<1>1. CASE Succeed(j)
  <2>1. Mildly
    BY <1>1, RunnerTree
  <2>2. Done(j)
    BY <1>1 DEF Succeed, Done
  <2> QED
    BY <2>1, <2>2, MildPromise
<1>2. CASE Fail(j)
  BY <1>2, RunnerTree, FailLull, MildPromise
<1>3. CASE AddJobs(j) \/ Submit(j)
  BY <1>3, BeginWork, BeginStutters
<1> QED
  BY <1>1, <1>2, <1>3 DEF Runner

\* Every step of the job managers is one of the promise, or changes no phase.
LEMMA PromiseStep ==
  ASSUME Requests, AddersRunOn
  PROVE  /\ IInv /\ IInv' /\ OnceInv /\ TreeInv /\ TreeInv' /\ WorkInv
         /\ StartedOnce' /\ [Next]_vars
         => WorkInv' /\ [Promise!Next]_(Promise!jobVars)
<1> SUFFICES ASSUME IInv, IInv', OnceInv, TreeInv, TreeInv', WorkInv, StartedOnce', [Next]_vars
             PROVE  WorkInv' /\ [Promise!Next]_(Promise!jobVars)
  OBVIOUS
<1>1. CASE UNCHANGED vars
  <2>1. UNCHANGED <<state, cmds, act, starts, succeeded>>
    BY <1>1 DEF vars
  <2>2. \A j \in Jobs : PhaseOf(j)' = PhaseOf(j)
    BY <2>1 DEF PhaseOf, Exists
  <2>3. UNCHANGED Promise!jobVars
    BY <2>1, <2>2 DEF Promise!jobVars
  <2>4. \A a \in Adders : Whole(a)' = Whole(a)
    BY <2>1 DEF Whole, Exists
  <2>5. WorkInv'
    BY <2>1, <2>4 DEF WorkInv, RunnerInv, BusyInv
  <2> QED
    BY <2>3, <2>5
<1>2. ASSUME NEW n \in Nodes, Reply(n)
      PROVE  WorkInv' /\ Promise!Next
  BY <1>2, ReplyPromise
<1>3. ASSUME NEW n \in Nodes,
             \/ Run(n) \/ OtherStatus(n) \/ Crash(n) \/ Restart(n) \/ SweepNode(n)
             \/ \E j \in Jobs : UserAbort(j)
      PROVE  WorkInv' /\ Promise!Next
  <2>1. Mildly
    BY <1>3, RunTree
  <2>2. Lull
    BY <1>3, <2>1, RunLull
  <2> QED
    BY <2>1, <2>2, MildPromise
<1>4. ASSUME NEW j \in Jobs, Runner(j) \/ Submit(j)
      PROVE  WorkInv' /\ [Promise!Next]_(Promise!jobVars)
  BY <1>4, RunnerPromise
<1>5. ASSUME NEW j \in Jobs, UserAbort(j)
      PROVE  WorkInv' /\ Promise!Next
  <2>1. Pacemaker \in Nodes
    BY ManagerAssumption
  <2> QED
    BY <1>3, <1>5, <2>1
<1> QED
  BY <1>1, <1>2, <1>3, <1>4, <1>5 DEF Next

-----------------------------------------------------------------------------
(* Theorems *)

\* While no job is started a second time, the job managers implement JobTree,
\* whatever fails, is aborted, crashes and comes back: jobs start from the leaves
\* to the root, a tree grows only below what waits and by a job that runs, and a
\* request job succeeds after it has added all that it adds.
THEOREM PromiseWhileOnce ==
  ASSUME Requests, AddersRunOn
  PROVE  Spec /\ []StartedOnce => StartsInOrder
<1>1. Init => IInv /\ OnceInv /\ TreeInv /\ WorkInv /\ Promise!Init
  BY InitSafe, OnceInit, TreeInit, WorkInit
<1>2. IInv /\ OnceInv /\ TreeInv /\ [Next]_vars => (IInv /\ OnceInv /\ TreeInv)'
  BY StepSafe, OnceStep, TreeStep
<1>3. /\ IInv /\ OnceInv /\ TreeInv /\ WorkInv /\ (IInv /\ OnceInv /\ TreeInv)'
      /\ StartedOnce' /\ [Next]_vars
      => WorkInv' /\ [Promise!Next]_(Promise!jobVars)
  BY PromiseStep
<1> QED
  BY <1>1, <1>2, <1>3, PTL DEF Spec, StartsInOrder, Promise!Spec
-----------------------------------------------------------------------------
(* What a step puts into pipelines *)

\* Commands that work on no job that Redis has, and count none; of those that list
\* jobs, only allow_execution looks for new ones.
Idle == {c \in Command : /\ c.op \notin Doing \cup {"count"}
                         /\ c.op = "list" => c.from # "NEW" \/ c.to = "WAITING"}

\* x is what the reply to c makes node n issue: a round trip, a step of evaluate, of
\* _start_job, of set_attrs, of completed or of set_state_tree.
Follows(n, c, x) ==
  \/ x = [c EXCEPT !.hop = FALSE]
  \/ c.op = "ready" /\ x = [Blank EXCEPT !.op = "count", !.left = idx["WAITING"] \cap JobsOf(n)]
  \/ c.op = "count" /\ \E j \in c.left \ inStartup[n] : x = JobCommand("fetch", j)
  \/ c.op = "fetch" /\ x = [JobCommand("context", c.job) EXCEPT !.hop = TRUE]
  \/ c.op = "context" /\ x = [JobCommand("get", c.job) EXCEPT !.to = "RUNNING",
                                !.then = "on_running", !.all = ContextOf(c.job)]
  \/ c.op = "get" /\ x = [c EXCEPT !.op = "set", !.from = state[c.job]]
  \/ /\ c.op = "store" /\ ContextTx(c.job)
     /\ x = [JobCommand("finish", c.job) EXCEPT !.to = c.to]
  \/ c.op = "finish" /\ x = [c EXCEPT !.op = "get", !.then = "on_state_updated"]
  \/ /\ c.op = "list" /\ c.then \in TreeConts
     /\ \E S \in SUBSET (idx[c.from] \cap Tree(c.tree)) : \E j \in S :
          x = [c EXCEPT !.op = "get", !.job = j, !.left = S \ {j}, !.all = S]
  \/ /\ c.op = "set" /\ c.then \in TreeConts
     /\ \E j \in c.left : x = [c EXCEPT !.op = "get", !.job = j, !.left = c.left \ {j}]

\* x reports the end of a job that was started, is to be stopped, or added jobs.
Reports(n, x) ==
  \E j \in Jobs, s \in FinishedStates :
    /\ x = Completed(j, s)
    /\ starts[j] > 0 \/ Has(loop[n], Stopping(j)) \/ j \in Adders

\* What may be in the pipeline of a node after a step.
Issuable(n) == {x \in Command :
  \/ \E i \in DOMAIN cmds[n] : cmds[n][i] = x
  \/ x \in Idle
  \/ cmds[n] # <<>> /\ Follows(n, Head(cmds[n]), x)
  \/ Reports(n, x)}

\* What is idle may be issued.
LEMMA IdleFacts ==
  /\ \A c \in Command : c.op \notin Doing \cup {"count", "list"} => c \in Idle
  /\ \A n : /\ Idle \subseteq Issuable(n) /\ Seq(Idle) \subseteq Seq(Issuable(n))
            /\ <<>> \in Seq(Issuable(n))
<1>1. \A n : Idle \subseteq Issuable(n)
  BY DEF Idle, Issuable
<1> QED
  BY <1>1 DEF Idle

\* set_state_tree lists jobs.
LEMMA ListIsIdle ==
  ASSUME NEW j \in Jobs, NEW from \in States, NEW to \in {"WAITING", "ABORTED"},
         NEW node \in Nodes \cup {NoNode}, NEW then \in TreeConts,
         NEW by \in Jobs \cup {NoJob}, NEW todo \in SUBSET Jobs,
         from # "NEW" \/ to = "WAITING"
  PROVE  /\ ListCommand(j, from, to, node, then) \in Idle
         /\ [ListCommand(j, from, to, node, then) EXCEPT !.by = by] \in Idle
         /\ [ListCommand(j, from, to, node, then) EXCEPT !.todo = todo] \in Idle
<1>1. /\ ListCommand(j, from, to, node, then) \in Command
      /\ [ListCommand(j, from, to, node, then) EXCEPT !.by = by] \in Command
      /\ [ListCommand(j, from, to, node, then) EXCEPT !.todo = todo] \in Command
  BY ListIsGood DEF Good
<1>2. \A c \in {ListCommand(j, from, to, node, then),
                [ListCommand(j, from, to, node, then) EXCEPT !.by = by],
                [ListCommand(j, from, to, node, then) EXCEPT !.todo = todo]} :
        c.op = "list" /\ c.from = from /\ c.to = to
  BY BlankType DEF ListCommand, Command
<1> QED
  BY <1>1, <1>2 DEF Idle, Doing

\* A status goes out.
LEMMA PublishIsIdle ==
  ASSUME NEW j \in Jobs, NEW s \in States
  PROVE  Publish(j, s) \in Idle
<1>1. Publish(j, s) \in Command
  BY PublishIsGood DEF Good
<1>2. Publish(j, s).op = "publish"
  BY BlankType DEF Publish, Command
<1> QED
  BY <1>1, <1>2, IdleFacts DEF Doing

\* A run of an abort handler.
LEMMA HandlerIsIdle ==
  ASSUME NEW j \in Jobs, NEW op \in {"handler_job", "handler_context"}
  PROVE  JobCommand(op, j) \in Idle /\ [JobCommand(op, j) EXCEPT !.hop = TRUE] \in Idle
<1>1. JobCommand(op, j) \in Command /\ [JobCommand(op, j) EXCEPT !.hop = TRUE] \in Command
  BY JobCommandIsGood DEF Good, JobOps
<1>2. JobCommand(op, j).op = op /\ [JobCommand(op, j) EXCEPT !.hop = TRUE].op = op
  BY BlankType DEF JobCommand, Command
<1> QED
  BY <1>1, <1>2, IdleFacts DEF Doing

\* add_job of one of the jobs that are added.
LEMMA AddIsIdle ==
  ASSUME NEW j \in Jobs, NEW batch \in SUBSET Jobs, NEW by \in Jobs \cup {NoJob}
  PROVE  AddCommand(j, batch, by) \in Idle
<1>1. AddCommand(j, batch, by) \in Command
  BY AddIsGood DEF Good
<1>2. AddCommand(j, batch, by).op = "add"
  BY BlankType DEF AddCommand, Command
<1> QED
  BY <1>1, <1>2, IdleFacts DEF Doing

\* The end of a job that was started, is to be stopped, or added jobs.
LEMMA ReportIsIssuable ==
  ASSUME NEW n, NEW j \in Jobs, NEW s \in FinishedStates,
         starts[j] > 0 \/ Has(loop[n], Stopping(j)) \/ j \in Adders
  PROVE  Completed(j, s) \in Issuable(n)
<1>1. s \in States
  BY DEF FinishedStates, States
<1>2. Completed(j, s) \in Command
  BY <1>1, CompletedIsGood DEF Good
<1> QED
  BY <1>2, ZenonT(40) DEF Issuable, Reports

\* Issuable commands are put into a pipeline, at its head or at its end.
LEMMA QueueIssuable ==
  ASSUME IInv, NEW n \in Nodes, NEW next \in Seq(Issuable(n)),
         (cmds[n] # <<>> /\ Issue(n, next)) \/ Enqueue(n, next) \/ UNCHANGED cmds
  PROVE  \A m \in Nodes : cmds'[m] \in Seq(Issuable(m))
<1>1. DOMAIN cmds = Nodes
  BY DEF IInv
<1>2. \A m \in Nodes : cmds[m] \in Seq(Issuable(m))
  <2> SUFFICES ASSUME NEW m \in Nodes
               PROVE  cmds[m] \in Seq(Issuable(m))
    OBVIOUS
  <2>1. cmds[m] \in Seq(Good(succeeded))
    BY DEF IInv
  <2>2. \A i \in DOMAIN cmds[m] : cmds[m][i] \in Command
    BY <2>1 DEF Good
  <2>3. \A i \in DOMAIN cmds[m] : cmds[m][i] \in Issuable(m)
    BY <2>2, ZenonT(40) DEF Issuable
  <2> QED
    BY <2>1, <2>3
<1>3. CASE cmds[n] # <<>> /\ Issue(n, next)
  <2>1. Tail(cmds[n]) \o next \in Seq(Issuable(n))
    BY <1>2, <1>3, TailIsSeq, ConcatIsSeq
  <2> QED
    BY <1>1, <1>2, <1>3, <2>1 DEF Issue
<1>4. CASE Enqueue(n, next)
  <2>1. cmds[n] \o next \in Seq(Issuable(n))
    BY <1>2, ConcatIsSeq
  <2> QED
    BY <1>1, <1>2, <1>4, <2>1 DEF Enqueue
<1> QED
  BY <1>2, <1>3, <1>4

\* A status goes out.
LEMMA SendIssuable ==
  ASSUME IInv, NEW n \in Nodes, NEW S \in SUBSET Jobs, NEW s \in States,
         NEW b, b = cmds[n] \/ (cmds[n] # <<>> /\ b = Tail(cmds[n])),
         NEW next \in Seq(Issuable(n)), SendJobStatus(n, S, s, b, next)
  PROVE  \A m \in Nodes : cmds'[m] \in Seq(Issuable(m))
<1>1. DOMAIN cmds = Nodes /\ cmds[n] \in Seq(Good(succeeded))
  BY DEF IInv
<1>2. PICK order \in SetToSeqs(S) :
        cmds' = [cmds EXCEPT ![n] =
                   b \o [i \in DOMAIN order |-> Publish(order[i], s)] \o next]
  BY DEF SendJobStatus
<1>3. PICK p : p = [i \in DOMAIN order |-> Publish(order[i], s)]
  OBVIOUS
<1>4. p \in Seq(Issuable(n))
  <2>1. PICK k \in Nat : DOMAIN order = 1..k
    BY OrderIsSeq
  <2>2. \A i \in 1..k : Publish(order[i], s) \in Issuable(n)
    BY <2>1, OrderIsSeq, PublishIsIdle, IdleFacts
  <2> QED
    BY <1>3, <2>1, <2>2
<1>5. p \o next \in Seq(Issuable(n))
  BY <1>4, ConcatIsSeq
<1>6. b \o p \o next = b \o (p \o next)
  <2>1. \E K : b \in Seq(K)
    BY <1>1, TailIsSeq
  <2> QED
    BY <1>4, <2>1
<1>7. CASE b = cmds[n]
  <2>1. Enqueue(n, p \o next)
    BY <1>1, <1>2, <1>3, <1>6, <1>7 DEF Enqueue
  <2> QED
    BY <1>5, <2>1, QueueIssuable
<1>8. CASE cmds[n] # <<>> /\ b = Tail(cmds[n])
  <2>1. Issue(n, p \o next)
    BY <1>1, <1>2, <1>3, <1>6, <1>8 DEF Issue
  <2> QED
    BY <1>5, <1>8, <2>1, QueueIssuable
<1> QED
  BY <1>7, <1>8

\* add_tree goes on.
LEMMA AddNextIssuable ==
  ASSUME IInv, NEW n \in Nodes, cmds[n] # <<>>, NEW c \in Command, c.job \in Jobs, AddNext(n, c)
  PROVE  \A m \in Nodes : cmds'[m] \in Seq(Issuable(m))
<1>1. c.left \in SUBSET Jobs /\ c.by \in Jobs \cup {NoJob}
  BY DEF Command
<1>2. CASE \E j \in NextJobs(c.job, c.left) : Issue(n, <<AddCommand(j, c.left, c.by)>>)
  <2>1. PICK j \in c.left : Issue(n, <<AddCommand(j, c.left, c.by)>>)
    BY <1>2 DEF NextJobs
  <2>2. AddCommand(j, c.left, c.by) \in Issuable(n)
    BY <1>1, AddIsIdle, IdleFacts
  <2> QED
    BY <2>1, <2>2, UnitIsSeq, QueueIssuable
<1>3. CASE Issue(n, <<[ListCommand(Root[c.job], "NEW", "WAITING", NoNode,
                                   "allow_execution") EXCEPT !.by = c.by]>>)
  <2>1. Root[c.job] \in Jobs /\ "NEW" \in States /\ "allow_execution" \in TreeConts
    BY ForestAssumption DEF States, TreeConts
  <2>2. [ListCommand(Root[c.job], "NEW", "WAITING", NoNode, "allow_execution")
           EXCEPT !.by = c.by] \in Issuable(n)
    BY <1>1, <2>1, ListIsIdle, IdleFacts
  <2> QED
    BY <1>3, <2>2, UnitIsSeq, QueueIssuable
<1> QED
  BY <1>2, <1>3 DEF AddNext

\* set_state_tree goes on, or its callback runs.
LEMMA NextInTreeIssuable ==
  ASSUME IInv, NEW n \in Nodes, cmds[n] # <<>>, NEW c \in Good(succeeded),
         c.then \in TreeConts, c.by \in Adders \cup {NoJob}, NextInTree(n, c),
         \A j \in c.left :
           [c EXCEPT !.op = "get", !.job = j, !.left = c.left \ {j}] \in Issuable(n)
  PROVE  \A m \in Nodes : cmds'[m] \in Seq(Issuable(m))
<1>1. /\ c \in Command /\ c.tree \in Jobs /\ c.by \in Jobs \cup {NoJob}
      /\ c.all \in SUBSET Jobs /\ c.left \in SUBSET Jobs /\ c.todo \in SUBSET Jobs
      /\ c.node \in Nodes \cup {NoNode} /\ c.to \in {"WAITING", "ABORTED"}
  BY DEF Good, Command
<1>2. /\ "WAITING" \in States /\ "ABORTED" \in States /\ "RUNNING" \in States
      /\ "SUCCESS" \in FinishedStates
      /\ "force_running" \in TreeConts /\ "force_waiting" \in TreeConts
  BY DEF States, FinishedStates, TreeConts
<1>3. <<>> \in Seq(Issuable(n))
  BY IdleFacts
<1>4. ASSUME NEW S \in SUBSET Jobs, NEW s \in States, NEW next \in Seq(Issuable(n)),
             SendJobStatus(n, S, s, Tail(cmds[n]), next)
      PROVE  \A m \in Nodes : cmds'[m] \in Seq(Issuable(m))
  BY <1>4, SendIssuable
<1>5. CASE /\ c.by # NoJob
           /\ SendJobStatus(n, {c.tree}, "WAITING", Tail(cmds[n]),
                            <<Completed(c.by, "SUCCESS")>>)
  <2>1. c.by \in Adders /\ c.by \in Jobs
    BY <1>1, <1>5
  <2>2. Completed(c.by, "SUCCESS") \in Issuable(n)
    BY <1>2, <2>1, ReportIsIssuable
  <2>3. {c.tree} \in SUBSET Jobs
    BY <1>1
  <2> QED
    BY <1>2, <1>4, <1>5, <2>2, <2>3, UnitIsSeq
<1>6. CASE \/ SendJobStatus(n, {c.tree}, "WAITING", Tail(cmds[n]), <<>>)
           \/ SendJobStatus(n, c.all, "ABORTED", Tail(cmds[n]), <<>>)
  <2>1. {c.tree} \in SUBSET Jobs
    BY <1>1
  <2> QED
    BY <1>1, <1>2, <1>3, <1>4, <1>6, <2>1
<1>7. CASE SendJobStatus(n, c.all, "ABORTED", Tail(cmds[n]),
             <<[ListCommand(c.tree, "RUNNING", "ABORTED", c.node, "force_running")
                  EXCEPT !.todo = c.todo]>>)
  <2>1. [ListCommand(c.tree, "RUNNING", "ABORTED", c.node, "force_running")
           EXCEPT !.todo = c.todo] \in Issuable(n)
    BY <1>1, <1>2, ListIsIdle, IdleFacts
  <2> QED
    BY <1>1, <1>2, <1>4, <1>7, <2>1, UnitIsSeq
<1>8. CASE \E j \in c.todo : SendJobStatus(n, c.all, "ABORTED", Tail(cmds[n]),
                               <<ForceAbort(j, c.node, c.todo \ {j})>>)
  <2>1. PICK j \in c.todo : SendJobStatus(n, c.all, "ABORTED", Tail(cmds[n]),
                              <<ForceAbort(j, c.node, c.todo \ {j})>>)
    BY <1>8
  <2>2. ForceAbort(j, c.node, c.todo \ {j}) \in Issuable(n)
    BY <1>1, <1>2, ListIsIdle, IdleFacts DEF ForceAbort
  <2> QED
    BY <1>1, <1>2, <1>4, <2>1, <2>2, UnitIsSeq
<1>9. CASE \E j \in c.left :
             Issue(n, <<[c EXCEPT !.op = "get", !.job = j, !.left = c.left \ {j}]>>)
  <2>1. PICK j \in c.left :
          Issue(n, <<[c EXCEPT !.op = "get", !.job = j, !.left = c.left \ {j}]>>)
    BY <1>9
  <2>2. [c EXCEPT !.op = "get", !.job = j, !.left = c.left \ {j}] \in Issuable(n)
    BY <2>1
  <2> QED
    BY <2>1, <2>2, UnitIsSeq, QueueIssuable
<1>10. \/ TreeSet(n, c)
       \/ \E j \in c.left :
            Issue(n, <<[c EXCEPT !.op = "get", !.job = j, !.left = c.left \ {j}]>>)
  BY ZenonT(40) DEF NextInTree
<1>11. CASE TreeSet(n, c)
  BY <1>5, <1>6, <1>7, <1>8, <1>11, ZenonT(40) DEF TreeSet
<1> QED
  BY <1>9, <1>10, <1>11

\* A command that follows the head of a pipeline is issuable.
LEMMA FollowsIsIssuable ==
  ASSUME NEW n \in Nodes, cmds[n] # <<>>, NEW x \in Command, Follows(n, Head(cmds[n]), x)
  PROVE  x \in Issuable(n)
BY ZenonT(40) DEF Issuable

\* The replies.
LEMMA ReplyIssuable ==
  ASSUME IInv, IInv', OnceInv, TreeInv, NEW n \in Nodes, Reply(n)
  PROVE  \A m \in Nodes : cmds'[m] \in Seq(Issuable(m))
<1> DEFINE c == Head(cmds[n])
<1>1. cmds[n] # <<>>
  <2>1. GetRoot(n) \/ \E op \in Ops : Answer(n, op)
    BY DEF Reply, AddJob, TagJob, WaitingJobs, StartJobs, Instantiate, GotContext,
           GotCurrentState, StartRunner, StateUpdated, ContextStored, GotFinishedJob,
           ListTree, TreeJobSet, AbortRunners, FindAbortHandlers, AbortHandlerJob,
           RunAbortHandler, NodeJobs, PublishStatus, Ops
  <2> QED
    BY <2>1 DEF GetRoot, Answer
<1>2. c \in Command /\ c \in Good(succeeded) /\ c \in Ordered(n)
  BY <1>1, HeadLives
<1>3. /\ c.op \in JobOps => c.job \in Jobs
      /\ c.to \in States /\ c.left \in SUBSET Jobs /\ c.node \in Nodes \cup {NoNode}
      /\ c.by \in Adders \cup {NoJob}
  BY <1>2 DEF Good, Command, Ordered
<1>4. ASSUME NEW next \in Seq(Issuable(n)), Issue(n, next)
      PROVE  \A m \in Nodes : cmds'[m] \in Seq(Issuable(m))
  BY <1>1, <1>4, QueueIssuable
<1>5. ASSUME NEW x \in Issuable(n), Issue(n, <<x>>)
      PROVE  \A m \in Nodes : cmds'[m] \in Seq(Issuable(m))
  BY <1>4, <1>5, UnitIsSeq
<1>6. ASSUME NEW x \in Command, Issue(n, <<x>>), Follows(n, c, x)
      PROVE  \A m \in Nodes : cmds'[m] \in Seq(Issuable(m))
  BY <1>1, <1>5, <1>6, FollowsIsIssuable
<1>7. Idle \subseteq Issuable(n) /\ Seq(Idle) \subseteq Seq(Issuable(n)) /\ <<>> \in Seq(Issuable(n))
  BY IdleFacts
<1>8. ASSUME NEW x \in Command, Follows(n, c, x)
      PROVE  x \in Issuable(n)
  BY <1>1, <1>8, FollowsIsIssuable
<1> HIDE DEF c
<1>9. CASE GetRoot(n)
  <2>1. PICK x : x = [c EXCEPT !.hop = FALSE]
    OBVIOUS
  <2>2. x \in Command
    BY <1>2, <2>1 DEF Command
  <2>3. Follows(n, c, x)
    BY <2>1 DEF Follows
  <2> QED
    BY <1>6, <1>9, <2>1, <2>2, <2>3 DEF GetRoot, c
<1>10. CASE AddJob(n) \/ TagJob(n)
  <2>1. c.op \in Adding /\ c.job \in Jobs
    BY <1>3, <1>10 DEF AddJob, TagJob, Answer, c, Adding, JobOps
  <2>2. CASE AddNext(n, c)
    BY <1>1, <1>2, <2>1, <2>2, AddNextIssuable
  <2>3. CASE Issue(n, <<[c EXCEPT !.op = "tag", !.hop = TRUE]>>)
    <3>1. [c EXCEPT !.op = "tag", !.hop = TRUE] \in Command
          /\ [c EXCEPT !.op = "tag", !.hop = TRUE].op = "tag"
      BY <1>2, ZenonT(40) DEF Command, Ops
    <3>2. [c EXCEPT !.op = "tag", !.hop = TRUE] \in Issuable(n)
      BY <1>7, <3>1, IdleFacts DEF Doing
    <3> QED
      BY <1>5, <2>3, <3>2
  <2> QED
    BY <1>10, <2>2, <2>3 DEF AddJob, TagJob, c
<1>11. CASE WaitingJobs(n)
  <2>1. PICK waiting \in SUBSET Jobs : waiting = idx["WAITING"] \cap JobsOf(n)
    BY DEF JobsOf
  <2>2. PICK x : x = [Blank EXCEPT !.op = "count", !.left = waiting]
    OBVIOUS
  <2>3. x \in Command
    BY <2>2, BlankType DEF Command, Ops
  <2>4. Issue(n, <<>>) \/ Issue(n, <<x>>)
    BY <1>11, <2>1, <2>2 DEF WaitingJobs
  <2>5. Follows(n, c, x)
    BY <1>11, <2>1, <2>2, ZenonT(40) DEF Follows, WaitingJobs, Answer, c
  <2> QED
    BY <1>4, <1>6, <1>7, <2>3, <2>4, <2>5
<1>12. CASE StartJobs(n)
  <2>1. PICK new \in SUBSET Jobs : new = {j \in c.left : Ready(j)} \ inStartup[n]
    BY <1>3
  <2>2. PICK order \in SetToSeqs(new) :
          Issue(n, [i \in DOMAIN order |-> JobCommand("fetch", order[i])])
    BY <1>12, <2>1 DEF StartJobs, c
  <2>3. c.op = "count"
    BY <1>12 DEF StartJobs, Answer, c
  <2>4. \A j \in new : JobCommand("fetch", j) \in Command
    BY JobCommandIsGood DEF Good, JobOps
  <2>5. \A j \in new : JobCommand("fetch", j) \in Issuable(n)
    <3> SUFFICES ASSUME NEW j \in new
                 PROVE  Follows(n, c, JobCommand("fetch", j))
      BY <1>8, <2>4
    <3>1. j \in c.left \ inStartup[n]
      BY <2>1
    <3> QED
      BY <2>3, <3>1, ZenonT(40) DEF Follows
  <2>6. [i \in DOMAIN order |-> JobCommand("fetch", order[i])] \in Seq(Issuable(n))
    <3>1. PICK k \in Nat : DOMAIN order = 1..k
      BY OrderIsSeq
    <3>2. \A i \in 1..k : JobCommand("fetch", order[i]) \in Issuable(n)
      BY <2>5, <3>1, OrderIsSeq
    <3> QED
      BY <3>1, <3>2
  <2> QED
    BY <1>4, <2>2, <2>6
<1>13. CASE Instantiate(n)
  <2>1. c.job \in Jobs /\ c.op = "fetch"
    BY <1>3, <1>13 DEF Instantiate, Answer, c, JobOps
  <2>2. PICK x : x = [JobCommand("context", c.job) EXCEPT !.hop = TRUE]
    OBVIOUS
  <2>3. x \in Command
    BY <2>1, <2>2, JobCommandIsGood DEF Good, JobOps
  <2>4. Follows(n, c, x)
    BY <2>1, <2>2, ZenonT(40) DEF Follows
  <2> QED
    BY <1>6, <1>13, <2>2, <2>3, <2>4 DEF Instantiate, c
<1>14. CASE GotContext(n)
  <2>1. c.job \in Jobs /\ c.op = "context"
    BY <1>3, <1>14 DEF GotContext, Answer, c, JobOps
  <2>2. PICK all \in SUBSET Jobs : all = ContextOf(c.job)
    BY DEF ContextOf, Tree
  <2>3. PICK x : x = [JobCommand("get", c.job) EXCEPT !.to = "RUNNING",
                        !.then = "on_running", !.all = all]
    OBVIOUS
  <2>4. x \in Command
    BY <2>1, <2>3, BlankType DEF JobCommand, Command, Ops, Conts, States
  <2>5. Follows(n, c, x)
    BY <2>1, <2>2, <2>3, ZenonT(40) DEF Follows
  <2> QED
    BY <1>6, <1>14, <2>2, <2>3, <2>4, <2>5 DEF GotContext, c
<1>15. CASE GotCurrentState(n)
  <2>1. PICK x : x = [c EXCEPT !.op = "set", !.from = state[c.job]]
    OBVIOUS
  <2>2. c.op = "get" /\ c.job \in Jobs
    BY <1>3, <1>15 DEF GotCurrentState, Answer, c, JobOps
  <2>3. x \in Command
    <3>1. state[c.job] \in States \cup {Absent} /\ "set" \in Ops
      BY <2>2 DEF IInv, StoreTypeOK, Ops
    <3> QED
      BY <1>2, <2>1, <3>1 DEF Command
  <2>4. Follows(n, c, x)
    BY <2>1, <2>2, ZenonT(40) DEF Follows
  <2> QED
    BY <1>6, <1>15, <2>1, <2>3, <2>4 DEF GotCurrentState, c
<1>16. CASE StartRunner(n) \/ AbortRunners(n) \/ RunAbortHandler(n) \/ PublishStatus(n)
  BY <1>4, <1>7, <1>16 DEF StartRunner, AbortRunners, RunAbortHandler, PublishStatus
<1>17. ASSUME c.job \in Jobs, FinishRunner(n, c.job, c.to)
       PROVE  \A m \in Nodes : cmds'[m] \in Seq(Issuable(m))
  <2>1. {c.job} \in SUBSET Jobs
    BY <1>17
  <2> QED
    BY <1>1, <1>3, <1>7, <1>17, <2>1, SendIssuable DEF FinishRunner
<1>18. CASE StateUpdated(n)
  BY <1>3, <1>17, <1>18 DEF StateUpdated, Answer, c, JobOps
<1>19. CASE ContextStored(n)
  <2>1. c.job \in Jobs /\ c.op = "store" /\ ContextTx(c.job)
    BY <1>3, <1>19 DEF ContextStored, Answer, c, JobOps
  <2>2. PICK x : x = [JobCommand("finish", c.job) EXCEPT !.to = c.to]
    OBVIOUS
  <2>3. x \in Command
    BY <1>3, <2>1, <2>2, BlankType DEF JobCommand, Command, Ops
  <2>4. Follows(n, c, x)
    BY <2>1, <2>2, ZenonT(40) DEF Follows
  <2> QED
    BY <1>6, <1>19, <2>2, <2>3, <2>4 DEF ContextStored, c
<1>20. CASE GotFinishedJob(n)
  <2>1. c.job \in Jobs /\ c.op = "finish"
    BY <1>3, <1>20 DEF GotFinishedJob, Answer, c, JobOps
  <2>2. PICK x : x = [c EXCEPT !.op = "get", !.then = "on_state_updated"]
    OBVIOUS
  <2>3. x \in Command
    <3>1. "get" \in Ops /\ "on_state_updated" \in Conts
      BY DEF Ops, Conts
    <3> QED
      BY <1>2, <2>2, <3>1 DEF Command
  <2>4. Follows(n, c, x)
    BY <2>1, <2>2, ZenonT(40) DEF Follows
  <2>5. FinishRunner(n, c.job, c.to) \/ Issue(n, <<x>>)
    BY <1>20, <2>2 DEF GotFinishedJob, c
  <2> QED
    BY <1>6, <1>17, <2>1, <2>3, <2>4, <2>5
<1>21. CASE ListTree(n)
  <2>1. PICK found \in SUBSET Jobs :
          found = {j \in idx[c.from] \cap Tree(c.tree) : c.node = NoNode \/ NodeOf[j] = c.node}
    BY DEF Tree
  <2>2. PICK x : x = [c EXCEPT !.left = found, !.all = found]
    OBVIOUS
  <2>3. c.op = "list" /\ NextInTree(n, x)
    BY <1>21, <2>1, <2>2 DEF ListTree, Answer, c
  <2>4. c.then \in TreeConts
    BY <1>2, <2>3 DEF Good
  <2>5. /\ x \in Command /\ x.op = c.op /\ x.to = c.to /\ x.job = c.job
        /\ x.then = c.then /\ x.tree = c.tree /\ x.by = c.by /\ x.left = found
    BY <1>2, <2>2 DEF Command
  <2>6. x \in Good(succeeded) /\ x.then \in TreeConts /\ x.by \in Adders \cup {NoJob}
    BY <1>2, <1>3, <2>4, <2>5 DEF Good
  <2>7. ASSUME NEW j \in found
        PROVE  [x EXCEPT !.op = "get", !.job = j, !.left = x.left \ {j}] \in Issuable(n)
    <3>1. PICK y : y = [c EXCEPT !.op = "get", !.job = j, !.left = found \ {j}, !.all = found]
      OBVIOUS
    <3>2. [x EXCEPT !.op = "get", !.job = j, !.left = x.left \ {j}] = y
      BY <1>2, <2>2, <2>5, <3>1 DEF Command
    <3>3. j \in Jobs /\ "get" \in Ops /\ found \ {j} \in SUBSET Jobs
      BY DEF Ops
    <3>4. y \in Command
      BY <1>2, <3>1, <3>3, ZenonT(40) DEF Command
    <3>5. found \in SUBSET (idx[c.from] \cap Tree(c.tree))
      BY <2>1
    <3>6. Follows(n, c, y)
      BY <2>3, <2>4, <2>7, <3>1, <3>5, ZenonT(40) DEF Follows
    <3> QED
      BY <1>8, <3>2, <3>4, <3>6
  <2> QED
    BY <1>1, <2>3, <2>5, <2>6, <2>7, NextInTreeIssuable
<1>22. CASE TreeJobSet(n)
  <2>1. /\ c.op = "set" /\ c.then \notin {"on_running", "on_state_updated"}
        /\ NextInTree(n, c)
    BY <1>22 DEF TreeJobSet, Answer, c
  <2>2. c.then \in TreeConts
    BY <1>2, <2>1 DEF Good, Command, Conts, TreeConts
  <2>3. ASSUME NEW j \in c.left
        PROVE  [c EXCEPT !.op = "get", !.job = j, !.left = c.left \ {j}] \in Issuable(n)
    <3>1. PICK y : y = [c EXCEPT !.op = "get", !.job = j, !.left = c.left \ {j}]
      OBVIOUS
    <3>2. j \in Jobs /\ "get" \in Ops /\ c.left \ {j} \in SUBSET Jobs
      BY <1>3, <2>3 DEF Ops
    <3>3. y \in Command
      BY <1>2, <3>1, <3>2, ZenonT(40) DEF Command
    <3>4. Follows(n, c, y)
      BY <2>1, <2>2, <2>3, <3>1, ZenonT(40) DEF Follows
    <3> QED
      BY <1>8, <3>1, <3>3, <3>4
  <2> QED
    BY <1>1, <1>2, <1>3, <2>1, <2>2, <2>3, NextInTreeIssuable
<1>23. CASE FindAbortHandlers(n)
  <2>1. PICK found \in SUBSET Jobs :
          found = {k \in Tree(c.tree) \cap JobsOf(n) \cap handlers[n] : Exists(k)}
    BY DEF Tree
  <2>2. PICK order \in SetToSeqs(found) :
          Issue(n, [i \in DOMAIN order |-> JobCommand("handler_job", order[i])])
    BY <1>23, <2>1 DEF FindAbortHandlers, c
  <2>3. [i \in DOMAIN order |-> JobCommand("handler_job", order[i])] \in Seq(Issuable(n))
    <3>1. PICK k \in Nat : DOMAIN order = 1..k
      BY OrderIsSeq
    <3>2. \A i \in 1..k : JobCommand("handler_job", order[i]) \in Issuable(n)
      BY <1>7, <3>1, OrderIsSeq, HandlerIsIdle
    <3> QED
      BY <3>1, <3>2
  <2> QED
    BY <1>4, <2>2, <2>3
<1>24. CASE AbortHandlerJob(n)
  <2>1. c.job \in Jobs
    BY <1>3, <1>24 DEF AbortHandlerJob, Answer, c, JobOps
  <2>2. [JobCommand("handler_context", c.job) EXCEPT !.hop = TRUE] \in Issuable(n)
    BY <1>7, <2>1, HandlerIsIdle
  <2> QED
    BY <1>5, <1>24, <2>2 DEF AbortHandlerJob, c
<1>25. CASE NodeJobs(n)
  <2>1. PICK found \in SUBSET Jobs :
          found = JobsOf(c.node) \cap (idx["RUNNING"] \cup
                    IF c.node = n THEN {} ELSE idx["WAITING"])
    BY DEF JobsOf
  <2>2. "WAITING" \in States /\ "force_waiting" \in TreeConts
    BY DEF States, TreeConts
  <2>3. Issue(n, <<>>) \/ \E j \in found : Issue(n, <<ForceAbort(j, c.node, found \ {j})>>)
    BY <1>25, <2>1 DEF NodeJobs, c
  <2>4. \A j \in found : ForceAbort(j, c.node, found \ {j}) \in Issuable(n)
    BY <1>3, <1>7, <2>2, ListIsIdle DEF ForceAbort
  <2> QED
    BY <1>4, <1>5, <1>7, <2>3, <2>4
<1> QED
  BY <1>9, <1>10, <1>11, <1>12, <1>13, <1>14, <1>15, <1>16, <1>18, <1>19, <1>20,
     <1>21, <1>22, <1>23, <1>24, <1>25 DEF Reply

\* What the IO loop, the runners, users, the health check and crashes do.
LEMMA OtherIssuable ==
  ASSUME IInv, OnceInv,
         \/ \E n \in Nodes : Run(n) \/ OtherStatus(n) \/ Crash(n) \/ Restart(n) \/ SweepNode(n)
         \/ \E j \in Jobs : Runner(j) \/ Submit(j) \/ UserAbort(j)
  PROVE  \A m \in Nodes : cmds'[m] \in Seq(Issuable(m))
<1>1. /\ DOMAIN cmds = Nodes /\ Pacemaker \in Nodes
      /\ "SUCCESS" \in FinishedStates /\ "FAILED" \in FinishedStates
      /\ "ABORTED" \in FinishedStates /\ "ABORTED" \in States
      /\ "WAITING" \in States /\ "handle_failure" \in TreeConts
  BY ManagerAssumption DEF IInv, States, FinishedStates, TreeConts
<1>2. ASSUME NEW n \in Nodes, NEW x \in Issuable(n), Enqueue(n, <<x>>)
      PROVE  \A m \in Nodes : cmds'[m] \in Seq(Issuable(m))
  BY <1>2, UnitIsSeq, QueueIssuable
<1>3. ASSUME UNCHANGED cmds
      PROVE  \A m \in Nodes : cmds'[m] \in Seq(Issuable(m))
  <2>1. <<>> \in Seq(Issuable(Pacemaker))
    OBVIOUS
  <2> QED
    BY <1>1, <1>3, <2>1, QueueIssuable
<1>4. /\ [Blank EXCEPT !.op = "ready"] \in Idle
      /\ \A t \in Nodes : [Blank EXCEPT !.op = "node_jobs", !.node = t] \in Idle
  <2>1. /\ [Blank EXCEPT !.op = "ready"] \in Command
        /\ [Blank EXCEPT !.op = "ready"].op = "ready"
    BY BlankType DEF Command, Ops
  <2>2. ASSUME NEW t \in Nodes
        PROVE  [Blank EXCEPT !.op = "node_jobs", !.node = t] \in Idle
    <3>1. /\ [Blank EXCEPT !.op = "node_jobs", !.node = t] \in Command
          /\ [Blank EXCEPT !.op = "node_jobs", !.node = t].op = "node_jobs"
      BY BlankType DEF Command, Ops
    <3> QED
      BY <3>1, IdleFacts DEF Doing
  <2> QED
    BY <2>1, <2>2, IdleFacts DEF Doing
<1>5. ASSUME NEW n \in Nodes,
             Evaluate(n) \/ OtherStatus(n) \/ Restart(n) \/ SweepNode(n)
      PROVE  \A m \in Nodes : cmds'[m] \in Seq(Issuable(m))
  <2>1. \A m \in Nodes : Idle \subseteq Issuable(m)
    BY IdleFacts
  <2>2. CASE Evaluate(n) \/ OtherStatus(n)
    BY <1>2, <1>4, <2>1, <2>2 DEF Evaluate, OtherStatus
  <2>3. CASE Restart(n)
    BY <1>2, <1>4, <2>1, <2>3 DEF Restart
  <2>4. CASE SweepNode(n)
    BY <1>1, <1>2, <1>4, <2>1, <2>4 DEF SweepNode
  <2> QED
    BY <1>5, <2>2, <2>3, <2>4
<1>6. ASSUME NEW n \in Nodes, HandleFailure(n)
      PROVE  \A m \in Nodes : cmds'[m] \in Seq(Issuable(m))
  <2>1. PICK j : /\ j = Head(loop[n]).job
                 /\ Enqueue(n, <<ListCommand(j, "WAITING", "ABORTED", n, "handle_failure"),
                                 TreeCommand("running", j), TreeCommand("tree", j)>>)
    BY <1>6 DEF HandleFailure
  <2>2. j \in Jobs
    <3>1. loop[n] # <<>> /\ Head(loop[n]).run = "handle_failure"
      BY <1>6 DEF HandleFailure, Runs
    <3>2. Head(loop[n]) \in GoodCallback
      BY <3>1, TailIsSeq DEF IInv
    <3> QED
      BY <2>1, <3>1, <3>2 DEF GoodCallback
  <2>3. ListCommand(j, "WAITING", "ABORTED", n, "handle_failure") \in Idle
    BY <1>1, <2>2, ListIsIdle
  <2>4. \A op \in {"running", "tree"} : TreeCommand(op, j) \in Idle
    <3> SUFFICES ASSUME NEW op \in {"running", "tree"}
                 PROVE  TreeCommand(op, j) \in Idle
      OBVIOUS
    <3>1. TreeCommand(op, j) \in Command
      BY <2>2, BlankType DEF TreeCommand, Command, Ops
    <3>2. TreeCommand(op, j).op = op
      BY BlankType DEF TreeCommand, Command
    <3> QED
      BY <3>1, <3>2, IdleFacts DEF Doing
  <2>5. <<ListCommand(j, "WAITING", "ABORTED", n, "handle_failure"),
          TreeCommand("running", j), TreeCommand("tree", j)>> \in Seq(Issuable(n))
    BY <2>3, <2>4, IdleFacts
  <2> QED
    BY <2>1, <2>5, QueueIssuable
<1>7. ASSUME NEW n \in Nodes, AbortJob(n)
      PROVE  \A m \in Nodes : cmds'[m] \in Seq(Issuable(m))
  <2>1. PICK b : b = Head(loop[n])
    OBVIOUS
  <2>2. loop[n] # <<>> /\ b.run = "abort_job" /\ loop[n] \in Seq(GoodCallback)
    BY <1>7, <2>1 DEF AbortJob, Runs, IInv
  <2>3. b \in GoodCallback
    BY <2>1, <2>2, TailIsSeq
  <2>4. b.job \in Jobs /\ b \in Callback
    BY <2>2, <2>3 DEF GoodCallback
  <2>5. Has(loop[n], Stopping(b.job))
    <3>1. 1 \in DOMAIN loop[n] /\ loop[n][1] = b
      BY <2>1, <2>2
    <3> QED
      BY <2>2, <2>4, <3>1 DEF Has, Stopping
  <2>6. Completed(b.job, "ABORTED") \in Issuable(n)
    BY <1>1, <2>4, <2>5, ReportIsIssuable
  <2>7. Enqueue(n, <<Completed(b.job, "ABORTED")>>) \/ UNCHANGED cmds
    BY <1>7, <2>1 DEF AbortJob
  <2> QED
    BY <1>2, <1>3, <2>6, <2>7
<1>8. ASSUME NEW n \in Nodes, Receive(n)
      PROVE  \A m \in Nodes : cmds'[m] \in Seq(Issuable(m))
  BY <1>3, <1>8 DEF Receive
<1>9. ASSUME NEW n \in Nodes, Crash(n)
      PROVE  \A m \in Nodes : cmds'[m] \in Seq(Issuable(m))
  <2>1. cmds' = [cmds EXCEPT ![n] = <<>>]
    BY <1>9 DEF Crash
  <2>2. \A m \in Nodes : cmds[m] \in Seq(Issuable(m))
    <3> SUFFICES ASSUME NEW m \in Nodes
                 PROVE  cmds[m] \in Seq(Issuable(m))
      OBVIOUS
    <3>1. cmds[m] \in Seq(Good(succeeded))
      BY DEF IInv
    <3>2. \A i \in DOMAIN cmds[m] : cmds[m][i] \in Command
      BY <3>1 DEF Good
    <3>3. \A i \in DOMAIN cmds[m] : cmds[m][i] \in Issuable(m)
      BY <3>2, ZenonT(40) DEF Issuable
    <3> QED
      BY <3>1, <3>3
  <2> QED
    BY <1>1, <2>1, <2>2
<1>10. ASSUME NEW j \in Jobs, Succeed(j) \/ Fail(j)
       PROVE  \A m \in Nodes : cmds'[m] \in Seq(Issuable(m))
  <2>1. act[j] = "active" /\ NodeOf[j] \in Nodes
    BY <1>10, NodesOf DEF Succeed, Fail
  <2>2. starts[j] > 0
    BY <2>1 DEF OnceInv, StartsInv, StartInv
  <2>3. \A s \in FinishedStates : Completed(j, s) \in Issuable(NodeOf[j])
    BY <2>2, ReportIsIssuable
  <2> QED
    BY <1>1, <1>2, <1>10, <2>1, <2>3 DEF Succeed, Fail
<1>11. ASSUME NEW j \in Jobs, AddJobs(j) \/ Submit(j)
       PROVE  \A m \in Nodes : cmds'[m] \in Seq(Issuable(m))
  <2>1. PICK n \in Nodes, k \in Jobs, batch \in SUBSET Jobs, by \in Jobs \cup {NoJob} :
          Enqueue(n, <<AddCommand(k, batch, by)>>)
    <3>1. CASE AddJobs(j)
      <4>1. AddedWith(j) \in SUBSET Jobs
        BY DEF AddedWith
      <4>2. PICK k \in AddedWith(j) : Enqueue(NodeOf[j], <<AddCommand(k, AddedWith(j), j)>>)
        BY <3>1 DEF AddJobs
      <4> QED
        BY <4>1, <4>2, NodesOf
    <3>2. CASE Submit(j)
      <4>1. {i \in Tree(j) : AddedBy[i] = NoJob} \in SUBSET Jobs
        BY DEF Tree
      <4>2. Enqueue(Submitter[j],
              <<AddCommand(j, {i \in Tree(j) : AddedBy[i] = NoJob}, NoJob)>>)
        BY <3>2 DEF Submit
      <4> QED
        BY <4>1, <4>2, ManagerAssumption
    <3> QED
      BY <1>11, <3>1, <3>2
  <2>2. AddCommand(k, batch, by) \in Issuable(n)
    BY AddIsIdle, IdleFacts
  <2> QED
    BY <1>2, <2>1, <2>2
<1>12. ASSUME NEW j \in Jobs, UserAbort(j)
       PROVE  \A m \in Nodes : cmds'[m] \in Seq(Issuable(m))
  <2>1. /\ SendJobStatus(Pacemaker, {j}, "ABORTED", cmds[Pacemaker], <<>>)
        /\ {j} \in SUBSET Jobs /\ <<>> \in Seq(Issuable(Pacemaker))
    BY <1>12 DEF UserAbort
  <2> QED
    BY <1>1, <2>1, SendIssuable
<1> QED
  BY <1>5, <1>6, <1>7, <1>8, <1>9, <1>10, <1>11, <1>12 DEF Run, Runner

\* What is in a pipeline after a step was there before, or was issued by the step.
LEMMA StepIssues ==
  ASSUME IInv, IInv', OnceInv, TreeInv, [Next]_vars
  PROVE  \A m \in Nodes : cmds'[m] \in Seq(Issuable(m))
<1>1. CASE UNCHANGED cmds
  <2>1. <<>> \in Seq(Issuable(Pacemaker)) /\ Pacemaker \in Nodes
    BY ManagerAssumption
  <2> QED
    BY <1>1, <2>1, QueueIssuable
<1> QED
  BY <1>1, ReplyIssuable, OtherIssuable DEF Next, vars

\* What such a command has from the one before it.
LEMMA FollowFacts ==
  ASSUME NEW n \in Nodes, NEW c \in Good(succeeded), NEW x, Follows(n, c, x),
         idx \in [States -> SUBSET Jobs]
  PROVE  \/ /\ x.op = c.op /\ x.job = c.job /\ x.left = c.left /\ x.from = c.from
            /\ x.to = c.to /\ x.then = c.then /\ x.all = c.all
         \/ /\ c.op = "ready" /\ x.op = "count" /\ x.job = NoJob
            /\ x.left = idx["WAITING"] \cap JobsOf(n)
         \/ /\ c.op = "count" /\ x.op = "fetch"
            /\ x.job \in c.left \ inStartup[n] /\ x.left = {}
         \/ c.op = "fetch" /\ x.op = "context" /\ x.job = c.job /\ x.left = {}
         \/ /\ c.op = "context" /\ x.op = "get" /\ x.job = c.job /\ x.left = {}
            /\ x.to = "RUNNING" /\ x.then = "on_running" /\ x.all = ContextOf(c.job)
         \/ /\ c.op = "get" /\ x.op = "set" /\ x.job = c.job /\ x.left = c.left
            /\ x.to = c.to /\ x.then = c.then /\ x.all = c.all /\ x.from = state[c.job]
         \/ /\ c.op = "store" /\ x.op = "finish" /\ x.job = c.job /\ x.left = {}
            /\ x.to = c.to /\ ContextTx(c.job)
         \/ /\ c.op = "finish" /\ x.op = "get" /\ x.job = c.job /\ x.left = c.left
            /\ x.to = c.to /\ x.then = "on_state_updated"
         \/ /\ c.op \in {"list", "set"} /\ x.op = "get" /\ x.to = c.to
            /\ x.then = c.then /\ c.then \in TreeConts /\ x.job \notin x.left
            /\ \A z \in {x.job} \cup x.left :
                 IF c.op = "set" THEN z \in c.left
                                 ELSE z \in idx[c.from] /\ Root[z] = Root[c.tree]
<1>1. c \in Command
  BY DEF Good
<1>2. CASE x = [c EXCEPT !.hop = FALSE]
  BY <1>1, <1>2 DEF Command
<1>3. CASE /\ c.op = "ready"
           /\ x = [Blank EXCEPT !.op = "count", !.left = idx["WAITING"] \cap JobsOf(n)]
  BY <1>3, BlankType DEF Command
<1>4. CASE c.op = "count" /\ \E j \in c.left \ inStartup[n] : x = JobCommand("fetch", j)
  BY <1>4, BlankType DEF Command, JobCommand
<1>5. CASE c.op = "fetch" /\ x = [JobCommand("context", c.job) EXCEPT !.hop = TRUE]
  BY <1>5, BlankType DEF Command, JobCommand
<1>6. CASE c.op = "context" /\ x = [JobCommand("get", c.job) EXCEPT !.to = "RUNNING",
                                     !.then = "on_running", !.all = ContextOf(c.job)]
  BY <1>6, BlankType DEF Command, JobCommand
<1>7. CASE c.op = "get" /\ x = [c EXCEPT !.op = "set", !.from = state[c.job]]
  BY <1>1, <1>7 DEF Command
<1>8. CASE /\ c.op = "store" /\ ContextTx(c.job)
           /\ x = [JobCommand("finish", c.job) EXCEPT !.to = c.to]
  BY <1>8, BlankType DEF Command, JobCommand
<1>9. CASE c.op = "finish" /\ x = [c EXCEPT !.op = "get", !.then = "on_state_updated"]
  BY <1>1, <1>9 DEF Command
<1>10. CASE /\ c.op = "list" /\ c.then \in TreeConts
            /\ \E S \in SUBSET (idx[c.from] \cap Tree(c.tree)) : \E j \in S :
                 x = [c EXCEPT !.op = "get", !.job = j, !.left = S \ {j}, !.all = S]
  <2>1. PICK S \in SUBSET (idx[c.from] \cap Tree(c.tree)) : \E j \in S :
          x = [c EXCEPT !.op = "get", !.job = j, !.left = S \ {j}, !.all = S]
    BY <1>10
  <2>2. PICK j \in S : x = [c EXCEPT !.op = "get", !.job = j, !.left = S \ {j}, !.all = S]
    BY <2>1
  <2>3. /\ x.op = "get" /\ x.job = j /\ x.left = S \ {j} /\ x.to = c.to
        /\ x.then = c.then
    BY <1>1, <2>2 DEF Command
  <2>4. \A z \in S : z \in idx[c.from] /\ Root[z] = Root[c.tree]
    BY DEF Tree
  <2> QED
    BY <1>10, <2>3, <2>4
<1>11. CASE /\ c.op = "set" /\ c.then \in TreeConts
            /\ \E j \in c.left : x = [c EXCEPT !.op = "get", !.job = j, !.left = c.left \ {j}]
  BY <1>1, <1>11 DEF Command
<1> QED
  BY <1>2, <1>3, <1>4, <1>5, <1>6, <1>7, <1>8, <1>9, <1>10, <1>11 DEF Follows

-----------------------------------------------------------------------------
(* The context of a tree *)

\* The output that has been stored, or is empty.
Kept == ctx \cup Containers

\* What reports a success comes after the context of the job, and what is going to
\* call start_job has read those of the children.
Knows == {c \in Command :
  /\ c.op \in {"finish", "get", "set"} /\ c.to = "SUCCESS" => c.job \in Kept
  /\ c.op \in {"get", "set"} /\ c.then = "on_running" =>
       Children(c.job) \subseteq c.all \cup Containers}

ContextInv ==
  /\ \A n \in Nodes : cmds[n] \in Seq(Knows)
  /\ idx["SUCCESS"] \subseteq Kept
  /\ \A j \in Jobs : Launched(j) => Children(j) \subseteq Kept

\* What works on _start_job of a job has put it into in_startup.
LEMMA ChainLaunched ==
  ASSUME IInv, OnceInv, NEW n \in Nodes, NEW i \in DOMAIN cmds[n], cmds[n][i] \in Starting
  PROVE  /\ cmds[n][i] \in Command /\ cmds[n][i].job \in Jobs
         /\ NodeOf[cmds[n][i].job] = n /\ Launched(cmds[n][i].job)
<1>1. cmds[n] \in Seq(Place(n)) /\ cmds[n] \in Seq(Good(succeeded))
  BY DEF OnceInv, Placed, IInv
<1>2. PICK c : c = cmds[n][i]
  OBVIOUS
<1>3. c \in Place(n) /\ c \in Good(succeeded)
  BY <1>1, <1>2
<1>4. c \in Command /\ c.job \in Jobs /\ NodeOf[c.job] = n
  BY <1>2, <1>3 DEF Place, Good, Starting, JobOps
<1>5. Has(cmds[n], Chain(c.job))
  BY <1>2, <1>4 DEF Has, Chain
<1>6. c.job \in inStartup[n]
  BY <1>4, <1>5 DEF OnceInv, StartsInv, StartInv
<1> QED
  BY <1>2, <1>4, <1>6 DEF Launched

\* A command knows what it did when contexts grow and launched jobs get no children.
LEMMA KnowsKept ==
  ASSUME IInv, OnceInv, ContextInv, ctx \subseteq ctx',
         \A j \in Jobs : Launched(j) => Children(j)' \subseteq Children(j)
  PROVE  \A n \in Nodes : cmds[n] \in Seq(Knows')
<1> SUFFICES ASSUME NEW n \in Nodes
             PROVE  cmds[n] \in Seq(Knows')
  OBVIOUS
<1>1. cmds[n] \in Seq(Knows)
  BY DEF ContextInv
<1>2. ASSUME NEW i \in DOMAIN cmds[n]
      PROVE  cmds[n][i] \in Knows'
  <2>1. PICK c : c = cmds[n][i]
    OBVIOUS
  <2>2. c \in Knows /\ c \in Command
    BY <1>1, <2>1 DEF Knows
  <2>3. c.op \in {"finish", "get", "set"} /\ c.to = "SUCCESS" => c.job \in Kept'
    BY <2>2 DEF Knows, Kept
  <2>4. c.op \in {"get", "set"} /\ c.then = "on_running" =>
          Children(c.job)' \subseteq c.all \cup Containers
    <3> SUFFICES ASSUME c.op \in {"get", "set"}, c.then = "on_running"
                 PROVE  Children(c.job)' \subseteq c.all \cup Containers
      OBVIOUS
    <3>1. c \in Starting
      BY <2>2 DEF Starting
    <3>2. c.job \in Jobs /\ Launched(c.job)
      BY <2>1, <3>1, ChainLaunched
    <3>3. Children(c.job)' \subseteq Children(c.job)
      BY <3>2
    <3>4. Children(c.job) \subseteq c.all \cup Containers
      BY <2>2 DEF Knows
    <3> QED
      BY <3>3, <3>4
  <2> QED
    BY <2>1, <2>2, <2>3, <2>4 DEF Knows
<1> QED
  BY <1>1, <1>2

\* Contexts grow, and a job gets into the success index after its context.
LEMMA StoreKept ==
  ASSUME IInv, ContextInv, [Next]_vars
  PROVE  ctx \subseteq ctx' /\ idx'["SUCCESS"] \subseteq Kept'
<1>1. /\ idx["SUCCESS"] \subseteq Kept /\ "SUCCESS" \in States /\ "NEW" # "SUCCESS"
      /\ idx \in [States -> SUBSET Jobs]
  BY DEF ContextInv, States, IInv, StoreTypeOK
<1>2. CASE UNCHANGED <<idx, ctx>>
  BY <1>1, <1>2 DEF Kept
<1>3. ASSUME NEW n \in Nodes, Answer(n, "set"), NEW c, c = Head(cmds[n]),
             SetTx(c.job, c.from, c.to)
      PROVE  ctx \subseteq ctx' /\ idx'["SUCCESS"] \subseteq Kept'
  <2>1. cmds[n] # <<>> /\ cmds[n] \in Seq(Knows) /\ c.op = "set"
    BY <1>3 DEF Answer, ContextInv
  <2>2. c \in Knows
    BY <1>3, <2>1, TailIsSeq
  <2>3. c.to = "SUCCESS" => c.job \in Kept
    BY <2>1, <2>2 DEF Knows
  <2>4. idx'["SUCCESS"] \subseteq idx["SUCCESS"] \cup (IF c.to = "SUCCESS" THEN {c.job} ELSE {})
    BY <1>1, <1>3 DEF SetTx
  <2>5. ctx' = ctx
    BY <1>3 DEF SetTx
  <2> QED
    BY <1>1, <2>3, <2>4, <2>5 DEF Kept
<1>4. ASSUME NEW n \in Nodes, Reply(n)
      PROVE  ctx \subseteq ctx' /\ idx'["SUCCESS"] \subseteq Kept'
  <2>1. CASE AddJob(n)
    <3>1. idx'["SUCCESS"] = idx["SUCCESS"] /\ ctx' = ctx
      BY <1>1, <2>1 DEF AddJob, AddTx
    <3> QED
      BY <1>1, <3>1 DEF Kept
  <2>2. CASE ContextStored(n)
    BY <1>1, <2>2 DEF ContextStored, ContextTx, Kept
  <2>3. CASE StartRunner(n) \/ StateUpdated(n) \/ TreeJobSet(n)
    BY <1>3, <2>3 DEF StartRunner, StateUpdated, TreeJobSet
  <2>4. CASE \/ GetRoot(n) \/ TagJob(n) \/ WaitingJobs(n) \/ StartJobs(n) \/ Instantiate(n)
             \/ GotContext(n) \/ GotCurrentState(n) \/ GotFinishedJob(n)
    BY <1>2, <2>4 DEF GetRoot, TagJob, WaitingJobs, StartJobs, Instantiate, GotContext,
                      GotCurrentState, GotFinishedJob, storeVars
  <2>5. CASE \/ ListTree(n) \/ AbortRunners(n) \/ FindAbortHandlers(n) \/ AbortHandlerJob(n)
             \/ RunAbortHandler(n) \/ NodeJobs(n) \/ PublishStatus(n)
    BY <1>2, <2>5 DEF ListTree, AbortRunners, FindAbortHandlers, AbortHandlerJob,
                      RunAbortHandler, NodeJobs, PublishStatus, storeVars
  <2> QED
    BY <1>4, <2>1, <2>2, <2>3, <2>4, <2>5 DEF Reply
<1>5. ASSUME NEW n \in Nodes,
             Run(n) \/ OtherStatus(n) \/ Crash(n) \/ Restart(n) \/ SweepNode(n)
      PROVE  ctx \subseteq ctx' /\ idx'["SUCCESS"] \subseteq Kept'
  BY <1>2, <1>5 DEF Run, Evaluate, HandleFailure, AbortJob, Receive, OtherStatus, Crash,
                    Restart, SweepNode, storeVars
<1>6. ASSUME NEW j \in Jobs, Runner(j) \/ Submit(j) \/ UserAbort(j)
      PROVE  ctx \subseteq ctx' /\ idx'["SUCCESS"] \subseteq Kept'
  BY <1>2, <1>6 DEF Runner, Succeed, Fail, AddJobs, Submit, UserAbort, storeVars
<1> QED
  BY <1>2, <1>4, <1>5, <1>6 DEF Next, vars

\* What a step puts into pipelines knows what it did, if all that was there does.
LEMMA KnowsIssued ==
  ASSUME IInv, IInv', OnceInv, TreeInv, ContextInv, ctx \subseteq ctx',
         \A j \in Jobs : Launched(j) => Children(j)' \subseteq Children(j),
         \A n \in Nodes : cmds[n] \in Seq(Knows'),
         NEW n \in Nodes, NEW x \in Issuable(n)
  PROVE  x \in Knows'
<1>1. x \in Command
  BY DEF Issuable
<1>2. CASE \E i \in DOMAIN cmds[n] : cmds[n][i] = x
  <2>1. cmds[n] \in Seq(Knows')
    OBVIOUS
  <2> QED
    BY <1>2, <2>1
<1>3. CASE x \in Idle
  <2>1. x.op \notin {"finish", "get", "set"}
    BY <1>3 DEF Idle, Doing
  <2> QED
    BY <1>1, <2>1 DEF Knows
<1>4. CASE Reports(n, x)
  <2>1. PICK j \in Jobs, s \in FinishedStates : x = Completed(j, s)
    BY <1>4 DEF Reports
  <2>2. CASE s = "SUCCESS" /\ j \notin Containers
    <3>1. x.op = "store"
      BY <2>1, <2>2, BlankType DEF Completed, Command
    <3> QED
      BY <1>1, <3>1 DEF Knows
  <2>3. CASE ~(s = "SUCCESS" /\ j \notin Containers)
    <3>1. x.op = "finish" /\ x.to = s /\ x.job = j
      BY <2>1, <2>3, BlankType DEF Completed, Command
    <3>2. x.to = "SUCCESS" => x.job \in Kept'
      BY <2>3, <3>1 DEF Kept
    <3> QED
      BY <1>1, <3>1, <3>2 DEF Knows
  <2> QED
    BY <2>2, <2>3
<1>5. CASE cmds[n] # <<>> /\ Follows(n, Head(cmds[n]), x)
  <2>1. PICK c : c = Head(cmds[n])
    OBVIOUS
  <2>2. c \in Good(succeeded) /\ c \in Command /\ c.op \in Doing => c.job \in Jobs
    BY <1>5, <2>1, HeadLives
  <2>3. c \in Good(succeeded) /\ c \in Command
    BY <1>5, <2>1, HeadLives
  <2>4. c \in Knows'
    <3>1. cmds[n] \in Seq(Knows')
      OBVIOUS
    <3> QED
      BY <1>5, <2>1, <3>1, TailIsSeq
  <2>5. idx \in [States -> SUBSET Jobs]
    BY DEF IInv, StoreTypeOK
  <2>6. CASE /\ x.op = c.op /\ x.job = c.job /\ x.to = c.to /\ x.then = c.then
             /\ x.all = c.all
    BY <1>1, <2>4, <2>6 DEF Knows
  <2>7. CASE x.op \in {"count", "fetch", "context"}
    BY <1>1, <2>7 DEF Knows
  <2>8. CASE /\ c.op = "context" /\ x.op = "get" /\ x.job = c.job
             /\ x.to = "RUNNING" /\ x.then = "on_running" /\ x.all = ContextOf(c.job)
    <3>1. PICK j \in Jobs : j = c.job
      BY <1>5, <2>1, <2>8, HeadLives DEF Doing
    <3>2. Launched(j)
      <4>1. 1 \in DOMAIN cmds[n] /\ cmds[n][1] = c
        <5>1. cmds[n] \in Seq(Command)
          BY PipelineType
        <5> QED
          BY <1>5, <2>1, <5>1
      <4>2. c \in Starting
        BY <2>3, <2>8 DEF Starting
      <4> QED
        BY <3>1, <4>1, <4>2, ChainLaunched
    <3>3. Children(j)' \subseteq Children(j) /\ Children(j) \subseteq Kept
      BY <3>2 DEF ContextInv
    <3>4. \A k \in Children(j) : k \in Jobs /\ Root[k] = Root[j]
      BY ForestAssumption, JobsAssumption DEF Children
    <3>5. Children(j)' \subseteq x.all \cup Containers
      BY <2>8, <3>1, <3>3, <3>4 DEF Kept, ContextOf, Tree
    <3>6. x.job = j
      BY <2>8, <3>1
    <3> QED
      BY <1>1, <2>8, <3>5, <3>6 DEF Knows
  <2>9. CASE c.op = "get" /\ /\ x.op = "set" /\ x.job = c.job
                             /\ x.to = c.to /\ x.then = c.then /\ x.all = c.all
    BY <1>1, <2>4, <2>9 DEF Knows
  <2>10. CASE x.op = "finish" /\ x.job = c.job /\ ContextTx(c.job)
    <3>1. x.job \in Kept'
      BY <2>10 DEF ContextTx, Kept
    <3> QED
      BY <1>1, <2>10, <3>1 DEF Knows
  <2>11. CASE /\ c.op = "finish" /\ x.op = "get" /\ x.job = c.job /\ x.to = c.to
              /\ x.then = "on_state_updated"
    BY <1>1, <2>4, <2>11 DEF Knows
  <2>12. CASE x.op = "get" /\ x.to = c.to /\ x.then = c.then /\ c.then \in TreeConts
    <3>1. x.to # "SUCCESS" /\ x.then # "on_running"
      BY <2>3, <2>12 DEF Good, TreeConts
    <3> QED
      BY <1>1, <2>12, <3>1 DEF Knows
  <2> QED
    BY <1>5, <2>1, <2>3, <2>5, <2>6, <2>7, <2>8, <2>9, <2>10, <2>11, <2>12, FollowFacts
<1> QED
  BY <1>2, <1>3, <1>4, <1>5 DEF Issuable

\* A job that is launched gets no more children, and when it was launched those it
\* has were in the success index.
LEMMA LaunchKept ==
  ASSUME IInv, IInv', OnceInv, TreeInv, Requests, [Next]_vars, NEW j \in Jobs
  PROVE  /\ Launched(j) \/ Launched(j)' => Children(j)' \subseteq Children(j)
         /\ Launched(j)' => Launched(j) \/ Children(j) \subseteq idx["SUCCESS"]
<1>1. CASE UNCHANGED <<state, inStartup, starts>>
  BY <1>1 DEF Children, Exists, Launched
<1>2. CASE Mildly
  <2>1. PICK n \in Nodes : \E d, c, x : Mild(n, d, c, x)
    BY <1>2 DEF Mildly
  <2>2. PICK d, c, x : Mild(n, d, c, x)
    BY <2>1
  <2>3. \A k \in Jobs : Exists(k)' <=> Exists(k)
    BY <2>2 DEF Mild, Settles
  <2>4. Children(j)' = Children(j)
    BY <2>3 DEF Children
  <2>5. Launched(j)' => Launched(j) \/ Children(j) \subseteq idx["SUCCESS"]
    BY <2>2, LiveKept
  <2> QED
    BY <2>4, <2>5
<1>3. ASSUME NEW n \in Nodes, AddJob(n) \/ TagJob(n)
      PROVE  /\ Launched(j)' <=> Launched(j)
             /\ Launched(j) => Children(j)' \subseteq Children(j)
  <2>1. PICK c, x : AddTurn(n, c, x)
    BY <1>3, AddJobTree
  <2>2. \A k \in Jobs : Exists(k)' <=> Exists(k) \/ (c.op = "add" /\ k = c.job)
    BY <2>1, AddGrows
  <2>3. c.op = "add" => Parent[c.job] = NoJob \/ ~Launched(Parent[c.job])
    BY <2>1, WhereAdded DEF AddTurn
  <2>4. Launched(j)' <=> Launched(j)
    BY <2>1 DEF AddTurn, Launched
  <2> QED
    BY <2>2, <2>3, <2>4, JobsAssumption DEF Children
<1>4. ASSUME NEW n \in Nodes, Reply(n)
      PROVE  AddJob(n) \/ TagJob(n) \/ Mildly
  BY <1>4, RoundTripTree, StartJobsTree, DullReply, StartRunnerTree, FinishTree,
     SetTreeTree, AbortRunnersTree DEF Reply
<1>5. ASSUME NEW n \in Nodes, Run(n) \/ OtherStatus(n) \/ Crash(n) \/ Restart(n) \/ SweepNode(n)
      PROVE  Mildly
  BY <1>5, RunTree
<1>6. ASSUME NEW i \in Jobs, Runner(i) \/ Submit(i) \/ UserAbort(i)
      PROVE  Mildly \/ UNCHANGED <<state, inStartup, starts>>
  <2>1. CASE AddJobs(i) \/ Submit(i)
    BY <2>1 DEF AddJobs, Submit, storeVars, managerVars, history
  <2>2. Pacemaker \in Nodes
    BY ManagerAssumption
  <2> QED
    BY <1>6, <2>1, <2>2, RunnerTree, RunTree DEF Runner
<1>7. UNCHANGED vars => UNCHANGED <<state, inStartup, starts>>
  BY DEF vars
<1>8. \/ Mildly \/ UNCHANGED <<state, inStartup, starts>>
      \/ \E n \in Nodes : AddJob(n) \/ TagJob(n)
  BY <1>4, <1>5, <1>6, <1>7 DEF Next
<1> QED
  BY <1>1, <1>2, <1>3, <1>8

-----------------------------------------------------------------------------
(* The context that start_job gets *)

LEMMA ContextInit == Init => ContextInv
<1> SUFFICES ASSUME Init
             PROVE  ContextInv
  OBVIOUS
<1>1. /\ idx = [s \in States |-> {}] /\ cmds = [n \in Nodes |-> <<>>]
      /\ inStartup = [n \in Nodes |-> {}] /\ starts = [j \in Jobs |-> 0]
  BY DEF Init, StoreInit
<1>2. idx["SUCCESS"] = {} /\ \A n \in Nodes : cmds[n] \in Seq(Knows)
  BY <1>1 DEF States
<1>3. \A j \in Jobs : ~Launched(j)
  BY <1>1, NodesOf DEF Launched
<1> QED
  BY <1>2, <1>3 DEF ContextInv

\* No step breaks it.
LEMMA ContextStep ==
  ASSUME Requests
  PROVE  IInv /\ IInv' /\ OnceInv /\ TreeInv /\ ContextInv /\ [Next]_vars => ContextInv'
<1> SUFFICES ASSUME IInv, IInv', OnceInv, TreeInv, ContextInv, [Next]_vars
             PROVE  ContextInv'
  OBVIOUS
<1>1. ctx \subseteq ctx' /\ idx'["SUCCESS"] \subseteq Kept'
  BY StoreKept
<1>2. Kept \subseteq Kept'
  BY <1>1 DEF Kept
<1>3. \A j \in Jobs :
        /\ Launched(j) \/ Launched(j)' => Children(j)' \subseteq Children(j)
        /\ Launched(j)' => Launched(j) \/ Children(j) \subseteq idx["SUCCESS"]
  BY LaunchKept
<1>4. \A j \in Jobs : Launched(j)' => Children(j)' \subseteq Kept'
  <2> SUFFICES ASSUME NEW j \in Jobs, Launched(j)'
               PROVE  Children(j)' \subseteq Kept'
    OBVIOUS
  <2>1. Children(j)' \subseteq Children(j)
    BY <1>3
  <2>2. Children(j) \subseteq Kept
    BY <1>3 DEF ContextInv
  <2> QED
    BY <1>2, <2>1, <2>2
<1>5. \A m \in Nodes : cmds[m] \in Seq(Knows')
  BY <1>1, <1>3, KnowsKept
<1>6. \A m \in Nodes : cmds'[m] \in Seq(Knows')
  <2> SUFFICES ASSUME NEW m \in Nodes
               PROVE  cmds'[m] \in Seq(Knows')
    OBVIOUS
  <2>1. cmds'[m] \in Seq(Issuable(m))
    BY StepIssues
  <2>2. \A x \in Issuable(m) : x \in Knows'
    BY <1>1, <1>3, <1>5, KnowsIssued
  <2> QED
    BY <2>1, <2>2
<1> QED
  BY <1>1, <1>4, <1>6 DEF ContextInv

\* Only on_running calls start_job, for the job of its command.
LEMMA StartsHead ==
  ASSUME IInv, [Next]_vars, NEW j \in Jobs, starts'[j] # starts[j]
  PROVE  \E n \in Nodes : StartRunner(n) /\ Head(cmds[n]).job = j
<1>1. starts \in [Jobs -> Nat]
  BY DEF IInv, RunnerTypes
<1>2. ASSUME NEW n \in Nodes, Reply(n)
      PROVE  StartRunner(n)
  <2>1. CASE AddJob(n) \/ TagJob(n) \/ ListTree(n) \/ TreeJobSet(n)
    BY <2>1, ZenonT(40) DEF AddJob, TagJob, ListTree, TreeJobSet, NextInTree, TreeSet, history
  <2>2. CASE GetRoot(n) \/ WaitingJobs(n) \/ StartJobs(n) \/ Instantiate(n) \/ GotContext(n)
    BY <2>2 DEF GetRoot, WaitingJobs, StartJobs, Instantiate, GotContext, history
  <2>3. CASE GotCurrentState(n) \/ ContextStored(n) \/ AbortRunners(n) \/ FindAbortHandlers(n)
    BY <2>3 DEF GotCurrentState, ContextStored, AbortRunners, FindAbortHandlers, history
  <2>4. CASE StateUpdated(n) \/ GotFinishedJob(n)
    BY <2>4 DEF StateUpdated, GotFinishedJob, FinishRunner, history
  <2>5. CASE AbortHandlerJob(n) \/ RunAbortHandler(n) \/ NodeJobs(n) \/ PublishStatus(n)
    BY <2>5 DEF AbortHandlerJob, RunAbortHandler, NodeJobs, PublishStatus, history
  <2> QED
    BY <1>2, <2>1, <2>2, <2>3, <2>4, <2>5 DEF Reply
<1>3. ASSUME NEW n \in Nodes,
             Run(n) \/ OtherStatus(n) \/ Crash(n) \/ Restart(n) \/ SweepNode(n)
      PROVE  FALSE
  BY <1>3 DEF Run, Evaluate, HandleFailure, AbortJob, Receive, OtherStatus, Crash, Restart,
              SweepNode, history
<1>4. ASSUME NEW i \in Jobs, Runner(i) \/ Submit(i) \/ UserAbort(i)
      PROVE  FALSE
  BY <1>4 DEF Runner, Succeed, Fail, AddJobs, Submit, UserAbort, history
<1>5. PICK n \in Nodes : StartRunner(n)
  BY <1>2, <1>3, <1>4 DEF Next, vars
<1>6. starts' = [starts EXCEPT ![Head(cmds[n]).job] = @ + 1]
  BY <1>5 DEF StartRunner
<1> QED
  BY <1>1, <1>5, <1>6

\* It has read the output of the children.
LEMMA StartKnows ==
  ASSUME IInv, OnceInv, ContextInv, [Next]_vars, NEW j \in Jobs, starts'[j] # starts[j]
  PROVE  Children(j) \ Containers \subseteq Head(cmds[NodeOf[j]]).all
<1>1. PICK n \in Nodes : StartRunner(n) /\ Head(cmds[n]).job = j
  BY StartsHead
<1>2. PICK c : c = Head(cmds[n])
  OBVIOUS
<1>3. /\ cmds[n] # <<>> /\ c.op = "set" /\ c.then = "on_running" /\ c.job = j
      /\ cmds[n] \in Seq(Knows)
  BY <1>1, <1>2 DEF StartRunner, Answer, ContextInv
<1>4. c \in Knows /\ c \in Command /\ 1 \in DOMAIN cmds[n] /\ cmds[n][1] = c
  BY <1>2, <1>3 DEF Knows
<1>5. NodeOf[j] = n
  <2>1. c \in Starting
    BY <1>3, <1>4 DEF Starting
  <2> QED
    BY <1>3, <1>4, <2>1, ChainLaunched
<1>6. Children(j) \subseteq c.all \cup Containers
  BY <1>3, <1>4 DEF Knows
<1> QED
  BY <1>2, <1>5, <1>6

-----------------------------------------------------------------------------
(* Theorem *)

\* The context that start_job of a job gets has the output of every child, whatever
\* fails, is aborted, crashes and comes back, and also where request jobs extend
\* the tree (completed stores the context before it sets SUCCESS; _start_job reads
\* the context after get_ready_to_run has found the children in the success set).
THEOREM ContextIsComplete ==
  ASSUME Requests
  PROVE  Spec => ContextComplete
<1>1. Init => IInv /\ OnceInv /\ TreeInv /\ ContextInv
  BY InitSafe, OnceInit, TreeInit, ContextInit
<1>2. IInv /\ OnceInv /\ TreeInv /\ ContextInv /\ [Next]_vars
      => (IInv /\ OnceInv /\ TreeInv /\ ContextInv)'
  BY StepSafe, OnceStep, TreeStep, ContextStep
<1>3. IInv /\ OnceInv /\ ContextInv /\ [Next]_vars
      => [\A j \in Jobs : starts'[j] # starts[j] =>
            Children(j) \ Containers \subseteq Head(cmds[NodeOf[j]]).all]_vars
  BY StartKnows
<1> QED
  BY <1>1, <1>2, <1>3, PTL DEF Spec, ContextComplete
-----------------------------------------------------------------------------
(* Trees to which no request job adds, on nodes that crash *)

Fixed == {j \in Jobs : \A a \in Adders : Root[a] # Root[j]}

\* allow_execution, or what came after it, has set the job; and it no longer waits.
Woken(j) == state[j] \notin {Absent, "NEW"}
Past(j) == Woken(j) /\ state[j] # "WAITING"

\* Only allow_execution works on a job that is not woken yet, and a transaction that
\* ends a wait takes the job out of the waiting set.
Sound == {c \in Command :
  /\ \A z \in Fixed :
       /\ c.op \in Doing \cup {"count"} /\ (z = c.job \/ z \in c.left) =>
            Woken(z) \/ c \in Waking(z)
       /\ c.op = "set" /\ c.job = z /\ c.to # "WAITING" => Past(z) \/ c.from = "WAITING"
  /\ c.op \in {"get", "set", "finish"} => c.job \notin c.left
  /\ c.op = "list" => c.from # "NEW" \/ c.to = "WAITING"}

\* A job is woken once, from where its tree was submitted.
WakeInv(z) ==
  LET s == Submitter[Root[z]] IN
  /\ \A n \in Nodes : Has(cmds[n], Waking(z)) => n = s /\ ~Woken(z)
  /\ Once(cmds[s], Waking(z))
  /\ Has(cmds[s], Opening(Root[z])) => ~Woken(z)

\* What the index sets and the callbacks say of it.
SeenInv(z) ==
  /\ \A s \in States \ {"NEW"} : z \in idx[s] => Woken(z)
  /\ z \in idx["WAITING"] => state[z] = "WAITING"
  /\ \A n \in Nodes : Has(loop[n], Stopping(z)) => Woken(z)

\* What has started neither waits nor goes through _start_job again.
FirstInv(z) ==
  LET n == NodeOf[z] IN
  /\ Has(cmds[n], Counting(z)) /\ starts[z] > 0 => z \in inStartup[n]
  /\ Has(cmds[n], Chain(z)) => starts[z] = 0
  /\ starts[z] > 0 => Past(z)
  /\ starts[z] <= 1

FixedInv ==
  /\ \A n \in Nodes : cmds[n] \in Seq(Sound)
  /\ \A z \in Fixed : WakeInv(z) /\ SeenInv(z) /\ FirstInv(z)

\* The transaction of set_attrs, for the command c.
Sets(n, c) ==
  /\ cmds[n] # <<>> /\ c = Head(cmds[n]) /\ c.op = "set"
  /\ SetTx(c.job, c.from, c.to)
  /\ \/ TreeJobSet(n)
     \/ c.then = "on_running" /\ StartRunner(n)
     \/ c.then = "on_state_updated" /\ StateUpdated(n)

\* A step adds a job, sets the state of one, or leaves the states alone.
LEMMA StoreChanges ==
  ASSUME [Next]_vars
  PROVE  \/ UNCHANGED <<state, idx>>
         \/ \E n \in Nodes : AddJob(n) \/ \E c : Sets(n, c)
<1>1. ASSUME NEW n \in Nodes, Reply(n)
      PROVE  UNCHANGED <<state, idx>> \/ AddJob(n) \/ \E c : Sets(n, c)
  <2>1. CASE StartRunner(n) \/ StateUpdated(n)
    BY <2>1 DEF StartRunner, StateUpdated, Answer, Sets
  <2>2. CASE TreeJobSet(n)
    <3>1. PICK c : c = Head(cmds[n])
      OBVIOUS
    <3>2. cmds[n] # <<>> /\ c.op = "set" /\ SetTx(c.job, c.from, c.to)
      BY <2>2, <3>1 DEF TreeJobSet, Answer
    <3> QED
      BY <2>2, <3>1, <3>2 DEF Sets
  <2>3. CASE \/ GetRoot(n) \/ TagJob(n) \/ WaitingJobs(n) \/ StartJobs(n) \/ Instantiate(n)
             \/ GotContext(n) \/ GotCurrentState(n) \/ ContextStored(n) \/ GotFinishedJob(n)
    BY <2>3 DEF GetRoot, TagJob, WaitingJobs, StartJobs, Instantiate, GotContext,
                GotCurrentState, ContextStored, ContextTx, GotFinishedJob, storeVars
  <2>4. CASE \/ ListTree(n) \/ AbortRunners(n) \/ FindAbortHandlers(n) \/ AbortHandlerJob(n)
             \/ RunAbortHandler(n) \/ NodeJobs(n) \/ PublishStatus(n)
    BY <2>4 DEF ListTree, AbortRunners, FindAbortHandlers, AbortHandlerJob,
                RunAbortHandler, NodeJobs, PublishStatus, storeVars
  <2> QED
    BY <1>1, <2>1, <2>2, <2>3, <2>4 DEF Reply
<1>2. ASSUME NEW n \in Nodes,
             Run(n) \/ OtherStatus(n) \/ Crash(n) \/ Restart(n) \/ SweepNode(n)
      PROVE  UNCHANGED <<state, idx>>
  BY <1>2 DEF Run, Evaluate, HandleFailure, AbortJob, Receive, OtherStatus, Crash,
              Restart, SweepNode, storeVars
<1>3. ASSUME NEW j \in Jobs, Runner(j) \/ Submit(j) \/ UserAbort(j)
      PROVE  UNCHANGED <<state, idx>>
  BY <1>3 DEF Runner, Succeed, Fail, AddJobs, Submit, UserAbort, storeVars
<1> QED
  BY <1>1, <1>2, <1>3 DEF Next, vars

\* What sets the state of a job.
LEMMA SetsFacts ==
  ASSUME IInv, IInv', TreeInv, FixedInv, NEW n \in Nodes, NEW c, Sets(n, c)
  PROVE  /\ c \in Command /\ c \in Sound /\ c.job \in Jobs /\ Exists(c.job)
         /\ c.to \in States /\ c.to # "NEW" /\ c.from \in States \cup {Absent}
         /\ \E i \in DOMAIN cmds[n] : cmds[n][i] = c
         /\ \A z \in Fixed : c.job = z /\ c.to = "WAITING" => ~Woken(z)
         /\ \A z \in Fixed : c.job = z /\ ~Woken(z) =>
              TreeJobSet(n) /\ c \in Setting(z)
<1>1. cmds[n] # <<>> /\ c = Head(cmds[n]) /\ c.op = "set"
  BY DEF Sets
<1>2. c \in Command /\ c \in Ordered(n) /\ c.job \in Living /\ c.job \in Jobs
  BY <1>1, HeadLives DEF Doing
<1>3. cmds[n] \in Seq(Sound)
  BY DEF FixedInv
<1>4. c \in Sound /\ 1 \in DOMAIN cmds[n] /\ cmds[n][1] = c
  BY <1>1, <1>3
<1>5. c.to \in States /\ c.to # "NEW" /\ c.from \in States \cup {Absent}
      /\ (c.to = "WAITING" <=> c.then = "allow_execution")
  BY <1>1, <1>2 DEF Command, Ordered
<1>6. ASSUME NEW z \in Fixed, c.job = z
      PROVE  /\ c.to = "WAITING" => c \in Setting(z) /\ ~Woken(z)
             /\ ~Woken(z) => c.to = "WAITING"
  <2>1. c \in Waking(z) <=> c.to = "WAITING"
    BY <1>1, <1>2, <1>6 DEF Waking
  <2>2. c.to = "WAITING" => c \in Setting(z)
    BY <1>1, <1>2, <1>6 DEF Setting
  <2>3. c \in Waking(z) => ~Woken(z)
    BY <1>4 DEF Has, FixedInv, WakeInv
  <2>4. Woken(z) \/ c \in Waking(z)
    BY <1>1, <1>4, <1>6 DEF Sound, Doing
  <2> QED
    BY <2>1, <2>2, <2>3, <2>4
<1>7. c.to = "WAITING" => TreeJobSet(n)
  BY <1>5 DEF Sets
<1>8. Exists(c.job)
  BY <1>2 DEF Living
<1> QED
  BY <1>2, <1>4, <1>5, <1>6, <1>7, <1>8

\* A job that is woken stays so, and a job that is past waiting never waits again.
LEMMA WokenKept ==
  ASSUME IInv, IInv', OnceInv, TreeInv, FixedInv, Requests, [Next]_vars, NEW z \in Fixed
  PROVE  /\ Woken(z) => Woken(z)'
         /\ Past(z) => Past(z)'
         /\ Woken(z)' => \/ Woken(z)
                         \/ \E n \in Nodes : TreeJobSet(n) /\ Head(cmds[n]) \in Setting(z)
<1>1. z \in Jobs /\ state \in [Jobs -> States \cup {Absent}]
  BY DEF Fixed, IInv, StoreTypeOK
<1>2. CASE UNCHANGED <<state, idx>>
  BY <1>2 DEF Woken, Past
<1>3. ASSUME NEW n \in Nodes, AddJob(n)
      PROVE  (Woken(z) => Woken(z)') /\ (Past(z) => Past(z)') /\ (Woken(z)' => Woken(z))
  <2>1. PICK c : c = Head(cmds[n])
    OBVIOUS
  <2>2. cmds[n] # <<>> /\ c.op = "add" /\ AddTx(c.job)
    BY <1>3, <2>1 DEF AddJob, Answer
  <2>3. ~Exists(c.job)
    BY <2>1, <2>2, WhereAdded DEF Adding
  <2>4. CASE c.job = z
    <3>1. ~Woken(z) /\ ~Woken(z)'
      BY <1>1, <2>2, <2>3, <2>4 DEF Woken, Exists, AddTx
    <3> QED
      BY <3>1 DEF Past
  <2>5. CASE c.job # z
    <3>1. state'[z] = state[z]
      BY <1>1, <2>2, <2>5 DEF AddTx
    <3> QED
      BY <3>1 DEF Woken, Past
  <2> QED
    BY <2>4, <2>5
<1>4. ASSUME NEW n \in Nodes, NEW c, Sets(n, c)
      PROVE  /\ Woken(z) => Woken(z)'
             /\ Past(z) => Past(z)'
             /\ Woken(z)' => Woken(z) \/ (TreeJobSet(n) /\ Head(cmds[n]) \in Setting(z))
  <2>1. /\ c = Head(cmds[n]) /\ c.to \in States /\ c.to # "NEW"
        /\ c.job = z /\ c.to = "WAITING" => ~Woken(z)
        /\ c.job = z /\ ~Woken(z) => TreeJobSet(n) /\ c \in Setting(z)
    BY <1>4, SetsFacts DEF Sets
  <2>2. state' = [state EXCEPT ![c.job] = c.to]
    BY <1>4 DEF Sets, SetTx
  <2>3. Absent \notin States
    BY DEF Absent, States
  <2>4. CASE c.job = z
    <3>1. state'[z] = c.to
      BY <1>1, <2>2, <2>4
    <3>2. Woken(z)' /\ (c.to # "WAITING" => Past(z)')
      BY <2>1, <2>3, <3>1 DEF Woken, Past
    <3> QED
      BY <2>1, <2>4, <3>2 DEF Past
  <2>5. CASE c.job # z
    <3>1. state'[z] = state[z]
      BY <1>1, <2>2, <2>5
    <3> QED
      BY <3>1 DEF Woken, Past
  <2> QED
    BY <2>4, <2>5
<1> QED
  BY <1>2, <1>3, <1>4, StoreChanges

\* A step makes the IO loop stop only running jobs.
LEMMA StopsFound ==
  ASSUME IInv, [Next]_vars, NEW m \in Nodes, NEW j \in Jobs, Has(loop'[m], Stopping(j))
  PROVE  Has(loop[m], Stopping(j)) \/ j \in idx["RUNNING"]
<1>1. CASE UNCHANGED loop
  BY <1>1
<1>2. ASSUME NEW n \in Nodes, NEW S \in SUBSET Jobs, NEW s \in States, NEW b, NEW next,
             SendJobStatus(n, S, s, b, next)
      PROVE  Has(loop[m], Stopping(j))
  <2>1. \E order : JobStatus(n, S, s, order)
    BY <1>2 DEF SendJobStatus
  <2> QED
    BY <2>1, LoopFewer
<1>3. ASSUME NEW n \in Nodes, NEW c \in Good(succeeded), NextInTree(n, c)
      PROVE  Has(loop[m], Stopping(j))
  <2>1. /\ c.all \in SUBSET Jobs
        /\ c.then \in TreeConts => c.tree \in Jobs
        /\ "WAITING" \in States /\ "ABORTED" \in States
    BY DEF Good, Command, States
  <2>2. CASE TreeSet(n, c)
    <3>1. {c.tree} \in SUBSET Jobs \/ c.then # "allow_execution"
      BY <2>1 DEF TreeConts
    <3>2. CASE c.then = "allow_execution"
      <4>1. {c.tree} \in SUBSET Jobs
        BY <3>1, <3>2
      <4>2. \E b, next : SendJobStatus(n, {c.tree}, "WAITING", b, next)
        BY <2>2, <3>2, ZenonT(40) DEF TreeSet
      <4> QED
        BY <1>2, <2>1, <4>1, <4>2
    <3>3. CASE c.then # "allow_execution"
      <4>1. \E b, next : SendJobStatus(n, c.all, "ABORTED", b, next)
        BY <2>2, <3>3, ZenonT(40) DEF TreeSet
      <4> QED
        BY <1>2, <2>1, <4>1
    <3> QED
      BY <3>2, <3>3
  <2>3. CASE UNCHANGED loop
    BY <2>3
  <2> QED
    BY <1>3, <2>2, <2>3, ZenonT(40) DEF NextInTree
<1>4. ASSUME NEW n \in Nodes, Reply(n)
      PROVE  Has(loop[m], Stopping(j)) \/ j \in idx["RUNNING"]
  <2>1. CASE \/ GetRoot(n) \/ TagJob(n) \/ WaitingJobs(n) \/ StartJobs(n) \/ Instantiate(n)
             \/ GotContext(n) \/ GotCurrentState(n) \/ ContextStored(n) \/ AddJob(n)
    BY <1>1, <2>1 DEF GetRoot, TagJob, WaitingJobs, StartJobs, Instantiate, GotContext,
                      GotCurrentState, ContextStored, AddJob
  <2>2. CASE \/ StartRunner(n) \/ FindAbortHandlers(n) \/ AbortHandlerJob(n)
             \/ RunAbortHandler(n) \/ NodeJobs(n) \/ PublishStatus(n)
    BY <1>1, <2>2 DEF StartRunner, FindAbortHandlers, AbortHandlerJob, RunAbortHandler,
                      NodeJobs, PublishStatus
  <2>3. CASE AbortRunners(n)
    BY <2>3, AbortRunnersLoop
  <2>4. PICK c : c = Head(cmds[n])
    OBVIOUS
  <2>5. cmds[n] # <<>> => c \in Good(succeeded)
    BY <2>4, TailIsSeq DEF IInv
  <2>6. CASE StateUpdated(n) \/ GotFinishedJob(n)
    <3>1. cmds[n] # <<>> /\ (FinishRunner(n, c.job, c.to) \/ UNCHANGED loop) /\ c.op \in JobOps
      BY <2>4, <2>6 DEF StateUpdated, GotFinishedJob, Answer, JobOps
    <3>2. {c.job} \in SUBSET Jobs /\ c.to \in States
      BY <2>5, <3>1 DEF Good, Command
    <3> QED
      BY <1>1, <1>2, <3>1, <3>2 DEF FinishRunner
  <2>7. CASE TreeJobSet(n)
    BY <1>3, <2>4, <2>5, <2>7 DEF TreeJobSet, Answer
  <2>8. CASE ListTree(n)
    <3>1. PICK found \in SUBSET Jobs : found = {i \in idx[c.from] \cap Tree(c.tree) :
                                                  c.node = NoNode \/ NodeOf[i] = c.node}
      BY DEF Tree
    <3>2. PICK x : x = [c EXCEPT !.left = found, !.all = found]
      OBVIOUS
    <3>3. cmds[n] # <<>> /\ NextInTree(n, x)
      BY <2>4, <2>8, <3>1, <3>2 DEF ListTree, Answer
    <3>4. x \in Good(succeeded)
      <4>1. /\ c \in Command /\ x \in Command /\ x.op = c.op /\ x.to = c.to /\ x.job = c.job
            /\ x.then = c.then /\ x.tree = c.tree
        BY <2>5, <3>2, <3>3 DEF Good, Command
      <4> QED
        BY <2>5, <3>3, <4>1 DEF Good
    <3> QED
      BY <1>3, <3>3, <3>4
  <2> QED
    BY <1>4, <2>1, <2>2, <2>3, <2>6, <2>7, <2>8 DEF Reply
<1>5. ASSUME NEW n \in Nodes, Run(n)
      PROVE  Has(loop[m], Stopping(j))
  <2>1. CASE Evaluate(n) \/ HandleFailure(n) \/ AbortJob(n)
    <3>1. loop[n] # <<>> /\ loop' = [loop EXCEPT ![n] = Tail(@)]
      BY <2>1 DEF Evaluate, HandleFailure, AbortJob, Runs
    <3> QED
      BY <3>1, LoopFewer
  <2>2. CASE Receive(n)
    <3>1. PICK b : b = Head(inbox[n])
      OBVIOUS
    <3>2. inbox[n] # <<>> /\ JobStatus(n, {b.job}, b.state, <<b.job>>)
      BY <2>2, <3>1 DEF Receive
    <3>3. inbox[n] \in Seq(Status)
      BY DEF IInv, NodeTypes
    <3>4. b \in Status
      BY <3>1, <3>2, <3>3, TailIsSeq
    <3>5. {b.job} \in SUBSET Jobs /\ b.state \in States
      BY <3>4 DEF Status
    <3>6. \E S \in SUBSET Jobs, s \in States : \E order : JobStatus(n, S, s, order)
      BY <3>2, <3>5
    <3> QED
      BY <3>6, LoopFewer
  <2> QED
    BY <1>5, <2>1, <2>2 DEF Run
<1>6. ASSUME NEW n \in Nodes, OtherStatus(n) \/ Crash(n) \/ Restart(n) \/ SweepNode(n)
      PROVE  Has(loop[m], Stopping(j))
  <2>1. CASE Crash(n)
    <3>1. loop' = [loop EXCEPT ![n] = <<>>] /\ DOMAIN loop = Nodes
      BY <2>1 DEF Crash, IInv
    <3>2. m # n
      BY <3>1 DEF Has
    <3> QED
      BY <3>1, <3>2
  <2> QED
    BY <1>1, <1>6, <2>1 DEF OtherStatus, Restart, SweepNode
<1>7. ASSUME NEW i \in Jobs, Runner(i) \/ Submit(i) \/ UserAbort(i)
      PROVE  Has(loop[m], Stopping(j))
  <2>1. CASE UserAbort(i)
    <3>1. /\ SendJobStatus(Pacemaker, {i}, "ABORTED", cmds[Pacemaker], <<>>)
          /\ {i} \in SUBSET Jobs /\ "ABORTED" \in States /\ Pacemaker \in Nodes
      BY <2>1, ManagerAssumption DEF UserAbort, States
    <3> QED
      BY <1>2, <3>1
  <2> QED
    BY <1>1, <1>7, <2>1 DEF Runner, Succeed, Fail, AddJobs, Submit
<1> QED
  BY <1>1, <1>4, <1>5, <1>6, <1>7 DEF Next, vars

\* in_startup loses jobs only with its process.
LEMMA StartupKept ==
  ASSUME IInv, [Next]_vars, NEW m \in Nodes
  PROVE  inStartup[m] \subseteq inStartup'[m] \/ cmds'[m] = <<>>
<1>1. inStartup \in [Nodes -> SUBSET Jobs] /\ DOMAIN cmds = Nodes
  BY DEF IInv, NodeTypes
<1>2. CASE UNCHANGED inStartup
  BY <1>2
<1>3. ASSUME NEW n \in Nodes, Reply(n)
      PROVE  inStartup[m] \subseteq inStartup'[m]
  <2>1. CASE StartJobs(n)
    BY <1>1, <2>1 DEF StartJobs
  <2>2. CASE AddJob(n) \/ TagJob(n) \/ ListTree(n) \/ TreeJobSet(n)
    BY <1>2, <2>2, ZenonT(40) DEF AddJob, TagJob, ListTree, TreeJobSet, NextInTree, TreeSet,
                                  managerVars
  <2>3. CASE \/ GetRoot(n) \/ WaitingJobs(n) \/ Instantiate(n) \/ GotContext(n)
             \/ GotCurrentState(n) \/ StartRunner(n) \/ ContextStored(n)
    BY <1>2, <2>3 DEF GetRoot, WaitingJobs, Instantiate, GotContext, GotCurrentState,
                      StartRunner, ContextStored, managerVars
  <2>4. CASE StateUpdated(n) \/ GotFinishedJob(n)
    BY <1>2, <2>4 DEF StateUpdated, GotFinishedJob, FinishRunner, managerVars
  <2>5. CASE \/ AbortRunners(n) \/ FindAbortHandlers(n) \/ AbortHandlerJob(n)
             \/ RunAbortHandler(n) \/ NodeJobs(n) \/ PublishStatus(n)
    BY <1>2, <2>5 DEF AbortRunners, FindAbortHandlers, AbortHandlerJob, RunAbortHandler,
                      NodeJobs, PublishStatus, managerVars
  <2> QED
    BY <1>3, <2>1, <2>2, <2>3, <2>4, <2>5 DEF Reply
<1>4. ASSUME NEW n \in Nodes, Run(n) \/ OtherStatus(n) \/ Restart(n) \/ SweepNode(n)
      PROVE  UNCHANGED inStartup
  BY <1>4 DEF Run, Evaluate, HandleFailure, AbortJob, Receive, OtherStatus, Restart,
              SweepNode, managerVars
<1>5. ASSUME NEW n \in Nodes, Crash(n)
      PROVE  inStartup[m] \subseteq inStartup'[m] \/ cmds'[m] = <<>>
  BY <1>1, <1>5 DEF Crash
<1>6. ASSUME NEW j \in Jobs, Runner(j) \/ Submit(j) \/ UserAbort(j)
      PROVE  UNCHANGED inStartup
  BY <1>6 DEF Runner, Succeed, Fail, AddJobs, Submit, UserAbort, managerVars
<1> QED
  BY <1>2, <1>3, <1>4, <1>5, <1>6 DEF Next, vars

\* The index sets and the callbacks go on saying what is true of the job.
LEMMA SeenKept ==
  ASSUME IInv, IInv', OnceInv, TreeInv, FixedInv, Requests, [Next]_vars, NEW z \in Fixed
  PROVE  SeenInv(z)'
<1>1. /\ z \in Jobs /\ SeenInv(z) /\ (Woken(z) => Woken(z)')
      /\ state \in [Jobs -> States \cup {Absent}] /\ idx \in [States -> SUBSET Jobs]
      /\ "RUNNING" \in States \ {"NEW"} /\ "WAITING" \in States \ {"NEW"}
      /\ Absent \notin States /\ "WAITING" # Absent
  BY WokenKept DEF Fixed, FixedInv, IInv, StoreTypeOK, States, Absent
<1>2. ASSUME NEW m \in Nodes, Has(loop'[m], Stopping(z))
      PROVE  Woken(z)'
  <2>1. Has(loop[m], Stopping(z)) \/ z \in idx["RUNNING"]
    BY <1>1, <1>2, StopsFound
  <2> QED
    BY <1>1, <2>1 DEF SeenInv
<1>3. ASSUME \A s \in States \ {"NEW"} : z \in idx'[s] => z \in idx[s] \/ Woken(z)',
             z \in idx'["WAITING"] => state'[z] = "WAITING"
      PROVE  SeenInv(z)'
  BY <1>1, <1>2, <1>3 DEF SeenInv
<1>4. CASE UNCHANGED <<state, idx>>
  BY <1>1, <1>3, <1>4 DEF SeenInv
<1>5. ASSUME NEW n \in Nodes, AddJob(n)
      PROVE  SeenInv(z)'
  <2>1. PICK c : c = Head(cmds[n])
    OBVIOUS
  <2>2. cmds[n] # <<>> /\ c.op = "add" /\ AddTx(c.job)
    BY <1>5, <2>1 DEF AddJob, Answer
  <2>3. ~Exists(c.job)
    BY <2>1, <2>2, WhereAdded DEF Adding
  <2>4. \A s \in States \ {"NEW"} : idx'[s] = idx[s]
    BY <1>1, <2>2 DEF AddTx
  <2>5. z \in idx["WAITING"] => state[z] = "WAITING" /\ z # c.job
    BY <1>1, <2>3 DEF SeenInv, Exists
  <2>6. z # c.job => state'[z] = state[z]
    BY <1>1, <2>2 DEF AddTx
  <2> QED
    BY <1>1, <1>3, <2>4, <2>5, <2>6
<1>6. ASSUME NEW n \in Nodes, NEW c, Sets(n, c)
      PROVE  SeenInv(z)'
  <2>1. /\ c \in Sound /\ c.to \in States /\ c.to # "NEW" /\ c.op = "set"
        /\ SetTx(c.job, c.from, c.to)
    BY <1>6, SetsFacts DEF Sets
  <2>2. state' = [state EXCEPT ![c.job] = c.to]
    BY <2>1 DEF SetTx
  <2>3. \A s \in States : z \in idx'[s] => z \in idx[s] \/ (z = c.job /\ s = c.to)
    BY <2>1 DEF SetTx
  <2>4. z = c.job => state'[z] = c.to /\ Woken(z)'
    BY <1>1, <2>1, <2>2 DEF Woken
  <2>5. z # c.job => state'[z] = state[z]
    BY <1>1, <2>2
  <2>6. z = c.job /\ c.to # "WAITING" => z \notin idx'["WAITING"]
    <3> SUFFICES ASSUME z = c.job, c.to # "WAITING"
                 PROVE  z \notin idx'["WAITING"]
      OBVIOUS
    <3>1. Past(z) \/ c.from = "WAITING"
      BY <2>1 DEF Sound
    <3>2. Past(z) => z \notin idx["WAITING"]
      BY <1>1 DEF SeenInv, Past
    <3>3. c.from = "WAITING" => idx'["WAITING"] = idx["WAITING"] \ {c.job}
      BY <1>1, <2>1 DEF SetTx
    <3> QED
      BY <1>1, <2>3, <3>1, <3>2, <3>3
  <2>7. z \in idx'["WAITING"] => state'[z] = "WAITING"
    BY <1>1, <2>3, <2>4, <2>5, <2>6 DEF SeenInv
  <2> QED
    BY <1>3, <2>3, <2>4, <2>7
<1> QED
  BY <1>4, <1>5, <1>6, StoreChanges

\* What a step puts into pipelines is sound, if all that was there is.
LEMMA SoundIssued ==
  ASSUME IInv, IInv', TreeInv, FixedInv, NEW n \in Nodes, NEW x \in Issuable(n)
  PROVE  x \in Sound
<1>1. x \in Command /\ NoJob \notin Jobs /\ Fixed \subseteq Jobs
  BY JobsAssumption DEF Issuable, Fixed
<1>2. CASE \E i \in DOMAIN cmds[n] : cmds[n][i] = x
  <2>1. cmds[n] \in Seq(Sound)
    BY DEF FixedInv
  <2> QED
    BY <1>2, <2>1
<1>3. CASE x \in Idle
  BY <1>1, <1>3 DEF Idle, Sound, Doing
<1>4. CASE Reports(n, x)
  <2>1. PICK j \in Jobs, s \in FinishedStates :
          /\ x = Completed(j, s)
          /\ starts[j] > 0 \/ Has(loop[n], Stopping(j)) \/ j \in Adders
    BY <1>4 DEF Reports
  <2>2. x.op \in {"store", "finish"} /\ x.job = j /\ x.left = {}
    BY <2>1, BlankType DEF Completed, Command
  <2>3. j \in Fixed => Woken(j)
    <3> SUFFICES ASSUME j \in Fixed
                 PROVE  Woken(j)
      OBVIOUS
    <3>1. j \notin Adders
      BY DEF Fixed
    <3>2. SeenInv(j) /\ FirstInv(j)
      BY DEF FixedInv
    <3> QED
      BY <2>1, <3>1, <3>2 DEF SeenInv, FirstInv, Past
  <2> QED
    BY <1>1, <2>2, <2>3 DEF Sound
<1>5. CASE cmds[n] # <<>> /\ Follows(n, Head(cmds[n]), x)
  <2>1. PICK c : c = Head(cmds[n])
    OBVIOUS
  <2>2. c \in Good(succeeded) /\ c \in Command
    BY <1>5, <2>1, HeadLives
  <2>3. cmds[n] \in Seq(Sound) /\ \A z \in Fixed : SeenInv(z)
    BY DEF FixedInv
  <2>4. c \in Sound
    BY <1>5, <2>1, <2>3, TailIsSeq
  <2>5. idx \in [States -> SUBSET Jobs] /\ "WAITING" \in States \ {"NEW"}
    BY DEF IInv, StoreTypeOK, States
  <2>6. \A z \in Fixed : c.op \in Doing \cup {"count"} /\ (z = c.job \/ z \in c.left) =>
          Woken(z) \/ (c.op \in {"get", "set"} /\ c.to = "WAITING")
    BY <2>4 DEF Sound, Waking
  <2>7. \A z \in Fixed : z \in x.left \/ z = x.job =>
          (x \in Waking(z) <=> x.op \in {"get", "set"} /\ x.to = "WAITING")
    BY <1>1 DEF Waking
  <2>8. \A z \in Fixed : z \in idx["WAITING"] => Woken(z)
    BY <2>3, <2>5 DEF SeenInv
  <2>9. CASE /\ x.op = c.op /\ x.job = c.job /\ x.left = c.left /\ x.from = c.from
             /\ x.to = c.to
    <3>1. \A z \in Fixed : x \in Waking(z) <=> c \in Waking(z)
      BY <1>1, <2>2, <2>9 DEF Waking
    <3> QED
      BY <1>1, <2>4, <2>9, <3>1 DEF Sound
  <2>10. CASE /\ x.op = "count" /\ x.job = NoJob /\ x.left = idx["WAITING"] \cap JobsOf(n)
    BY <1>1, <2>8, <2>10 DEF Sound
  <2>11. CASE c.op = "count" /\ x.op = "fetch" /\ x.job \in c.left /\ x.left = {}
    BY <1>1, <2>6, <2>11 DEF Sound
  <2>12. CASE /\ c.op \in {"fetch", "context", "store"} /\ x.op \in {"context", "get", "finish"}
              /\ x.job = c.job /\ x.left = {}
    BY <1>1, <2>6, <2>12 DEF Sound, Doing
  <2>13. CASE /\ c.op = "get" /\ x.op = "set" /\ x.job = c.job /\ x.left = c.left
              /\ x.to = c.to /\ x.from = state[c.job]
    <3>1. \A z \in Fixed : (z = x.job \/ z \in x.left) => Woken(z) \/ x \in Waking(z)
      BY <2>6, <2>7, <2>13 DEF Doing
    <3>2. \A z \in Fixed : x.job = z /\ x.to # "WAITING" => Past(z) \/ x.from = "WAITING"
      BY <3>1, <2>7, <2>13 DEF Past
    <3>3. c.job \notin c.left
      BY <2>4, <2>13 DEF Sound
    <3> QED
      BY <1>1, <2>13, <3>1, <3>2, <3>3 DEF Sound
  <2>14. CASE c.op = "finish" /\ x.op = "get" /\ x.job = c.job /\ x.left = c.left
    <3>1. c.job \notin c.left
      BY <2>4, <2>14 DEF Sound
    <3> QED
      BY <1>1, <2>6, <2>14, <3>1 DEF Sound, Doing
  <2>15. CASE /\ c.op \in {"list", "set"} /\ x.op = "get" /\ x.to = c.to
              /\ x.job \notin x.left
              /\ \A z \in {x.job} \cup x.left :
                   IF c.op = "set" THEN z \in c.left
                                   ELSE z \in idx[c.from] /\ Root[z] = Root[c.tree]
    <3>1. ASSUME NEW z \in Fixed, z = x.job \/ z \in x.left
          PROVE  Woken(z) \/ x.to = "WAITING"
      <4>1. CASE c.op = "set"
        BY <2>6, <2>15, <3>1, <4>1 DEF Doing
      <4>2. CASE c.op = "list"
        <5>1. z \in idx[c.from] /\ (c.from # "NEW" \/ x.to = "WAITING")
          BY <2>4, <2>15, <3>1, <4>2 DEF Sound
        <5>2. c.from \in States
          <6>1. c \in Ordered(n)
            BY <1>5, <2>1, HeadLives
          <6> QED
            BY <4>2, <6>1 DEF Ordered
        <5> QED
          BY <2>3, <5>1, <5>2 DEF SeenInv
      <4> QED
        BY <2>15, <4>1, <4>2
    <3> QED
      BY <1>1, <2>7, <2>15, <3>1 DEF Sound
  <2> QED
    BY <1>5, <2>1, <2>2, <2>5, <2>9, <2>10, <2>11, <2>12, <2>13, <2>14, <2>15, FollowFacts
<1> QED
  BY <1>2, <1>3, <1>4, <1>5 DEF Issuable

\* So all of it stays sound.
LEMMA SoundKept ==
  ASSUME IInv, IInv', OnceInv, TreeInv, FixedInv, Requests, [Next]_vars
  PROVE  \A m \in Nodes : cmds'[m] \in Seq(Sound')
<1>1. \A z \in Fixed : (Woken(z) => Woken(z)') /\ (Past(z) => Past(z)')
  BY WokenKept
<1>2. Sound \subseteq Sound'
  BY <1>1 DEF Sound
<1> SUFFICES ASSUME NEW m \in Nodes
             PROVE  cmds'[m] \in Seq(Sound')
  OBVIOUS
<1>3. cmds'[m] \in Seq(Issuable(m))
  BY StepIssues
<1>4. \A x \in Issuable(m) : x \in Sound'
  BY <1>2, SoundIssued
<1> QED
  BY <1>3, <1>4

\* What a command that starts or counts for a job comes from.
LEMMA FirstIssued ==
  ASSUME IInv, IInv', TreeInv, FixedInv, NEW z \in Fixed, NEW n, n = NodeOf[z],
         NEW x \in Issuable(n)
  PROVE  /\ x \in Counting(z) => starts[z] = 0 \/ z \in inStartup[n]
         /\ x \in Chain(z) => starts[z] = 0
<1>1. /\ z \in Jobs /\ n \in Nodes /\ x \in Command /\ FirstInv(z) /\ SeenInv(z)
      /\ starts \in [Jobs -> Nat]
  BY NodesOf DEF Fixed, Issuable, FixedInv, IInv, RunnerTypes
<1>2. starts[z] \in Nat /\ (z \in idx["WAITING"] => starts[z] = 0)
  BY <1>1 DEF FirstInv, SeenInv, Past
<1>3. CASE \E i \in DOMAIN cmds[n] : cmds[n][i] = x
  <2>1. /\ x \in Counting(z) => Has(cmds[n], Counting(z))
        /\ x \in Chain(z) => Has(cmds[n], Chain(z))
    BY <1>3 DEF Has
  <2> QED
    BY <1>1, <1>2, <2>1 DEF FirstInv
<1>4. CASE x \in Idle
  BY <1>4 DEF Idle, Doing, Counting, Chain, Starting
<1>5. CASE Reports(n, x)
  <2>1. x.op \in {"store", "finish"}
    BY <1>5, BlankType DEF Reports, Completed, Command
  <2> QED
    BY <2>1 DEF Counting, Chain, Starting
<1>6. CASE cmds[n] # <<>> /\ Follows(n, Head(cmds[n]), x)
  <2>1. PICK c : c = Head(cmds[n])
    OBVIOUS
  <2>2. c \in Good(succeeded) /\ c \in Command
    BY <1>1, <1>6, <2>1, HeadLives
  <2>3. 1 \in DOMAIN cmds[n] /\ cmds[n][1] = c
    <3>1. cmds[n] \in Seq(Command)
      BY <1>1, PipelineType
    <3> QED
      BY <1>6, <2>1, <3>1
  <2>4. /\ c \in Counting(z) => starts[z] = 0 \/ z \in inStartup[n]
        /\ c \in Chain(z) => starts[z] = 0
    <3>1. /\ c \in Counting(z) => Has(cmds[n], Counting(z))
          /\ c \in Chain(z) => Has(cmds[n], Chain(z))
      BY <2>3 DEF Has
    <3> QED
      BY <1>1, <1>2, <3>1 DEF FirstInv
  <2>5. idx \in [States -> SUBSET Jobs]
    BY DEF IInv, StoreTypeOK
  <2>6. CASE x.op = c.op /\ x.job = c.job /\ x.left = c.left /\ x.then = c.then
    <3>1. (x \in Counting(z) => c \in Counting(z)) /\ (x \in Chain(z) => c \in Chain(z))
      BY <2>2, <2>6 DEF Counting, Chain, Starting
    <3> QED
      BY <2>4, <3>1
  <2>7. CASE x.op = "count" /\ x.left = idx["WAITING"] \cap JobsOf(n)
    BY <1>2, <2>7 DEF Counting, Chain, Starting
  <2>8. CASE c.op = "count" /\ x.op = "fetch" /\ x.job \in c.left \ inStartup[n]
    <3>1. x \notin Counting(z)
      BY <2>8 DEF Counting
    <3>2. x \in Chain(z) => c \in Counting(z) /\ z \notin inStartup[n]
      BY <2>2, <2>8 DEF Chain, Counting
    <3> QED
      BY <2>4, <3>1, <3>2
  <2>9. CASE \/ c.op = "fetch" /\ x.op = "context" /\ x.job = c.job
             \/ c.op = "context" /\ x.op = "get" /\ x.job = c.job
             \/ c.op = "get" /\ x.op = "set" /\ x.job = c.job /\ x.then = c.then
    <3>1. x \notin Counting(z)
      BY <2>9 DEF Counting
    <3>2. x \in Chain(z) => c \in Chain(z)
      BY <2>2, <2>9 DEF Chain, Starting
    <3> QED
      BY <2>4, <3>1, <3>2
  <2>10. CASE x.op = "finish" \/ (x.op = "get" /\ x.then \in TreeConts \cup {"on_state_updated"})
    BY <2>10 DEF Counting, Chain, Starting, TreeConts
  <2> QED
    BY <1>1, <1>6, <2>1, <2>2, <2>5, <2>6, <2>7, <2>8, <2>9, <2>10, FollowFacts
<1> QED
  BY <1>3, <1>4, <1>5, <1>6 DEF Issuable

\* A job starts once.
LEMMA FirstKept ==
  ASSUME IInv, IInv', OnceInv, TreeInv, FixedInv, Requests, [Next]_vars, NEW z \in Fixed
  PROVE  FirstInv(z)'
<1>1. PICK n \in Nodes : n = NodeOf[z]
  BY NodesOf DEF Fixed
<1>2. /\ z \in Jobs /\ FirstInv(z) /\ SeenInv(z) /\ (Past(z) => Past(z)')
      /\ starts \in [Jobs -> Nat] /\ state \in [Jobs -> States \cup {Absent}]
      /\ Absent \notin States
  BY WokenKept DEF Fixed, FixedInv, IInv, RunnerTypes, StoreTypeOK, States, Absent
<1>3. CASE starts'[z] = starts[z]
  <2>1. /\ cmds'[n] \in Seq(Issuable(n))
        /\ \A x \in Issuable(n) : /\ x \in Counting(z) => starts[z] = 0 \/ z \in inStartup[n]
                                  /\ x \in Chain(z) => starts[z] = 0
    BY <1>1, StepIssues, FirstIssued
  <2>2. Has(cmds'[n], Chain(z)) => starts'[z] = 0
    BY <1>3, <2>1 DEF Has
  <2>3. Has(cmds'[n], Counting(z)) /\ starts'[z] > 0 => z \in inStartup'[n]
    <3> SUFFICES ASSUME Has(cmds'[n], Counting(z)), starts'[z] > 0
                 PROVE  z \in inStartup'[n]
      OBVIOUS
    <3>1. z \in inStartup[n]
      BY <1>3, <2>1 DEF Has
    <3>2. cmds'[n] # <<>>
      BY DEF Has
    <3> QED
      BY <3>1, <3>2, StartupKept
  <2> QED
    BY <1>1, <1>2, <1>3, <2>2, <2>3 DEF FirstInv
<1>4. CASE starts'[z] # starts[z]
  <2>1. PICK h \in Nodes : StartRunner(h) /\ Head(cmds[h]).job = z
    BY <1>2, <1>4, StartsHead
  <2>2. PICK c : c = Head(cmds[h])
    OBVIOUS
  <2>3. /\ cmds[h] # <<>> /\ c.op = "set" /\ c.then = "on_running" /\ c.job = z
        /\ Issue(h, <<>>) /\ starts' = [starts EXCEPT ![z] = @ + 1] /\ UNCHANGED inStartup
        /\ SetTx(c.job, c.from, c.to)
    BY <2>1, <2>2 DEF StartRunner, Answer, managerVars
  <2>4. Sets(h, c)
    BY <2>1, <2>2, <2>3 DEF Sets
  <2>5. c \in Command /\ c.to \in States /\ c.to # "NEW" /\ \E i \in DOMAIN cmds[h] : cmds[h][i] = c
    BY <2>4, SetsFacts
  <2>6. c.to # "WAITING"
    <3>1. c \in Ordered(h)
      BY <2>2, <2>3, HeadLives
    <3> QED
      BY <2>3, <3>1 DEF Ordered
  <2>7. c \in Chain(z) /\ c \in Starting
    BY <2>3, <2>5 DEF Chain, Starting
  <2>8. h = n
    BY <1>1, <2>3, <2>5, <2>7, ChainLaunched
  <2>9. starts[z] = 0 /\ z \in inStartup[n]
    <3>1. Has(cmds[n], Chain(z))
      BY <2>5, <2>7, <2>8 DEF Has
    <3> QED
      BY <1>1, <1>2, <3>1 DEF FirstInv, OnceInv, StartsInv, StartInv
  <2>10. starts'[z] = 1
    BY <1>2, <2>3, <2>9
  <2>11. Past(z)'
    <3>1. state'[z] = c.to
      BY <1>2, <2>3 DEF SetTx
    <3> QED
      BY <1>2, <2>5, <2>6, <3>1 DEF Past, Woken
  <2>12. ~Has(cmds'[n], Chain(z))
    <3>1. Once(cmds[n], Chain(z)) /\ cmds[n] \in Seq(Command)
      BY <1>1, <1>2, PipelineType DEF OnceInv, StartsInv, StartInv
    <3>2. cmds'[n] = Tail(cmds[n])
      <4>1. DOMAIN cmds = Nodes /\ Tail(cmds[n]) \o <<>> = Tail(cmds[n])
        BY <2>3, <2>8, <3>1, TailIsSeq DEF IInv
      <4> QED
        BY <2>3, <2>8, <4>1 DEF Issue
    <3> QED
      BY <2>2, <2>3, <2>7, <2>8, <3>1, <3>2, DropFewer
  <2> QED
    BY <1>1, <2>3, <2>9, <2>10, <2>11, <2>12 DEF FirstInv
<1> QED
  BY <1>3, <1>4


\* A step after which no more is about to wake a job.
LEMMA WakeFewer ==
  ASSUME FixedInv, NEW z \in Fixed,
         \A m \in Nodes : Fewer(cmds'[m], cmds[m], Waking(z)),
         Has(cmds'[Submitter[Root[z]]], Opening(Root[z])) =>
           Has(cmds[Submitter[Root[z]]], Opening(Root[z])) \/ ~Woken(z),
         Woken(z)' => Woken(z)
  PROVE  WakeInv(z)'
<1>1. PICK s \in Nodes : s = Submitter[Root[z]]
  BY ForestAssumption, ManagerAssumption DEF Fixed
<1>2. WakeInv(z)
  BY DEF FixedInv
<1> QED
  BY <1>1, <1>2 DEF WakeInv, Fewer

\* What opens a tree comes from what did.
LEMMA OpeningHead ==
  ASSUME NEW c \in Command, NEW x, Inherits(c, x), NEW r, x \in Opening(r)
  PROVE  c \in Opening(r)
<1>1. x = [c EXCEPT !.hop = FALSE]
  BY DEF Inherits, Opening
<1> QED
  BY <1>1, HopFacts, ZenonT(40) DEF Opening

\* A mild step wakes a job only when it takes the command that does.
LEMMA WakeMild ==
  ASSUME IInv, IInv', TreeInv, FixedInv, NEW n \in Nodes, NEW d, NEW c, NEW x,
         Mild(n, d, c, x), NEW z \in Fixed, Woken(z)' => Woken(z)
  PROVE  WakeInv(z)'
<1>1. PICK r \in Jobs : r = Root[z] /\ Parent[r] = NoJob /\ Root[r] = r
  BY ForestAssumption DEF Fixed
<1>2. PICK s \in Nodes : s = Submitter[r]
  BY ManagerAssumption
<1>3. /\ Turn(n, d, c, x) /\ Inherits(c, x) /\ OpeningInv(r) /\ WakeInv(z)
      /\ c \in Command /\ z \in Jobs /\ Opening(r) \cap Dull = {} /\ Waking(z) \cap Dull = {}
  BY <1>1, HeadOrdered, NoDull DEF Mild, TreeInv, Ordered, Fixed, FixedInv
<1>4. Has(cmds'[s], Opening(r)) => Has(cmds[s], Opening(r))
  <2>1. x \in Opening(r) => c \in Opening(r)
    BY <1>3, OpeningHead
  <2>2. /\ Has(cmds'[s], Opening(r)) => Has(cmds[s], Opening(r)) \/ (s = n /\ x \in Opening(r))
        /\ c \in Opening(r) => Has(cmds[n], Opening(r))
    BY <1>3, TurnFacts
  <2> QED
    BY <2>1, <2>2
<1>5. c \in Listing(z) => /\ n = s /\ ~Woken(z)
                          /\ ~Has(cmds[s], Waking(z))
  <2> SUFFICES ASSUME c \in Listing(z)
               PROVE  n = s /\ ~Woken(z) /\ ~Has(cmds[s], Waking(z))
    OBVIOUS
  <2>1. c \in Opening(r) /\ n = s
    BY <1>1, <1>2, <1>3, ListFacts DEF Fixed
  <2>2. Has(cmds[s], Opening(r))
    BY <1>3, <2>1, TurnFacts
  <2>3. Silent(z)
    BY <1>1, <1>2, <1>3, <2>2 DEF OpeningInv
  <2> QED
    BY <1>1, <1>2, <1>3, <2>1, <2>2, <2>3 DEF Silent, WakeInv
<1>6. ASSUME NEW m \in Nodes
      PROVE  /\ Has(cmds'[m], Waking(z)) => Has(cmds[m], Waking(z)) \/ (m = n /\ x \in Waking(z))
             /\ ~Has(cmds[m], Waking(z)) => Once(cmds'[m], Waking(z))
             /\ Once(cmds[m], Waking(z)) /\ (x \in Waking(z) => c \in Waking(z))
                  => Once(cmds'[m], Waking(z))
             /\ c \in Waking(z) => Has(cmds[n], Waking(z))
  BY <1>3, TurnFacts
<1>7. x \in Waking(z) => c \in Waking(z) \/ c \in Listing(z)
  BY <1>3 DEF Inherits
<1>8. ASSUME NEW m \in Nodes, Has(cmds'[m], Waking(z))
      PROVE  m = s /\ ~Woken(z)
  <2>1. Has(cmds[m], Waking(z)) \/ (m = n /\ c \in Listing(z))
    BY <1>6, <1>7, <1>8
  <2> QED
    BY <1>1, <1>2, <1>3, <1>5, <2>1 DEF WakeInv
<1>9. Once(cmds'[s], Waking(z))
  BY <1>1, <1>2, <1>3, <1>5, <1>6, <1>7 DEF WakeInv
<1> QED
  BY <1>1, <1>2, <1>3, <1>4, <1>8, <1>9 DEF WakeInv

\* add_tree wakes none.
LEMMA WakeAdd ==
  ASSUME IInv, IInv', OnceInv, TreeInv, FixedInv, NEW n \in Nodes, NEW c, NEW x,
         AddTurn(n, c, x), NEW z \in Fixed, Woken(z)' => Woken(z)
  PROVE  WakeInv(z)'
<1>1. PICK r \in Jobs : r = Root[z]
  BY ForestAssumption DEF Fixed
<1>2. PICK s \in Nodes : s = Submitter[r]
  BY ManagerAssumption
<1>3. PICK k \in Jobs : k = c.job
  BY AddPlace DEF AddTurn
<1>4. /\ Turn(n, 1, c, x) /\ c \in Command /\ c.op \in Adding /\ x \in Command
      /\ c.left \subseteq Batch(k) /\ c.left \in SUBSET Jobs /\ c.by = AddedBy[k] /\ x.by = c.by
      /\ x.op \in {"add", "tag", "list"}
      /\ Opening(r) \cap Dull = {} /\ Waking(z) \cap Dull = {}
  BY <1>3, AddPlace, NoDull DEF AddTurn
<1>5. \A m \in Nodes : Fewer(cmds'[m], cmds[m], Waking(z))
  <2>1. x \notin Waking(z)
    BY <1>4 DEF Waking
  <2> QED
    BY <1>4, <2>1, TurnFacts
<1>6. x \in Opening(r) => c \in Opening(r)
  <2> SUFFICES ASSUME x \in Opening(r)
               PROVE  c \in Opening(r)
    OBVIOUS
  <2>1. AddedBy[k] = NoJob /\ c.by = NoJob
    BY <1>4 DEF Opening
  <2>2. Root[k] = r
    <3>1. CASE x.op = "add" /\ x.job \in c.left
      <4>1. Root[x.job] = r /\ x.job \in Batch(k) /\ x.job \in Jobs
        BY <1>4, <3>1 DEF Opening
      <4> QED
        BY <2>1, <4>1 DEF Batch
    <3>2. CASE x.op = "tag" /\ x.job = k
      BY <3>2 DEF Opening
    <3>3. CASE x.op = "list" /\ x.tree = Root[k]
      BY <3>3, ForestAssumption DEF Opening, Adding
    <3> QED
      BY <1>3, <3>1, <3>2, <3>3 DEF AddTurn
  <2> QED
    BY <1>3, <1>4, <2>1, <2>2 DEF Opening
<1>7. Has(cmds'[s], Opening(r)) => Has(cmds[s], Opening(r))
  <2>1. /\ Has(cmds'[s], Opening(r)) => Has(cmds[s], Opening(r)) \/ (s = n /\ x \in Opening(r))
        /\ c \in Opening(r) => Has(cmds[n], Opening(r))
    BY <1>4, TurnFacts
  <2> QED
    BY <1>6, <2>1
<1> QED
  BY <1>1, <1>2, <1>5, <1>7, WakeFewer

\* Nor does the call of add_tree, and it opens a tree of which nothing is there.
LEMMA WakeBegin ==
  ASSUME IInv, OnceInv, TreeInv, FixedInv, NEW i \in Jobs, AddJobs(i) \/ Submit(i),
         NEW z \in Fixed
  PROVE  WakeInv(z)'
<1>1. PICK r \in Jobs : r = Root[z]
  BY ForestAssumption DEF Fixed
<1>2. PICK s \in Nodes : s = Submitter[r]
  BY ManagerAssumption
<1>3. PICK n \in Nodes, k \in Jobs, batch \in SUBSET Jobs, by \in Jobs \cup {NoJob} :
        /\ Enqueue(n, <<AddCommand(k, batch, by)>>)
        /\ by = NoJob => k = i /\ Submit(i)
  <2>1. CASE AddJobs(i)
    <3>1. NodeOf[i] \in Nodes /\ AddedWith(i) \in SUBSET Jobs /\ i # NoJob
      BY NodesOf, JobsAssumption DEF AddedWith
    <3>2. PICK k \in AddedWith(i) : Enqueue(NodeOf[i], <<AddCommand(k, AddedWith(i), i)>>)
      BY <2>1 DEF AddJobs
    <3> QED
      BY <3>1, <3>2
  <2>2. CASE Submit(i)
    <3>1. Submitter[i] \in Nodes /\ {j \in Tree(i) : AddedBy[j] = NoJob} \in SUBSET Jobs
      BY ManagerAssumption DEF Tree
    <3> QED
      BY <2>2, <3>1 DEF Submit
  <2> QED
    BY <2>1, <2>2
<1>4. PICK x : x = AddCommand(k, batch, by)
  OBVIOUS
<1>5. x.op = "add" /\ x.job = k /\ x.by = by
  BY <1>4, BlankType DEF AddCommand, Command
<1>6. UNCHANGED state /\ Placed
  BY DEF AddJobs, Submit, storeVars, OnceInv
<1>7. Woken(z)' => Woken(z)
  BY <1>6 DEF Woken
<1>8. <<x>> \in Seq({x}) /\ Enqueue(n, <<x>>)
  BY <1>3, <1>4
<1>9. \A m \in Nodes : Fewer(cmds'[m], cmds[m], Waking(z))
  <2>1. Waking(z) \cap {x} = {}
    BY <1>5 DEF Waking
  <2> QED
    BY <1>6, <1>8, <2>1, QueueFewer
<1>10. Has(cmds'[s], Opening(r)) => Has(cmds[s], Opening(r)) \/ ~Woken(z)
  <2>1. CASE x \in Opening(r)
    <3>1. k = i /\ Submit(i) /\ Root[i] = r
      BY <1>3, <1>5, <2>1 DEF Opening
    <3>2. Root[i] = i /\ ~Exists(r)
      BY <3>1, ForestAssumption DEF Submit, Submitted
    <3>3. ~Exists(z)
      BY <1>1, <3>2 DEF TreeInv, LiveInv, Living, Fixed
    <3> QED
      BY <3>3 DEF Exists, Woken
  <2>2. CASE x \notin Opening(r)
    <3>1. Opening(r) \cap {x} = {}
      BY <2>2
    <3>2. Fewer(cmds'[s], cmds[s], Opening(r))
      BY <1>6, <1>8, <3>1, QueueFewer
    <3> QED
      BY <3>2 DEF Fewer
  <2> QED
    BY <2>1, <2>2
<1> QED
  BY <1>1, <1>2, <1>7, <1>9, <1>10, WakeFewer

\* The transaction that wakes a job takes the last command to do so.
LEMMA WakeSet ==
  ASSUME IInv, IInv', OnceInv, TreeInv, FixedInv, Requests, [Next]_vars, NEW z \in Fixed,
         NEW n \in Nodes, TreeJobSet(n), Head(cmds[n]) \in Setting(z)
  PROVE  WakeInv(z)'
<1>1. PICK r \in Jobs : r = Root[z] /\ Parent[r] = NoJob
  BY ForestAssumption DEF Fixed
<1>2. PICK s \in Nodes : s = Submitter[r]
  BY ManagerAssumption
<1>3. PICK c : c = Head(cmds[n])
  OBVIOUS
<1>4. PICK x : Mild(n, 1, c, x)
  BY <1>3, SetTreeTree DEF MildReply
<1>5. /\ c \in Setting(z) /\ c \in Waking(z) /\ c \in Command /\ cmds[n] # <<>>
      /\ c.op = "set" /\ c.job = z /\ c.to = "WAITING"
  BY <1>3 DEF Setting, Waking, TreeJobSet, Answer
<1>6. /\ Turn(n, 1, c, x) /\ Inherits(c, x) /\ OpeningInv(r) /\ WakeInv(z)
      /\ Opening(r) \cap Dull = {} /\ Waking(z) \cap Dull = {} /\ Setting(z) \cap Dull = {}
      /\ Setting(z) \subseteq Waking(z) /\ idx \in [States -> SUBSET Jobs]
  BY <1>1, <1>4, NoDull DEF Mild, TreeInv, FixedInv, Setting, Waking, IInv, StoreTypeOK
<1>7. /\ c \in Good(succeeded) /\ c \in Sound /\ 1 \in DOMAIN cmds[n] /\ cmds[n][1] = c
  <2>1. cmds[n] \in Seq(Sound)
    BY DEF FixedInv
  <2> QED
    BY <1>3, <1>5, <2>1, HeadLives
<1>8. n = s /\ Once(cmds[n], Waking(z)) /\ Has(cmds[n], Waking(z))
  <2>1. Has(cmds[n], Waking(z))
    BY <1>5, <1>7 DEF Has
  <2> QED
    BY <1>1, <1>2, <1>6, <2>1 DEF WakeInv
<1>9. ~Has(cmds'[n], Setting(z))
  <2>1. x \notin Setting(z)
    BY <1>5, <1>6 DEF Inherits, Getting, Fixed
  <2>2. Once(cmds[n], Setting(z))
    BY <1>6, <1>8 DEF Once
  <2> QED
    BY <1>5, <1>6, <2>1, <2>2, TurnFacts
<1>10. ASSUME NEW e \in Issuable(n), e \in Waking(z)
       PROVE  e \in Setting(z)
  <2>1. e \in Command /\ e.op \in {"get", "set"} /\ e.to = "WAITING" /\ (z = e.job \/ z \in e.left)
    BY <1>10 DEF Waking
  <2>2. CASE \E i \in DOMAIN cmds[n] : cmds[n][i] = e
    BY <1>5, <1>7, <1>8, <1>10, <2>2 DEF Once
  <2>3. CASE e \in Idle
    BY <2>1, <2>3 DEF Idle, Doing
  <2>4. CASE Reports(n, e)
    BY <2>1, <2>4, BlankType DEF Reports, Completed, Command
  <2>5. CASE Follows(n, c, e)
    <3>1. \/ e.op = c.op /\ e.job = c.job /\ e.to = c.to
          \/ e.op = "get" /\ \A y \in {e.job} \cup e.left : y \in c.left
      BY <1>5, <1>6, <1>7, <2>5, FollowFacts
    <3>2. z \notin c.left
      BY <1>5, <1>7 DEF Sound
    <3> QED
      BY <1>5, <2>1, <3>1, <3>2 DEF Setting
  <2> QED
    BY <1>3, <1>10, <2>2, <2>3, <2>4, <2>5 DEF Issuable
<1>11. ~Has(cmds'[n], Waking(z))
  <2>1. cmds'[n] \in Seq(Issuable(n))
    BY StepIssues
  <2>2. \A i \in DOMAIN cmds'[n] : cmds'[n][i] \in Waking(z) => cmds'[n][i] \in Setting(z)
    BY <1>10, <2>1
  <2> QED
    BY <1>9, <2>2 DEF Has
<1>12. \A m \in Nodes : ~Has(cmds'[m], Waking(z))
  <2> SUFFICES ASSUME NEW m \in Nodes, m # n
               PROVE  ~Has(cmds'[m], Waking(z))
    BY <1>11
  <2>1. cmds'[m] = cmds[m]
    BY <1>6 DEF Turn
  <2> QED
    BY <1>1, <1>2, <1>6, <1>8, <2>1 DEF WakeInv
<1>13. ~Has(cmds'[s], Opening(r))
  <2>1. ~Has(cmds[s], Opening(r))
    BY <1>1, <1>2, <1>6, <1>8 DEF OpeningInv, Silent, Fixed
  <2>2. x \notin Opening(r)
    <3>1. c \notin Opening(r)
      BY <1>5 DEF Opening, Adding
    <3> QED
      BY <1>5, <1>6, <3>1, OpeningHead
  <2> QED
    BY <1>6, <2>1, <2>2, TurnFacts
<1>14. Once(cmds'[s], Waking(z))
  BY <1>12 DEF Has, Once
<1> QED
  BY <1>1, <1>2, <1>12, <1>13, <1>14 DEF WakeInv

\* So a job is woken once.
LEMMA WakeKept ==
  ASSUME IInv, IInv', OnceInv, TreeInv, FixedInv, Requests, [Next]_vars, NEW z \in Fixed
  PROVE  WakeInv(z)'
<1>1. CASE \E n \in Nodes : TreeJobSet(n) /\ Head(cmds[n]) \in Setting(z)
  BY <1>1, WakeSet
<1>2. CASE Woken(z)' => Woken(z)
  <2>1. CASE Mildly
    <3>1. PICK n \in Nodes : \E d, c, x : Mild(n, d, c, x)
      BY <2>1 DEF Mildly
    <3> QED
      BY <1>2, <3>1, WakeMild
  <2>2. ASSUME NEW n \in Nodes, AddJob(n) \/ TagJob(n)
        PROVE  WakeInv(z)'
    <3>1. PICK c, x : AddTurn(n, c, x)
      BY <2>2, AddJobTree
    <3> QED
      BY <1>2, <3>1, WakeAdd
  <2>3. ASSUME NEW n \in Nodes, Reply(n)
        PROVE  AddJob(n) \/ TagJob(n) \/ Mildly
    BY <2>3, RoundTripTree, StartJobsTree, DullReply, StartRunnerTree, FinishTree,
       SetTreeTree, AbortRunnersTree DEF Reply
  <2>4. ASSUME NEW n \in Nodes,
               Run(n) \/ OtherStatus(n) \/ Crash(n) \/ Restart(n) \/ SweepNode(n)
        PROVE  Mildly
    BY <2>4, RunTree
  <2>5. ASSUME NEW i \in Jobs, Runner(i) \/ Submit(i) \/ UserAbort(i)
        PROVE  Mildly \/ WakeInv(z)'
    <3>1. Pacemaker \in Nodes
      BY ManagerAssumption
    <3> QED
      BY <2>5, <3>1, RunnerTree, RunTree, WakeBegin DEF Runner
  <2>6. CASE UNCHANGED vars
    <3>1. cmds' = cmds
      BY <2>6 DEF vars
    <3> QED
      BY <1>2, <3>1, FewerFacts, WakeFewer
  <2> QED
    BY <2>1, <2>2, <2>3, <2>4, <2>5, <2>6 DEF Next
<1> QED
  BY <1>1, <1>2, WokenKept

\* Nothing has been submitted.
LEMMA FixedInit == Init => FixedInv
<1> SUFFICES ASSUME Init
             PROVE  FixedInv
  OBVIOUS
<1>1. /\ state = [j \in Jobs |-> Absent] /\ idx = [s \in States |-> {}]
      /\ cmds = [n \in Nodes |-> <<>>] /\ loop = [n \in Nodes |-> <<>>]
      /\ starts = [j \in Jobs |-> 0]
  BY DEF Init, StoreInit
<1>2. \A n \in Nodes : \A T : ~Has(cmds[n], T) /\ ~Has(loop[n], T) /\ Once(cmds[n], T)
  BY <1>1 DEF Has, Once
<1>3. \A n \in Nodes : cmds[n] \in Seq(Sound)
  BY <1>1
<1> SUFFICES ASSUME NEW z \in Fixed
             PROVE  WakeInv(z) /\ SeenInv(z) /\ FirstInv(z)
  BY <1>3 DEF FixedInv
<1>4. z \in Jobs /\ Submitter[Root[z]] \in Nodes /\ NodeOf[z] \in Nodes /\ "WAITING" \in States
  BY ForestAssumption, ManagerAssumption DEF Fixed, States
<1>5. WakeInv(z)
  BY <1>2, <1>4 DEF WakeInv
<1>6. SeenInv(z) /\ FirstInv(z)
  BY <1>1, <1>2, <1>4 DEF SeenInv, FirstInv
<1> QED
  BY <1>5, <1>6

\* No step breaks it.
LEMMA FixedStep ==
  ASSUME Requests
  PROVE  IInv /\ IInv' /\ OnceInv /\ TreeInv /\ FixedInv /\ [Next]_vars => FixedInv'
BY SoundKept, WakeKept, SeenKept, FirstKept DEF FixedInv, Fixed

-----------------------------------------------------------------------------
(* Theorems *)

\* No job is started twice, however evaluations, failures and aborts interleave, where
\* the nodes that crash have only jobs of trees to which no request job adds: the
\* process forgets in_startup, but what has started has left the waiting set, and
\* only allow_execution puts jobs there, once for each job of such a tree.
THEOREM StartsOnceAcrossCrashes ==
  ASSUME Requests, \A j \in Jobs : NodeOf[j] \in Crashing => j \in Fixed
  PROVE  Spec => []StartedOnce
<1>1. IInv /\ OnceInv /\ FixedInv => StartedOnce
  <2> SUFFICES ASSUME IInv, OnceInv, FixedInv, NEW j \in Jobs
               PROVE  starts[j] <= 1
    BY DEF StartedOnce
  <2>1. CASE j \in Fixed
    BY <2>1 DEF FixedInv, FirstInv
  <2>2. CASE j \notin Fixed
    <3>1. NodeOf[j] \in Nodes /\ NodeOf[j] \notin Crashing
      BY <2>2, NodesOf
    <3>2. Lives(NodeOf[j]) = 1
      BY <3>1, LivesFacts
    <3>3. starts[j] <= Lives(NodeOf[j])
      BY DEF OnceInv, StartsInv, StartInv
    <3> QED
      BY <3>2, <3>3
  <2> QED
    BY <2>1, <2>2
<1>2. Init => IInv /\ OnceInv /\ TreeInv /\ FixedInv
  BY InitSafe, OnceInit, TreeInit, FixedInit
<1>3. IInv /\ OnceInv /\ TreeInv /\ FixedInv /\ [Next]_vars
      => (IInv /\ OnceInv /\ TreeInv /\ FixedInv)'
  BY StepSafe, OnceStep, TreeStep, FixedStep
<1> QED
  BY <1>1, <1>2, <1>3, PTL DEF Spec

\* On these nodes the job managers implement JobTree.
THEOREM ImplementsPromise ==
  ASSUME Requests, AddersRunOn, \A j \in Jobs : NodeOf[j] \in Crashing => j \in Fixed
  PROVE  Spec => StartsInOrder
BY StartsOnceAcrossCrashes, PromiseWhileOnce, PTL

-----------------------------------------------------------------------------
(* Trees in which nothing fails, is aborted or crashes *)

\* The jobs of trees to which no request job adds, in which no job fails, no user
\* aborts one, and all nodes stay up and are seen to be.
Undisturbed == {j \in Fixed : \A k \in Tree(j) :
  k \notin Failing \cup UserAborts /\ NodeOf[k] \notin Crashing \cup Laggards}

\* on_running comes with RUNNING, and what a runner reported with its end.
Formed == {c \in Command :
  /\ c.op \in {"get", "set"} /\ c.then = "on_running" => c.to = "RUNNING"
  /\ c.op \in {"store", "finish"} => c.to \in FinishedStates
  /\ c.op \in {"get", "set"} /\ c.then = "on_state_updated" => c.to \in FinishedStates}

\* Whatever a command is about; and the commands that neither fail nor abort an
\* undisturbed job, nor look for jobs to abort in its tree or on its node.
Stopped == {"FAILED", "ABORTED"}
Mentions(c) == {c.job, c.tree} \cup c.left \cup c.all \cup c.todo
Gentle == {c \in Command :
  /\ c.to \in Stopped => Mentions(c) \cap Undisturbed = {}
  /\ c.op = "running" => c.tree \notin Undisturbed
  /\ c.op = "node_jobs" => JobsOf(c.node) \cap Undisturbed = {}
  /\ c.op = "publish" /\ c.job \in Undisturbed => c.to \in {"WAITING", "SUCCESS"}}
GentleCallback == {b \in Callback : b.run # "evaluate" => b.job \notin Undisturbed}
GentleStatus == {s \in Status : s.job \in Undisturbed => s.state \in {"WAITING", "SUCCESS"}}

\* No failure and no abort gets into such a tree.
GentleInv ==
  /\ \A n \in Nodes : /\ cmds[n] \in Seq(Formed) /\ cmds[n] \in Seq(Gentle)
                      /\ loop[n] \in Seq(GentleCallback)
                      /\ inbox[n] \in Seq(GentleStatus)
  /\ Nodes \ up \subseteq Crashing

\* The success of a job on its way into Redis; and what does not report one.
Ending(z) == {c \in Command : /\ c.op \in {"store", "finish", "get", "set"}
                              /\ c.to = "SUCCESS" /\ c.job = z}
Peaceful == {c \in Gentle : \A z \in Undisturbed : c \notin Ending(z)}

\* What a step does to pipelines: the success of an undisturbed job is reported by
\* its runner, once, and then takes the place of itself.
Pushes(n, next) == (cmds[n] # <<>> /\ Issue(n, next)) \/ Enqueue(n, next)
Passes(n, x) == /\ cmds[n] # <<>> /\ Issue(n, <<x>>)
                /\ \A z \in Undisturbed : x \in Ending(z) => Head(cmds[n]) \in Ending(z)
Pushed ==
  \/ UNCHANGED cmds
  \/ \E n \in Nodes : cmds' = [cmds EXCEPT ![n] = <<>>]
  \/ \E n \in Nodes : \E next \in Seq(Peaceful) : Pushes(n, next)
  \/ \E n \in Nodes : \E x \in Gentle : Passes(n, x)
  \/ \E j \in Jobs : Succeed(j)
Undisturbing ==
  /\ \A n \in Nodes : loop'[n] \in Seq(GentleCallback) /\ inbox'[n] \in Seq(GentleStatus)
  /\ Nodes \ up' \subseteq Crashing

\* Such trees are whole.
LEMMA UndisturbedFacts ==
  /\ Undisturbed \subseteq Fixed /\ Undisturbed \subseteq Jobs /\ NoJob \notin Undisturbed
  /\ Undisturbed \cap (Failing \cup UserAborts \cup Adders) = {}
  /\ \A z \in Undisturbed : NodeOf[z] \notin Crashing \cup Laggards
  /\ \A z \in Undisturbed : \A k \in Tree(z) : k \in Undisturbed
  /\ \A k \in Jobs : k \notin Undisturbed => Tree(k) \cap Undisturbed = {}
<1>1. Undisturbed \subseteq Fixed /\ Undisturbed \subseteq Jobs /\ NoJob \notin Undisturbed
  BY JobsAssumption DEF Undisturbed, Fixed
<1>2. \A z \in Undisturbed : z \in Tree(z)
  BY <1>1 DEF Tree
<1>3. Undisturbed \cap (Failing \cup UserAborts \cup Adders) = {}
  BY <1>2 DEF Undisturbed, Fixed
<1>4. \A z \in Undisturbed : NodeOf[z] \notin Crashing \cup Laggards
  BY <1>2 DEF Undisturbed
<1>5. ASSUME NEW z \in Undisturbed, NEW k \in Tree(z)
      PROVE  k \in Undisturbed
  <2>1. k \in Jobs /\ Root[k] = Root[z]
    BY DEF Tree
  <2>2. k \in Fixed /\ Tree(k) = Tree(z)
    BY <1>1, <2>1 DEF Fixed, Tree
  <2> QED
    BY <2>2 DEF Undisturbed
<1>6. ASSUME NEW k \in Jobs, k \notin Undisturbed, NEW z \in Tree(k) \cap Undisturbed
      PROVE  FALSE
  <2>1. k \in Tree(z)
    BY <1>6 DEF Tree
  <2> QED
    BY <1>5, <1>6, <2>1
<1> QED
  BY <1>1, <1>3, <1>4, <1>5, <1>6

\* Most commands are no end of a job.
LEMMA MostArePeaceful ==
  ASSUME NEW c \in Command, c.to \notin Stopped \cup {"SUCCESS"},
         c.op \notin {"running", "node_jobs", "publish"}
  PROVE  c \in Peaceful
BY DEF Peaceful, Gentle, Ending

\* add_job adds a NEW job, and so is peaceful.
LEMMA AddIsPeaceful ==
  ASSUME NEW j \in Jobs, NEW batch \in SUBSET Jobs, NEW by \in Jobs \cup {NoJob}
  PROVE  AddCommand(j, batch, by) \in Peaceful
<1>1. AddCommand(j, batch, by) \in Command
  BY AddIsGood DEF Good
<1>2. AddCommand(j, batch, by).op = "add" /\ AddCommand(j, batch, by).to = "NEW"
  BY BlankType DEF AddCommand, Command
<1> QED
  BY <1>1, <1>2, MostArePeaceful DEF Stopped

\* The listing of a tree is peaceful, to wake its jobs or of a disturbed tree.
LEMMA ListIsPeaceful ==
  ASSUME NEW j \in Jobs, NEW from \in States, NEW to \in {"WAITING", "ABORTED"},
         NEW node \in Nodes \cup {NoNode}, NEW then \in TreeConts,
         NEW by \in Jobs \cup {NoJob}, NEW todo \in SUBSET Jobs
  PROVE  /\ to = "WAITING" =>
              [ListCommand(j, from, to, node, then) EXCEPT !.by = by] \in Peaceful
         /\ j \notin Undisturbed => ListCommand(j, from, to, node, then) \in Peaceful
         /\ j \notin Undisturbed /\ todo \cap Undisturbed = {} =>
              [ListCommand(j, from, to, node, then) EXCEPT !.todo = todo] \in Peaceful
<1> DEFINE L == ListCommand(j, from, to, node, then)
<1>1. L \in Command /\ [L EXCEPT !.by = by] \in Command /\ [L EXCEPT !.todo = todo] \in Command
  BY ListIsGood DEF Good
<1>2. /\ L.op = "list" /\ L.to = to /\ L.job = NoJob /\ L.tree = j
      /\ L.left = {} /\ L.all = {} /\ L.todo = {}
  BY BlankType DEF ListCommand, Command
<1>3. /\ [L EXCEPT !.by = by].op = "list" /\ [L EXCEPT !.by = by].to = to
      /\ [L EXCEPT !.todo = todo].op = "list" /\ [L EXCEPT !.todo = todo].to = to
      /\ [L EXCEPT !.todo = todo].job = NoJob /\ [L EXCEPT !.todo = todo].tree = j
      /\ [L EXCEPT !.todo = todo].left = {} /\ [L EXCEPT !.todo = todo].all = {}
      /\ [L EXCEPT !.todo = todo].todo = todo
  BY <1>1, <1>2 DEF Command
<1> HIDE DEF L
<1>4. \A c \in Command : c.op = "list" /\ Mentions(c) \cap Undisturbed = {} => c \in Peaceful
  BY DEF Peaceful, Gentle, Ending
<1>5. to = "WAITING" => [L EXCEPT !.by = by] \in Peaceful
  BY <1>1, <1>3, MostArePeaceful DEF Stopped
<1>6. j \notin Undisturbed => L \in Peaceful
  BY <1>1, <1>2, <1>4, UndisturbedFacts DEF Mentions
<1>7. j \notin Undisturbed /\ todo \cap Undisturbed = {} => [L EXCEPT !.todo = todo] \in Peaceful
  <2>1. PICK x : x = [L EXCEPT !.todo = todo]
    OBVIOUS
  <2>2. /\ x \in Command /\ x.op = "list" /\ x.job = NoJob /\ x.tree = j
        /\ x.left = {} /\ x.all = {} /\ x.todo = todo
    BY <1>1, <1>3, <2>1
  <2>3. j \notin Undisturbed /\ todo \cap Undisturbed = {} => x \in Peaceful
    BY <1>4, <2>2, UndisturbedFacts DEF Mentions
  <2> QED
    BY <2>1, <2>3
<1> QED
  BY <1>5, <1>6, <1>7 DEF L

\* A command that names one job, with no state to set, is peaceful.
LEMMA JobIsPeaceful ==
  ASSUME NEW j \in Jobs, NEW op \in JobOps \ {"get", "set", "publish"}
  PROVE  /\ JobCommand(op, j) \in Peaceful
         /\ [JobCommand(op, j) EXCEPT !.hop = TRUE] \in Peaceful
<1>1. JobCommand(op, j) \in Command /\ [JobCommand(op, j) EXCEPT !.hop = TRUE] \in Command
  BY JobCommandIsGood DEF Good
<1>2. /\ JobCommand(op, j).op = op /\ JobCommand(op, j).to = "NEW"
      /\ [JobCommand(op, j) EXCEPT !.hop = TRUE].op = op
      /\ [JobCommand(op, j) EXCEPT !.hop = TRUE].to = "NEW"
  BY BlankType DEF JobCommand, Command
<1> QED
  BY <1>1, <1>2, MostArePeaceful DEF Stopped, JobOps

\* A command for the tree of another job is peaceful.
LEMMA TreeCommandIsPeaceful ==
  ASSUME NEW j \in Jobs, NEW op \in {"running", "tree"}, j \notin Undisturbed
  PROVE  TreeCommand(op, j) \in Peaceful
<1>1. TreeCommand(op, j) \in Command
  BY TreeCommandIsGood DEF Good
<1>2. TreeCommand(op, j).op = op /\ TreeCommand(op, j).to = "NEW" /\ TreeCommand(op, j).tree = j
  BY BlankType DEF TreeCommand, Command
<1> QED
  BY <1>1, <1>2 DEF Peaceful, Gentle, Ending, Stopped

\* So is the publication of a status that an undisturbed job may have.
LEMMA StatusIsPeaceful ==
  ASSUME NEW j \in Jobs, NEW s \in States, j \in Undisturbed => s \in {"WAITING", "SUCCESS"}
  PROVE  Publish(j, s) \in Peaceful
<1>1. Publish(j, s) \in Command
  BY PublishIsGood DEF Good
<1>2. /\ Publish(j, s).op = "publish" /\ Publish(j, s).to = s /\ Publish(j, s).job = j
      /\ Publish(j, s).tree = NoJob /\ Publish(j, s).left = {}
      /\ Publish(j, s).all = {} /\ Publish(j, s).todo = {}
  BY BlankType DEF Publish, Command
<1>3. s \in Stopped => Mentions(Publish(j, s)) \cap Undisturbed = {}
  BY <1>2, UndisturbedFacts DEF Mentions, Stopped
<1> QED
  BY <1>1, <1>2, <1>3 DEF Peaceful, Gentle, Ending

\* So is the failure or the abort of another job.
LEMMA ReportIsPeaceful ==
  ASSUME NEW j \in Jobs, NEW s \in FinishedStates, j \notin Undisturbed
  PROVE  Completed(j, s) \in Peaceful
<1>1. Completed(j, s) \in Command
  BY CompletedIsGood DEF Good, FinishedStates, States
<1>2. /\ Completed(j, s).op \in {"store", "finish"} /\ Completed(j, s).job = j
      /\ Completed(j, s).tree = NoJob /\ Completed(j, s).left = {}
      /\ Completed(j, s).all = {} /\ Completed(j, s).todo = {}
  BY BlankType DEF Completed, Command
<1>3. Mentions(Completed(j, s)) \cap Undisturbed = {}
  BY <1>2, UndisturbedFacts DEF Mentions
<1> QED
  BY <1>1, <1>2, <1>3 DEF Peaceful, Gentle, Ending

\* A broadcast puts statuses into a pipeline and callbacks into the IO loop.
LEMMA StatusIsGentle ==
  ASSUME IInv, NEW n \in Nodes, loop[n] \in Seq(GentleCallback),
         NEW S \in SUBSET Jobs, NEW s \in States, NEW order, JobStatus(n, S, s, order),
         S \cap Undisturbed # {} => s \in {"WAITING", "SUCCESS"}
  PROVE  /\ loop'[n] \in Seq(GentleCallback)
         /\ \A m \in Nodes \ {n} : loop'[m] = loop[m]
<1>1. PICK fresh \in SetToSeqs({j \in S : [job |-> j, state |-> s] \notin Filter(n)}) :
        loop' = [loop EXCEPT ![n] =
                   @ \o [i \in DOMAIN fresh |-> CallbackFor(fresh[i], s)]]
  BY DEF JobStatus
<1>2. \A j \in S : CallbackFor(j, s) \in GentleCallback
  BY DEF CallbackFor, GentleCallback, Callback
<1>3. PICK p : p = [i \in DOMAIN fresh |-> CallbackFor(fresh[i], s)]
  OBVIOUS
<1>4. p \in Seq(GentleCallback)
  <2>1. PICK F : F = {j \in S : [job |-> j, state |-> s] \notin Filter(n)}
    OBVIOUS
  <2>2. F \in SUBSET Jobs /\ fresh \in SetToSeqs(F) /\ F \subseteq S
    BY <1>1, <2>1
  <2>3. /\ \E k \in Nat : DOMAIN fresh = 1..k
        /\ \A i \in DOMAIN fresh : fresh[i] \in S
    BY <2>2, OrderIsSeq
  <2> QED
    BY <1>2, <1>3, <2>3
<1>5. loop[n] \o p \in Seq(GentleCallback)
  BY <1>4, ConcatIsSeq
<1>6. DOMAIN loop = Nodes
  BY DEF IInv
<1> QED
  BY <1>1, <1>3, <1>5, <1>6

\* A broadcast is a step that disturbs no such tree.
LEMMA SendIsGentle ==
  ASSUME IInv, GentleInv, NEW n \in Nodes, NEW S \in SUBSET Jobs, NEW s \in States,
         NEW b, b = cmds[n] \/ (cmds[n] # <<>> /\ b = Tail(cmds[n])),
         NEW next \in Seq(Peaceful), SendJobStatus(n, S, s, b, next),
         S \cap Undisturbed # {} => s \in {"WAITING", "SUCCESS"}
  PROVE  Pushed /\ \A m \in Nodes : loop'[m] \in Seq(GentleCallback)
<1>1. DOMAIN cmds = Nodes /\ cmds[n] \in Seq(Good(succeeded))
  BY DEF IInv
<1>2. PICK order \in SetToSeqs(S) :
        /\ JobStatus(n, S, s, order)
        /\ cmds' = [cmds EXCEPT ![n] =
                      b \o [i \in DOMAIN order |-> Publish(order[i], s)] \o next]
  BY DEF SendJobStatus
<1>3. \A m \in Nodes : loop'[m] \in Seq(GentleCallback)
  BY <1>2, StatusIsGentle DEF GentleInv
<1>4. PICK p : p = [i \in DOMAIN order |-> Publish(order[i], s)]
  OBVIOUS
<1>5. p \in Seq(Peaceful)
  <2>1. PICK k \in Nat : DOMAIN order = 1..k
    BY OrderIsSeq
  <2>2. \A i \in 1..k : order[i] \in S
    BY <2>1, OrderIsSeq
  <2>3. \A j \in S : Publish(j, s) \in Peaceful
    BY StatusIsPeaceful
  <2> QED
    BY <1>4, <2>1, <2>2, <2>3
<1>6. p \o next \in Seq(Peaceful)
  BY <1>5, ConcatIsSeq
<1>7. b \o p \o next = b \o (p \o next)
  <2>1. \E K : b \in Seq(K)
    BY <1>1, TailIsSeq
  <2> QED
    BY <1>5, <2>1
<1>8. Pushes(n, p \o next)
  BY <1>1, <1>2, <1>4, <1>7 DEF Pushes, Issue, Enqueue
<1> QED
  BY <1>3, <1>6, <1>8 DEF Pushed

\* A step that only puts peaceful commands into a pipeline.
LEMMA PushIsGentle ==
  ASSUME GentleInv, NEW n \in Nodes, NEW next \in Seq(Peaceful), Pushes(n, next),
         UNCHANGED <<loop, inbox, up>>
  PROVE  Pushed /\ Undisturbing
BY DEF Pushed, Undisturbing, GentleInv

\* One that works on the head, and so about the jobs the head is about.
LEMMA PassIsGentle ==
  ASSUME GentleInv, NEW n \in Nodes, NEW x \in Gentle, Passes(n, x),
         UNCHANGED <<loop, inbox, up>>
  PROVE  Pushed /\ Undisturbing
BY DEF Pushed, Undisturbing, GentleInv

\* The head of a pipeline.
LEMMA GentleHead ==
  ASSUME GentleInv, NEW n \in Nodes, cmds[n] # <<>>
  PROVE  /\ Head(cmds[n]) \in Gentle /\ Head(cmds[n]) \in Formed /\ Head(cmds[n]) \in Command
<1>1. cmds[n] \in Seq(Formed) /\ cmds[n] \in Seq(Gentle)
  BY DEF GentleInv
<1> QED
  BY <1>1, TailIsSeq DEF Gentle

\* A runner's end goes out.
LEMMA FinishIsGentle ==
  ASSUME IInv, GentleInv, NEW n \in Nodes, cmds[n] # <<>>,
         NEW c, c = Head(cmds[n]), c.job \in Jobs, c.to \in FinishedStates,
         FinishRunner(n, c.job, c.to)
  PROVE  Pushed /\ Undisturbing
<1>1. c \in Gentle /\ {c.job} \in SUBSET Jobs /\ c.to \in States
  BY GentleHead DEF FinishedStates, States
<1>2. {c.job} \cap Undisturbed # {} => c.to \in {"WAITING", "SUCCESS"}
  BY <1>1 DEF Gentle, Mentions, FinishedStates, Stopped
<1>3. SendJobStatus(n, {c.job}, c.to, Tail(cmds[n]), <<>>) /\ UNCHANGED <<up, inbox>>
  BY DEF FinishRunner
<1>4. <<>> \in Seq(Peaceful)
  OBVIOUS
<1>5. Pushed /\ \A m \in Nodes : loop'[m] \in Seq(GentleCallback)
  BY <1>1, <1>2, <1>3, <1>4, SendIsGentle
<1> QED
  BY <1>3, <1>5 DEF Undisturbing, GentleInv

\* add_tree goes on.
LEMMA AddNextIsGentle ==
  ASSUME GentleInv, NEW n \in Nodes, cmds[n] # <<>>, NEW c \in Command, c.job \in Jobs,
         AddNext(n, c), UNCHANGED <<loop, inbox, up>>
  PROVE  Pushed /\ Undisturbing
<1>1. c.left \in SUBSET Jobs /\ c.by \in Jobs \cup {NoJob}
  BY DEF Command
<1>2. CASE \E j \in NextJobs(c.job, c.left) : Issue(n, <<AddCommand(j, c.left, c.by)>>)
  <2>1. PICK j \in c.left : Issue(n, <<AddCommand(j, c.left, c.by)>>)
    BY <1>2 DEF NextJobs
  <2>2. AddCommand(j, c.left, c.by) \in Peaceful
    BY <1>1, AddIsPeaceful
  <2> QED
    BY <2>1, <2>2, UnitIsSeq, PushIsGentle DEF Pushes
<1>3. CASE Issue(n, <<[ListCommand(Root[c.job], "NEW", "WAITING", NoNode,
                                   "allow_execution") EXCEPT !.by = c.by]>>)
  <2>1. Root[c.job] \in Jobs /\ "NEW" \in States /\ "allow_execution" \in TreeConts
    BY ForestAssumption DEF States, TreeConts
  <2>2. [ListCommand(Root[c.job], "NEW", "WAITING", NoNode, "allow_execution")
           EXCEPT !.by = c.by] \in Peaceful
    BY <1>1, <2>1, ListIsPeaceful
  <2> QED
    BY <1>3, <2>2, UnitIsSeq, PushIsGentle DEF Pushes
<1> QED
  BY <1>2, <1>3 DEF AddNext

\* set_state_tree goes on, or its callback runs.
LEMMA NextInTreeIsGentle ==
  ASSUME IInv, GentleInv, NEW n \in Nodes, cmds[n] # <<>>, NEW c \in Good(succeeded),
         c \in Gentle, c.then \in TreeConts, c.by \in Adders \cup {NoJob}, NextInTree(n, c),
         c.to = "WAITING" <=> c.then = "allow_execution"
  PROVE  Pushed /\ Undisturbing
<1>1. /\ c \in Command /\ c.tree \in Jobs /\ c.by \in Jobs \cup {NoJob}
      /\ c.all \in SUBSET Jobs /\ c.left \in SUBSET Jobs /\ c.todo \in SUBSET Jobs
      /\ c.node \in Nodes \cup {NoNode} /\ c.to \in {"WAITING", "ABORTED"}
  BY DEF Good, Command
<1>2. /\ "WAITING" \in States /\ "ABORTED" \in States /\ "RUNNING" \in States
      /\ "SUCCESS" \in FinishedStates
      /\ "force_running" \in TreeConts /\ "force_waiting" \in TreeConts
  BY DEF States, FinishedStates, TreeConts
<1>3. c.to = "ABORTED" => /\ c.tree \notin Undisturbed /\ c.all \cap Undisturbed = {}
                          /\ c.todo \cap Undisturbed = {} /\ c.left \cap Undisturbed = {}
  BY DEF Gentle, Stopped, Mentions
<1>4. <<>> \in Seq(Peaceful)
  OBVIOUS
<1>5. ASSUME NEW S \in SUBSET Jobs, NEW s \in States, NEW next \in Seq(Peaceful),
             SendJobStatus(n, S, s, Tail(cmds[n]), next), TreeSet(n, c),
             S \cap Undisturbed # {} => s \in {"WAITING", "SUCCESS"}
      PROVE  Pushed /\ Undisturbing
  <2>1. Pushed /\ \A m \in Nodes : loop'[m] \in Seq(GentleCallback)
    BY <1>5, SendIsGentle
  <2>2. UNCHANGED <<up, inbox>>
    BY <1>5 DEF TreeSet
  <2> QED
    BY <2>1, <2>2 DEF Undisturbing, GentleInv
<1>6. ASSUME TreeSet(n, c), c.then = "allow_execution"
      PROVE  Pushed /\ Undisturbing
  <2>1. {c.tree} \in SUBSET Jobs
    BY <1>1
  <2>2. CASE c.by # NoJob /\ SendJobStatus(n, {c.tree}, "WAITING", Tail(cmds[n]),
                                           <<Completed(c.by, "SUCCESS")>>)
    <3>1. c.by \in Jobs /\ c.by \notin Undisturbed
      BY <1>1, <2>2, UndisturbedFacts
    <3>2. <<Completed(c.by, "SUCCESS")>> \in Seq(Peaceful)
      BY <1>2, <3>1, ReportIsPeaceful, UnitIsSeq
    <3> QED
      BY <1>2, <1>5, <1>6, <2>1, <2>2, <3>2
  <2>3. CASE SendJobStatus(n, {c.tree}, "WAITING", Tail(cmds[n]), <<>>)
    BY <1>2, <1>4, <1>5, <1>6, <2>1, <2>3
  <2> QED
    BY <1>6, <2>2, <2>3, ZenonT(40) DEF TreeSet
<1>7. ASSUME TreeSet(n, c), c.then # "allow_execution"
      PROVE  Pushed /\ Undisturbing
  <2>1. /\ c.tree \notin Undisturbed /\ c.all \cap Undisturbed = {}
        /\ c.todo \cap Undisturbed = {}
    BY <1>1, <1>3, <1>7
  <2>2. CASE SendJobStatus(n, c.all, "ABORTED", Tail(cmds[n]), <<>>)
    BY <1>1, <1>2, <1>4, <1>5, <1>7, <2>1, <2>2
  <2>3. CASE SendJobStatus(n, c.all, "ABORTED", Tail(cmds[n]),
               <<[ListCommand(c.tree, "RUNNING", "ABORTED", c.node, "force_running")
                    EXCEPT !.todo = c.todo]>>)
    <3>1. [ListCommand(c.tree, "RUNNING", "ABORTED", c.node, "force_running")
             EXCEPT !.todo = c.todo] \in Peaceful
      BY <1>1, <1>2, <2>1, ListIsPeaceful
    <3> QED
      BY <1>1, <1>2, <1>5, <1>7, <2>1, <2>3, <3>1, UnitIsSeq
  <2>4. CASE \E j \in c.todo : SendJobStatus(n, c.all, "ABORTED", Tail(cmds[n]),
                                 <<ForceAbort(j, c.node, c.todo \ {j})>>)
    <3>1. PICK j \in c.todo : SendJobStatus(n, c.all, "ABORTED", Tail(cmds[n]),
                                <<ForceAbort(j, c.node, c.todo \ {j})>>)
      BY <2>4
    <3>2. j \in Jobs /\ j \notin Undisturbed /\ c.todo \ {j} \in SUBSET Jobs
          /\ (c.todo \ {j}) \cap Undisturbed = {}
      BY <1>1, <2>1
    <3>3. ForceAbort(j, c.node, c.todo \ {j}) \in Peaceful
      BY <1>1, <1>2, <3>2, ListIsPeaceful DEF ForceAbort
    <3> QED
      BY <1>1, <1>2, <1>5, <1>7, <2>1, <3>1, <3>3, UnitIsSeq
  <2> QED
    BY <1>7, <2>2, <2>3, <2>4, ZenonT(40) DEF TreeSet
<1>8. CASE /\ \E j \in c.left :
                Issue(n, <<[c EXCEPT !.op = "get", !.job = j, !.left = c.left \ {j}]>>)
           /\ UNCHANGED <<up, loop, inbox, managerVars, act, history, spent>>
  <2>1. PICK j \in c.left :
          Issue(n, <<[c EXCEPT !.op = "get", !.job = j, !.left = c.left \ {j}]>>)
    BY <1>8, ZenonT(40)
  <2>2. PICK x : x = [c EXCEPT !.op = "get", !.job = j, !.left = c.left \ {j}]
    OBVIOUS
  <2>3. /\ x \in Command /\ x.op = "get" /\ x.job = j /\ x.left = c.left \ {j}
        /\ x.tree = c.tree /\ x.all = c.all /\ x.todo = c.todo /\ x.to = c.to
    BY <1>1, <2>2 DEF Command, Ops
  <2>4. x.to = "ABORTED" => Mentions(x) \cap Undisturbed = {}
    BY <1>3, <2>3 DEF Mentions
  <2>5. x \in Peaceful
    BY <1>1, <2>3, <2>4 DEF Peaceful, Gentle, Ending, Stopped
  <2> QED
    BY <1>8, <2>1, <2>2, <2>5, UnitIsSeq, PushIsGentle DEF Pushes
<1> QED
  BY <1>6, <1>7, <1>8, ZenonT(40) DEF NextInTree

\* One job command each.
LEMMA JobsArePeaceful ==
  ASSUME NEW S \in SUBSET Jobs, NEW order \in SetToSeqs(S),
         NEW op \in JobOps \ {"get", "set", "publish"}
  PROVE  [i \in DOMAIN order |-> JobCommand(op, order[i])] \in Seq(Peaceful)
<1>1. PICK k \in Nat : DOMAIN order = 1..k
  BY OrderIsSeq
<1>2. \A i \in 1..k : JobCommand(op, order[i]) \in Peaceful
  BY <1>1, OrderIsSeq, JobIsPeaceful
<1> QED
  BY <1>1, <1>2

\* A command with the jobs of the head may be issued for it.
LEMMA SameIsPassed ==
  ASSUME GentleInv, NEW n \in Nodes, cmds[n] # <<>>, NEW x \in Command, Issue(n, <<x>>),
         NEW c, c = Head(cmds[n]), x.to = c.to,
         x.job = c.job /\ (Mentions(x) = Mentions(c) \/ Mentions(x) = {c.job, NoJob}),
         \/ x.op = c.op /\ x.tree = c.tree /\ x.node = c.node
         \/ x.op \in {"get", "set", "finish"} /\ c.op \in {"store", "finish", "get"}
         \/ x.op = "tag",
         UNCHANGED <<loop, inbox, up>>
  PROVE  Pushed /\ Undisturbing
<1>1. c \in Gentle /\ c \in Command
  BY GentleHead
<1>2. c.to \in Stopped => Mentions(x) \cap Undisturbed = {}
  BY <1>1, UndisturbedFacts DEF Gentle, Mentions
<1>3. x \in Gentle
  BY <1>1, <1>2 DEF Gentle
<1>4. \A z \in Undisturbed : x \in Ending(z) => c \in Ending(z)
  BY <1>1 DEF Ending
<1> QED
  BY <1>3, <1>4, PassIsGentle DEF Passes

\* The replies.
LEMMA ReplyIsGentle ==
  ASSUME IInv, IInv', TreeInv, GentleInv, NEW n \in Nodes, Reply(n)
  PROVE  Pushed /\ Undisturbing
<1>1. PICK c : c = Head(cmds[n])
  OBVIOUS
<1>2. cmds[n] # <<>> => /\ c \in Command /\ c \in Good(succeeded) /\ c \in Ordered(n)
                        /\ c \in Gentle /\ c \in Formed
                        /\ c.op \in JobOps => c.job \in Jobs
                        /\ c.op \in TreeOps => c.tree \in Jobs
  BY <1>1, HeadLives, GentleHead
<1>3. <<>> \in Seq(Peaceful)
  OBVIOUS
<1>4. CASE GetRoot(n)
  <2>1. /\ cmds[n] # <<>> /\ Issue(n, <<[c EXCEPT !.hop = FALSE]>>)
        /\ UNCHANGED <<loop, inbox, up>>
    BY <1>1, <1>4 DEF GetRoot
  <2>2. PICK x : x = [c EXCEPT !.hop = FALSE]
    OBVIOUS
  <2>3. /\ x \in Command /\ x.op = c.op /\ x.job = c.job /\ x.to = c.to /\ x.tree = c.tree
        /\ x.left = c.left /\ x.all = c.all /\ x.todo = c.todo /\ x.node = c.node
    BY <1>2, <2>1, <2>2 DEF Command
  <2>4. Mentions(x) = Mentions(c)
    BY <2>3 DEF Mentions
  <2> QED
    BY <1>1, <2>1, <2>2, <2>3, <2>4, SameIsPassed
<1>5. CASE AddJob(n)
  <2>1. /\ cmds[n] # <<>> /\ c.op = "add" /\ UNCHANGED <<loop, inbox, up>>
        /\ Issue(n, <<[c EXCEPT !.op = "tag", !.hop = TRUE]>>) \/ AddNext(n, c)
    BY <1>1, <1>5, ZenonT(40) DEF AddJob, Answer
  <2>2. c.job \in Jobs
    BY <1>2, <2>1 DEF JobOps
  <2>3. CASE Issue(n, <<[c EXCEPT !.op = "tag", !.hop = TRUE]>>)
    <3>1. PICK x : x = [c EXCEPT !.op = "tag", !.hop = TRUE]
      OBVIOUS
    <3>2. /\ x \in Command /\ x.op = "tag" /\ x.job = c.job /\ x.to = c.to /\ x.tree = c.tree
          /\ x.left = c.left /\ x.all = c.all /\ x.todo = c.todo
      BY <1>2, <2>1, <3>1 DEF Command, Ops
    <3>3. Mentions(x) = Mentions(c)
      BY <3>2 DEF Mentions
    <3> QED
      BY <1>1, <2>1, <2>3, <3>1, <3>2, <3>3, SameIsPassed
  <2> QED
    BY <1>2, <2>1, <2>2, <2>3, AddNextIsGentle
<1>6. CASE TagJob(n)
  <2>1. cmds[n] # <<>> /\ c.op = "tag" /\ UNCHANGED <<loop, inbox, up>> /\ AddNext(n, c)
    BY <1>1, <1>6 DEF TagJob, Answer
  <2>2. c.job \in Jobs
    BY <1>2, <2>1 DEF JobOps
  <2> QED
    BY <1>2, <2>1, <2>2, AddNextIsGentle
<1>7. CASE WaitingJobs(n)
  <2>1. cmds[n] # <<>> /\ UNCHANGED <<loop, inbox, up>>
    BY <1>7 DEF WaitingJobs, Answer
  <2>2. PICK waiting : /\ waiting = idx["WAITING"] \cap JobsOf(n)
                       /\ \/ Issue(n, <<>>)
                          \/ Issue(n, <<[Blank EXCEPT !.op = "count", !.left = waiting]>>)
    BY <1>7 DEF WaitingJobs
  <2>3. [Blank EXCEPT !.op = "count", !.left = waiting] \in Peaceful
    <3>1. PICK x : x = [Blank EXCEPT !.op = "count", !.left = waiting]
      OBVIOUS
    <3>2. waiting \in SUBSET Jobs
      BY <2>2 DEF JobsOf
    <3>3. x \in Command /\ x.op = "count" /\ x.to = "NEW"
      BY <3>1, <3>2, BlankType DEF Command, Ops
    <3> QED
      BY <3>1, <3>3, MostArePeaceful DEF Stopped
  <2> QED
    BY <1>3, <2>1, <2>2, <2>3, UnitIsSeq, PushIsGentle DEF Pushes
<1>8. CASE StartJobs(n)
  <2>1. cmds[n] # <<>> /\ c.op = "count" /\ UNCHANGED <<loop, inbox, up>>
    BY <1>1, <1>8 DEF StartJobs, Answer
  <2>2. PICK new : /\ new = {j \in c.left : Ready(j)} \ inStartup[n]
                   /\ \E order \in SetToSeqs(new) :
                        Issue(n, [i \in DOMAIN order |-> JobCommand("fetch", order[i])])
    BY <1>1, <1>8 DEF StartJobs
  <2>3. new \in SUBSET Jobs
    BY <1>2, <2>1, <2>2 DEF Command
  <2>4. PICK order \in SetToSeqs(new) :
          Issue(n, [i \in DOMAIN order |-> JobCommand("fetch", order[i])])
    BY <2>2
  <2>5. [i \in DOMAIN order |-> JobCommand("fetch", order[i])] \in Seq(Peaceful)
    BY <2>3, JobsArePeaceful DEF JobOps
  <2> QED
    BY <2>1, <2>4, <2>5, PushIsGentle DEF Pushes
<1>9. CASE Instantiate(n)
  <2>1. /\ cmds[n] # <<>> /\ c.op = "fetch" /\ UNCHANGED <<loop, inbox, up>>
        /\ Issue(n, <<[JobCommand("context", c.job) EXCEPT !.hop = TRUE]>>)
    BY <1>1, <1>9 DEF Instantiate, Answer
  <2>2. [JobCommand("context", c.job) EXCEPT !.hop = TRUE] \in Peaceful
    BY <1>2, <2>1, JobIsPeaceful DEF JobOps
  <2> QED
    BY <2>1, <2>2, UnitIsSeq, PushIsGentle DEF Pushes
<1>10. CASE GotContext(n)
  <2>1. /\ cmds[n] # <<>> /\ c.op = "context" /\ UNCHANGED <<loop, inbox, up>>
        /\ Issue(n, <<[JobCommand("get", c.job) EXCEPT !.to = "RUNNING",
                         !.then = "on_running", !.all = ContextOf(c.job)]>>)
    BY <1>1, <1>10 DEF GotContext, Answer
  <2>2. PICK x : x = [JobCommand("get", c.job) EXCEPT !.to = "RUNNING",
                        !.then = "on_running", !.all = ContextOf(c.job)]
    OBVIOUS
  <2>3. c.job \in Jobs /\ ContextOf(c.job) \in SUBSET Jobs
    BY <1>2, <2>1 DEF JobOps, ContextOf, Tree
  <2>4. x \in Command /\ x.op = "get" /\ x.to = "RUNNING"
    BY <2>2, <2>3, BlankType DEF JobCommand, Command, Ops, Conts, States
  <2>5. x \in Peaceful
    BY <2>4, MostArePeaceful DEF Stopped
  <2> QED
    BY <2>1, <2>2, <2>5, UnitIsSeq, PushIsGentle DEF Pushes
<1>11. CASE GotCurrentState(n)
  <2>1. /\ cmds[n] # <<>> /\ c.op = "get" /\ UNCHANGED <<loop, inbox, up>>
        /\ Issue(n, <<[c EXCEPT !.op = "set", !.from = state[c.job]]>>)
    BY <1>1, <1>11 DEF GotCurrentState, Answer
  <2>2. PICK x : x = [c EXCEPT !.op = "set", !.from = state[c.job]]
    OBVIOUS
  <2>3. c.job \in Jobs /\ state[c.job] \in States \cup {Absent}
    BY <1>2, <2>1 DEF JobOps, IInv, StoreTypeOK
  <2>4. /\ x \in Command /\ x.op = "set" /\ x.job = c.job /\ x.to = c.to /\ x.tree = c.tree
        /\ x.left = c.left /\ x.all = c.all /\ x.todo = c.todo
    BY <1>2, <2>1, <2>2, <2>3 DEF Command, Ops
  <2>5. Mentions(x) = Mentions(c)
    BY <2>4 DEF Mentions
  <2> QED
    BY <1>1, <2>1, <2>2, <2>4, <2>5, SameIsPassed
<1>12. CASE StartRunner(n)
  BY <1>3, <1>12, PushIsGentle DEF StartRunner, Answer, Pushes
<1>13. CASE StateUpdated(n)
  <2>1. /\ cmds[n] # <<>> /\ c.op = "set" /\ c.then = "on_state_updated"
        /\ FinishRunner(n, c.job, c.to)
    BY <1>1, <1>13 DEF StateUpdated, Answer
  <2>2. c.job \in Jobs /\ c.to \in FinishedStates
    BY <1>2, <2>1 DEF JobOps, Formed
  <2> QED
    BY <1>1, <2>1, <2>2, FinishIsGentle
<1>14. CASE ContextStored(n)
  <2>1. /\ cmds[n] # <<>> /\ c.op = "store" /\ UNCHANGED <<loop, inbox, up>>
        /\ Issue(n, <<[JobCommand("finish", c.job) EXCEPT !.to = c.to]>>)
    BY <1>1, <1>14 DEF ContextStored, Answer
  <2>2. PICK x : x = [JobCommand("finish", c.job) EXCEPT !.to = c.to]
    OBVIOUS
  <2>3. c.job \in Jobs /\ c.to \in States
    BY <1>2, <2>1 DEF JobOps, Command
  <2>4. /\ x \in Command /\ x.op = "finish" /\ x.job = c.job /\ x.to = c.to /\ x.tree = NoJob
        /\ x.left = {} /\ x.all = {} /\ x.todo = {}
    BY <2>2, <2>3, BlankType DEF JobCommand, Command, Ops
  <2>5. Mentions(x) = {c.job, NoJob}
    BY <2>4 DEF Mentions
  <2>6. /\ Issue(n, <<x>>) /\ x \in Command /\ x.to = c.to /\ x.job = c.job
        /\ x.op \in {"get", "set", "finish"} /\ c.op \in {"store", "finish", "get"}
    BY <2>1, <2>2, <2>4
  <2> QED
    BY <1>1, <2>1, <2>5, <2>6, SameIsPassed
<1>15. CASE GotFinishedJob(n)
  <2>1. /\ cmds[n] # <<>> /\ c.op = "finish"
        /\ \/ FinishRunner(n, c.job, c.to)
           \/ /\ Issue(n, <<[c EXCEPT !.op = "get", !.then = "on_state_updated"]>>)
              /\ UNCHANGED <<up, loop, inbox>>
    BY <1>1, <1>15, ZenonT(40) DEF GotFinishedJob, Answer
  <2>2. c.job \in Jobs /\ c.to \in FinishedStates
    BY <1>2, <2>1 DEF JobOps, Formed
  <2>3. CASE /\ Issue(n, <<[c EXCEPT !.op = "get", !.then = "on_state_updated"]>>)
             /\ UNCHANGED <<up, loop, inbox>>
    <3>1. PICK x : x = [c EXCEPT !.op = "get", !.then = "on_state_updated"]
      OBVIOUS
    <3>2. /\ x \in Command /\ x.op = "get" /\ x.job = c.job /\ x.to = c.to /\ x.tree = c.tree
          /\ x.left = c.left /\ x.all = c.all /\ x.todo = c.todo
      BY <1>2, <2>1, <3>1 DEF Command, Ops, Conts
    <3>3. Mentions(x) = Mentions(c)
      BY <3>2 DEF Mentions
    <3> QED
      BY <1>1, <2>1, <2>3, <3>1, <3>2, <3>3, SameIsPassed
  <2> QED
    BY <1>1, <2>1, <2>2, <2>3, FinishIsGentle
<1>16. CASE ListTree(n)
  <2>1. PICK found : /\ found = {j \in idx[c.from] \cap Tree(c.tree) :
                                   c.node = NoNode \/ NodeOf[j] = c.node}
                     /\ cmds[n] # <<>> /\ c.op = "list"
                     /\ NextInTree(n, [c EXCEPT !.left = found, !.all = found])
    BY <1>1, <1>16 DEF ListTree, Answer
  <2>2. PICK x : x = [c EXCEPT !.left = found, !.all = found]
    OBVIOUS
  <2>3. found \in SUBSET Jobs /\ found \subseteq Tree(c.tree) /\ c.tree \in Jobs
    BY <1>2, <2>1 DEF Tree, TreeOps
  <2>4. /\ x \in Command /\ x.op = "list" /\ x.job = c.job /\ x.to = c.to /\ x.tree = c.tree
        /\ x.left = found /\ x.all = found /\ x.todo = c.todo /\ x.then = c.then /\ x.by = c.by
    BY <1>2, <2>1, <2>2, <2>3 DEF Command
  <2>5. c.then \in TreeConts /\ x \in Good(succeeded)
    BY <1>2, <2>1, <2>4 DEF Good, JobOps
  <2>6. c.to \in Stopped => Mentions(x) \cap Undisturbed = {}
    <3> SUFFICES ASSUME c.to \in Stopped
                 PROVE  Mentions(x) \cap Undisturbed = {}
      OBVIOUS
    <3>1. Mentions(c) \cap Undisturbed = {}
      BY <1>2, <2>1 DEF Gentle
    <3>2. c.tree \notin Undisturbed
      BY <3>1 DEF Mentions
    <3>3. found \cap Undisturbed = {}
      BY <2>3, <3>2, UndisturbedFacts
    <3> QED
      BY <2>4, <3>1, <3>3 DEF Mentions
  <2>7. x \in Gentle
    BY <2>4, <2>6 DEF Gentle
  <2>8. x.by \in Adders \cup {NoJob} /\ (x.to = "WAITING" <=> x.then = "allow_execution")
    BY <1>2, <2>1, <2>4 DEF Ordered, Command
  <2> QED
    BY <2>1, <2>2, <2>4, <2>5, <2>7, <2>8, NextInTreeIsGentle
<1>17. CASE TreeJobSet(n)
  <2>1. /\ cmds[n] # <<>> /\ c.op = "set" /\ c.then \notin {"on_running", "on_state_updated"}
        /\ NextInTree(n, c)
    BY <1>1, <1>17 DEF TreeJobSet, Answer
  <2>2. c.then \in TreeConts
    BY <1>2, <2>1 DEF Good, Command, Conts, TreeConts
  <2>3. c.by \in Adders \cup {NoJob} /\ (c.to = "WAITING" <=> c.then = "allow_execution")
    BY <1>2, <2>1 DEF Ordered, Command
  <2> QED
    BY <1>2, <2>1, <2>2, <2>3, NextInTreeIsGentle
<1>18. CASE AbortRunners(n)
  <2>1. /\ cmds[n] # <<>> /\ c.op = "running" /\ Issue(n, <<>>) /\ UNCHANGED <<up, inbox>>
    BY <1>1, <1>18 DEF AbortRunners, Answer
  <2>2. PICK running : /\ running = idx["RUNNING"] \cap Tree(c.tree) \cap JobsOf(n) \cap runners[n]
                       /\ \E order \in SetToSeqs(running) :
                            loop' = [loop EXCEPT ![n] = @ \o
                              [i \in DOMAIN order |-> [run |-> "abort_job", job |-> order[i]]]]
    BY <1>1, <1>18 DEF AbortRunners
  <2>3. PICK order \in SetToSeqs(running) :
          loop' = [loop EXCEPT ![n] = @ \o
            [i \in DOMAIN order |-> [run |-> "abort_job", job |-> order[i]]]]
    BY <2>2
  <2>4. running \in SUBSET Jobs /\ running \cap Undisturbed = {}
    <3>1. c.tree \in Jobs /\ c.tree \notin Undisturbed
      BY <1>2, <2>1 DEF Gentle, TreeOps
    <3> QED
      BY <2>2, <3>1, UndisturbedFacts DEF Tree
  <2>5. PICK p : p = [i \in DOMAIN order |-> [run |-> "abort_job", job |-> order[i]]]
    OBVIOUS
  <2>6. p \in Seq(GentleCallback)
    <3>1. PICK k \in Nat : DOMAIN order = 1..k
      BY <2>4, OrderIsSeq
    <3>2. \A i \in 1..k : order[i] \in running
      BY <2>4, <3>1, OrderIsSeq
    <3>3. \A j \in running : [run |-> "abort_job", job |-> j] \in GentleCallback
      BY <2>4 DEF GentleCallback, Callback
    <3> QED
      BY <2>5, <3>1, <3>2, <3>3
  <2>7. \A m \in Nodes : loop'[m] \in Seq(GentleCallback)
    <3>1. DOMAIN loop = Nodes /\ loop[n] \o p \in Seq(GentleCallback)
      BY <2>6, ConcatIsSeq DEF IInv, GentleInv
    <3> QED
      BY <2>3, <2>5, <3>1 DEF GentleInv
  <2> QED
    BY <1>3, <2>1, <2>7 DEF Pushed, Pushes, Undisturbing, GentleInv
<1>19. CASE FindAbortHandlers(n)
  <2>1. cmds[n] # <<>> /\ UNCHANGED <<loop, inbox, up>>
    BY <1>19 DEF FindAbortHandlers, Answer
  <2>2. PICK found \in SUBSET Jobs : \E order \in SetToSeqs(found) :
          Issue(n, [i \in DOMAIN order |-> JobCommand("handler_job", order[i])])
    <3>1. {k \in Tree(c.tree) \cap JobsOf(n) \cap handlers[n] : Exists(k)} \in SUBSET Jobs
      BY DEF Tree
    <3> QED
      BY <1>1, <1>19, <3>1 DEF FindAbortHandlers
  <2>3. PICK order \in SetToSeqs(found) :
          Issue(n, [i \in DOMAIN order |-> JobCommand("handler_job", order[i])])
    BY <2>2
  <2>4. [i \in DOMAIN order |-> JobCommand("handler_job", order[i])] \in Seq(Peaceful)
    BY JobsArePeaceful DEF JobOps
  <2> QED
    BY <2>1, <2>3, <2>4, PushIsGentle DEF Pushes
<1>20. CASE AbortHandlerJob(n)
  <2>1. /\ cmds[n] # <<>> /\ c.op = "handler_job" /\ UNCHANGED <<loop, inbox, up>>
        /\ Issue(n, <<[JobCommand("handler_context", c.job) EXCEPT !.hop = TRUE]>>)
    BY <1>1, <1>20 DEF AbortHandlerJob, Answer
  <2>2. [JobCommand("handler_context", c.job) EXCEPT !.hop = TRUE] \in Peaceful
    BY <1>2, <2>1, JobIsPeaceful DEF JobOps
  <2> QED
    BY <2>1, <2>2, UnitIsSeq, PushIsGentle DEF Pushes
<1>21. CASE RunAbortHandler(n)
  BY <1>3, <1>21, PushIsGentle DEF RunAbortHandler, Answer, Pushes
<1>22. CASE NodeJobs(n)
  <2>1. PICK found : /\ found = JobsOf(c.node) \cap (idx["RUNNING"] \cup
                                  IF c.node = n THEN {} ELSE idx["WAITING"])
                     /\ cmds[n] # <<>> /\ c.op = "node_jobs" /\ UNCHANGED <<loop, inbox, up>>
                     /\ \/ Issue(n, <<>>)
                        \/ \E j \in found : Issue(n, <<ForceAbort(j, c.node, found \ {j})>>)
    BY <1>1, <1>22, ZenonT(40) DEF NodeJobs, Answer
  <2>2. found \in SUBSET Jobs /\ found \cap Undisturbed = {}
    BY <1>2, <2>1 DEF Gentle, JobsOf
  <2>3. CASE \E j \in found : Issue(n, <<ForceAbort(j, c.node, found \ {j})>>)
    <3>1. PICK j \in found : Issue(n, <<ForceAbort(j, c.node, found \ {j})>>)
      BY <2>3
    <3>2. /\ j \in Jobs /\ j \notin Undisturbed /\ found \ {j} \in SUBSET Jobs
          /\ (found \ {j}) \cap Undisturbed = {} /\ c.node \in Nodes \cup {NoNode}
          /\ "WAITING" \in States /\ "force_waiting" \in TreeConts
      BY <1>2, <2>1, <2>2 DEF Command, States, TreeConts
    <3>3. ForceAbort(j, c.node, found \ {j}) \in Peaceful
      BY <3>2, ListIsPeaceful DEF ForceAbort
    <3> QED
      BY <2>1, <3>1, <3>3, UnitIsSeq, PushIsGentle DEF Pushes
  <2> QED
    BY <1>3, <2>1, <2>3, PushIsGentle DEF Pushes
<1>23. CASE PublishStatus(n)
  <2>1. /\ cmds[n] # <<>> /\ c.op = "publish" /\ Issue(n, <<>>) /\ UNCHANGED <<up, loop>>
        /\ inbox' = [m \in Nodes |-> IF m \in up \ {n}
             THEN Append(inbox[m], [job |-> c.job, state |-> c.to]) ELSE inbox[m]]
    BY <1>1, <1>23 DEF PublishStatus, Answer
  <2>2. [job |-> c.job, state |-> c.to] \in GentleStatus
    <3>1. c.job \in Jobs /\ c.to \in States
      BY <1>2, <2>1 DEF JobOps, Command
    <3> QED
      BY <1>2, <2>1, <3>1 DEF GentleStatus, Status, Gentle
  <2>3. \A m \in Nodes : inbox'[m] \in Seq(GentleStatus)
    BY <2>1, <2>2 DEF GentleInv
  <2> QED
    BY <1>3, <2>1, <2>3 DEF Pushed, Pushes, Undisturbing, GentleInv
<1> QED
  BY <1>4, <1>5, <1>6, <1>7, <1>8, <1>9, <1>10, <1>11, <1>12, <1>13, <1>14, <1>15, <1>16,
     <1>17, <1>18, <1>19, <1>20, <1>21, <1>22, <1>23 DEF Reply

\* A callback of the IO loop runs.
LEMMA RunsGentle ==
  ASSUME IInv, GentleInv, NEW n \in Nodes, NEW what, Runs(n, what)
  PROVE  /\ \A m \in Nodes : loop'[m] \in Seq(GentleCallback)
         /\ what # "evaluate" =>
              Head(loop[n]).job \in Jobs /\ Head(loop[n]).job \notin Undisturbed
<1>1. /\ loop[n] # <<>> /\ Head(loop[n]).run = what
      /\ loop' = [loop EXCEPT ![n] = Tail(@)]
      /\ loop \in [Nodes -> Seq(GoodCallback)]
      /\ \A m \in Nodes : loop[m] \in Seq(GentleCallback)
  BY DEF Runs, IInv, GentleInv
<1>2. /\ Head(loop[n]) \in GentleCallback /\ Tail(loop[n]) \in Seq(GentleCallback)
      /\ Head(loop[n]) \in GoodCallback
  BY <1>1, TailIsSeq
<1> QED
  BY <1>1, <1>2 DEF GentleCallback, GoodCallback

\* Nor does it disturb an undisturbed tree.
LEMMA RunIsGentle ==
  ASSUME IInv, GentleInv, NEW n \in Nodes, Run(n)
  PROVE  Pushed /\ Undisturbing
<1>1. PICK j : j = Head(loop[n]).job
  OBVIOUS
<1>2. CASE Evaluate(n)
  <2>1. /\ Runs(n, "evaluate") /\ Enqueue(n, <<[Blank EXCEPT !.op = "ready"]>>)
        /\ UNCHANGED <<up, inbox>>
    BY <1>2 DEF Evaluate
  <2>2. [Blank EXCEPT !.op = "ready"] \in Peaceful
    <3>1. /\ [Blank EXCEPT !.op = "ready"] \in Command
          /\ [Blank EXCEPT !.op = "ready"].op = "ready"
          /\ [Blank EXCEPT !.op = "ready"].to = "NEW"
      BY BlankType DEF Command, Ops
    <3> QED
      BY <3>1, MostArePeaceful DEF Stopped
  <2>3. <<[Blank EXCEPT !.op = "ready"]>> \in Seq(Peaceful)
    BY <2>2, UnitIsSeq
  <2> QED
    BY <2>1, <2>3, RunsGentle DEF Pushed, Pushes, Undisturbing, GentleInv
<1>3. CASE HandleFailure(n)
  <2>1. /\ Runs(n, "handle_failure") /\ UNCHANGED <<up, inbox>>
        /\ Enqueue(n, <<ListCommand(j, "WAITING", "ABORTED", n, "handle_failure"),
                        TreeCommand("running", j), TreeCommand("tree", j)>>)
    BY <1>1, <1>3 DEF HandleFailure
  <2>2. j \in Jobs /\ j \notin Undisturbed /\ "WAITING" \in States /\ "handle_failure" \in TreeConts
    BY <1>1, <2>1, RunsGentle DEF States, TreeConts
  <2>3. /\ ListCommand(j, "WAITING", "ABORTED", n, "handle_failure") \in Peaceful
        /\ TreeCommand("running", j) \in Peaceful /\ TreeCommand("tree", j) \in Peaceful
    BY <2>2, ListIsPeaceful, TreeCommandIsPeaceful
  <2>4. <<ListCommand(j, "WAITING", "ABORTED", n, "handle_failure"),
          TreeCommand("running", j), TreeCommand("tree", j)>> \in Seq(Peaceful)
    BY <2>3
  <2> QED
    BY <2>1, <2>4, RunsGentle DEF Pushed, Pushes, Undisturbing, GentleInv
<1>4. CASE AbortJob(n)
  <2>1. /\ Runs(n, "abort_job") /\ UNCHANGED <<up, inbox>>
        /\ Enqueue(n, <<Completed(j, "ABORTED")>>) \/ UNCHANGED cmds
    BY <1>1, <1>4 DEF AbortJob
  <2>2. j \in Jobs /\ j \notin Undisturbed /\ "ABORTED" \in FinishedStates
    BY <1>1, <2>1, RunsGentle DEF FinishedStates
  <2>3. <<Completed(j, "ABORTED")>> \in Seq(Peaceful)
    BY <2>2, ReportIsPeaceful, UnitIsSeq
  <2> QED
    BY <2>1, <2>3, RunsGentle DEF Pushed, Pushes, Undisturbing, GentleInv
<1>5. CASE Receive(n)
  <2>1. PICK m : m = Head(inbox[n])
    OBVIOUS
  <2>2. /\ inbox[n] # <<>> /\ JobStatus(n, {m.job}, m.state, <<m.job>>)
        /\ inbox' = [inbox EXCEPT ![n] = Tail(@)] /\ UNCHANGED <<up, cmds>>
    BY <1>5, <2>1 DEF Receive
  <2>3. /\ inbox \in [Nodes -> Seq(Status)]
        /\ \A i \in Nodes : inbox[i] \in Seq(GentleStatus)
    BY DEF IInv, NodeTypes, GentleInv
  <2>4. /\ m \in Status /\ m \in GentleStatus /\ Tail(inbox[n]) \in Seq(GentleStatus)
    BY <2>1, <2>2, <2>3, TailIsSeq
  <2>5. /\ {m.job} \in SUBSET Jobs /\ m.state \in States
        /\ {m.job} \cap Undisturbed # {} => m.state \in {"WAITING", "SUCCESS"}
    BY <2>4 DEF Status, GentleStatus
  <2>6. /\ loop'[n] \in Seq(GentleCallback)
        /\ \A i \in Nodes \ {n} : loop'[i] = loop[i]
    BY <2>2, <2>5, StatusIsGentle DEF GentleInv
  <2> QED
    BY <2>2, <2>3, <2>4, <2>6 DEF Pushed, Undisturbing, GentleInv
<1> QED
  BY <1>2, <1>3, <1>4, <1>5 DEF Run

\* To look for the jobs of a node that is down or seems so.
LEMMA SweepIsPeaceful ==
  ASSUME GentleInv, NEW t \in Nodes, t \notin up \/ t \in Laggards
  PROVE  <<[Blank EXCEPT !.op = "node_jobs", !.node = t]>> \in Seq(Peaceful)
<1>1. PICK x : x = [Blank EXCEPT !.op = "node_jobs", !.node = t]
  OBVIOUS
<1>2. x \in Command /\ x.op = "node_jobs" /\ x.to = "NEW" /\ x.node = t
  BY <1>1, BlankType DEF Command, Ops
<1>3. t \in Crashing \cup Laggards
  BY DEF GentleInv
<1>4. JobsOf(t) \cap Undisturbed = {}
  BY <1>3, UndisturbedFacts DEF JobsOf
<1>5. x \in Peaceful
  BY <1>2, <1>4 DEF Peaceful, Gentle, Ending, Stopped
<1> QED
  BY <1>1, <1>5, UnitIsSeq

\* The node takes a status, crashes, restarts, or is looked at by another.
LEMMA NodeIsGentle ==
  ASSUME IInv, GentleInv, NEW n \in Nodes,
         OtherStatus(n) \/ Crash(n) \/ Restart(n) \/ SweepNode(n)
  PROVE  Pushed /\ Undisturbing
<1>1. CASE OtherStatus(n)
  <2>1. Enqueue(n, <<[Blank EXCEPT !.op = "ready"]>>) /\ UNCHANGED <<loop, inbox, up>>
    BY <1>1 DEF OtherStatus
  <2>2. /\ [Blank EXCEPT !.op = "ready"] \in Command
        /\ [Blank EXCEPT !.op = "ready"].op = "ready"
        /\ [Blank EXCEPT !.op = "ready"].to = "NEW"
    BY BlankType DEF Command, Ops
  <2>3. <<[Blank EXCEPT !.op = "ready"]>> \in Seq(Peaceful)
    BY <2>2, MostArePeaceful, UnitIsSeq DEF Stopped
  <2> QED
    BY <2>1, <2>3, PushIsGentle DEF Pushes
<1>2. CASE Crash(n)
  <2>1. /\ n \in Crashing /\ up' = up \ {n} /\ cmds' = [cmds EXCEPT ![n] = <<>>]
        /\ loop' = [loop EXCEPT ![n] = <<>>] /\ inbox' = [inbox EXCEPT ![n] = <<>>]
    BY <1>2 DEF Crash
  <2>2. DOMAIN loop = Nodes /\ DOMAIN inbox = Nodes
    BY DEF IInv, NodeTypes
  <2>3. \A m \in Nodes : loop'[m] \in Seq(GentleCallback) /\ inbox'[m] \in Seq(GentleStatus)
    BY <2>1, <2>2 DEF GentleInv
  <2>4. Nodes \ up' \subseteq Crashing
    BY <2>1 DEF GentleInv
  <2> QED
    BY <2>1, <2>3, <2>4 DEF Pushed, Undisturbing
<1>3. CASE Restart(n)
  <2>1. /\ n \notin up /\ up' = up \cup {n} /\ UNCHANGED <<loop, inbox>>
        /\ Enqueue(n, <<[Blank EXCEPT !.op = "node_jobs", !.node = n]>>)
    BY <1>3 DEF Restart
  <2> QED
    BY <2>1, SweepIsPeaceful DEF Pushed, Pushes, Undisturbing, GentleInv
<1>4. CASE SweepNode(n)
  <2>1. /\ n \notin up \/ n \in Laggards
        /\ UNCHANGED <<loop, inbox, up>>
        /\ Enqueue(Pacemaker, <<[Blank EXCEPT !.op = "node_jobs", !.node = n]>>)
    BY <1>4, ManagerAssumption DEF SweepNode
  <2>2. Pacemaker \in Nodes
    BY ManagerAssumption
  <2> QED
    BY <2>1, <2>2, SweepIsPeaceful, PushIsGentle DEF Pushes
<1> QED
  BY <1>1, <1>2, <1>3, <1>4

\* A runner goes on or ends, a root job is submitted, or a user aborts a tree.
LEMMA RunnerIsGentle ==
  ASSUME IInv, GentleInv, NEW j \in Jobs, Runner(j) \/ Submit(j) \/ UserAbort(j)
  PROVE  Pushed /\ Undisturbing
<1>1. NodeOf[j] \in Nodes
  BY NodesOf
<1>2. CASE Succeed(j)
  <2>1. UNCHANGED <<loop, inbox, up>>
    BY <1>2 DEF Succeed
  <2> QED
    BY <1>2, <2>1 DEF Pushed, Undisturbing, GentleInv
<1>3. CASE Fail(j)
  <2>1. /\ j \in Failing /\ Enqueue(NodeOf[j], <<Completed(j, "FAILED")>>)
        /\ UNCHANGED <<loop, inbox, up>>
    BY <1>3 DEF Fail
  <2>2. j \notin Undisturbed /\ "FAILED" \in FinishedStates
    BY <2>1, UndisturbedFacts DEF FinishedStates
  <2>3. <<Completed(j, "FAILED")>> \in Seq(Peaceful)
    BY <2>2, ReportIsPeaceful, UnitIsSeq
  <2> QED
    BY <1>1, <2>1, <2>3, PushIsGentle DEF Pushes
<1>4. CASE AddJobs(j)
  <2>1. PICK k \in AddedWith(j) : Enqueue(NodeOf[j], <<AddCommand(k, AddedWith(j), j)>>)
    BY <1>4 DEF AddJobs
  <2>2. k \in Jobs /\ AddedWith(j) \in SUBSET Jobs /\ UNCHANGED <<loop, inbox, up>>
    BY <1>4 DEF AddJobs, AddedWith
  <2>3. <<AddCommand(k, AddedWith(j), j)>> \in Seq(Peaceful)
    BY <2>2, AddIsPeaceful, UnitIsSeq
  <2> QED
    BY <1>1, <2>1, <2>2, <2>3, PushIsGentle DEF Pushes
<1>5. CASE Submit(j)
  <2>1. PICK batch \in SUBSET Jobs : Enqueue(Submitter[j], <<AddCommand(j, batch, NoJob)>>)
    <3>1. {k \in Tree(j) : AddedBy[k] = NoJob} \in SUBSET Jobs
      BY DEF Tree
    <3> QED
      BY <1>5, <3>1 DEF Submit
  <2>2. Submitter[j] \in Nodes /\ UNCHANGED <<loop, inbox, up>>
    BY <1>5, ManagerAssumption DEF Submit
  <2>3. <<AddCommand(j, batch, NoJob)>> \in Seq(Peaceful)
    BY AddIsPeaceful, UnitIsSeq
  <2> QED
    BY <2>1, <2>2, <2>3, PushIsGentle DEF Pushes
<1>6. CASE UserAbort(j)
  <2>1. /\ j \in UserAborts /\ UNCHANGED <<up, inbox>>
        /\ SendJobStatus(Pacemaker, {j}, "ABORTED", cmds[Pacemaker], <<>>)
    BY <1>6 DEF UserAbort
  <2>2. /\ Pacemaker \in Nodes /\ {j} \in SUBSET Jobs /\ "ABORTED" \in States
        /\ {j} \cap Undisturbed = {} /\ <<>> \in Seq(Peaceful)
    BY <2>1, ManagerAssumption, UndisturbedFacts DEF States
  <2>3. Pushed /\ \A m \in Nodes : loop'[m] \in Seq(GentleCallback)
    BY <2>1, <2>2, SendIsGentle
  <2> QED
    BY <2>1, <2>3 DEF Undisturbing, GentleInv
<1> QED
  BY <1>2, <1>3, <1>4, <1>5, <1>6 DEF Runner

\* No step does.
LEMMA StepIsGentle ==
  ASSUME IInv, IInv', TreeInv, GentleInv, [Next]_vars
  PROVE  Pushed /\ Undisturbing
<1>1. CASE UNCHANGED vars
  BY <1>1 DEF vars, Pushed, Undisturbing, GentleInv
<1> QED
  BY <1>1, ReplyIsGentle, RunIsGentle, NodeIsGentle, RunnerIsGentle DEF Next

\* The success that a runner reports.
LEMMA SuccessIsGentle ==
  ASSUME NEW j \in Jobs
  PROVE  /\ Completed(j, "SUCCESS") \in Gentle
         /\ \A z : Completed(j, "SUCCESS") \in Ending(z) <=> j = z
<1>1. Completed(j, "SUCCESS") \in Command
  BY CompletedIsGood DEF Good, States
<1>2. /\ Completed(j, "SUCCESS").op \in {"store", "finish"}
      /\ Completed(j, "SUCCESS").job = j /\ Completed(j, "SUCCESS").to = "SUCCESS"
  BY BlankType DEF Completed, Command
<1> QED
  BY <1>1, <1>2 DEF Gentle, Ending, Stopped

\* So what is in the pipelines stays gentle.
LEMMA GentleKept ==
  ASSUME IInv, GentleInv, Pushed
  PROVE  \A m \in Nodes : cmds'[m] \in Seq(Gentle)
<1>1. DOMAIN cmds = Nodes /\ \A m \in Nodes : cmds[m] \in Seq(Gentle)
  BY DEF IInv, GentleInv
<1>2. ASSUME NEW n \in Nodes, NEW next \in Seq(Gentle), Pushes(n, next)
      PROVE  \A m \in Nodes : cmds'[m] \in Seq(Gentle)
  <2>1. cmds[n] \o next \in Seq(Gentle)
    BY <1>1, ConcatIsSeq
  <2>2. cmds[n] # <<>> => Tail(cmds[n]) \o next \in Seq(Gentle)
    BY <1>1, TailIsSeq, ConcatIsSeq
  <2> QED
    BY <1>1, <1>2, <2>1, <2>2 DEF Pushes, Issue, Enqueue
<1>3. \A r \in Seq(Peaceful) : r \in Seq(Gentle)
  BY DEF Peaceful
<1>4. ASSUME NEW n \in Nodes, NEW x \in Gentle, Passes(n, x)
      PROVE  \A m \in Nodes : cmds'[m] \in Seq(Gentle)
  <2>1. <<x>> \in Seq(Gentle) /\ Pushes(n, <<x>>)
    BY <1>4, UnitIsSeq DEF Passes, Pushes
  <2> QED
    BY <1>2, <2>1
<1>5. ASSUME NEW j \in Jobs, Succeed(j)
      PROVE  \A m \in Nodes : cmds'[m] \in Seq(Gentle)
  <2>1. <<Completed(j, "SUCCESS")>> \in Seq(Gentle) /\ NodeOf[j] \in Nodes
    BY SuccessIsGentle, UnitIsSeq, NodesOf
  <2>2. Pushes(NodeOf[j], <<Completed(j, "SUCCESS")>>)
    BY <1>5 DEF Succeed, Pushes
  <2> QED
    BY <1>2, <2>1, <2>2
<1>6. CASE \E n \in Nodes : cmds' = [cmds EXCEPT ![n] = <<>>]
  BY <1>1, <1>6
<1> QED
  BY <1>1, <1>2, <1>3, <1>4, <1>5, <1>6 DEF Pushed

\* And nothing that reports the end of such a job comes but from its runner.
LEMMA EndingFewer ==
  ASSUME IInv, OnceInv, Pushed, NEW z \in Undisturbed, NEW m \in Nodes
  PROVE  Succeed(z) \/ Fewer(cmds'[m], cmds[m], Ending(z))
<1>1. DOMAIN cmds = Nodes /\ \A n \in Nodes : cmds[n] \in Seq(Good(succeeded))
  BY DEF IInv
<1>2. Ending(z) \cap Peaceful = {} /\ Placed
  BY DEF Peaceful, OnceInv
<1>3. CASE UNCHANGED cmds
  BY <1>3, FewerFacts
<1>4. CASE \E n \in Nodes : cmds' = [cmds EXCEPT ![n] = <<>>]
  <2>1. cmds'[m] = <<>> \/ cmds'[m] = cmds[m]
    BY <1>1, <1>4
  <2> QED
    BY <2>1, EmptyTokens, FewerFacts DEF Fewer
<1>5. CASE \E n \in Nodes : \E next \in Seq(Peaceful) : Pushes(n, next)
  BY <1>2, <1>5, QueueFewer DEF Pushes
<1>6. ASSUME NEW n \in Nodes, NEW x \in Gentle, Passes(n, x)
      PROVE  Fewer(cmds'[m], cmds[m], Ending(z))
  <2>1. /\ cmds[n] # <<>> /\ Issue(n, <<x>>) /\ (x \in Ending(z) => Head(cmds[n]) \in Ending(z))
    BY <1>6 DEF Passes
  <2>2. x \in Command /\ cmds[n] \in Seq(Command)
    <3>1. Good(succeeded) \subseteq Command
      BY DEF Good
    <3> QED
      BY <1>1, <3>1 DEF Gentle
  <2>3. Fewer(Tail(cmds[n]) \o <<x>>, cmds[n], Ending(z))
    BY <2>1, <2>2, ReplaceFewer
  <2>4. CASE m = n
    BY <1>1, <2>1, <2>3, <2>4 DEF Issue
  <2>5. CASE m # n
    BY <1>1, <2>1, <2>5, FewerFacts DEF Issue
  <2> QED
    BY <2>4, <2>5
<1>7. ASSUME NEW j \in Jobs, Succeed(j), j # z
      PROVE  Fewer(cmds'[m], cmds[m], Ending(z))
  <2>1. PICK R : R = {Completed(j, "SUCCESS")}
    OBVIOUS
  <2>2. <<Completed(j, "SUCCESS")>> \in Seq(R) /\ NodeOf[j] \in Nodes /\ Ending(z) \cap R = {}
    BY <1>7, <2>1, SuccessIsGentle, UnitIsSeq, NodesOf
  <2>3. Enqueue(NodeOf[j], <<Completed(j, "SUCCESS")>>)
    BY <1>7 DEF Succeed
  <2> QED
    BY <1>2, <2>2, <2>3, QueueFewer
<1> QED
  BY <1>3, <1>4, <1>5, <1>6, <1>7 DEF Pushed

\* What a step puts into pipelines carries what it is for.
LEMMA FormedIssued ==
  ASSUME IInv, IInv', TreeInv, GentleInv, NEW n \in Nodes, NEW x \in Issuable(n)
  PROVE  x \in Formed
<1>1. x \in Command
  BY DEF Issuable
<1>2. CASE \E i \in DOMAIN cmds[n] : cmds[n][i] = x
  <2>1. cmds[n] \in Seq(Formed)
    BY DEF GentleInv
  <2> QED
    BY <1>2, <2>1
<1>3. CASE x \in Idle
  BY <1>1, <1>3 DEF Idle, Formed, Doing
<1>4. CASE Reports(n, x)
  <2>1. PICK j \in Jobs, s \in FinishedStates : x = Completed(j, s)
    BY <1>4 DEF Reports
  <2>2. x.op \in {"store", "finish"} /\ x.to = s
    BY <2>1, BlankType DEF Completed, Command
  <2> QED
    BY <1>1, <2>2 DEF Formed
<1>5. CASE cmds[n] # <<>> /\ Follows(n, Head(cmds[n]), x)
  <2>1. PICK c : c = Head(cmds[n])
    OBVIOUS
  <2>2. c \in Good(succeeded) /\ c \in Formed /\ idx \in [States -> SUBSET Jobs]
    BY <1>5, <2>1, HeadLives, GentleHead DEF IInv, StoreTypeOK
  <2>3. CASE x.op = c.op /\ x.to = c.to /\ x.then = c.then
    BY <1>1, <2>2, <2>3 DEF Formed
  <2>4. CASE x.op \in {"count", "fetch", "context"}
    BY <1>1, <2>4 DEF Formed
  <2>5. CASE x.op = "get" /\ x.to = "RUNNING" /\ x.then = "on_running"
    BY <1>1, <2>5 DEF Formed
  <2>6. CASE c.op = "get" /\ x.op = "set" /\ x.to = c.to /\ x.then = c.then
    BY <1>1, <2>2, <2>6 DEF Formed
  <2>7. CASE /\ c.op \in {"store", "finish"} /\ x.op \in {"finish", "get"} /\ x.to = c.to
             /\ x.op = "get" => x.then = "on_state_updated"
    BY <1>1, <2>2, <2>7 DEF Formed
  <2>8. CASE x.op = "get" /\ x.then \in TreeConts
    BY <1>1, <2>8 DEF Formed, TreeConts
  <2> QED
    BY <1>5, <2>1, <2>2, <2>3, <2>4, <2>5, <2>6, <2>7, <2>8, FollowFacts
<1> QED
  BY <1>2, <1>3, <1>4, <1>5 DEF Issuable

\* No step lets a failure or an abort into an undisturbed tree.
LEMMA GentleStep ==
  ASSUME IInv, IInv', OnceInv, TreeInv, GentleInv, [Next]_vars
  PROVE  GentleInv'
<1>1. Pushed /\ Undisturbing
  BY StepIsGentle
<1>2. \A m \in Nodes : cmds'[m] \in Seq(Gentle)
  BY <1>1, GentleKept
<1>3. ASSUME NEW m \in Nodes
      PROVE  cmds'[m] \in Seq(Formed)
  <2>1. cmds'[m] \in Seq(Issuable(m))
    BY StepIssues
  <2>2. \A x \in Issuable(m) : x \in Formed
    BY FormedIssued
  <2> QED
    BY <2>1, <2>2
<1> QED
  BY <1>1, <1>2, <1>3 DEF Undisturbing, GentleInv

\* It starts with nothing under way.
LEMMA GentleInit == Init => GentleInv
BY DEF Init, GentleInv

-----------------------------------------------------------------------------
(* The course of an undisturbed job *)

\* The transactions know the state that they replace.
Exact == {c \in Command : c.op = "set" /\ c.job \in Undisturbed =>
  /\ c.to = "WAITING" => c.from = "NEW"
  /\ c.to = "RUNNING" => c.from = "WAITING"
  /\ c.to = "SUCCESS" => c.from = "RUNNING"}

\* An undisturbed job goes from NEW over WAITING and RUNNING to SUCCESS: its runner
\* starts it and ends it.
CourseInv(z) ==
  LET n == NodeOf[z] IN
  /\ \A s \in States : z \in idx[s] <=> state[z] = s
  /\ Woken(z) /\ starts[z] = 0 => state[z] = "WAITING"
  /\ starts[z] > 0 => state[z] \in {"RUNNING", "SUCCESS"}
  /\ act[z] = "active" => starts[z] > 0 /\ state[z] = "RUNNING"
  /\ \A m \in Nodes : Has(cmds[m], Ending(z)) =>
       m = n /\ starts[z] > 0 /\ state[z] = "RUNNING" /\ act[z] # "active"
  /\ Once(cmds[n], Ending(z))

ExactInv == /\ \A n \in Nodes : cmds[n] \in Seq(Exact)
            /\ \A z \in Undisturbed : CourseInv(z)

\* What is about to set the state of such a job, and where the job is by then.
LEMMA CourseFacts ==
  ASSUME IInv, IInv', OnceInv, TreeInv, FixedInv, GentleInv,
         NEW n \in Nodes, NEW i \in DOMAIN cmds[n], NEW c, c = cmds[n][i],
         c.op \in {"get", "set"}, NEW z \in Undisturbed, c.job = z, CourseInv(z)
  PROVE  \/ c.to = "WAITING" /\ state[z] = "NEW"
         \/ /\ c.to = "RUNNING" /\ c.then = "on_running" /\ n = NodeOf[z]
            /\ starts[z] = 0 /\ state[z] = "WAITING"
         \/ /\ c.to = "SUCCESS" /\ c.then = "on_state_updated" /\ c \in Ending(z)
            /\ n = NodeOf[z] /\ starts[z] > 0 /\ state[z] = "RUNNING"
<1>1. /\ z \in Fixed /\ z \in Jobs /\ WakeInv(z) /\ FirstInv(z)
      /\ state \in [Jobs -> States \cup {Absent}] /\ starts \in [Jobs -> Nat]
  BY UndisturbedFacts DEF FixedInv, IInv, StoreTypeOK, RunnerTypes
<1>2. /\ cmds[n] \in Seq(Good(succeeded)) /\ cmds[n] \in Seq(Formed) /\ cmds[n] \in Seq(Gentle)
      /\ cmds[n] \in Seq(Sound)
  BY DEF IInv, GentleInv, FixedInv
<1>3. c \in Good(succeeded) /\ c \in Formed /\ c \in Gentle /\ c \in Sound /\ c \in Ordered(n)
  BY <1>2 DEF TreeInv
<1>4. c \in Command /\ c.to \in States /\ c.then \in Conts /\ c.then # "none"
  BY <1>3 DEF Good, Command
<1>5. c.to # "NEW" /\ z \in Living
  BY <1>3 DEF Ordered, Doing
<1>6. c.to \notin Stopped
  BY <1>3 DEF Gentle, Mentions
<1>7. c.to \in {"WAITING", "RUNNING", "SUCCESS"}
  BY <1>4, <1>5, <1>6 DEF States, Stopped
<1>8. CASE c.to = "WAITING"
  <2>1. c \in Waking(z)
    BY <1>4, <1>8 DEF Waking
  <2>2. ~Woken(z)
    BY <1>1, <2>1 DEF Has, WakeInv
  <2> QED
    BY <1>5, <1>8, <2>2 DEF Woken, Living, Exists
<1>9. CASE c.to # "WAITING"
  <2>1. c \notin Waking(z)
    BY <1>9 DEF Waking
  <2>2. Woken(z)
    BY <1>1, <1>3, <2>1 DEF Sound, Doing
  <2>3. c.then \in {"on_running", "on_state_updated"}
    BY <1>3, <1>4, <1>7, <1>9 DEF Good, Conts, TreeConts
  <2>4. CASE c.then = "on_running"
    <3>1. c.to = "RUNNING"
      BY <1>3, <2>4 DEF Formed
    <3>2. c \in Chain(z) /\ c \in Starting
      BY <1>4, <2>4 DEF Chain, Starting
    <3>3. n = NodeOf[z]
      BY <3>2, ChainLaunched
    <3>4. starts[z] = 0
      BY <1>1, <3>2, <3>3 DEF Has, FirstInv
    <3> QED
      BY <2>2, <2>4, <3>1, <3>3, <3>4 DEF CourseInv
  <2>5. CASE c.then = "on_state_updated"
    <3>1. c.to = "SUCCESS"
      BY <1>3, <1>7, <2>5 DEF Formed, FinishedStates
    <3>2. c \in Ending(z)
      BY <1>4, <3>1 DEF Ending
    <3>3. Has(cmds[n], Ending(z))
      BY <3>2 DEF Has
    <3> QED
      BY <2>5, <3>1, <3>2, <3>3 DEF CourseInv
  <2> QED
    BY <2>3, <2>4, <2>5
<1> QED
  BY <1>8, <1>9

\* set_attrs sets what get_job has read a moment ago.
LEMMA ExactIssued ==
  ASSUME IInv, IInv', OnceInv, TreeInv, FixedInv, GentleInv, ExactInv,
         NEW n \in Nodes, NEW x \in Issuable(n)
  PROVE  x \in Exact
<1>1. x \in Command
  BY DEF Issuable
<1>2. CASE \E i \in DOMAIN cmds[n] : cmds[n][i] = x
  <2>1. cmds[n] \in Seq(Exact)
    BY DEF ExactInv
  <2> QED
    BY <1>2, <2>1
<1>3. CASE x.op # "set"
  BY <1>1, <1>3 DEF Exact
<1>4. CASE x.op = "set" /\ cmds[n] # <<>> /\ Follows(n, Head(cmds[n]), x)
  <2>1. PICK c : c = Head(cmds[n])
    OBVIOUS
  <2>2. c \in Good(succeeded) /\ idx \in [States -> SUBSET Jobs]
    BY <1>4, <2>1, HeadLives DEF IInv, StoreTypeOK
  <2>3. cmds[n] \in Seq(Exact)
    BY DEF ExactInv
  <2>4. c \in Exact /\ 1 \in DOMAIN cmds[n] /\ cmds[n][1] = c
    BY <1>4, <2>1, <2>3
  <2>5. CASE x.op = c.op /\ x.job = c.job /\ x.from = c.from /\ x.to = c.to
    BY <1>1, <2>4, <2>5 DEF Exact
  <2>6. CASE c.op = "get" /\ x.job = c.job /\ x.to = c.to /\ x.from = state[c.job]
    <3>1. ASSUME NEW z \in Undisturbed, c.job = z
          PROVE  \/ c.to = "WAITING" /\ state[z] = "NEW"
                 \/ c.to = "RUNNING" /\ state[z] = "WAITING"
                 \/ c.to = "SUCCESS" /\ state[z] = "RUNNING"
      BY <2>4, <2>6, <3>1, CourseFacts DEF ExactInv
    <3> QED
      BY <1>1, <2>6, <3>1 DEF Exact
  <2> QED
    BY <1>4, <2>1, <2>2, <2>5, <2>6, FollowFacts
<1>5. CASE x \in Idle
  BY <1>3, <1>5 DEF Idle, Doing
<1>6. CASE Reports(n, x)
  <2>1. x.op \in {"store", "finish"}
    BY <1>6, BlankType DEF Reports, Completed, Command
  <2> QED
    BY <1>3, <2>1
<1> QED
  BY <1>2, <1>3, <1>4, <1>5, <1>6 DEF Issuable

\* The next state of such a job, and who sets it.
LEMMA CourseGoes ==
  ASSUME IInv, IInv', OnceInv, TreeInv, FixedInv, GentleInv, ExactInv, Requests,
         [Next]_vars, NEW z \in Undisturbed
  PROVE  /\ \A s \in States : z \in idx'[s] <=> state'[z] = s
         /\ \/ state'[z] = state[z]
            \/ state[z] = Absent /\ state'[z] = "NEW"
            \/ state[z] = "NEW" /\ state'[z] = "WAITING"
            \/ /\ state[z] = "WAITING" /\ state'[z] = "RUNNING"
               /\ \E n \in Nodes : StartRunner(n) /\ Head(cmds[n]).job = z
            \/ /\ state[z] = "RUNNING" /\ state'[z] = "SUCCESS"
               /\ StateUpdated(NodeOf[z]) /\ Head(cmds[NodeOf[z]]) \in Ending(z)
               /\ Head(cmds[NodeOf[z]]).job = z
<1>1. /\ z \in Jobs /\ CourseInv(z) /\ state \in [Jobs -> States \cup {Absent}]
      /\ idx \in [States -> SUBSET Jobs] /\ Absent \notin States
      /\ \A s \in States : z \in idx[s] <=> state[z] = s
      /\ {"NEW", "WAITING", "RUNNING", "SUCCESS"} \subseteq States
  BY UndisturbedFacts DEF ExactInv, IInv, StoreTypeOK, Absent, States, CourseInv
<1>2. CASE UNCHANGED <<state, idx>>
  BY <1>1, <1>2
<1>3. ASSUME NEW n \in Nodes, AddJob(n)
      PROVE  /\ \A s \in States : z \in idx'[s] <=> state'[z] = s
             /\ state'[z] = state[z] \/ (state[z] = Absent /\ state'[z] = "NEW")
  <2>1. PICK c : c = Head(cmds[n])
    OBVIOUS
  <2>2. cmds[n] # <<>> /\ c.op = "add" /\ AddTx(c.job)
    BY <1>3, <2>1 DEF AddJob, Answer
  <2>3. state[c.job] = Absent
    BY <2>1, <2>2, WhereAdded DEF Adding, Exists
  <2>4. /\ state' = [state EXCEPT ![c.job] = "NEW"]
        /\ idx' = [idx EXCEPT !["NEW"] = @ \cup {c.job}]
    BY <2>2 DEF AddTx
  <2>5. CASE c.job = z
    <3>1. state[z] = Absent /\ state'[z] = "NEW"
      BY <1>1, <2>3, <2>4, <2>5
    <3>2. \A s \in States : z \in idx'[s] <=> s = "NEW"
      BY <1>1, <2>4, <2>5, <3>1
    <3> QED
      BY <3>1, <3>2
  <2>6. CASE c.job # z
    <3>1. state'[z] = state[z] /\ \A s \in States : z \in idx'[s] <=> z \in idx[s]
      BY <1>1, <2>4, <2>6
    <3> QED
      BY <1>1, <3>1
  <2> QED
    BY <2>5, <2>6
<1>4. ASSUME NEW n \in Nodes, NEW c, Sets(n, c)
      PROVE  /\ \A s \in States : z \in idx'[s] <=> state'[z] = s
             /\ \/ state'[z] = state[z]
                \/ state[z] = "NEW" /\ state'[z] = "WAITING"
                \/ /\ state[z] = "WAITING" /\ state'[z] = "RUNNING" /\ c.job = z
                   /\ c.then = "on_running"
                \/ /\ state[z] = "RUNNING" /\ state'[z] = "SUCCESS" /\ n = NodeOf[z]
                   /\ c.job = z /\ c \in Ending(z) /\ c.then = "on_state_updated"
  <2>1. /\ c.op = "set" /\ SetTx(c.job, c.from, c.to) /\ c.to \in States
        /\ \E i \in DOMAIN cmds[n] : cmds[n][i] = c
    BY <1>4, SetsFacts DEF Sets
  <2>2. /\ state' = [state EXCEPT ![c.job] = c.to]
        /\ idx' = [s \in States |-> IF s = c.to THEN idx[s] \cup {c.job}
                                    ELSE IF s = c.from THEN idx[s] \ {c.job}
                                    ELSE idx[s]]
    BY <2>1 DEF SetTx
  <2>3. CASE c.job # z
    <3>1. state'[z] = state[z] /\ \A s \in States : z \in idx'[s] <=> z \in idx[s]
      BY <1>1, <2>2, <2>3
    <3> QED
      BY <1>1, <3>1
  <2>4. CASE c.job = z
    <3>1. PICK i \in DOMAIN cmds[n] : cmds[n][i] = c
      BY <2>1
    <3>2. \/ c.to = "WAITING" /\ state[z] = "NEW"
          \/ /\ c.to = "RUNNING" /\ c.then = "on_running" /\ state[z] = "WAITING"
          \/ /\ c.to = "SUCCESS" /\ c.then = "on_state_updated" /\ c \in Ending(z)
             /\ n = NodeOf[z] /\ state[z] = "RUNNING"
      BY <1>1, <2>1, <2>4, <3>1, CourseFacts
    <3>3. cmds[n] \in Seq(Exact)
      BY DEF ExactInv
    <3>4. c \in Exact
      BY <3>1, <3>3
    <3>5. c.from = state[z]
      BY <2>1, <2>4, <3>2, <3>4 DEF Exact
    <3>6. state'[z] = c.to
      BY <1>1, <2>2, <2>4
    <3>7. \A s \in States : z \in idx'[s] <=> s = c.to
      BY <1>1, <2>2, <2>4, <3>5
    <3> QED
      BY <2>4, <3>2, <3>6, <3>7
  <2> QED
    BY <2>3, <2>4
<1>5. ASSUME NEW n \in Nodes, NEW c, Sets(n, c)
      PROVE  /\ c.then = "on_running" => StartRunner(n) /\ c = Head(cmds[n])
             /\ c.then = "on_state_updated" => StateUpdated(n) /\ c = Head(cmds[n])
  <2>1. c = Head(cmds[n])
    BY <1>5 DEF Sets
  <2>2. TreeJobSet(n) => c.then \notin {"on_running", "on_state_updated"}
    BY <2>1 DEF TreeJobSet
  <2> QED
    BY <1>5, <2>1, <2>2 DEF Sets
<1> QED
  BY <1>2, <1>3, <1>4, <1>5, StoreChanges

\* Only on_running makes a runner active.
LEMMA ActsHead ==
  ASSUME IInv, [Next]_vars, NEW j \in Jobs, act'[j] = "active"
  PROVE  act[j] = "active" \/ \E n \in Nodes : StartRunner(n) /\ Head(cmds[n]).job = j
<1>1. act \in [Jobs -> Activities]
  BY DEF IInv, RunnerTypes
<1>2. CASE UNCHANGED act
  BY <1>2
<1>3. ASSUME NEW n \in Nodes, NEW c, NextInTree(n, c)
      PROVE  act[j] = "active"
  <2>1. CASE TreeSet(n, c)
    <3>1. act' = [act EXCEPT ![c.by] = "reported"] \/ UNCHANGED act
      BY <2>1, ZenonT(40) DEF TreeSet
    <3> QED
      BY <1>1, <3>1
  <2> QED
    BY <1>2, <1>3, <2>1, ZenonT(40) DEF NextInTree
<1>4. ASSUME NEW n \in Nodes, Reply(n), ~StartRunner(n)
      PROVE  act[j] = "active"
  <2>1. CASE ListTree(n) \/ TreeJobSet(n)
    BY <1>3, <2>1, ZenonT(40) DEF ListTree, TreeJobSet
  <2>2. CASE AddJob(n) \/ TagJob(n)
    BY <1>2, <2>2, ZenonT(40) DEF AddJob, TagJob
  <2>3. CASE GetRoot(n) \/ WaitingJobs(n) \/ StartJobs(n) \/ Instantiate(n) \/ GotContext(n)
    BY <1>2, <2>3 DEF GetRoot, WaitingJobs, StartJobs, Instantiate, GotContext
  <2>4. CASE GotCurrentState(n) \/ ContextStored(n) \/ AbortRunners(n) \/ FindAbortHandlers(n)
    BY <1>2, <2>4 DEF GotCurrentState, ContextStored, AbortRunners, FindAbortHandlers
  <2>5. CASE StateUpdated(n) \/ GotFinishedJob(n)
    BY <1>2, <2>5 DEF StateUpdated, GotFinishedJob, FinishRunner
  <2>6. CASE AbortHandlerJob(n) \/ RunAbortHandler(n) \/ NodeJobs(n) \/ PublishStatus(n)
    BY <1>2, <2>6 DEF AbortHandlerJob, RunAbortHandler, NodeJobs, PublishStatus
  <2> QED
    BY <1>4, <2>1, <2>2, <2>3, <2>4, <2>5, <2>6 DEF Reply
<1>5. ASSUME NEW n \in Nodes, StartRunner(n), Head(cmds[n]).job # j
      PROVE  act[j] = "active"
  BY <1>1, <1>5 DEF StartRunner
<1>6. ASSUME NEW n \in Nodes,
             Run(n) \/ OtherStatus(n) \/ Crash(n) \/ Restart(n) \/ SweepNode(n)
      PROVE  act[j] = "active"
  <2>1. CASE AbortJob(n)
    BY <1>1, <2>1 DEF AbortJob
  <2>2. CASE Crash(n)
    BY <1>1, <2>2 DEF Crash
  <2> QED
    BY <1>2, <1>6, <2>1, <2>2 DEF Run, Evaluate, HandleFailure, Receive, OtherStatus,
                                  Restart, SweepNode
<1>7. ASSUME NEW i \in Jobs, Runner(i) \/ Submit(i) \/ UserAbort(i)
      PROVE  act[j] = "active"
  BY <1>1, <1>7 DEF Runner, Succeed, Fail, AddJobs, Submit, UserAbort
<1> QED
  BY <1>2, <1>4, <1>5, <1>6, <1>7 DEF Next, vars

\* on_state_updated takes the report of the job that ends.
LEMMA EndTaken ==
  ASSUME IInv, OnceInv, NEW n \in Nodes, StateUpdated(n),
         NEW z \in Jobs, Head(cmds[n]) \in Ending(z), Once(cmds[n], Ending(z))
  PROVE  ~Has(cmds'[n], Ending(z))
<1>1. PICK c : c = Head(cmds[n])
  OBVIOUS
<1>2. /\ cmds[n] # <<>> /\ SendJobStatus(n, {c.job}, c.to, Tail(cmds[n]), <<>>)
      /\ cmds[n] \in Seq(Good(succeeded)) /\ DOMAIN cmds = Nodes
  BY <1>1 DEF StateUpdated, Answer, FinishRunner, IInv
<1>3. PICK order \in SetToSeqs({c.job}) :
        cmds' = [cmds EXCEPT ![n] =
                   Tail(cmds[n]) \o [i \in DOMAIN order |-> Publish(order[i], c.to)] \o <<>>]
  BY <1>2 DEF SendJobStatus
<1>4. PICK p : p = [i \in DOMAIN order |-> Publish(order[i], c.to)]
  OBVIOUS
<1>5. PICK R : R = {Publish(c.job, c.to)}
  OBVIOUS
<1>6. p \in Seq(R)
  <2>1. {c.job} \in SUBSET Jobs
    BY <1>1 DEF Ending
  <2>2. PICK k \in Nat : DOMAIN order = 1..k
    BY <2>1, OrderIsSeq
  <2>3. \A i \in 1..k : order[i] = c.job
    BY <2>1, <2>2, OrderIsSeq
  <2> QED
    BY <1>4, <1>5, <2>2, <2>3
<1>7. Ending(z) \cap R = {}
  <2>1. c.job \in Jobs /\ c.to \in States
    BY <1>1 DEF Ending, Command
  <2>2. Publish(c.job, c.to).op = "publish"
    BY <2>1, BlankType DEF Publish, Command
  <2> QED
    BY <1>5, <2>2 DEF Ending
<1>8. /\ Tail(cmds[n]) \in Seq(Good(succeeded)) /\ ~Has(Tail(cmds[n]), Ending(z))
  BY <1>2, TailIsSeq, DropFewer
<1>9. cmds'[n] = Tail(cmds[n]) \o p
  <2>1. Tail(cmds[n]) \o p \o <<>> = Tail(cmds[n]) \o p
    BY <1>6, <1>8
  <2> QED
    BY <1>2, <1>3, <1>4, <2>1
<1>10. ~Has(p, Ending(z))
  BY <1>6, <1>7, ForeignTokens
<1>11. Has(Tail(cmds[n]) \o p, Ending(z)) <=> Has(Tail(cmds[n]), Ending(z)) \/ Has(p, Ending(z))
  BY <1>6, <1>8, AppendTokens
<1> QED
  BY <1>8, <1>9, <1>10, <1>11

\* The job stays on its course.
LEMMA CourseKept ==
  ASSUME IInv, IInv', OnceInv, TreeInv, FixedInv, GentleInv, ExactInv, Requests,
         [Next]_vars, NEW z \in Undisturbed
  PROVE  CourseInv(z)'
<1>1. PICK n \in Nodes : n = NodeOf[z]
  BY UndisturbedFacts, NodesOf
<1>2. /\ z \in Jobs /\ z \in Fixed /\ CourseInv(z) /\ TreeInv
      /\ starts \in [Jobs -> Nat] /\ starts' \in [Jobs -> Nat]
      /\ act \in [Jobs -> Activities] /\ Absent # "NEW"
  BY UndisturbedFacts DEF ExactInv, IInv, RunnerTypes, Absent
<1>3. /\ \A s \in States : z \in idx'[s] <=> state'[z] = s
      /\ \/ state'[z] = state[z]
         \/ state[z] = Absent /\ state'[z] = "NEW"
         \/ state[z] = "NEW" /\ state'[z] = "WAITING"
         \/ /\ state[z] = "WAITING" /\ state'[z] = "RUNNING"
            /\ \E m \in Nodes : StartRunner(m) /\ Head(cmds[m]).job = z
         \/ /\ state[z] = "RUNNING" /\ state'[z] = "SUCCESS"
            /\ StateUpdated(n) /\ Head(cmds[n]) \in Ending(z) /\ Head(cmds[n]).job = z
  BY <1>1, CourseGoes
<1>4. ASSUME NEW m \in Nodes, StartRunner(m), Head(cmds[m]).job = z
      PROVE  /\ starts[z] = 0 /\ starts'[z] = 1 /\ state'[z] = "RUNNING"
             /\ state[z] = "WAITING" /\ m = n
  <2>1. PICK c : c = Head(cmds[m])
    OBVIOUS
  <2>2. /\ cmds[m] # <<>> /\ c.op = "set" /\ c.then = "on_running" /\ c.job = z
        /\ starts' = [starts EXCEPT ![z] = @ + 1] /\ SetTx(c.job, c.from, c.to)
    BY <1>4, <2>1 DEF StartRunner, Answer
  <2>3. cmds[m] \in Seq(Good(succeeded)) /\ state \in [Jobs -> States \cup {Absent}]
    BY DEF IInv, StoreTypeOK
  <2>4. 1 \in DOMAIN cmds[m] /\ cmds[m][1] = c
    BY <2>1, <2>2, <2>3
  <2>5. c.to = "RUNNING" /\ m = NodeOf[z] /\ starts[z] = 0 /\ state[z] = "WAITING"
    <3>1. c \in Formed
      BY <2>1, <2>2, GentleHead
    <3>2. c.to = "RUNNING"
      BY <2>2, <3>1 DEF Formed
    <3> QED
      BY <1>2, <2>2, <2>4, <3>2, CourseFacts
  <2>6. state'[z] = "RUNNING"
    BY <1>2, <2>2, <2>3, <2>5 DEF SetTx
  <2> QED
    BY <1>1, <1>2, <2>2, <2>5, <2>6
<1>5. /\ starts'[z] = starts[z] \/ \E m \in Nodes : StartRunner(m) /\ Head(cmds[m]).job = z
      /\ act'[z] = "active" =>
           act[z] = "active" \/ \E m \in Nodes : StartRunner(m) /\ Head(cmds[m]).job = z
  BY <1>2, StartsHead, ActsHead
<1>6. Woken(z) <=> state[z] \notin {Absent, "NEW"}
  BY DEF Woken
<1>7. Absent \notin States /\ (starts[z] > 0 => state[z] # Absent)
  BY <1>2 DEF Absent, States, TreeInv, LiveInv, Exists
<1>8. starts'[z] > 0 => state'[z] \in {"RUNNING", "SUCCESS"}
  BY <1>2, <1>3, <1>4, <1>5 DEF CourseInv, Absent
<1>9. Woken(z)' /\ starts'[z] = 0 => state'[z] = "WAITING"
  <2> SUFFICES ASSUME Woken(z)', starts'[z] = 0
               PROVE  state'[z] = "WAITING"
    OBVIOUS
  <2>1. state'[z] \notin {Absent, "NEW"}
    BY DEF Woken
  <2>2. ~ \E m \in Nodes : StartRunner(m) /\ Head(cmds[m]).job = z
    BY <1>4
  <2>3. starts[z] = 0
    BY <1>5, <2>2
  <2>4. state[z] \notin {Absent, "NEW"} => state[z] = "WAITING"
    BY <1>2, <1>6, <2>3 DEF CourseInv
  <2> QED
    BY <1>3, <2>1, <2>2, <2>4 DEF Absent
<1>10. Has(cmds[n], Ending(z)) =>
         starts[z] > 0 /\ state[z] = "RUNNING" /\ act[z] # "active"
  BY <1>1, <1>2 DEF CourseInv
<1>11. ASSUME StateUpdated(n), Head(cmds[n]) \in Ending(z)
       PROVE  act[z] # "active" /\ ~Has(cmds'[n], Ending(z))
  <2>1. cmds[n] # <<>> /\ cmds[n] \in Seq(Good(succeeded)) /\ Once(cmds[n], Ending(z))
    BY <1>1, <1>2, <1>11 DEF StateUpdated, Answer, IInv, CourseInv
  <2>2. Has(cmds[n], Ending(z))
    BY <1>11, <2>1, DropFewer
  <2> QED
    BY <1>2, <1>10, <1>11, <2>1, <2>2, EndTaken
<1>12. act'[z] = "active" => starts'[z] > 0 /\ state'[z] = "RUNNING"
  <2> SUFFICES ASSUME act'[z] = "active"
               PROVE  starts'[z] > 0 /\ state'[z] = "RUNNING"
    OBVIOUS
  <2>1. CASE \E m \in Nodes : StartRunner(m) /\ Head(cmds[m]).job = z
    BY <1>2, <1>4, <2>1
  <2>2. CASE ~ \E m \in Nodes : StartRunner(m) /\ Head(cmds[m]).job = z
    <3>1. act[z] = "active" /\ starts'[z] = starts[z]
      BY <1>5, <2>2
    <3>2. starts[z] > 0 /\ state[z] = "RUNNING"
      BY <1>2, <3>1 DEF CourseInv
    <3> QED
      BY <1>3, <1>11, <2>2, <3>1, <3>2 DEF Absent
  <2> QED
    BY <2>1, <2>2
<1>13. Pushed
  BY StepIsGentle
<1>14. \A m \in Nodes : Succeed(z) \/ Fewer(cmds'[m], cmds[m], Ending(z))
  BY <1>13, EndingFewer
<1>15. ASSUME NEW m \in Nodes, Has(cmds'[m], Ending(z))
       PROVE  m = n /\ starts'[z] > 0 /\ state'[z] = "RUNNING" /\ act'[z] # "active"
  <2>1. CASE Succeed(z)
    <3>1. /\ act[z] = "active" /\ act'[z] # "active"
          /\ Enqueue(n, <<Completed(z, "SUCCESS")>>) /\ UNCHANGED <<state, starts>>
      BY <1>1, <1>2, <2>1 DEF Succeed, storeVars
    <3>2. starts'[z] > 0 /\ state'[z] = "RUNNING"
      BY <1>2, <3>1 DEF CourseInv
    <3>3. ~Has(cmds[m], Ending(z))
      BY <1>2, <3>1 DEF CourseInv
    <3>4. m # n => cmds'[m] = cmds[m]
      BY <3>1 DEF Enqueue, IInv
    <3> QED
      BY <1>15, <3>1, <3>2, <3>3, <3>4
  <2>2. CASE ~Succeed(z)
    <3>1. Has(cmds[m], Ending(z))
      BY <1>14, <1>15, <2>2 DEF Fewer
    <3>2. m = n /\ starts[z] > 0 /\ state[z] = "RUNNING" /\ act[z] # "active"
      BY <1>1, <1>2, <3>1 DEF CourseInv
    <3>3. ~ \E i \in Nodes : StartRunner(i) /\ Head(cmds[i]).job = z
      BY <1>4, <3>2
    <3>4. starts'[z] = starts[z] /\ act'[z] # "active"
      BY <1>5, <3>2, <3>3
    <3>5. state'[z] = "RUNNING"
      BY <1>3, <1>11, <1>15, <3>2 DEF Absent
    <3> QED
      BY <3>2, <3>4, <3>5
  <2> QED
    BY <2>1, <2>2
<1>16. Once(cmds'[n], Ending(z))
  <2>1. Once(cmds[n], Ending(z))
    BY <1>1, <1>2 DEF CourseInv
  <2>2. CASE Succeed(z)
    <3>1. act[z] = "active" /\ Enqueue(n, <<Completed(z, "SUCCESS")>>)
      BY <1>1, <2>2 DEF Succeed
    <3>2. ~Has(cmds[n], Ending(z)) /\ cmds[n] \in Seq(Good(succeeded)) /\ DOMAIN cmds = Nodes
      BY <1>10, <3>1 DEF IInv
    <3>3. PICK x : x = Completed(z, "SUCCESS")
      OBVIOUS
    <3>4. cmds'[n] = cmds[n] \o <<x>> /\ <<x>> \in Seq({x})
      BY <3>1, <3>2, <3>3, UnitIsSeq DEF Enqueue
    <3>5. ~Has(cmds[n], Ending(z)) /\ Once(<<x>>, Ending(z))
      BY <3>2, UnitTokens
    <3>6. Once(cmds[n] \o <<x>>, Ending(z))
      BY <2>1, <3>2, <3>4, <3>5, AppendTokens
    <3> QED
      BY <3>4, <3>6
  <2>3. CASE Fewer(cmds'[n], cmds[n], Ending(z))
    BY <2>1, <2>3 DEF Fewer
  <2> QED
    BY <1>14, <2>2, <2>3
<1> QED
  BY <1>1, <1>3, <1>8, <1>9, <1>12, <1>15, <1>16 DEF CourseInv

\* It starts with no job in Redis.
LEMMA ExactInit == Init => ExactInv
<1> SUFFICES ASSUME Init
             PROVE  ExactInv
  OBVIOUS
<1>1. /\ state = [j \in Jobs |-> Absent] /\ idx = [s \in States |-> {}]
      /\ cmds = [n \in Nodes |-> <<>>] /\ act = [j \in Jobs |-> "idle"]
      /\ starts = [j \in Jobs |-> 0]
  BY DEF Init, StoreInit
<1>2. \A n \in Nodes : cmds[n] \in Seq(Exact)
  BY <1>1
<1>3. ASSUME NEW z \in Undisturbed
      PROVE  CourseInv(z)
  <2>1. z \in Jobs /\ NodeOf[z] \in Nodes
    BY UndisturbedFacts, NodesOf
  <2>2. ~Woken(z) /\ \A s \in States : z \notin idx[s] /\ state[z] # s
    BY <1>1, <2>1 DEF Woken, Absent, States
  <2>3. /\ \A n \in Nodes : ~Has(cmds[n], Ending(z))
        /\ Once(cmds[NodeOf[z]], Ending(z))
    BY <1>1, <2>1 DEF Has, Once
  <2> QED
    BY <1>1, <2>1, <2>2, <2>3 DEF CourseInv
<1> QED
  BY <1>2, <1>3 DEF ExactInv

\* No step takes an undisturbed job off its course.
LEMMA ExactStep ==
  ASSUME IInv, IInv', OnceInv, TreeInv, FixedInv, GentleInv, ExactInv, Requests, [Next]_vars
  PROVE  ExactInv'
<1>1. ASSUME NEW m \in Nodes
      PROVE  cmds'[m] \in Seq(Exact)
  <2>1. cmds'[m] \in Seq(Issuable(m))
    BY StepIssues
  <2>2. \A x \in Issuable(m) : x \in Exact
    BY ExactIssued
  <2> QED
    BY <2>1, <2>2
<1> QED
  BY <1>1, CourseKept DEF ExactInv

-----------------------------------------------------------------------------
(* Theorems on undisturbed trees *)

\* The jobs of undisturbed trees are on their course, and nothing takes them off it.
CalmInv == IInv /\ OnceInv /\ TreeInv /\ FixedInv /\ GentleInv /\ ExactInv

\* The inductive invariant that the theorems on undisturbed trees rest on.
LEMMA CalmInductive ==
  ASSUME Requests
  PROVE  /\ Init => CalmInv
         /\ CalmInv /\ [Next]_vars => CalmInv'
<1>1. Init => CalmInv
  BY InitSafe, OnceInit, TreeInit, FixedInit, GentleInit, ExactInit DEF CalmInv
<1>2. CalmInv /\ [Next]_vars => CalmInv'
  BY StepSafe, OnceStep, TreeStep, FixedStep, GentleStep, ExactStep DEF CalmInv
<1> QED
  BY <1>1, <1>2

\* A job of an undisturbed tree is at every moment in the index set of its state and
\* in no other (the docstring of RedisJobBackend), whatever happens to the other trees:
\* set_attrs takes it out of the set of the state that get_job read a command before,
\* and the job still has that state, since allow_execution, start_job and completed
\* never have writes of it on their way at the same time.
THEOREM IndexFollowsState ==
  ASSUME Requests
  PROVE  Spec => [](\A j \in Undisturbed, s \in States : j \in idx[s] <=> state[j] = s)
<1>1. CalmInv => \A j \in Undisturbed, s \in States : j \in idx[s] <=> state[j] = s
  BY DEF CalmInv, ExactInv, CourseInv
<1> QED
  BY <1>1, CalmInductive, PTL DEF Spec

\* A job of an undisturbed tree that has succeeded keeps that state (the comment in
\* completed): no second report, failure or abort is on its way to Redis.
THEOREM FinishedStays ==
  ASSUME Requests
  PROVE  Spec => [][\A j \in Undisturbed :
                      state[j] \in FinishedStates => state'[j] = state[j]]_vars
<1>1. CalmInv /\ CalmInv' /\ [Next]_vars
      => [\A j \in Undisturbed : state[j] \in FinishedStates => state'[j] = state[j]]_vars
  <2> SUFFICES ASSUME CalmInv, CalmInv', [Next]_vars, NEW j \in Undisturbed,
                      state[j] \in FinishedStates
               PROVE  state'[j] = state[j]
    OBVIOUS
  <2>1. state[j] \notin {Absent, "NEW", "WAITING", "RUNNING"}
    BY DEF FinishedStates, Absent
  <2> QED
    BY <2>1, CourseGoes DEF CalmInv
<1> QED
  BY <1>1, CalmInductive, PTL DEF Spec

\* Where all trees are like that no request job adds jobs.
LEMMA NoAdders ==
  ASSUME Jobs \subseteq Undisturbed
  PROVE  Requests
<1>1. Adders \subseteq Jobs
  BY AdderFacts
<1>2. Adders = {}
  BY <1>1, UndisturbedFacts
<1>3. \A k \in Jobs : AddedBy[k] = NoJob
  BY <1>2 DEF Adders
<1> QED
  BY <1>2, <1>3 DEF Requests, AddersStay

\* Where all trees are like that, each job is in the index sets of its state and in
\* no other (the docstring of RedisJobBackend).
THEOREM IndexIsExact ==
  ASSUME Jobs \subseteq Undisturbed
  PROVE  Spec => []IndexMatchesState
<1>1. (\A j \in Undisturbed, s \in States : j \in idx[s] <=> state[j] = s) => IndexMatchesState
  BY DEF IndexMatchesState
<1> QED
  BY <1>1, NoAdders, IndexFollowsState, PTL

\* Where all trees are like that, a finished job keeps its state (the comment in
\* completed).
THEOREM FinishedForGood ==
  ASSUME Jobs \subseteq Undisturbed
  PROVE  Spec => FinishedIsFinal
<1>1. [\A j \in Undisturbed : state[j] \in FinishedStates => state'[j] = state[j]]_vars
      => [\A j \in Jobs : state[j] \in FinishedStates => state'[j] = state[j]]_vars
  OBVIOUS
<1> QED
  BY <1>1, NoAdders, FinishedStays, PTL DEF FinishedIsFinal
=============================================================================
