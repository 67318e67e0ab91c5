----------------------------- MODULE JobManager -----------------------------
(***************************************************************************)
(* The job managers of all nodes (common/job/manager/manager.py) over the  *)
(* shared jobs Redis.  A node is one thread running an IO loop:            *)
(*   - cmds[n] is the pipeline of its Redis connection.  Redis answers in  *)
(*     order; one step executes the head at the server and runs the        *)
(*     callback, which appends the commands the callback issues.  (Between *)
(*     reply and callback nothing that the callback reads can change: it   *)
(*     reads its reply and the memory of its own node.)                    *)
(*   - loop[n] is the queue of io_loop.add_callback.                       *)
(*   - inbox[n] holds the status messages that the pub/sub connection has  *)
(*     still to deliver.                                                   *)
(* Statuses NEW and RUNNING are not sent: job_status ignores them.         *)
(***************************************************************************)
EXTENDS JobStore, Sequences, SequencesExt

CONSTANTS
  NoNode,
  AddedBy,      \* [Jobs -> Jobs \cup {NoJob}], the job whose start_job adds it
  Submitter,    \* [Jobs -> Nodes], the node that submits the tree of a root
  Tagged,       \* jobs added with tags
  Containers,   \* jobs that succeed with an empty context (containers, request jobs)
  Failing,      \* jobs whose start_job may fail or raise
  Abortable,    \* jobs whose abort_job calls aborted()
  AbortHandlers,\* jobs added with abort_handler=True
  UserAborts,   \* jobs that a user may ask to abort
  Pacemaker,    \* the node that runs the stuck jobs health check
  Laggards,     \* nodes that may be marked DOWN while they still run
  Crashing,     \* nodes that may crash
  MaxTrees,     \* bound on submitted trees
  MaxCrashes,   \* bound on node crashes
  MaxAborts,    \* bound on user aborts and runs of the stuck jobs health check
  OtherTrees,   \* whether jobs of other trees make nodes evaluate
  FilterLimit   \* the size at which double_process_filter is emptied (1000)

ASSUME ManagerAssumption ==
  /\ NoNode \notin Nodes
  /\ AddedBy \in [Jobs -> Jobs \cup {NoJob}]
  /\ Submitter \in [Jobs -> Nodes]
  /\ Tagged \subseteq Jobs /\ Containers \subseteq Jobs
  /\ Failing \subseteq Jobs /\ Abortable \subseteq Jobs
  /\ AbortHandlers \subseteq Jobs /\ UserAborts \subseteq Jobs
  /\ Pacemaker \in Nodes /\ Laggards \subseteq Nodes /\ Crashing \subseteq Nodes
  /\ MaxTrees \in Nat /\ MaxCrashes \in Nat /\ MaxAborts \in Nat /\ OtherTrees \in BOOLEAN
  /\ FilterLimit \in Nat

\* Users submit whole trees; a request job adds one tree, below itself or below a
\* job above it.
ASSUME RequestAssumption ==
  \A k \in Jobs :
    /\ AddedBy[k] = NoJob => Parent[k] = NoJob \/ AddedBy[Parent[k]] = NoJob
    /\ AddedBy[k] # NoJob =>
         /\ Parent[k] # NoJob
         /\ \/ AddedBy[Parent[k]] = AddedBy[k]
            \/ /\ Parent[k] \in Path[AddedBy[k]]
               /\ \A i \in Jobs : AddedBy[i] = AddedBy[k] /\ i # k =>
                    AddedBy[Parent[i]] = AddedBy[k]

VARIABLES
  up,         \* the nodes whose process runs
  cmds, loop, inbox,
  runners,    \* [Nodes -> SUBSET Jobs], JobManager.runners
  inStartup,  \* [Nodes -> SUBSET Jobs], JobManager.in_startup
  handlers,   \* [Nodes -> SUBSET Jobs], JobManager.abort_handlers
  seen,       \* [Nodes -> SUBSET Status], JobManager.double_process_filter
  act,        \* what the runner object of a job is doing
  starts,     \* history: number of calls of start_job
  succeeded,  \* history: jobs whose runner has called success()
  handled,    \* history: number of runs of abort_handler
  spent       \* crashes, and user aborts and health checks, so far

managerVars == <<runners, inStartup, handlers, seen>>
history == <<starts, succeeded, handled>>
vars == <<state, idx, ctx, up, cmds, loop, inbox, runners, inStartup, handlers,
          seen, act, starts, succeeded, handled, spent>>

-----------------------------------------------------------------------------
(* Data types *)
Status == [job : Jobs, state : States]
Callback == [run : {"evaluate", "handle_failure", "abort_job"}, job : Jobs \cup {NoJob}]
Activities == {"idle", "active", "adding", "reported"}

Ops == {"add", "tag", "ready", "count", "fetch", "context", "get", "set", "store",
        "finish", "list", "running", "tree", "handler_job", "handler_context",
        "node_jobs", "publish"}

\* What is to be done with the reply of set_attrs or with the finished
\* set_state_tree: the closures that the code passes as callbacks.
Conts == {"none", "on_running", "on_state_updated", "allow_execution",
          "handle_failure", "force_waiting", "force_running"}

Command == [
  op    : Ops,
  hop   : BOOLEAN,             \* a get_root round trip comes first
  job   : Jobs \cup {NoJob},
  from  : States \cup {Absent}, \* the state seen, or looked for
  to    : States,
  then  : Conts,
  left  : SUBSET Jobs,         \* jobs still to process
  all   : SUBSET Jobs,         \* the list being processed, or the context read
  tree  : Jobs \cup {NoJob},   \* whose tree is processed
  by    : Jobs \cup {NoJob},   \* the runner that waits for allow_execution
  node  : Nodes \cup {NoNode}, \* node filter
  todo  : SUBSET Jobs]         \* jobs still to force_abort

Blank == [op |-> "ready", hop |-> FALSE, job |-> NoJob, from |-> "NEW",
          to |-> "NEW", then |-> "none", left |-> {}, all |-> {},
          tree |-> NoJob, by |-> NoJob, node |-> NoNode, todo |-> {}]

TypeOK ==
  /\ StoreTypeOK
  /\ up \subseteq Nodes
  /\ cmds \in [Nodes -> Seq(Command)]
  /\ loop \in [Nodes -> Seq(Callback)]
  /\ inbox \in [Nodes -> Seq(Status)]
  /\ runners \in [Nodes -> SUBSET Jobs]
  /\ inStartup \in [Nodes -> SUBSET Jobs]
  /\ handlers \in [Nodes -> SUBSET Jobs]
  /\ seen \in [Nodes -> SUBSET Status]
  /\ act \in [Jobs -> Activities]
  /\ starts \in [Jobs -> Nat]
  /\ succeeded \subseteq Jobs
  /\ handled \in [Jobs -> Nat]
  /\ spent \in [crashes : Nat, aborts : Nat]

Init ==
  /\ StoreInit
  /\ up = Nodes
  /\ cmds = [n \in Nodes |-> <<>>]
  /\ loop = [n \in Nodes |-> <<>>]
  /\ inbox = [n \in Nodes |-> <<>>]
  /\ runners = [n \in Nodes |-> {}]
  /\ inStartup = [n \in Nodes |-> {}]
  /\ handlers = [n \in Nodes |-> {}]
  /\ seen = [n \in Nodes |-> {}]
  /\ act = [j \in Jobs |-> "idle"]
  /\ starts = [j \in Jobs |-> 0]
  /\ succeeded = {}
  /\ handled = [j \in Jobs |-> 0]
  /\ spent = [crashes |-> 0, aborts |-> 0]

-----------------------------------------------------------------------------
(* Commands and callbacks *)
AddCommand(j, batch, by) ==
  [Blank EXCEPT !.op = "add", !.hop = Parent[j] # NoJob, !.job = j,
                !.left = batch \ {j}, !.by = by]

\* set_state_tree.
ListCommand(j, from, to, node, then) ==
  [Blank EXCEPT !.op = "list", !.hop = TRUE, !.tree = j, !.from = from,
                !.to = to, !.node = node, !.then = then]

ForceAbort(j, node, todo) ==
  [ListCommand(j, "WAITING", "ABORTED", node, "force_waiting") EXCEPT !.todo = todo]

JobCommand(op, j) == [Blank EXCEPT !.op = op, !.job = j]
TreeCommand(op, j) == [Blank EXCEPT !.op = op, !.hop = TRUE, !.tree = j]
Publish(j, s) == [Blank EXCEPT !.op = "publish", !.job = j, !.to = s]

\* Mutants of Completed: the context is not stored; every job counts as a
\* success; the arguments are swapped.
CompletedNoContext(j, s) == [Blank EXCEPT !.op = "finish", !.job = j, !.to = s]
CompletedAlways(j, s) == [Blank EXCEPT !.op = "finish", !.job = j, !.to = "SUCCESS"]
CompletedSwapped(j, s) == [Blank EXCEPT !.op = "finish", !.job = s, !.to = j]

\* completed: the context first, in case something swoops in, then the state.
Completed(j, s) ==
  IF s = "SUCCESS" /\ j \notin Containers
  THEN [Blank EXCEPT !.op = "store", !.hop = TRUE, !.job = j, !.to = s]
  ELSE [Blank EXCEPT !.op = "finish", !.job = j, !.to = s]

CallbackFor(j, s) ==
  IF s \in {"WAITING", "SUCCESS"} THEN [run |-> "evaluate", job |-> NoJob]
                                  ELSE [run |-> "handle_failure", job |-> j]

\* small is large without some of its elements.
InOrder(small, large) ==
  \A i, k \in DOMAIN small : i < k =>
    \E p, q \in DOMAIN large : p < q /\ large[p] = small[i] /\ large[q] = small[k]

\* What double_process_filter holds when a status comes in.  (The code looks at
\* its size for each message, here once for the messages of one broadcast.)
Filter(n) == IF Cardinality(seen[n]) > FilterLimit THEN {} ELSE seen[n]

\* job_status for statuses s of the jobs S, one by one, in the given order.
JobStatus(n, S, s, order) ==
  /\ \E fresh \in SetToSeqs({j \in S : [job |-> j, state |-> s] \notin Filter(n)}) :
       /\ InOrder(fresh, order)
       /\ loop' = [loop EXCEPT ![n] =
                     @ \o [i \in DOMAIN fresh |-> CallbackFor(fresh[i], s)]]
  /\ seen' = [seen EXCEPT ![n] = Filter(n) \cup [job : S, state : {s}]]

\* send_job_status of the jobs S, which calls job_status and publishes; then
\* the code issues the commands next.  before is what the pipeline holds.
SendJobStatus(n, S, s, before, next) ==
  \E order \in SetToSeqs(S) :
    /\ JobStatus(n, S, s, order)
    /\ cmds' = [cmds EXCEPT ![n] =
                  before \o [i \in DOMAIN order |-> Publish(order[i], s)] \o next]

-----------------------------------------------------------------------------
(* Replies: the head of cmds[n] is executed and its callback runs. *)
Answer(n, op) ==
  /\ n \in up
  /\ cmds[n] # <<>>
  /\ Head(cmds[n]).op = op
  /\ ~Head(cmds[n]).hop

Issue(n, next) == cmds' = [cmds EXCEPT ![n] = Tail(@) \o next]

GetRoot(n) ==
  /\ n \in up
  /\ cmds[n] # <<>>
  /\ Head(cmds[n]).hop
  /\ Issue(n, <<[Head(cmds[n]) EXCEPT !.hop = FALSE]>>)
  /\ UNCHANGED <<storeVars, up, loop, inbox, managerVars, act, history, spent>>

\* _add_tree_recurse, after job i: a child of i, or else the next child of the
\* nearest job above it that has one left.
NextJobs(i, left) ==
  {j \in left : /\ Parent[j] \in Path[i]
                /\ \A k \in left : Parent[k] \in Path[i] => Parent[k] \in Path[Parent[j]]}

\* The next job of add_tree, or allow_execution(root_id) after the last one.
AddNext(n, c) ==
  \/ \E j \in NextJobs(c.job, c.left) : Issue(n, <<AddCommand(j, c.left, c.by)>>)
  \/ /\ c.left = {}
     /\ Issue(n, <<[ListCommand(Root[c.job], "NEW", "WAITING", NoNode,
                                "allow_execution") EXCEPT !.by = c.by]>>)

\* add_job: the transaction, and then the tags, if there are any.
AddJob(n) ==
  LET c == Head(cmds[n]) IN
  /\ Answer(n, "add")
  /\ AddTx(c.job)
  /\ handlers' = [handlers EXCEPT ![n] = @ \cup ({c.job} \cap AbortHandlers)]
  /\ IF c.job \in Tagged THEN Issue(n, <<[c EXCEPT !.op = "tag", !.hop = TRUE]>>)
                         ELSE AddNext(n, c)
  /\ UNCHANGED <<up, loop, inbox, runners, inStartup, seen, act, history, spent>>

TagJob(n) ==
  /\ Answer(n, "tag")
  /\ AddNext(n, Head(cmds[n]))
  /\ UNCHANGED <<storeVars, up, loop, inbox, managerVars, act, history, spent>>

\* evaluate: get_ready_to_run, in two round trips.
WaitingJobs(n) ==
  LET waiting == idx["WAITING"] \cap JobsOf(n) IN
  /\ Answer(n, "ready")
  /\ Issue(n, IF waiting = {} THEN <<>>
              ELSE <<[Blank EXCEPT !.op = "count", !.left = waiting]>>)
  /\ UNCHANGED <<storeVars, up, loop, inbox, managerVars, act, history, spent>>

\* Mutant: in_startup is not looked at.
StartJobsAgain(n) ==
  LET new == {j \in Head(cmds[n]).left : Ready(j)} IN
  /\ Answer(n, "count")
  /\ inStartup' = [inStartup EXCEPT ![n] = @ \cup new]
  /\ \E order \in SetToSeqs(new) :
       Issue(n, [i \in DOMAIN order |-> JobCommand("fetch", order[i])])
  /\ UNCHANGED <<storeVars, up, loop, inbox, runners, handlers, seen, act, history, spent>>

\* Mutant: every waiting job goes into in_startup.
StartJobsMarked(n) ==
  LET new == {j \in Head(cmds[n]).left : Ready(j)} \ inStartup[n] IN
  /\ Answer(n, "count")
  /\ inStartup' = [inStartup EXCEPT ![n] = @ \cup Head(cmds[n]).left]
  /\ \E order \in SetToSeqs(new) :
       Issue(n, [i \in DOMAIN order |-> JobCommand("fetch", order[i])])
  /\ UNCHANGED <<storeVars, up, loop, inbox, runners, handlers, seen, act, history, spent>>

\* _start_job for the ready ones, unless in_startup has them.
StartJobs(n) ==
  LET new == {j \in Head(cmds[n]).left : Ready(j)} \ inStartup[n] IN
  /\ Answer(n, "count")
  /\ inStartup' = [inStartup EXCEPT ![n] = @ \cup new]
  /\ \E order \in SetToSeqs(new) :
       Issue(n, [i \in DOMAIN order |-> JobCommand("fetch", order[i])])
  /\ UNCHANGED <<storeVars, up, loop, inbox, runners, handlers, seen, act, history, spent>>

Instantiate(n) ==
  LET c == Head(cmds[n]) IN
  /\ Answer(n, "fetch")
  /\ runners' = [runners EXCEPT ![n] = @ \cup {c.job}]
  /\ Issue(n, <<[JobCommand("context", c.job) EXCEPT !.hop = TRUE]>>)
  /\ UNCHANGED <<storeVars, up, loop, inbox, inStartup, handlers, seen, act, history, spent>>

GotContext(n) ==
  LET c == Head(cmds[n]) IN
  /\ Answer(n, "context")
  /\ Issue(n, <<[JobCommand("get", c.job) EXCEPT !.to = "RUNNING",
                   !.then = "on_running", !.all = ContextOf(c.job)]>>)
  /\ UNCHANGED <<storeVars, up, loop, inbox, managerVars, act, history, spent>>

\* set_attrs reads the job first; the state it sees decides which index sets
\* its transaction will clear.
GotCurrentState(n) ==
  LET c == Head(cmds[n]) IN
  /\ Answer(n, "get")
  /\ Issue(n, <<[c EXCEPT !.op = "set", !.from = state[c.job]]>>)
  /\ UNCHANGED <<storeVars, up, loop, inbox, managerVars, act, history, spent>>

\* on_running: the runner starts.
StartRunner(n) ==
  LET c == Head(cmds[n]) IN
  /\ Answer(n, "set")
  /\ c.then = "on_running"
  /\ SetTx(c.job, c.from, c.to)
  /\ act' = [act EXCEPT ![c.job] = "active"]
  /\ starts' = [starts EXCEPT ![c.job] = @ + 1]
  /\ Issue(n, <<>>)
  /\ UNCHANGED <<up, loop, inbox, managerVars, succeeded, handled, spent>>

\* on_state_updated: the state that the job reported goes out, whatever state
\* Redis holds.
FinishRunner(n, j, s) ==
  /\ runners' = [runners EXCEPT ![n] = @ \ {j}]
  /\ SendJobStatus(n, {j}, s, Tail(cmds[n]), <<>>)
  /\ UNCHANGED <<up, inbox, inStartup, handlers, act, history, spent>>

StateUpdated(n) ==
  LET c == Head(cmds[n]) IN
  /\ Answer(n, "set")
  /\ c.then = "on_state_updated"
  /\ SetTx(c.job, c.from, c.to)
  /\ FinishRunner(n, c.job, c.to)

ContextStored(n) ==
  LET c == Head(cmds[n]) IN
  /\ Answer(n, "store")
  /\ ContextTx(c.job)
  /\ Issue(n, <<[JobCommand("finish", c.job) EXCEPT !.to = c.to]>>)
  /\ UNCHANGED <<up, loop, inbox, managerVars, act, history, spent>>

\* completed's get_job: a finished state is not overwritten.
GotFinishedJob(n) ==
  LET c == Head(cmds[n]) IN
  /\ Answer(n, "finish")
  /\ UNCHANGED storeVars
  /\ \/ /\ state[c.job] \in FinishedStates
        /\ FinishRunner(n, c.job, c.to)
     \/ /\ state[c.job] \notin FinishedStates
        /\ Issue(n, <<[c EXCEPT !.op = "get", !.then = "on_state_updated"]>>)
        /\ UNCHANGED <<up, loop, inbox, managerVars, act, history, spent>>

\* The callback of set_state_tree, once every listed job has been set.
TreeSet(n, c) ==
  /\ UNCHANGED <<up, inbox, runners, inStartup, handlers, starts, handled, spent>>
  /\ \/ /\ c.then = "allow_execution" /\ c.by = NoJob
        /\ SendJobStatus(n, {c.tree}, "WAITING", Tail(cmds[n]), <<>>)
        /\ UNCHANGED <<act, succeeded>>
     \/ /\ c.then = "allow_execution" /\ c.by # NoJob
        /\ SendJobStatus(n, {c.tree}, "WAITING", Tail(cmds[n]),
                         <<Completed(c.by, "SUCCESS")>>)
        /\ act' = [act EXCEPT ![c.by] = "reported"]
        /\ succeeded' = succeeded \cup {c.by}
     \/ /\ c.then = "handle_failure"
        /\ SendJobStatus(n, c.all, "ABORTED", Tail(cmds[n]), <<>>)
        /\ UNCHANGED <<act, succeeded>>
     \/ /\ c.then = "force_waiting"
        /\ SendJobStatus(n, c.all, "ABORTED", Tail(cmds[n]),
             <<[ListCommand(c.tree, "RUNNING", "ABORTED", c.node, "force_running")
                  EXCEPT !.todo = c.todo]>>)
        /\ UNCHANGED <<act, succeeded>>
     \/ /\ c.then = "force_running" /\ c.todo = {}
        /\ SendJobStatus(n, c.all, "ABORTED", Tail(cmds[n]), <<>>)
        /\ UNCHANGED <<act, succeeded>>
     \/ /\ c.then = "force_running"
        /\ \E j \in c.todo : SendJobStatus(n, c.all, "ABORTED", Tail(cmds[n]),
                               <<ForceAbort(j, c.node, c.todo \ {j})>>)
        /\ UNCHANGED <<act, succeeded>>

\* process_job of set_state_tree: the list was read once, and each job in it
\* is set in turn without looking at its state again.
NextInTree(n, c) ==
  \/ /\ c.left = {}
     /\ TreeSet(n, c)
  \/ /\ \E j \in c.left :
          Issue(n, <<[c EXCEPT !.op = "get", !.job = j, !.left = c.left \ {j}]>>)
     /\ UNCHANGED <<up, loop, inbox, managerVars, act, history, spent>>

ListTree(n) ==
  LET c == Head(cmds[n])
      found == {j \in idx[c.from] \cap Tree(c.tree) :
                  c.node = NoNode \/ NodeOf[j] = c.node}
  IN
  /\ Answer(n, "list")
  /\ UNCHANGED storeVars
  /\ NextInTree(n, [c EXCEPT !.left = found, !.all = found])

TreeJobSet(n) ==
  LET c == Head(cmds[n]) IN
  /\ Answer(n, "set")
  /\ c.then \notin {"on_running", "on_state_updated"}
  /\ SetTx(c.job, c.from, c.to)
  /\ NextInTree(n, c)

\* on_running of handle_failure: abort the running jobs that have a runner.
AbortRunners(n) ==
  LET j == Head(cmds[n]).tree
      running == idx["RUNNING"] \cap Tree(j) \cap JobsOf(n) \cap runners[n]
  IN
  /\ Answer(n, "running")
  /\ \E order \in SetToSeqs(running) :
       loop' = [loop EXCEPT ![n] = @ \o
                 [i \in DOMAIN order |-> [run |-> "abort_job", job |-> order[i]]]]
  /\ Issue(n, <<>>)
  /\ UNCHANGED <<storeVars, up, inbox, managerVars, act, history, spent>>

\* Mutant: the handlers found stay in abort_handlers.
FindAbortHandlersKeep(n) ==
  LET found == {k \in Tree(Head(cmds[n]).tree) \cap JobsOf(n) \cap handlers[n] : Exists(k)} IN
  /\ Answer(n, "tree")
  /\ \E order \in SetToSeqs(found) :
       Issue(n, [i \in DOMAIN order |-> JobCommand("handler_job", order[i])])
  /\ UNCHANGED <<storeVars, up, loop, inbox, managerVars, act, history, spent>>

\* on_complete_tree of handle_failure.
FindAbortHandlers(n) ==
  LET j == Head(cmds[n]).tree
      found == {k \in Tree(j) \cap JobsOf(n) \cap handlers[n] : Exists(k)}
  IN
  /\ Answer(n, "tree")
  /\ handlers' = [handlers EXCEPT ![n] = @ \ found]
  /\ \E order \in SetToSeqs(found) :
       Issue(n, [i \in DOMAIN order |-> JobCommand("handler_job", order[i])])
  /\ UNCHANGED <<storeVars, up, loop, inbox, runners, inStartup, seen, act, history, spent>>

AbortHandlerJob(n) ==
  /\ Answer(n, "handler_job")
  /\ Issue(n, <<[JobCommand("handler_context", Head(cmds[n]).job) EXCEPT !.hop = TRUE]>>)
  /\ UNCHANGED <<storeVars, up, loop, inbox, managerVars, act, history, spent>>

RunAbortHandler(n) ==
  /\ Answer(n, "handler_context")
  /\ handled' = [handled EXCEPT ![Head(cmds[n]).job] = @ + 1]
  /\ Issue(n, <<>>)
  /\ UNCHANGED <<storeVars, up, loop, inbox, managerVars, act, starts, succeeded, spent>>

\* Mutant: a node that comes back leaves its running jobs alone.
NodeJobsForgotten(n) ==
  /\ Answer(n, "node_jobs")
  /\ Issue(n, <<>>)
  /\ UNCHANGED <<storeVars, up, loop, inbox, managerVars, act, history, spent>>

\* prepare aborts what its node was running when it crashed; the stuck jobs
\* check aborts what waits or runs on a node that is down.
NodeJobs(n) ==
  LET c == Head(cmds[n])
      found == JobsOf(c.node) \cap (idx["RUNNING"] \cup
                                    IF c.node = n THEN {} ELSE idx["WAITING"])
  IN
  /\ Answer(n, "node_jobs")
  /\ \/ /\ found = {}
        /\ Issue(n, <<>>)
     \/ \E j \in found : Issue(n, <<ForceAbort(j, c.node, found \ {j})>>)
  /\ UNCHANGED <<storeVars, up, loop, inbox, managerVars, act, history, spent>>

\* Redis hands a published status to every connected subscriber; the sender
\* drops its own.
PublishStatus(n) ==
  LET c == Head(cmds[n]) IN
  /\ Answer(n, "publish")
  /\ inbox' = [m \in Nodes |-> IF m \in up \ {n}
                 THEN Append(inbox[m], [job |-> c.job, state |-> c.to]) ELSE inbox[m]]
  /\ Issue(n, <<>>)
  /\ UNCHANGED <<storeVars, up, loop, managerVars, act, history, spent>>

Reply(n) ==
  \/ GetRoot(n) \/ AddJob(n) \/ TagJob(n) \/ WaitingJobs(n) \/ StartJobs(n)
  \/ Instantiate(n) \/ GotContext(n) \/ GotCurrentState(n) \/ StartRunner(n)
  \/ StateUpdated(n) \/ ContextStored(n) \/ GotFinishedJob(n) \/ ListTree(n)
  \/ TreeJobSet(n) \/ AbortRunners(n) \/ FindAbortHandlers(n)
  \/ AbortHandlerJob(n) \/ RunAbortHandler(n) \/ NodeJobs(n) \/ PublishStatus(n)

-----------------------------------------------------------------------------
(* Callbacks of the IO loop, and messages of other nodes *)
Runs(n, what) ==
  /\ n \in up
  /\ loop[n] # <<>>
  /\ Head(loop[n]).run = what
  /\ loop' = [loop EXCEPT ![n] = Tail(@)]

Enqueue(n, next) == cmds' = [cmds EXCEPT ![n] = @ \o next]

Evaluate(n) ==
  /\ Runs(n, "evaluate")
  /\ Enqueue(n, <<[Blank EXCEPT !.op = "ready"]>>)
  /\ UNCHANGED <<storeVars, up, inbox, managerVars, act, history, spent>>

\* Mutants: the waiting jobs are not aborted; the handlers are not searched.
HandleFailureNoWaiting(n) ==
  LET j == Head(loop[n]).job IN
  /\ Runs(n, "handle_failure")
  /\ Enqueue(n, <<TreeCommand("running", j), TreeCommand("tree", j)>>)
  /\ UNCHANGED <<storeVars, up, inbox, managerVars, act, history, spent>>
HandleFailureNoHandlers(n) ==
  LET j == Head(loop[n]).job IN
  /\ Runs(n, "handle_failure")
  /\ Enqueue(n, <<ListCommand(j, "WAITING", "ABORTED", n, "handle_failure"),
                  TreeCommand("running", j)>>)
  /\ UNCHANGED <<storeVars, up, inbox, managerVars, act, history, spent>>

\* The three searches of handle_failure go out together.
HandleFailure(n) ==
  LET j == Head(loop[n]).job IN
  /\ Runs(n, "handle_failure")
  /\ Enqueue(n, <<ListCommand(j, "WAITING", "ABORTED", n, "handle_failure"),
                  TreeCommand("running", j), TreeCommand("tree", j)>>)
  /\ UNCHANGED <<storeVars, up, inbox, managerVars, act, history, spent>>

\* Mutant: abort_job ends the runner without calling aborted().
AbortJobSilent(n) ==
  LET j == Head(loop[n]).job IN
  /\ Runs(n, "abort_job")
  /\ act' = [act EXCEPT ![j] = IF j \in Abortable THEN "reported" ELSE @]
  /\ UNCHANGED <<storeVars, up, inbox, cmds, managerVars, history, spent>>

\* A runner whose class has no abort_job raises, which changes nothing.
AbortJob(n) ==
  LET j == Head(loop[n]).job IN
  /\ Runs(n, "abort_job")
  /\ IF j \in Abortable
     THEN /\ Enqueue(n, <<Completed(j, "ABORTED")>>)
          /\ act' = [act EXCEPT ![j] = "reported"]
     ELSE UNCHANGED <<cmds, act>>
  /\ UNCHANGED <<storeVars, up, inbox, managerVars, history, spent>>

Receive(n) ==
  /\ n \in up
  /\ inbox[n] # <<>>
  /\ LET m == Head(inbox[n]) IN JobStatus(n, {m.job}, m.state, <<m.job>>)
  /\ inbox' = [inbox EXCEPT ![n] = Tail(@)]
  /\ UNCHANGED <<storeVars, up, cmds, runners, inStartup, handlers, act, history, spent>>

-----------------------------------------------------------------------------
(* The runners *)
AddedWith(j) == {k \in Jobs : AddedBy[k] = j}

Succeed(j) ==
  /\ act[j] = "active" /\ AddedWith(j) = {}
  /\ act' = [act EXCEPT ![j] = "reported"]
  /\ succeeded' = succeeded \cup {j}
  /\ Enqueue(NodeOf[j], <<Completed(j, "SUCCESS")>>)
  /\ UNCHANGED <<storeVars, up, loop, inbox, managerVars, starts, handled, spent>>

Fail(j) ==
  /\ act[j] = "active" /\ j \in Failing
  /\ act' = [act EXCEPT ![j] = "reported"]
  /\ Enqueue(NodeOf[j], <<Completed(j, "FAILED")>>)
  /\ UNCHANGED <<storeVars, up, loop, inbox, managerVars, history, spent>>

\* A request job adds a tree below its own tree, makes it executable and then
\* succeeds (coordinate/*.py, TreeSet).
AddJobs(j) ==
  LET batch == AddedWith(j) IN
  /\ act[j] = "active"
  /\ act' = [act EXCEPT ![j] = "adding"]
  /\ \E k \in batch : /\ Parent[k] \notin batch
                      /\ Enqueue(NodeOf[j], <<AddCommand(k, batch, j)>>)
  /\ UNCHANGED <<storeVars, up, loop, inbox, managerVars, history, spent>>

-----------------------------------------------------------------------------
(* Users, the health check and crashes *)
Submitted(r) ==
  \/ Exists(r)
  \/ \E n \in Nodes : \E i \in DOMAIN cmds[n] :
       cmds[n][i].op = "add" /\ cmds[n][i].job = r

Submit(r) ==
  /\ Parent[r] = NoJob /\ AddedBy[r] = NoJob /\ ~Submitted(r)
  /\ Cardinality({k \in Jobs : Parent[k] = NoJob /\ Submitted(k)}) < MaxTrees
  /\ Submitter[r] \in up
  /\ Enqueue(Submitter[r],
       <<AddCommand(r, {j \in Tree(r) : AddedBy[j] = NoJob}, NoJob)>>)
  /\ UNCHANGED <<storeVars, up, loop, inbox, managerVars, act, history, spent>>

\* abort: only the broadcast.
UserAbort(j) ==
  /\ j \in UserAborts /\ Exists(j) /\ Pacemaker \in up
  /\ spent.aborts < MaxAborts
  /\ spent' = [spent EXCEPT !.aborts = @ + 1]
  /\ SendJobStatus(Pacemaker, {j}, "ABORTED", cmds[Pacemaker], <<>>)
  /\ UNCHANGED <<storeVars, up, inbox, runners, inStartup, handlers, act, history>>

SweepNode(t) ==
  /\ Pacemaker \in up /\ t \in Nodes \ {Pacemaker}
  /\ t \notin up \/ t \in Laggards
  /\ spent.aborts < MaxAborts
  /\ spent' = [spent EXCEPT !.aborts = @ + 1]
  /\ Enqueue(Pacemaker, <<[Blank EXCEPT !.op = "node_jobs", !.node = t]>>)
  /\ UNCHANGED <<storeVars, up, loop, inbox, managerVars, act, history>>

\* Statuses of jobs in other trees make a node evaluate at any time.
OtherStatus(n) ==
  /\ OtherTrees /\ n \in up
  /\ idx["WAITING"] \cap JobsOf(n) # {}
  /\ \A i \in DOMAIN cmds[n] : cmds[n][i].op \notin {"ready", "count"}
  /\ Enqueue(n, <<[Blank EXCEPT !.op = "ready"]>>)
  /\ UNCHANGED <<storeVars, up, loop, inbox, managerVars, act, history, spent>>

\* Of the runs of the check one is left for a node that is late and then crashes.
Crash(n) ==
  /\ n \in up \cap Crashing
  /\ spent.crashes < MaxCrashes
  /\ n \in Laggards => spent.aborts < MaxAborts
  /\ spent' = [spent EXCEPT !.crashes = @ + 1]
  /\ up' = up \ {n}
  /\ cmds' = [cmds EXCEPT ![n] = <<>>]
  /\ loop' = [loop EXCEPT ![n] = <<>>]
  /\ inbox' = [inbox EXCEPT ![n] = <<>>]
  /\ runners' = [runners EXCEPT ![n] = {}]
  /\ inStartup' = [inStartup EXCEPT ![n] = {}]
  /\ handlers' = [handlers EXCEPT ![n] = {}]
  /\ seen' = [seen EXCEPT ![n] = {}]
  /\ act' = [j \in Jobs |-> IF NodeOf[j] = n THEN "idle" ELSE act[j]]
  /\ UNCHANGED <<storeVars, history>>

\* prepare: subscribe, then abort what this node was running.
Restart(n) ==
  /\ n \in Nodes \ up
  /\ up' = up \cup {n}
  /\ Enqueue(n, <<[Blank EXCEPT !.op = "node_jobs", !.node = n]>>)
  /\ UNCHANGED <<storeVars, loop, inbox, managerVars, act, history, spent>>

-----------------------------------------------------------------------------
Run(n) == Evaluate(n) \/ HandleFailure(n) \/ AbortJob(n) \/ Receive(n)
Runner(j) == Succeed(j) \/ Fail(j) \/ AddJobs(j)

Next ==
  \/ \E n \in Nodes : Reply(n) \/ Run(n) \/ OtherStatus(n) \/ Crash(n)
                      \/ Restart(n) \/ SweepNode(n)
  \/ \E j \in Jobs : Runner(j) \/ Submit(j) \/ UserAbort(j)

Spec == Init /\ [][Next]_vars

\* Redis answers, the IO loop runs, runners end and submitted trees are added;
\* users, crashes and other trees do as they like.
Fairness ==
  /\ \A n \in Nodes : WF_vars(Reply(n)) /\ WF_vars(Run(n))
  /\ \A j \in Jobs : WF_vars(Runner(j)) /\ WF_vars(Submit(j))

FairSpec == Spec /\ Fairness

\* Nodes that crash come back.
RestartSpec == FairSpec /\ \A n \in Nodes : WF_vars(Restart(n))

\* In a cluster whose periodic jobs go on, every node keeps evaluating.
BusySpec == RestartSpec /\ \A n \in Nodes : WF_vars(OtherStatus(n))

\* Nodes may stay down; the health check runs periodically.
SweepSpec == FairSpec /\ \A n \in Nodes : WF_vars(SweepNode(n))

-----------------------------------------------------------------------------
(* Properties *)

\* A job starts after its children: once start_job of a job was called, every
\* child it has, whenever it was added, has called success().
LeavesFirst ==
  \A j \in Jobs : starts[j] > 0 => Children(j) \subseteq succeeded

\* start_job is called at most once for a job (_start_job, in_startup).
StartedOnce == \A j \in Jobs : starts[j] <= 1

\* A job is in the success index only if its runner has called success().
SuccessIsEarned == idx["SUCCESS"] \subseteq succeeded

\* Each job is in the index sets of its state and in no other (the docstring
\* of RedisJobBackend).
IndexMatchesState ==
  \A j \in Jobs, s \in States : j \in idx[s] <=> state[j] = s

\* A finished job keeps its state (the comment in completed).
FinishedIsFinal ==
  [][\A j \in Jobs : state[j] \in FinishedStates => state'[j] = state[j]]_vars

\* The context that start_job gets has the output of every child.
ContextComplete ==
  [][\A j \in Jobs : starts'[j] # starts[j] =>
       Children(j) \ Containers \subseteq Head(cmds[NodeOf[j]]).all]_vars

\* A job that has succeeded or failed does not turn into an aborted one (completed
\* says why it looks at the state first).
ResultIsKept ==
  [][\A j \in Jobs : state[j] \in {"SUCCESS", "FAILED"} => state'[j] # "ABORTED"]_vars

\* A job that was put into the aborted state does not start.
AbortedNeverStarts ==
  [][\A j \in Jobs : state[j] = "ABORTED" => starts'[j] = starts[j]]_vars

\* An abort handler runs at most once (handle_failure, abort_handlers).
HandlerRunsOnce == \A j \in Jobs : handled[j] <= 1

\* Whatever happens, every job that exists ends in a finished state.
JobsSettle == <>[](\A j \in Jobs : Exists(j) => state[j] \in FinishedStates)

\* A job that runs ends, also when its node crashes under it (prepare).
RunningEnds ==
  \A j \in Jobs : state[j] = "RUNNING" ~> state[j] \in FinishedStates

\* A failure in a tree makes its abort handlers run.
HandlersRun ==
  \A j, h \in Jobs : h \in AbortHandlers /\ Root[h] = Root[j] =>
    (state[j] = "FAILED" ~> handled[h] > 0)
=============================================================================
