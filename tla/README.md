# A verification model of Paasmaker

Paasmaker is a platform as a service: *pacemaker* nodes keep the database and
decide, *heart* nodes run instances of applications, *router* nodes send
requests to them.  Nearly everything a cluster does is a tree of jobs that the
nodes run together through one Redis, the *jobs Redis*; users work with it
through web pages, which upload files in chunks, and follow jobs and their logs
over a socket.  This directory holds TLA+ models of these parts, TLC
configurations that check them, and proofs for TLAPS.  Paths below are relative
to `src/paasmaker/` unless they start with `src/`; `PROJECT.json` maps each
definition to the lines it models.

## 1. The system

| Component | State | Operations | Interacts through |
|---|---|---|---|
| Jobs Redis data model (`common/job/manager/backendredis.py`) | job hashes, state index sets per node, parent and tree, one context per tree | add_job, set_attrs, set_state_tree, get_ready_to_run, store_context | transactions of all nodes |
| Job manager (`common/job/manager/manager.py`, one per node) | runners, in_startup, abort_handlers, double_process_filter | add_tree, allow_execution, evaluate, completed, handle_failure, abort, force_abort, job_status, prepare | the jobs Redis, its `job.status` channel, the IO loop |
| Backend connection and watchdog (`backendredis.py` 80-176, `manager.py` 653-685, `common/configuration/configuration.py` 1274-1409) | two clients, setup_steps, setup_callback, the meta record and queue of a managed Redis | setup, ensure_connected, _get_redis | job manager, Redis daemon |
| Stuck jobs check (`pacemaker/health/stuckjobs.py`) | none of its own | aborts the jobs of nodes that are DOWN | force_abort |
| Request jobs (`common/job/coordinate/*.py`) | database rows | add jobs to their own tree while it runs | add_tree, allow_execution |
| Job archive and deletion (`backendredis.py` 613-765) | files, the `completed` set | move finished trees to disk, delete | jobs Redis |
| Node reports (`common/api/noderegister.py`, `pacemaker/controller/node.py`) | reporting, followreport; node and instance rows | report, retry, apply statuses, start suspended instances | HTTP, job manager |
| Instances on the hearts (`heart/helper/instancemanager.py`, `heart/runtime/base.py`, `heart/controller/instance.py`) | the catalog on disk, exit keys, processes | register, start, stop, check, exit report | heart jobs, supervisor, reports |
| Routing and the current version (`common/job/routing/routing.py`, `common/job/coordinate/current.py`) | the sets of the routing table, is_current | add, remove, switch | routing Redis, database |
| Health manager and checks, periodic tasks (`pacemaker/helper/healthmanager.py`, `common/helper/periodicmanager.py`) | a running flag per group or task | trigger, mark_finished | job trees with abort handlers |
| Uploads (`static/js/views/widget/fileupload.js`, `static/js/libs/resumable/`, `common/api/upload.py`; `pacemaker/controller/upload.py`) | the chunks of a page or command; parts and files on the pacemaker | test, send, retry, cancel; store, assemble | HTTP requests, files named after user, size and name |
| Log streams (`static/js/views/widget/logviewer.js`, `pacemaker/controller/stream.py`, `common/api/log.py`, `util/joblogging.py`) | viewers with a position; subscriptions, connections to other nodes; watches of files | subscribe, unsubscribe, send lines, notice growth, close | socket, log files |
| Socket of the pages (`static/js/libs/socket.io/`, which the project has modified, and `static/js/app.js`) | connected, connecting, reconnecting, transport, buffer, timers | connect, fall back, reconnect, send | handshake, websocket, polling |
| Placement, ports, services, cron, controllers, plugins, pages | see `PROJECT.json` | | |

What is hard here: every node acts on the same trees, every operation of the
job manager is a chain of Redis round trips with other operations between any
two of them, statuses come twice (directly and through Redis), request jobs
extend a tree that is running, and nodes, connections and the Redis itself stop
and come back.  In the pages, requests are aborted while their data is on its
way, answers come out of order, and events of connections that were given up
still arrive.  The properties that make the parts correct:

- *jobs*: children before parents, each job once, success only of what
  succeeded, finished states final, indexes equal to states, context complete;
  a tree without failures succeeds; after a failure, an abort or a crash every
  job ends and the abort handlers run once;
- *connection*: the startup completes, both connections come back, nothing
  that was missed meanwhile is forgotten, a running node is not stopped by a
  failure of its Redis;
- *uploads*: an upload goes on while there is something to send, ends, sends
  nothing after its end, and what was reported as complete is there;
- *log streams*: a viewer gets every line, nobody watches a log that nobody
  reads;
- *socket*: one loop of attempts at a time, it gets the connection back, and
  packets that were buffered are sent;
- *reports and instances*: the pacemaker ends with the state that the heart
  has, an instance is started once, an exit report belongs to the process that
  ended;
- *routing*: the table has what the database says once the jobs are done;
- *health, periodic tasks*: one run at a time, and always another one later.

## 2. Modules

| Module | Models |
|---|---|
| `JobStore` | the job hashes, index sets and contexts in Redis; one operator per transaction |
| `JobTree` | the abstract specification: what a tree of jobs promises |
| `JobTreeProofs` | theorems about `JobTree` |
| `JobManager` | the job managers of all nodes over `JobStore`: requests, replies, IO loops, status messages, runners, users, the stuck jobs check, crashes and restarts |
| `JobManagerRefinement` | `JobManager` implements `JobTree` |
| `MCJobManager` | the forests of jobs that the runs use |
| `JobManagerProofs` | theorems about `JobManager`: types, what success means, what happens once |
| `JobManagerTreeProofs` | theorems about `JobManager`: the order in which a tree runs |
| `JobManagerPromiseProofs` | theorems about `JobManager`: that it implements `JobTree`, the context that jobs get, one start across crashes, the index sets and ends of undisturbed trees |
| `BackendConnection` | the two connections of a node to the jobs Redis |
| `MCBackendConnection` | the worlds that the runs use |
| `BackendConnectionProofs` | theorems about `BackendConnection` |
| `Upload`, `MCUpload` | uploads in chunks: clients, pacemaker, requests that are lost |
| `UploadProofs` | theorems about `Upload` |
| `LogStream`, `MCLogStream` | log viewers, the pacemaker, a heart node, log files |
| `LogStreamProofs` | theorems about `LogStream` |
| `StreamSocket` | the socket of a page; TLC runs it as it is |
| `StreamSocketProofs` | theorems about `StreamSocket` |

### How JobManager corresponds to the code

A node is one thread.  `cmds[n]` is the pipeline of its Redis connection: the
client (`thirdparty/tornadoredis/client.py`) sends commands in the order they
are issued and the replies come back in that order.  A command is a record with
what its callback remembers.  One action executes the head of the pipeline at
the server and runs its callback, up to the next commands it issues.  Joining
the two is sound: a callback reads only its reply and the memory of its own
node, which no other node can change in between.

| Code | Actions |
|---|---|
| `get_root`, which most operations begin with | `GetRoot` |
| `add_tree`, `add_job`, `tag_job` | `Submit`, `AddJobs`, `AddJob`, `TagJob` |
| `allow_execution`, `set_state_tree` | `ListTree`, `GotCurrentState`, `TreeJobSet`, `TreeSet` |
| `evaluate`, `get_ready_to_run` | `Evaluate`, `WaitingJobs`, `StartJobs` |
| `_start_job` | `StartJobs`, `Instantiate`, `GotContext`, `GotCurrentState`, `StartRunner` |
| `success`, `failed`, `aborted`, `completed` | `Succeed`, `Fail`, `AbortJob`, `ContextStored`, `GotFinishedJob`, `GotCurrentState`, `StateUpdated` |
| `handle_failure` | `HandleFailure`, `ListTree`, `TreeJobSet`, `AbortRunners`, `FindAbortHandlers`, `AbortHandlerJob`, `RunAbortHandler` |
| `abort`; `force_abort` | `UserAbort`; `NodeJobs`, `ListTree`, `TreeJobSet` |
| `job_status`, `send_job_status`, `_on_job_status_message` | `JobStatus`, `SendJobStatus`, `PublishStatus`, `Receive` |
| `prepare` after a restart; stuck jobs check | `Restart`, `NodeJobs`; `SweepNode`, `NodeJobs` |

Every node has its own copy of `runners`, `in_startup`, `abort_handlers` and
`double_process_filter`.  `starts`, `succeeded` and `handled` are history
variables: no action reads them.

Abstractions, and why they are harmless:

- The code keeps three index families, per node, per parent and per tree.  The
  same transactions write them with the same states, and the node, parent and
  root of a job never change, so `idx[S]` stands for all three.
- The contents of contexts are the set of jobs whose output is in them.  The
  context that `add_job` may store at once is not part of it: only roots of
  submitted trees have one, and they are not started before it is stored.
- Which tags a job has is left out; that setting them takes two more round trips
  before `add_tree` goes on to the next job (`TagJob`) is not.
- Statuses NEW and RUNNING are not sent: `job_status` does nothing for them but
  put a key in its filter.
- `abort_handlers` gets a job when `add_job` is answered, in the code when it is
  issued; nothing can look for the job in between.
- The size of the filter is looked at once per broadcast instead of once per
  message.
- A job that fails by raising and one that calls `failed()` are the same, as
  `handle_exception_job` makes them.
- `get_ready_to_run` counts the children of a job and those that succeeded with a
  pipeline that is no transaction (`backendredis.py:517`), so commands of another
  node may come between the two counts.  `Ready` takes them at once.
- An `abort_job` that raises changes nothing.  (The error goes to the handler of
  the job whose callbacks run, which by then has finished.)

### JobTree and how JobManager implements it

`JobTree` says what the documentation promises to the authors of jobs
(`developer-major-systems.rst`, "leaf jobs are executed first"): a job is
*absent*, *added* below a parent that has not started, *started* once all its
children have succeeded, and then *succeeded* or *ended*.  A crash ends all the
jobs that its node runs at once, so `End` takes a set of them.  It knows no Redis
and no nodes.  `Promise` in `JobManagerRefinement` maps the state of the job managers
to it: a job is started when `start_job` was called, succeeded when its runner
has called `success()`, ended when its runner is gone or has reported anything
else, and added when its hash is in Redis.  The mapped step of a success is the
call in the runner; storing context and state follow, and the parent can start
only after them, which is what the refinement checks.  `StartsInOrder`
(`JobTree!Spec`) holds with failures and crashes; `KeepsPromise`
(`JobTree!FairSpec`) adds that without them every job of a submitted tree starts
and succeeds.  `KeepsPromise` leaves out `End`, so it also says no job ends
otherwise.

### How BackendConnection corresponds to the code

One node.  `conn` says what `self.redis` and `self.pubsub_client` are, `steps`
and `target` are `setup_steps` and `setup_callback`, `daemon` and `queue` the
meta record of `_get_redis` (NONE when the Redis is not managed by the node),
`starter` the error callback of the request that started the daemon, `watch`
whether the watchdog runs.  Without a password, `connect()` and the
subscription are synchronous, so `Setup` is one step unless the daemon has to
start.  `missed` is the ghost of what the connection is for: a job became ready
and no `evaluate()` has come since.  `Command` is a job of the node that uses
the client, which reconnects by itself in `execute_command`.  `world` is chosen
at the start from `Worlds`: whether the managed Redis starts slowly, whether its
start may fail, what is lost, and whether jobs use the client.

### How Upload corresponds to the code

`chunk[u][c]` is what the request of a chunk is doing, as `ResumableChunk.status`
has it, with *uploading* split up: looked for (`test`), to be transmitted
(`post`), transmitted (`sent`, where the last progress event has come), and
waiting for the assembly (`waiting`).  A page sends `Slots` chunks at a time and
sends a chunk again whose request was not answered.  A command line client sends
one at a time.  When a request is not answered it has no body to parse, raises
before it gets to its error callback, and is `lost`.

| Code | Actions |
|---|---|
| `fileAdded`, `upload`, `uploadNextChunk` | `Add`, `UploadNext` in `Succeed` |
| `test` and the GET handler | `Test`, `TestLost` |
| `send` and the POST handler | `Transmit`, `Post`, `Refuse`, `PostOrphan` |
| no answer: `status` (page), `_on_chunk_sent` (command line) | `Drop` with `Unanswered` |
| `progress`, `chunkEvent`; `abort`, `cancel`, `destroy` | `Progress`, `Progressed`, `Succeed`; `End`, `Leave` |
| `assemble_chunk` | `AssembleNext`, `AssembleFails`, `Assembled` |

A request and its answer are one step where nothing but the answer depends on
when it comes.  `assemble_chunk` runs in callbacks of the IO loop, which keep the
stack context of the request (`common/controller/base.py:94`): when it comes to a
part that another assembly took, the error becomes a 500 for the request that
waits, and its upload is `torn`.  `reached` is `_prevProgress`: `progress()` never
falls back, so once it was 1 the next success of any chunk reports the file.
(That `progress` adds fractions and rounds up from 0.999, and that multipart
bodies are longer than their chunk, is left out.)  What an aborted request had
sent stays in `orphans` and may be stored later; `orphans` and `asm` are sets, so
equal requests that nobody waits for count as one.  A part is a version of the file in place of its bytes; parts have
the size of their chunk, so "the sizes add up" is "all are there".

### How LogStream corresponds to the code

A position is a number of lines in place of bytes.  `session` is the
`StreamConnection` of the page on the pacemaker, `conns` are the connections it
makes to the heart node (one for each subscription), with the `StreamConnection`
at their other end; `lookups` are subscriptions that wait for the database;
`watch` is `JobWatcher.watches` of the node that has the log.  Messages to and
from the page are two FIFO channels.  `Pause` and `Destroy` are the two ways to
unsubscribe, and a new viewer of the same job listens to the same events, so
lines of the old subscription reach it.

### How StreamSocket corresponds to the code

The state of `Socket` is one record and each handler an operator from record to
record, since handlers publish events to each other synchronously: `OnConnect`
calls `MaybeReconnect`, `OnDisconnect` calls the page's handler, `PublishDisconnect`,
which calls `reconnect()`.  Where a handler raises (`Made`, `CanSend`, `Raises`:
a transport without a connection, a websocket that is still connecting) what
comes after it is not done.

- *Timers.*  A variable of the code that holds a timer is overwritten while the
  timer before it runs on.  `retryTimer` and `timer` say whether the one that
  `reconnectionTimer` and `connectTimeoutTimer` hold is pending, `oldRetries` and
  `oldTimers` whether any earlier one is.  How many those are is left out: after
  one has fired there may be more or not.  `quick` counts the calls 10 ms after a
  websocket error.  Timers fire in any order.
- *Transports.*  One that nobody refers to any more stays in `late` (still
  opening) or `closing` (its close event is to come): its handlers change the same
  socket.  In WebKit browsers the opening of a polling transport waits until the
  page is loaded (`deferred`, `Ready`), and opens whatever transport the socket has
  by then.
- *Ends.*  `Silence` is every way in which the socket is closed without an event of
  its connection: heartbeat timer (also while the transport opens), close timers,
  a 'disconnect' of the server.  `ReconnectAdvised` is `onError` with the advice to
  reconnect.
- *History.*  `refused`, `advised`, `swallowed` and `overruled` are read by the
  properties alone.

## 3. Runs

| Run | Instance | Shows |
|---|---|---|
| `JobManagerRequest` | one of two trees: a request job adds a tagged container and a job on the other node (4 jobs, 2 nodes), or two request jobs of one node extend their tree at once (6 jobs) | `IndexMatchesState`, `LeavesFirst`, `FinishedIsFinal`, `ContextComplete`, `KeepsPromise` |
| `JobManagerFailure` | one of two trees: two parallel jobs of which one may fail, with an abort handler (3 jobs), or one job that a user aborts; a filter that is emptied at every message, evaluations at any time; 1 node | `StartedOnce`, `SuccessIsEarned`, `HandlerRunsOnce`, `HandlersRun`, `JobsSettle`, `StartsInOrder` |
| `JobManagerRestart` | the node of a child crashes once at any point; 2 nodes, 2 jobs | `IndexMatchesState`, `StartedOnce`, `ContextComplete`, `JobsSettle`, `StartsInOrder` |
| `JobManagerSweep` | one job on a node that crashes and may stay down, or is late and taken for down while it runs; 2 nodes | `RunningEnds` |
| `ConnectionRecovers` | managed and external Redis, up to five losses; a steady world that loses the command connection or the server, and a rough one where the daemon is slow or fails, anything is lost and jobs send commands | `StaysUp`, `PrepareCompletes`, `Relinked`, `NothingMissed` |
| `Upload` | two pages or two command lines with a file of three chunks, two slots, one fault: a lost request or answer, a refused chunk, or a crash | `SlotsRespected`, `QuietAfterEnd`, `NeverStalls`, `UploadEnds`, `ArrivesInTheEnd` |
| `LogStream` | a log on the pacemaker and one on a heart node, up to three lines, two of which fit in a message, two subscriptions | `WatchesBalanced`, `FollowsLog` |
| `StreamSocket` | a websocket and a polling transport, one attempt, three faults; browsers that put polling off and others | `OneLoop`, `BufferIsFlushed`, `KeepsTrying` |
| `FinishedOverwritten` | two request jobs that add jobs on the other node | violates `FinishedIsFinal` |
| `AbortedStarts` | a user abort during a start | violates `AbortedNeverStarts` |
| `ResultOverwritten` | a user aborts a job that is reporting its success | violates `ResultIsKept` |
| `LeavesOvertaken` | two request jobs, of which one adds a tagged container; evaluations at any time; 1 node, 6 jobs | violates `LeavesFirst` |

What the properties leave out, because the code does not have it:

- `PrepareCompletes`, `Relinked` and `NothingMissed` speak of a *prompt* world,
  where the managed Redis is up before the next check.
- `UploadEnds` says that the uploader is told how its upload ended; a command line
  that is `lost` is not told (§4), which the property names as its one exception.
- `ArrivesInTheEnd` excuses crashes, a chunk that the pacemaker refuses when it is
  sent again, and uploads that were left afterwards (a page stays `active` after
  its success).
- `FollowsLog` asks for the lines that `MAX_LOG_SIZE` allows, and for none that
  an error message has replaced on the page.
- `OneLoop` is about a socket that has transports left to try, was not advised to
  reconnect and lost no 'connect' to an exception; each of the three starts a
  second loop (§4).  The latter two excuses end when no timer is left over.
- `BufferIsFlushed` excuses packets that wait for a post, those of a websocket
  that is still opening (a late event of another transport has made the socket
  *connected*), and `overruled` ones (§4) until `setBuffer(false)` comes again.
- `KeepsTrying` excuses sockets that were refused with a 403, got to their last
  attempts, or whose list of transports is empty.

`TypeOK` is checked once per component.  Each property of a passing run has a
mutant of the code in `PROJECT.json` that violates it.

### Bounds

Names are those of the constants.  Two nodes are enough to have one that acts
and one that hears of it; the races are between the connections of two nodes or
between two callbacks of one.  The forests are the smallest with the shape in
question: parallel children (Fork), a tree that grows below and beside the
running job on another node (Grow), two jobs that make it grow (Twin, Duo, Tag), a
parent that waits for another node (Pair), one job (Lone).  `MaxTrees` is 1: trees
share nothing but the filter and the index sets, and each tree of a forest is
explored on its own.  `MaxCrashes` and
`MaxAborts` are 1: one is enough for each hazard, and a second multiplies the
states by more than ten.  `FilterLimit` is 100 where the filter must never be
emptied (there are fewer messages) and 0 where it always is.  In
`BackendConnection`, `MaxLosses` lets a connection, the server and the daemon's
start fail several times in one behaviour, and `MaxQueue` is the longest queue
that these losses can produce in a prompt world; with a slow daemon it cuts off
more watchdog checks, which is another reason why liveness is stated for prompt
worlds.
In `Upload`, two uploaders are what it takes for parts to be taken away from
under an assembly, three chunks are one more than the two slots, and each fault
is explored at every point of the upload.  `MaxSend` of `LogStream` is less than
`MaxLines`, so that lines are skipped; two subscriptions are a pause and a new
start of one log, or one of each.  In `StreamSocket` three faults are enough to use
up both transports, or the one attempt and the round over all transports after it,
and to leave a transport, a timer or a call behind at any point of either;
`MaxFaults` counts connect timeouts and what the server advises, too.  What is
pending at once is bounded by the faults, not by a constant.
Deadlock is not checked: a finished forest, or a bound used up, is the end.

### Fairness

`FairSpec`: Redis answers, the IO loop runs its callbacks and messages, a
runner ends, a submitted tree is added.  All are weak fairness of one node or
job: a node is a single thread that serves its queues in order.  `RestartSpec`
adds that a crashed node comes back.  `BusySpec` adds that nodes evaluate again
and again: in a cluster the periodic health checks and tasks are themselves
jobs, and each of their statuses makes every node evaluate.  `SweepSpec`: nodes
may stay down, and the stuck jobs check is periodic.  In `BackendConnection`
the watchdog is a periodic callback and servers come up; `PrepareCompletes` asks
for an external Redis that is up when the node starts (otherwise `connect()`
raises in `startup_job_manager` and the watchdog is never made).  In `Upload`
requests are transmitted and answered and the IO loop goes on with its
assemblies; users need not leave.  In `LogStream` messages arrive, connections
are made, the database answers and the files are looked at every 200 ms; logs
need not grow and users need not do anything.  In `StreamSocket` handshakes are
answered, pages get loaded, transports open and the retry timer fires, unless a
fault takes their place; faults are bounded, and all other events and timers may
come but need not.

## 4. Known deviations

Findings with a run:

- **A finished job is put back** (`FinishedOverwritten`).  Request jobs of one
  tree all call `allow_execution` on its root.  `set_state_tree` reads the NEW
  jobs once; a job in the lists of two calls may run to SUCCESS on its node
  between the two writes and is then set WAITING, in the index sets of both
  states.  The comment at `manager.py:259` says only the node that has a job
  mutates it.  `in_startup` stops a second run, and the tree never ends.
- **An aborted job starts** (`AbortedStarts`).  Between the look at the WAITING
  set and `set_attrs` to RUNNING there are four round trips in which
  `handle_failure` of the same node may set the job ABORTED.
- **A result turns into another one** (`ResultOverwritten`).  `completed` reads the
  state of the job and writes the new one in a later step, so that "SUCCESS/ERROR
  jobs" do not "turn into ABORTED jobs" (`manager.py:348`).  `handle_failure` queues
  `abort_job` for a job that it found RUNNING; when the job calls `success()` before
  the callback runs, both reports read RUNNING.  The job ends ABORTED, in the index
  sets of both states, both results are broadcast, and `abort_job` was called on a
  job that had reported, against the docstring in `common/job/base.py:112`.
- **A container runs before its jobs** (`LeavesOvertaken`).  The request jobs for
  startup, shutdown and deregistration add a container with tags, and jobs below
  it.  `add_job` goes on after `tag_job` has made two more round trips; when another
  request job of the tree makes it executable in that time, the container has no
  children yet, is ready and runs, and its parent may follow.

Further behaviour TLC showed while the models were written; each is a hazard in
`PROJECT.json`, without a run:

- `setup()` counts two steps even when it asks for one connection, so after the
  loss of the pub/sub connection alone `reconnect_success` never runs and the
  statuses missed meanwhile are not made up for; `NothingMissed` is checked for the
  other losses.
- The abort races of `AbortedStarts` and `ResultOverwritten` leave a job in two
  index sets, against the docstring of `RedisJobBackend`.
- A user abort of a tree of several jobs that is not yet wholly WAITING leaves
  jobs that nobody aborts or finishes; the tree of `JobManagerFailure` that a user
  aborts has one job.
- A crash after FAILED is stored and before it is published leaves the tree
  waiting for ever.  A crash in a quiet cluster leaves WAITING jobs: `prepare`
  does not evaluate.
- With a managed Redis that starts slower than `job_manager_check_interval` the
  watchdog overwrites the callback of the startup, which then never completes
  (hence prompt worlds).  A start that fails once leaves the meta state STARTING
  for ever.
- The stuck jobs check that runs while the node restarts breaks
  `IndexMatchesState`: both set the same jobs.
- A page says "Upload complete." (`fileupload.js:49`) when a chunk succeeds and
  the last bytes of all others have been sent (`resumable.js:151`, `381`), while
  the request that assembles the file is not answered; hence
  `ArrivesInTheEnd`, which is about the end.
- The docstring of `send_file` promises an `error_callback` "if an error occurs"
  (`common/api/upload.py:44`).  When a request of the command line gets no answer,
  as in a crash, `json.loads(response.body)` raises on `None`
  (`common/api/upload.py:131`) before `error_callback` is called, and the command waits
  for ever: without its exception `UploadEnds` is violated after one fault.
- A page and a command line have one name for the parts of a file (size and
  name) but chunks of 512 KB and 1 MB.  Together on one file their parts
  either never add up or add up to a wrong file.  The runs have one kind of
  client at a time, and one version of the file: parts that an earlier upload
  of other contents left behind are adopted in the same way.
- A viewer of a log that is empty when it subscribes stays empty: no position is
  stored, so `log_message_update` raises (`stream.py:302`).  `common/api/log.py`
  says of such a log "Later on, log lines might appear".  The logs of `LogStream`
  have a line.
- Connections to a heart node are looked for in `log_remote_subscriptions`
  instead of `log_remote_connections` (`stream.py:373`), so every subscription
  makes a new one; an unsubscription closes the last, whosesoever it is, and the
  others leak.  `WatchesBalanced` therefore counts connections that are open,
  not those somebody uses.
- The list of transports of the socket is spliced in place (`socket.io.js:1731`)
  and `origTransports` is the same array, so it is never filled again.  Once it is
  empty, two handshakes can be under way, and each answer fails and sets a
  timer of its own (`socket.io.js:2030`): two loops from then on, which is why
  `OneLoop` is about a list that is not empty.
- After an error with the advice 'reconnect' (`socket.io.js:1941`) the page's handler
  of 'disconnect' calls `reconnect()` and `onError` calls it again: two loops.
- A late event of a given-up transport may make the socket connected while a
  websocket opens or none is left; flushing the buffer then raises, 'connect' is
  not emitted, and the loop that would end with it goes on beside the next one.
- A polling transport calls `setBuffer(false)` when it begins to open.  When another
  websocket ends before it has opened, `onclose` sets `doBuffer` again
  (`socket.io.js:2383`), and what was buffered waits, connected or not, for the next
  `setBuffer(false)`: packets are only put behind it.
- A job may start again after a crash of its node even if its first start went
  through, when request jobs add to its tree: `allow_execution` of two of them
  finds the job NEW, one write of WAITING comes after the start, and
  `in_startup` is empty after the restart.  `StartsCounted` allows one start per
  process.  In other trees it cannot happen (`StartsOnceAcrossCrashes`).

## 5. Proofs

All theorems hold for every value of the constants that satisfies the named
assumptions of the module (`ForestAssumption`, `JobsAssumption`,
`ManagerAssumption`, `RequestAssumption`, `ConnectionAssumption`,
`UploadAssumption`, `LogStreamAssumption`, `StreamSocketAssumption`); those with a
hypothesis of their own state it.  None uses fairness.  `ForestAssumption` says
that following parents ends at the root (`add_job` makes ids, so a job cannot be
its own ancestor), `RequestAssumption` which jobs one call of `add_tree` adds.

### JobManagerProofs

- `TypeCorrect`: `Spec => []TypeOK`;
- `SuccessEarned`: `Spec => []SuccessIsEarned`;
- `StartsPerProcess`: `Spec => []StartsCounted`, `start_job` is called at most
  once per process of the job's node, however evaluations, statuses, aborts and
  rewrites of the job's state interleave;
- `StartsOnce`: where the nodes of the jobs do not crash, `Spec => []StartedOnce`;
- `HandlersRunOnce`: where the nodes of request jobs do not crash,
  `Spec => []HandlerRunsOnce`.

`SuccessIsEarned` says nothing of the commands on their way to Redis, so it is
not inductive: a command that is about to set SUCCESS could belong to a job that
never succeeded.  `IInv` adds that every queued command and callback is *good*:
well typed, with a job that `succeeded` has whenever it would finish that job
with SUCCESS, and with no tree operation that sets SUCCESS.  Goodness is
monotone in `succeeded`, so commands stay good while other jobs succeed.  The
proof shows that each kind of step keeps the queues good (`SendGood`,
`RunsGood`), then goes through the actions in groups: replies that only read
(`ReadSafe`), that finish jobs (`FinishSafe`), that write (`WriteSafe`), the IO
loop (`RunSafe`), runners (`RunnerSafe`), environment (`EnvironmentSafe`).

`_start_job` is a chain of four round trips, and each of its commands may start
the job at its end.  `StartInv` says that the pipeline of a node has at most one
command of the chain of a job, that the job is in `in_startup` while it has one,
and that a job whose starts are used up stays in `in_startup`; so a second
evaluation that finds the job ready does not begin a second chain.  A crash is
what breaks it, since `in_startup` is lost while a stale write of WAITING may
still come: hence one more start per crash, and hence the hypothesis of
`StartsOnce`.  (`StartsOnceAcrossCrashes`, below, is about the trees in which no
such write comes.)

An abort handler is found by `find_abort_handlers`, which removes it from
`abort_handlers` and walks the tree to run it; it could run twice if the job
were registered twice.  `HandlerInv` says there is one token among the entry in
`abort_handlers`, the calls on their way and `handled`, and `AddInv` that a job
is registered once: it has at most one `add_job` on its way, none once it has
been added, and a batch is added by a runner that starts once (so `AddersStay`
is needed: a request job whose node comes back would add its jobs again).

### JobManagerTreeProofs

- `LeavesBeforeRoots`: under `Requests`, `Spec => []LeavesFirst`.

`LeavesFirst` is what `get_ready_to_run` is for, and two counts that agree are
not enough for it: a job that has been added has no children *yet*.  The
hypothesis `Requests` says which request jobs the order relies on:

- they are on nodes that do not crash (a second start would add a second tree
  below jobs that may have started), and those of one tree on one node: `add_job`
  puts the jobs that need no other node on the node that adds them;
- they add beside themselves and not below: `parent_id` or `root_id` of the
  metadata.  A `currentrequest` that is itself the root (`current.py:261`) adds
  below itself after it has started, so `LeavesFirst` does not speak of it;
- a job with tags is added in a tree without other request jobs that add: with
  another one the property fails, which `LeavesOvertaken` shows.

The passing runs of `JobManager` satisfy `Requests`; the run `LeavesOvertaken`
does not.

The invariant (`TreeInv`) follows a job from `add_job` to its start.  A job is
*launched* when `in_startup` has it or it has started; `LeavesInv`, the
strengthening of `LeavesFirst`, says that the children of launched jobs have
succeeded.  A step can break it in two ways.  It may launch a job: then
`get_ready_to_run` has counted the children in the same step, and
`SuccessIsEarned` (in `IInv`) says the counted ones succeeded.  Or it may add a
child below a launched job; that it never does is the hard part:

- a *silent* job is not in the WAITING set, not launched, and no command on its
  way in any pipeline would make it WAITING or start it.  While a tree is
  submitted, all its jobs are silent (`OpeningInv`): `allow_execution` comes
  after the last `add_job`, in the same pipeline;
- a request job has one command of its `add_tree` on its way and succeeds after
  the last (`AdderInv`), so nothing above it has been launched
  (`NothingAbove`), and its first job has a parent there;
- the next ones have a parent at or above the job `m` just added (`GrowthInv`).
  Another request job of the tree may find `m` NEW and make it WAITING at that
  time.  `Guards` says why `m` still sleeps when the next `add_job` arrives: all
  request jobs of the tree use one pipeline, and `add_job` needs one `get_root`
  and one transaction where `set_state_tree` needs two reads and a transaction
  per job, so that write is always behind.  `tag_job` needs two round trips
  more, which is what loses the race in `LeavesOvertaken`.

The proof splits the steps into *mild* ones, which add no job (`MildSafe`, with
one lemma per conjunct: `LiveKept`, `PendingKept`, `AdderKept`, `OpeningKept`,
`GrowthKept`), and those of `add_tree` (`AddTurnTree`, `BeginTree`).  All rest
on lemmas about pipelines: what a turn, which takes a command off the front and
puts commands behind, does to sets of commands and to the order of two sets
(`TurnFacts`, `TurnOrder`).  TLC checked the conjuncts of `TreeInv` on the
instances of the runs, and on one of seven jobs, before they were proved.

### JobManagerPromiseProofs

- `PromiseWhileOnce`: under `Requests` and `AddersRunOn`,
  `Spec /\ []StartedOnce => StartsInOrder`;
- `ContextIsComplete`: under `Requests`, `Spec => ContextComplete`;
- `StartsOnceAcrossCrashes`: under `Requests`, if the nodes that crash have only
  jobs of trees to which no request job adds (`Fixed`), `Spec => []StartedOnce`;
- `ImplementsPromise`: under both hypotheses and `AddersRunOn`,
  `Spec => StartsInOrder`;
- `IndexFollowsState` and `FinishedStays`: under `Requests`, a job of an
  *undisturbed* tree is always in the index set of its state and in no other, and
  keeps its state once it has finished, whatever happens to the other trees;
- `IndexIsExact` and `FinishedForGood`: where all trees are undisturbed,
  `Spec => []IndexMatchesState` and `Spec => FinishedIsFinal`.

The refinement adds what the runners do.  `WorkInv` says that a runner works only
between `start_job` and `success()`, that the runner of a request job is adding
as long as one of its commands is on its way, and that behind each of these
commands no job is lost: every job that the request job adds is in Redis already
or still in the command (`Whole`).  A step is then one of four:

- a *lull*: no job is added, starts or succeeds; the runners that are gone after
  it are the jobs of `End` (`LullEnds`).  Nearly every step is one: replies, the
  IO loop, statuses, users, checks, crashes;
- `success()`, of a job that adds nothing, or of a request job whose
  `allow_execution` is through (`DoneSucceeds`);
- the reply to `set_attrs` that calls `start_job` (`StartStarts`): the order
  comes from `LeavesInv`, "not before" from `StartedOnce`;
- the transaction of `add_job` (`AddAdds`): `WhereAdded` says that the parent is
  there and has not been launched, `BusyInv` that the request job still runs.

`AddersRunOn` says that a request job that adds jobs has no `abort_job`, as none
in `common/job/coordinate` and `manifestreader.py` has: one that could be aborted
would go on adding after it has ended.  `[]StartedOnce` is a hypothesis of
`PromiseWhileOnce` since a crash may give a job a second start (§4);
`StartsOnceAcrossCrashes` discharges it.

The output of a job comes to its parent along a chain that no transaction holds
together: `completed` stores the context and sets SUCCESS in later commands; of the
parent, `get_ready_to_run` counts the children, three round trips later `_start_job`
has read the context, and two more later `start_job` gets it.  `ContextInv` says what
each link knows.  A command that reports SUCCESS comes after the context of its job
is stored, so the success index holds only jobs whose output is *kept* (stored, or
empty); the children of a launched job are kept, since it was launched when the
index had them all; and a command that is going to call `start_job` has read them.
That what was read stays complete is the part that the order of the tree gives: a
launched job gets no more children (`LaunchKept`, from `WhereAdded`).  It holds of
second starts too: a job that is started again after a crash reads its context
again.  That each link knows it comes from going through all actions once
(`StepIssues`): what is in a pipeline after a step was there before, does nothing
to jobs, follows from the command whose reply it is, or reports the end of a job
(`Issuable`).  TLC checked `ContextInv` on the instances of `JobManagerFailure`,
`JobManagerRequest` and `JobManagerRestart` before it was proved.

After a crash nothing but the waiting set keeps a job from starting again, so
`StartsOnceAcrossCrashes` needs that a job which has started never gets back into
it.  `FixedInv` follows the writes of its state:

- `WakeInv`: while the tree is submitted, or a write of WAITING is on its way, the
  job is not *woken* (it is absent or NEW); there is at most one such write, in the
  pipeline of the node that submitted the tree.  `OpeningInv` gives the first
  write, since nothing of the tree is on its way to WAITING before its list comes
  back; `WakeSet` shows that none is left after it: the command goes on with the
  other jobs of its list;
- `Sound`: every other command that works on the job finds it woken, and one that
  takes it out of waiting either finds it out already or removes it from the
  waiting set, since the state it has read is still WAITING;
- `SeenInv`: so what is in the waiting set has the state WAITING, and what the
  index sets and callbacks speak of is woken;
- `FirstInv`: so what has started is past WAITING for good, and the evaluations
  that saw it waiting before find it in `in_startup`, or died with it.

It says nothing of failures, aborts, sweeps or the number of crashes: they write
other states.  TLC checked its conjuncts with two nodes that both crash under
a tree of three jobs that may fail or be aborted before they were proved.

A tree is *undisturbed* when no request job adds to it, none of its jobs fails or
is aborted by a user, and its nodes neither crash nor seem down to the others.
This cannot be dropped: §4 tells how an abort leaves a job in two index sets and
how a second request job throws a finished one back.  What the theorems exclude is
that the ordinary course of a job does the same by itself, with evaluations,
statuses and commands of several nodes interleaved, and that the failures and
aborts of other trees, whose commands share its pipelines, or the crashes of other
nodes reach into it.
`set_attrs` takes the job out of the sets of the state that `get_job` read a
command before, so the state must not change between the two.  `CalmInv` adds:

- `GentleInv`: no command under way fails or aborts a job of the tree, lists such
  jobs, or looks for them on a node (`Gentle`), nor does a status or callback; so
  a failure has no way in, and this needs that `set_state_tree` and `publish` go
  on with jobs of the tree they started from only;
- `CourseInv`: the job goes from NEW over WAITING and RUNNING to SUCCESS.  A job
  that has been woken and not started is WAITING, one that has started is RUNNING
  or has succeeded.  The success of a job is on its way once at most, in the
  pipeline of its node, while the job is RUNNING and its runner is no longer active
  (`Ending`): `EndingFewer` shows that only `success()` puts one there, `EndTaken`
  that `on_state_updated` takes it;
- `Exact`: every transaction of `set_attrs` under way has the state before it in
  that course as the one it replaces.

So the three writers of the state (`allow_execution`, `start_job`, `completed`)
never have writes under way at the same time (`CourseFacts`).  TLC checked the
conjuncts with two trees of which one is disturbed, and with undisturbed
trees on two nodes, before they were proved.

### UploadProofs

- `TypeCorrect`, `SlotsAreRespected`, `QuietAfterTheEnd`
  and `NothingStalls` for the properties of the same run.

`NeverStalls` says of an uploader that each of its open requests will be answered,
and that it has one while chunks are left.  Its requests may be answered by an
assembly that those of another uploader compete with, and that may die of it.
`IInv` adds that an assembly answers a request that waits for it (`Awaited`), that
a request that waits has an assembly (`WillBeAnswered`), that two do not answer the
same one, that only an active upload has chunks, and that the slots bound those in
flight.  The
cardinalities come from the theorems about finite sets, the next chunk that
`uploadNextChunk` takes from the well-foundedness of `<`.

### LogStreamProofs

- `TypeCorrect` and `WatchesAreBalanced`: the reference count of a watched log
  is one for the page and one for each open connection that follows it.

A pause, a new viewer, a connection that opens late and a page that closes all
change the count.  The proof needs that a subscription is in one place
(`Numbered`: the channel, the lookups of the database, or the connections) and
that the page gives a subscription up before it makes the next (`Alternating`:
without it a second `subscribe` would count twice and the one `unsubscribe` take
one away).  The pacemaker sends to all its followers in one step; that what they
get is well typed is shown by the first connection for which it would not be.

### StreamSocketProofs

- `TypeCorrect`, `ReconnectsOnce` (`OneLoop`) and `NothingHeldBack`
  (`BufferIsFlushed`), for any number of transports, attempts and faults.

Handlers call each other, so every operator has a lemma that says which record
it may be given and what it returns: `Good` between steps, `Calm` where a handler
has not yet seen to the buffer.  `Calm` says that

- the retry timer runs only for a loop, and no earlier one runs (`Timers`), and a
  connected socket is not reconnecting (`Loop`), with the excuses of `OneLoop`;
- the transport is the first one on the list or the socket has had none
  (`Listed`), which bounds what `HandleReconnection` splices off;
- a polling transport that opens has released the buffer, unless a post or another
  transport's end holds it (`Released`).

`Good` adds of a connected socket that it holds packets back for a post only, and
that what waits, waits for one (`HeldBack`, `Waits`).  No timeout is excused: that
a transport was given up while it opened is what `Released` and the late transports
in `Polls` are for.

### BackendConnectionProofs

- `TypeCorrect`: `Spec => []TypeOK`;
- `NeverStopped`: `Spec => []StaysUp`.

`StaysUp` is not inductive: a daemon that was started for the startup may fail
after the startup completed by other means.  The invariant adds what rules this
out: before `prepare` the node is as it was made (`Fresh`), only `prepare` is
the first to ask for the managed Redis (`Asked`), and while a daemon is starting
on behalf of the startup, the startup is not complete (`Starting`).

### JobTreeProofs

- `OnceOnly`: `Spec => []RunsOnce`;
- `LeavesBeforeParents`: `Spec => []FromTheLeaves`.

`RunsOnce` needs that a job that has not begun has no run; `FromTheLeaves` is
inductive with types because nothing is added below a job that has begun.  By
`ImplementsPromise` both hold of the mapped state of the job managers.

### Model-checked only

- Liveness and ENABLED are out of reach of the prover.
- `IndexMatchesState` and `FinishedIsFinal` of trees that request jobs extend, or
  that fail or crash: the first two deviations of §4 and the abort races break them
  in general, so they are no theorems there.  They hold for the instances whose
  runs check them; undisturbed trees have `IndexIsExact` and `FinishedForGood`.
- `KeepsPromise`, the refinement with fairness; its steps that start, add and end
  jobs are those that `ImplementsPromise` proves.

## 6. Not modelled

- Commands that are lost with the connection they are on (the job manager has
  connections that work; `BackendConnection` has no jobs), plugins that cannot be
  instantiated, deletion of jobs.
- In the web interface, the job views, statistics and the pages: they fetch a
  document and render it.  Most of the JavaScript of the repository is vendored
  (jQuery, Bootstrap, flot, Handlebars, js-yaml, require.js) and is not part of
  the program's own logic; of socket.io, what the pages use and the project
  changed is modelled.
- Every other component that `PROJECT.json` lists as `not_modelled`, with its
  reason.

## 7. Plan

1. Done: `JobStore`, `JobManager`, `BackendConnection`; `JobTree` and the
   refinement; `Upload`, `LogStream`, `StreamSocket`; theorems on types,
   `SuccessIsEarned`, `StaysUp` and the promise of `JobTree`.
2. Done: `StartedOnce` (also across crashes), `HandlerRunsOnce`, `LeavesFirst`,
   `ContextComplete`, the refinement (`StartsInOrder`), the index sets and ends of
   undisturbed trees; types and safety of
   `Upload`, `LogStream` and `StreamSocket`.
3. Lost commands: a connection that closes under the job manager.
4. Node reports and instances on the hearts, routing against a switch of the
   version, the running flags of health and periodic managers over `JobTree`,
   deletion of jobs.
