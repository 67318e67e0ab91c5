------------------------- MODULE BackendConnection -------------------------
(***************************************************************************)
(* How one node gets and keeps its two connections to the jobs Redis       *)
(* (RedisJobBackend in common/job/manager/backendredis.py, the watchdog of *)
(* manager.py, _get_redis of common/configuration/configuration.py).       *)
(*                                                                         *)
(* Without a password, connecting and subscribing are synchronous, so a    *)
(* whole setup() is one step, unless the Redis is managed by the node and  *)
(* has still to start: then the requests wait in the queue of its meta     *)
(* record.                                                                 *)
(***************************************************************************)
EXTENDS Integers, Sequences, SequencesExt

CONSTANTS
  Deployments,  \* {"NONE"}: somebody else runs the Redis; {"CREATE"}: this node does
  Worlds,       \* what the environment of the node may do
  MaxLosses,    \* bound on losses
  MaxQueue      \* bound on the queue of requests

Clients == {"redis", "pubsub"}

World == [
  slow   : BOOLEAN,   \* the managed Redis may start slower than a check comes
  fails  : BOOLEAN,   \* the managed Redis may fail to start
  losses : SUBSET (Clients \cup {"server"}),  \* what may be lost
  busy   : BOOLEAN]   \* the node runs jobs, and so sends commands

ASSUME ConnectionAssumption ==
  /\ Deployments \subseteq {"NONE", "CREATE"}
  /\ Worlds \subseteq World
  /\ MaxLosses \in Nat /\ MaxQueue \in Nat

VARIABLES
  world,     \* the environment of this behaviour
  server,    \* whether Redis accepts connections
  daemon,    \* meta['state'] of the managed Redis, NONE when it has no meta record
  queue,     \* meta['queue']
  starter,   \* whose error_callback the starting daemon has
  conn,      \* the clients of the backend: absent, open or closed
  steps,     \* setup_steps
  target,    \* setup_callback
  watch,     \* whether the watchdog runs
  prepared,  \* whether abort_existing_jobs has run
  missed,    \* whether a job may be ready that no evaluate() has looked at
  losses     \* losses so far

vars == <<world, server, daemon, queue, starter, conn, steps, target, watch, prepared,
          missed, losses>>

Targets == {"none", "prepare", "reconnect_success"}

TypeOK ==
  /\ world \in Worlds
  /\ server \in {"up", "down"}
  /\ daemon \in {"NONE", "CREATE", "STARTING", "STARTED"}
  /\ queue \in Seq(Clients)
  /\ starter \in Targets
  /\ conn \in [Clients -> {"none", "open", "closed"}]
  /\ steps \in Int
  /\ target \in Targets
  /\ watch \in BOOLEAN /\ prepared \in BOOLEAN /\ missed \in BOOLEAN
  /\ losses \in Nat

Init ==
  /\ world \in Worlds
  /\ server \in {"up", "down"}
  /\ daemon \in Deployments
  /\ queue = <<>>
  /\ starter = "none"
  /\ conn = [c \in Clients |-> "none"]
  /\ steps = 2
  /\ target = "none"
  /\ watch = FALSE /\ prepared = FALSE
  /\ missed = FALSE
  /\ losses = 0

-----------------------------------------------------------------------------
Managed == daemon # "NONE"
Linked == \A c \in Clients : conn[c] = "open"

\* The clients that setup() asks for, in its order.
Needed == (IF conn["redis"] # "open" THEN <<"redis">> ELSE <<>>)
          \o (IF conn["pubsub"] # "open" THEN <<"pubsub">> ELSE <<>>)

\* setup_callback: prepare goes on to abort the jobs this node was running,
\* reconnect_success evaluates.
Call(cb) ==
  /\ prepared' = (prepared \/ cb = "prepare")
  /\ missed' = (missed /\ cb # "reconnect_success")

\* Mutant: the callback waits for a step more.
ReadyLate(cs, left, cb) ==
  /\ conn' = [c \in Clients |-> IF c \in ToSet(cs) THEN "open" ELSE conn[c]]
  /\ steps' = left - Len(cs)
  /\ IF left >= 0 /\ Len(cs) > left THEN Call(cb) ELSE UNCHANGED <<prepared, missed>>

\* redis_ready and pubsub_redis_ready for the clients cs, one after the other:
\* each counts down, and the callback runs when the count hits zero exactly.
Ready(cs, left, cb) ==
  /\ conn' = [c \in Clients |-> IF c \in ToSet(cs) THEN "open" ELSE conn[c]]
  /\ steps' = left - Len(cs)
  /\ IF left >= 1 /\ Len(cs) >= left THEN Call(cb) ELSE UNCHANGED <<prepared, missed>>

\* Mutants: the error callback of the startup is kept; the step count is not
\* set again.
SetupKeepsStarter(cb) ==
  /\ target' = cb
  /\ IF server = "up" /\ (Managed => daemon # "STARTING")
     THEN /\ Ready(Needed, 2, cb)
          /\ daemon' = IF Managed THEN "STARTED" ELSE daemon
          /\ UNCHANGED queue
          /\ starter' = IF starter = "none" THEN cb ELSE starter
     ELSE /\ Managed /\ Len(queue) + Len(Needed) <= MaxQueue
          /\ daemon' = "STARTING" /\ queue' = queue \o Needed
          /\ starter' = IF starter = "none" THEN cb ELSE starter
          /\ steps' = 2
          /\ UNCHANGED <<conn, prepared, missed>>
SetupStepsLeft(cb) ==
  /\ target' = cb
  /\ IF server = "up" /\ (Managed => daemon # "STARTING")
     THEN /\ Ready(Needed, steps, cb)
          /\ daemon' = IF Managed THEN "STARTED" ELSE daemon
          /\ UNCHANGED <<queue, starter>>
     ELSE /\ Managed /\ Len(queue) + Len(Needed) <= MaxQueue
          /\ daemon' = "STARTING" /\ queue' = queue \o Needed
          /\ starter' = cb
          /\ UNCHANGED <<steps, conn, prepared, missed>>

\* setup(): always counts from two, however many clients it asks for.
Setup(cb) ==
  /\ target' = cb
  /\ \/ /\ server = "up" /\ (Managed => daemon = "STARTED")
        /\ Ready(Needed, 2, cb)
        /\ UNCHANGED <<daemon, queue, starter>>
     \/ \* The managed Redis is found running: one request went through the queue.
        /\ server = "up" /\ Managed /\ daemon = "CREATE"
        /\ Ready(Needed, 2, cb)
        /\ daemon' = "STARTED" /\ queue' = Append(queue, Head(Needed)) /\ starter' = cb
     \/ \* It is being started, by this or an earlier request.
        /\ Managed /\ (daemon = "STARTING" \/ server = "down")
        /\ Len(queue) + Len(Needed) <= MaxQueue
        /\ daemon' = "STARTING" /\ queue' = queue \o Needed
        /\ starter' = IF daemon = "STARTING" THEN starter ELSE cb
        /\ steps' = 2
        /\ UNCHANGED <<conn, prepared, missed>>
     \/ \* connect() raises.
        /\ ~Managed /\ server = "down"
        /\ steps' = 2
        /\ UNCHANGED <<daemon, queue, starter, conn, prepared, missed>>

\* startup_job_manager: when setup() raises, the watchdog is never made.
Prepare ==
  /\ target = "none"
  /\ Setup("prepare")
  /\ watch' = (Managed \/ server = "up")
  /\ UNCHANGED <<world, server, losses>>

\* Mutant: only the pub/sub connection is looked at.
CheckPubsubOnly ==
  /\ watch /\ conn["pubsub"] # "open"
  /\ (Managed /\ daemon = "STARTING") => world.slow
  /\ Setup("reconnect_success")
  /\ UNCHANGED <<world, server, watch, losses>>

\* ensure_connected, every job_manager_check_interval.
Check ==
  /\ watch /\ ~Linked
  /\ (Managed /\ daemon = "STARTING") => world.slow
  /\ Setup("reconnect_success")
  /\ UNCHANGED <<world, server, watch, losses>>

\* The Redis that is being started listens, before this node hears of it.
DaemonListens ==
  /\ daemon = "STARTING" /\ starter # "none" /\ server = "down"
  /\ server' = "up"
  /\ UNCHANGED <<world, daemon, queue, starter, conn, steps, target, watch,
                 prepared, missed, losses>>

\* Mutant: a state that _get_redis does not know.
DaemonStartedWrong ==
  /\ daemon = "STARTING" /\ starter # "none" /\ server = "up"
  /\ daemon' = "RUNNING"
  /\ Ready(queue, steps, target)
  /\ UNCHANGED <<world, server, queue, starter, target, watch, losses>>

\* on_redis_started: the whole queue is played back, and not emptied.
DaemonStarted ==
  /\ daemon = "STARTING" /\ starter # "none" /\ server = "up"
  /\ daemon' = "STARTED"
  /\ Ready(queue, steps, target)
  /\ UNCHANGED <<world, server, queue, starter, target, watch, losses>>

\* on_redis_startup_failure: the state stays STARTING.  At startup the error
\* callback stops the node, later it only logs.
DaemonFailed ==
  /\ daemon = "STARTING" /\ starter # "none" /\ server = "down"
  /\ world.fails /\ losses < MaxLosses
  /\ starter' = "none"
  /\ watch' = (watch /\ starter # "prepare")
  /\ losses' = losses + 1
  /\ UNCHANGED <<world, server, daemon, queue, conn, steps, target, prepared, missed>>

-----------------------------------------------------------------------------
(* The environment *)
Lose(c) ==
  /\ c \in world.losses /\ conn[c] = "open" /\ losses < MaxLosses
  /\ conn' = [conn EXCEPT ![c] = "closed"]
  /\ losses' = losses + 1
  /\ UNCHANGED <<world, server, daemon, queue, starter, steps, target, watch,
                 prepared, missed>>

\* (Not between DaemonListens and DaemonStarted.  A Redis that is down before
\* the node starts is down in Init.)
LoseServer ==
  /\ "server" \in world.losses /\ server = "up" /\ target # "none"
  /\ daemon # "STARTING" /\ losses < MaxLosses
  /\ server' = "down"
  /\ conn' = [c \in Clients |-> IF conn[c] = "open" THEN "closed" ELSE conn[c]]
  /\ losses' = losses + 1
  /\ UNCHANGED <<world, daemon, queue, starter, steps, target, watch, prepared, missed>>

\* A Redis that somebody else looks after comes back.
ServerBack ==
  /\ ~Managed /\ server = "down"
  /\ server' = "up"
  /\ UNCHANGED <<world, daemon, queue, starter, conn, steps, target, watch,
                 prepared, missed, losses>>

\* Another node publishes that a job of this one became ready.  Without its
\* pub/sub connection the node misses it; else it evaluates, unless the command
\* cannot be sent.
Status ==
  /\ server = "up" /\ prepared
  /\ missed' = (conn["pubsub"] # "open")
  /\ conn' = IF conn["pubsub"] = "open" THEN [conn EXCEPT !["redis"] = "open"] ELSE conn
  /\ UNCHANGED <<world, server, daemon, queue, starter, steps, target, watch,
                 prepared, losses>>

\* A job of the node sends a command: the client reconnects by itself.
Command ==
  /\ world.busy /\ server = "up" /\ conn["redis"] = "closed"
  /\ conn' = [conn EXCEPT !["redis"] = "open"]
  /\ UNCHANGED <<world, server, daemon, queue, starter, steps, target, watch,
                 prepared, missed, losses>>

-----------------------------------------------------------------------------
Next ==
  \/ Prepare \/ Check \/ DaemonListens \/ DaemonStarted \/ DaemonFailed
  \/ (\E c \in Clients : Lose(c)) \/ LoseServer \/ ServerBack \/ Status \/ Command

Spec == Init /\ [][Next]_vars

\* The node starts, its watchdog is periodic, Redis servers come up.
Fairness ==
  WF_vars(Prepare) /\ WF_vars(Check) /\ WF_vars(ServerBack)
  /\ WF_vars(DaemonListens) /\ WF_vars(DaemonStarted)

FairSpec == Spec /\ Fairness

-----------------------------------------------------------------------------
(* Properties *)

\* The managed Redis is up before a check comes, when it is asked for.
Prompt == ~world.slow /\ ~world.fails

\* After the startup, when nothing more is lost, both connections are back in
\* the end (JobManagerBackendWatchdog, ensure_connected).
Relinked == (Prompt /\ prepared) ~> []Linked

\* When the Redis is there, or is the node's own, prepare calls back, which
\* aborts the jobs that the node was running when it stopped and lets pm-server
\* go on with its startup.
PrepareCompletes == Prompt /\ (Managed \/ server = "up") => <>prepared

\* A node that has started does not stop because Redis fails to come back: the
\* error callback of its startup is not called again (pm-server.py).
StaysUp == prepared => watch

\* A job that became ready while the node was disconnected is evaluated
\* (reconnect_success: "Trigger off any pending jobs").
NothingMissed == (Prompt /\ missed) ~> ~missed
=============================================================================
