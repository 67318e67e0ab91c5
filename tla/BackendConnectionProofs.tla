---------------------- MODULE BackendConnectionProofs ----------------------
(***************************************************************************)
(* Theorems about BackendConnection, for both deployments and every bound: *)
(* its types, and that the failure of the Redis of a node that has started *)
(* never calls the error callback of its startup.                          *)
(***************************************************************************)
EXTENDS BackendConnection, TLAPS

\* What a node is before startup_job_manager.
Fresh ==
  target = "none" => /\ ~prepared /\ ~watch
                     /\ daemon # "STARTING"
                     /\ conn["redis"] = "none"

\* The managed Redis is first asked for by prepare.
Asked == daemon = "CREATE" => target = "none"

\* While a Redis starts on behalf of the startup, the startup is not complete;
\* and nobody hears of a start whose node has no watchdog.
Starting ==
  daemon = "STARTING" => /\ starter = "prepare" => ~prepared
                         /\ starter # "none" => watch

IInv == TypeOK /\ Fresh /\ Asked /\ Starting /\ StaysUp

-----------------------------------------------------------------------------
\* setup() asks for clients only.
LEMMA NeededType ==
  ASSUME TypeOK
  PROVE  Needed \in Seq(Clients)
<1>1. "redis" \in Clients /\ "pubsub" \in Clients
  BY DEF Clients
<1> QED
  BY <1>1 DEF Needed

\* Without a command connection, it is the first that setup() asks for.
LEMMA NeededHead ==
  ASSUME TypeOK, conn["redis"] # "open"
  PROVE  Head(Needed) \in Clients
<1>1. "redis" \in Clients /\ "pubsub" \in Clients
  BY DEF Clients
<1> QED
  BY <1>1 DEF Needed

\* The callbacks of the connections keep the types, whatever list cs of
\* clients and whatever count they have; only prepare completes the startup.
LEMMA ReadyType ==
  ASSUME TypeOK, NEW cs \in Seq(Clients), NEW left \in Int, NEW cb \in Targets,
         Ready(cs, left, cb)
  PROVE  /\ conn' \in [Clients -> {"none", "open", "closed"}]
         /\ steps' \in Int
         /\ prepared' \in BOOLEAN /\ missed' \in BOOLEAN
         /\ prepared' => prepared \/ cb = "prepare"
<1>1. conn' \in [Clients -> {"none", "open", "closed"}]
  BY DEF Ready, TypeOK
<1>2. steps' \in Int
  BY DEF Ready
<1>3. /\ prepared' \in BOOLEAN /\ missed' \in BOOLEAN
      /\ prepared' => prepared \/ cb = "prepare"
  BY DEF Ready, Call, TypeOK
<1> QED
  BY <1>1, <1>2, <1>3

\* setup() keeps the types, and what it does to the daemon and the startup.
LEMMA SetupSafe ==
  ASSUME IInv, NEW cb \in Targets, Setup(cb),
         UNCHANGED <<world, server, losses>>, watch' \in BOOLEAN,
         daemon = "CREATE" => conn["redis"] # "open"
  PROVE  /\ TypeOK'
         /\ prepared' => prepared \/ (cb = "prepare" /\ server = "up")
         /\ daemon' # "CREATE"
         /\ daemon' = "STARTING" =>
              /\ prepared' = prepared
              /\ starter' = IF daemon = "STARTING" THEN starter ELSE cb
<1> USE DEF IInv
<1>1. target' \in Targets
  BY DEF Setup
<1>2. CASE server = "up" /\ (Managed => daemon = "STARTED") /\ Ready(Needed, 2, cb)
           /\ UNCHANGED <<daemon, queue, starter>>
  BY <1>1, <1>2, NeededType, ReadyType DEF TypeOK, Managed
<1>3. CASE server = "up" /\ Managed /\ daemon = "CREATE" /\ Ready(Needed, 2, cb)
           /\ daemon' = "STARTED" /\ queue' = Append(queue, Head(Needed)) /\ starter' = cb
  <2>1. queue' \in Seq(Clients)
    BY <1>3, NeededHead DEF TypeOK
  <2> QED
    BY <1>1, <1>3, <2>1, NeededType, ReadyType DEF TypeOK
<1>4. CASE Managed /\ (daemon = "STARTING" \/ server = "down")
           /\ daemon' = "STARTING" /\ queue' = queue \o Needed
           /\ starter' = (IF daemon = "STARTING" THEN starter ELSE cb)
           /\ steps' = 2 /\ UNCHANGED <<conn, prepared, missed>>
  <2>1. queue' \in Seq(Clients)
    BY <1>4, NeededType DEF TypeOK
  <2> QED
    BY <1>1, <1>4, <2>1 DEF TypeOK
<1>5. CASE ~Managed /\ server = "down" /\ steps' = 2
           /\ UNCHANGED <<daemon, queue, starter, conn, prepared, missed>>
  BY <1>1, <1>5 DEF TypeOK, Managed
<1> QED
  BY <1>2, <1>3, <1>4, <1>5 DEF Setup

-----------------------------------------------------------------------------
\* A new node satisfies the invariant.
LEMMA InitSafe ==
  ASSUME Init
  PROVE  IInv
<1>1. daemon \in {"NONE", "CREATE"}
  BY ConnectionAssumption DEF Init
<1>2. watch \in BOOLEAN /\ prepared \in BOOLEAN /\ missed \in BOOLEAN
  BY DEF Init
<1>3. TypeOK
  BY <1>1, <1>2 DEF Init, TypeOK, Targets
<1>4. Fresh
  <2>1. ~prepared /\ ~watch
    BY DEF Init
  <2>2. daemon # "STARTING" /\ conn["redis"] = "none"
    BY <1>1 DEF Init, Clients
  <2> QED
    BY <2>1, <2>2 DEF Fresh
<1>5. Asked /\ Starting /\ StaysUp
  BY <1>1 DEF Init, Asked, Starting, StaysUp
<1> QED
  BY <1>3, <1>4, <1>5 DEF IInv

\* startup_job_manager keeps the invariant.
LEMMA PrepareSafe ==
  ASSUME IInv, Prepare
  PROVE  IInv'
<1>1. "prepare" \in Targets /\ watch' \in BOOLEAN
  BY DEF Prepare, Targets
<1>2. /\ TypeOK'
      /\ prepared' => prepared \/ server = "up"
      /\ daemon' # "CREATE"
      /\ daemon' = "STARTING" => prepared' = prepared
  BY <1>1, SetupSafe DEF Prepare, IInv, Fresh
<1>3. target' = "prepare"
  BY DEF Prepare, Setup
<1>4. ~prepared /\ daemon # "STARTING"
  BY DEF IInv, Fresh, Prepare
<1>5. daemon' = "STARTING" => Managed
  BY <1>4 DEF Prepare, Setup
<1>6. watch' <=> Managed \/ server = "up"
  BY ZenonT(40) DEF Prepare
<1>7. Fresh' /\ Asked'
  BY <1>2, <1>3 DEF Fresh, Asked
<1>8. Starting' /\ StaysUp'
  BY <1>2, <1>4, <1>5, <1>6 DEF Starting, StaysUp
<1> QED
  BY <1>2, <1>7, <1>8 DEF IInv

\* A check of the watchdog keeps the invariant.
LEMMA CheckSafe ==
  ASSUME IInv, Check
  PROVE  IInv'
<1>1. "reconnect_success" \in Targets /\ watch' \in BOOLEAN /\ watch
  BY DEF Check, Targets, IInv, TypeOK
<1>2. target # "none" /\ daemon # "CREATE"
  BY <1>1 DEF IInv, Fresh, Asked
<1>3. /\ TypeOK'
      /\ prepared' => prepared
      /\ daemon' # "CREATE"
      /\ daemon' = "STARTING" =>
           /\ prepared' = prepared
           /\ starter' = IF daemon = "STARTING" THEN starter ELSE "reconnect_success"
  BY <1>1, <1>2, SetupSafe DEF Check
<1>4. target' = "reconnect_success" /\ watch'
  BY <1>1 DEF Check, Setup
<1> QED
  BY <1>3, <1>4 DEF IInv, Fresh, Asked, Starting, StaysUp

\* The news of the managed Redis keep the invariant.
LEMMA DaemonSafe ==
  ASSUME IInv, DaemonListens \/ DaemonStarted \/ DaemonFailed
  PROVE  IInv'
<1>1. CASE DaemonListens
  BY <1>1 DEF DaemonListens, IInv, TypeOK, Fresh, Asked, Starting, StaysUp
<1>2. CASE DaemonStarted
  <2>1. queue \in Seq(Clients) /\ steps \in Int /\ target \in Targets
    BY DEF IInv, TypeOK
  <2>2. /\ conn' \in [Clients -> {"none", "open", "closed"}]
        /\ steps' \in Int
        /\ prepared' \in BOOLEAN /\ missed' \in BOOLEAN
    BY <1>2, <2>1, ReadyType DEF DaemonStarted, IInv
  <2>3. TypeOK'
    BY <1>2, <2>2 DEF DaemonStarted, IInv, TypeOK
  <2>4. watch' /\ daemon' = "STARTED" /\ target' # "none"
    BY <1>2 DEF DaemonStarted, IInv, Starting, Fresh
  <2> QED
    BY <2>3, <2>4 DEF IInv, Fresh, Asked, Starting, StaysUp
<1>3. CASE DaemonFailed
  <2>1. TypeOK'
    BY <1>3 DEF DaemonFailed, IInv, TypeOK, Targets
  <2> QED
    BY <1>3, <2>1 DEF DaemonFailed, IInv, Fresh, Asked, Starting, StaysUp
<1> QED
  BY <1>1, <1>2, <1>3

\* Losses, recoveries, statuses and commands keep the invariant.
LEMMA EnvironmentSafe ==
  ASSUME IInv,
         (\E c \in Clients : Lose(c)) \/ LoseServer \/ ServerBack \/ Status \/ Command
  PROVE  IInv'
<1>1. CASE \E c \in Clients : Lose(c)
  <2>1. PICK c \in Clients : Lose(c)
    BY <1>1
  <2>2. TypeOK' /\ (conn["redis"] = "none" => conn'["redis"] = "none")
    BY <2>1 DEF Lose, IInv, TypeOK, Clients
  <2> QED
    BY <2>1, <2>2 DEF Lose, IInv, Fresh, Asked, Starting, StaysUp
<1>2. CASE LoseServer
  BY <1>2 DEF LoseServer, IInv, TypeOK, Fresh, Asked, Starting, StaysUp
<1>3. CASE ServerBack
  BY <1>3 DEF ServerBack, IInv, TypeOK, Fresh, Asked, Starting, StaysUp
<1>4. CASE Status
  BY <1>4 DEF Status, IInv, TypeOK, Fresh, Asked, Starting, StaysUp
<1>5. CASE Command
  <2>1. TypeOK'
    BY <1>5 DEF Command, IInv, TypeOK
  <2>2. target # "none"
    BY <1>5 DEF Command, IInv, Fresh
  <2> QED
    BY <1>5, <2>1, <2>2 DEF Command, IInv, Fresh, Asked, Starting, StaysUp
<1> QED
  BY <1>1, <1>2, <1>3, <1>4, <1>5

\* Every step keeps the invariant.
LEMMA StepSafe ==
  ASSUME IInv, [Next]_vars
  PROVE  IInv'
<1>1. CASE Next
  BY <1>1, PrepareSafe, CheckSafe, DaemonSafe, EnvironmentSafe DEF Next
<1>2. CASE UNCHANGED vars
  BY <1>2 DEF vars, IInv, TypeOK, Fresh, Asked, Starting, StaysUp
<1> QED
  BY <1>1, <1>2

\* The invariant holds in every state.
LEMMA Inductive == Spec => []IInv
  BY InitSafe, StepSafe, PTL DEF Spec

\* Every state of the connections is well typed.
THEOREM TypeCorrect == Spec => []TypeOK
<1>1. IInv => TypeOK
  BY DEF IInv
<1> QED
  BY <1>1, Inductive, PTL

\* A node whose startup completed keeps its watchdog: however its Redis fails
\* later, the error callback of the startup is not the one that hears of it.
THEOREM NeverStopped == Spec => []StaysUp
<1>1. IInv => StaysUp
  BY DEF IInv
<1> QED
  BY <1>1, Inductive, PTL
=============================================================================
