------------------------------ MODULE JobStore ------------------------------
(***************************************************************************)
(* The jobs Redis as RedisJobBackend uses it (common/job/manager/          *)
(* backendredis.py): the hash of every job, the state index sets and the   *)
(* context of every tree.  A MULTI transaction, or a single command, is    *)
(* one step here; what a node does between two of them is in JobManager.   *)
(*                                                                         *)
(* The code keeps three families of index sets, node:<N>:<S>,              *)
(* <PARENT>:children:<S> and <ROOT>:tree:<S>.  The same transactions write *)
(* them, with the same old and new state, and node, parent and root of a   *)
(* job never change, so one family idx[S] holds the three: each set of the *)
(* code is idx[S] restricted to a node, a parent or a root.                *)
(***************************************************************************)
EXTENDS Naturals, FiniteSets

CONSTANTS
  Nodes,    \* node UUIDs
  Jobs,     \* every job id that add_job may hand out
  NoJob,    \* the parent of a root job
  Parent,   \* [Jobs -> Jobs \cup {NoJob}], the parent_id of a job
  Root,     \* [Jobs -> Jobs], the root_id of a job
  NodeOf    \* [Jobs -> Nodes], the node that a job is assigned to

ASSUME JobsAssumption == IsFiniteSet(Jobs) /\ NoJob \notin Jobs

ASSUME ForestAssumption ==
  /\ Parent \in [Jobs -> Jobs \cup {NoJob}]
  /\ Root \in [Jobs -> Jobs]
  /\ NodeOf \in [Jobs -> Nodes]
  /\ \A j \in Jobs : Root[j] = IF Parent[j] = NoJob THEN j ELSE Root[Parent[j]]
  /\ \A j \in Jobs : Parent[Root[j]] = NoJob

\* A job and the jobs above it: what every set that holds the job and, with a job,
\* its parent, has in common.
Path == [j \in Jobs |-> {k \in Jobs : \A S \in SUBSET Jobs :
  j \in S /\ (\A i \in S : Parent[i] \in S \cup {NoJob}) => k \in S}]

VARIABLES
  state,    \* the 'state' field of each job hash, ABSENT before add_job
  idx,      \* the state index sets
  ctx       \* the jobs whose output is in the context of their tree

storeVars == <<state, idx, ctx>>

-----------------------------------------------------------------------------
States == {"NEW", "WAITING", "RUNNING", "FAILED", "ABORTED", "SUCCESS"}
FinishedStates == {"FAILED", "ABORTED", "SUCCESS"}
Absent == "ABSENT"

Exists(j) == state[j] # Absent

StoreTypeOK ==
  /\ state \in [Jobs -> States \cup {Absent}]
  /\ idx \in [States -> SUBSET Jobs]
  /\ ctx \subseteq Jobs

StoreInit ==
  /\ state = [j \in Jobs |-> Absent]
  /\ idx = [s \in States |-> {}]
  /\ ctx = {}

\* add_job: the transaction that inserts a NEW job.
AddTx(j) ==
  /\ state' = [state EXCEPT ![j] = "NEW"]
  /\ idx' = [idx EXCEPT !["NEW"] = @ \cup {j}]
  /\ UNCHANGED ctx

\* Mutant: the job stays in the index set of its old state.
SetTxNoRemove(j, seenState, new) ==
  /\ state' = [state EXCEPT ![j] = new]
  /\ idx' = [idx EXCEPT ![new] = @ \cup {j}]
  /\ UNCHANGED ctx

\* set_attrs: the transaction takes the job out of the index set of the state
\* that an earlier get_job saw, not of the state the job has by now.
SetTx(j, seenState, new) ==
  /\ state' = [state EXCEPT ![j] = new]
  /\ idx' = [s \in States |-> IF s = new THEN idx[s] \cup {j}
                              ELSE IF s = seenState THEN idx[s] \ {j}
                              ELSE idx[s]]
  /\ UNCHANGED ctx

\* store_context: hmset merges the output of a job into its tree's context.
ContextTx(j) ==
  /\ ctx' = ctx \cup {j}
  /\ UNCHANGED <<state, idx>>

-----------------------------------------------------------------------------
Tree(j) == {k \in Jobs : Root[k] = Root[j]}
JobsOf(n) == {j \in Jobs : NodeOf[j] = n}

\* <JOBID>:children, and <JOBID>:children:<S>.
Children(j) == {k \in Jobs : Parent[k] = j /\ Exists(k)}
ChildrenIn(j, s) == {k \in idx[s] : Parent[k] = j}

\* Mutant: one child that succeeded is enough.
ReadyEarly(j) == Children(j) = {} \/ ChildrenIn(j, "SUCCESS") # {}

\* get_ready_to_run compares two set cardinalities for each waiting job.  They come
\* from a pipeline that is no transaction; here nothing comes between the two.
Ready(j) == Cardinality(Children(j)) = Cardinality(ChildrenIn(j, "SUCCESS"))

\* The reply to get_context.
ContextOf(j) == ctx \cap Tree(j)
=============================================================================
