------------------------------- MODULE JobTree -------------------------------
(***************************************************************************)
(* What the job managers promise to the authors of jobs, whatever happens  *)
(* in Redis and between the nodes: jobs run from the leaves of a tree to   *)
(* its root, each at most once, and a job that runs may extend its tree    *)
(* until it has succeeded (developer-major-systems.rst, "Jobs").           *)
(***************************************************************************)
EXTENDS Naturals

CONSTANTS
  Jobs,
  Parent,   \* the parent of a job, which for a root is none of Jobs
  AddedBy   \* the job that adds a job while it runs, if any

VARIABLES
  phase,    \* [Jobs -> Phases]
  runs      \* [Jobs -> Nat], how many times a job has been started

jobVars == <<phase, runs>>

Phases == {"absent", "added", "started", "succeeded", "ended"}

Init == phase = [j \in Jobs |-> "absent"] /\ runs = [j \in Jobs |-> 0]

Become(j, p) == phase' = [phase EXCEPT ![j] = p]

\* Below a parent that waits; by the user, or by a job that runs.
Add(j) ==
  /\ phase[j] = "absent"
  /\ Parent[j] \in Jobs => phase[Parent[j]] = "added"
  /\ AddedBy[j] \in Jobs => phase[AddedBy[j]] = "started"
  /\ Become(j, "added") /\ UNCHANGED runs

\* After every child that it has.
Start(j) ==
  /\ phase[j] = "added"
  /\ \A k \in Jobs : Parent[k] = j => phase[k] \in {"absent", "succeeded"}
  /\ Become(j, "started")
  /\ runs' = [runs EXCEPT ![j] = @ + 1]

\* After it has added what it adds.
Succeed(j) ==
  /\ phase[j] = "started"
  /\ \A k \in Jobs : AddedBy[k] = j => phase[k] # "absent"
  /\ Become(j, "succeeded") /\ UNCHANGED runs

\* A job fails or is aborted, or a node crashes under all the jobs it runs.
End(S) ==
  /\ \A j \in S : phase[j] = "started"
  /\ phase' = [j \in Jobs |-> IF j \in S THEN "ended" ELSE phase[j]]
  /\ UNCHANGED runs

Next == \/ \E j \in Jobs : Add(j) \/ Start(j) \/ Succeed(j)
        \/ \E S \in SUBSET Jobs : End(S)

Spec == Init /\ [][Next]_jobVars

\* Where no job ends without success.
Proceed ==
  \E j \in Jobs : (Parent[j] \in Jobs /\ Add(j)) \/ Start(j) \/ Succeed(j)

\* A tree that the user has begun goes on up to its root: there are finitely
\* many steps to take, so the fairness of all is that of each.
FairSpec ==
  /\ Init
  /\ [][Proceed \/ \E j \in Jobs : Add(j)]_jobVars
  /\ WF_jobVars(Proceed)

-----------------------------------------------------------------------------
(* What the promise comes to *)
TypeOK ==
  /\ phase \in [Jobs -> Phases]
  /\ runs \in [Jobs -> Nat]

Begun(j) == phase[j] \in {"started", "succeeded", "ended"}

\* No job is started a second time.
RunsOnce == \A j \in Jobs : runs[j] <= 1

\* Below a job that has begun, every job that exists has succeeded: nothing
\* starts before its children, and nothing is added below it afterwards.
FromTheLeaves ==
  \A j, k \in Jobs : Begun(j) /\ Parent[k] = j => phase[k] \in {"absent", "succeeded"}
=============================================================================
