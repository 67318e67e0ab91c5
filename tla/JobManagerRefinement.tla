------------------------ MODULE JobManagerRefinement ------------------------
(***************************************************************************)
(* The job managers implement JobTree: the phase of a job follows from its *)
(* hash in Redis, its runner object and what the runner has called.        *)
(***************************************************************************)
EXTENDS JobManager

PhaseOf(j) ==
  IF j \in succeeded THEN "succeeded"
  ELSE IF starts[j] > 0
  THEN IF act[j] \in {"active", "adding"} THEN "started" ELSE "ended"
  ELSE IF Exists(j) THEN "added" ELSE "absent"

Promise == INSTANCE JobTree WITH
             phase <- [j \in Jobs |-> PhaseOf(j)], runs <- starts

\* Jobs start once, from the leaves to the root, and trees grow only where
\* nothing has started yet, also when jobs fail and nodes crash (the class
\* comment of JobManager and _start_job).
StartsInOrder == Promise!Spec

\* When no job fails, every job of a submitted tree is added, starts and
\* succeeds, in that order.
KeepsPromise == Promise!FairSpec
=============================================================================
