------------------------ MODULE MCBackendConnection ------------------------
(***************************************************************************)
(* Environments of BackendConnection for TLC.                              *)
(***************************************************************************)
EXTENDS BackendConnection

\* An idle node in a prompt world loses its command connection or the whole
\* Redis; a node that runs jobs, in a slow world, loses anything.
Steady == [slow |-> FALSE, fails |-> FALSE, losses |-> {"redis", "server"}, busy |-> FALSE]
Rough == [slow |-> TRUE, fails |-> TRUE, losses |-> {"redis", "pubsub", "server"}, busy |-> TRUE]
SteadyAndRough == {Steady, Rough}
=============================================================================
