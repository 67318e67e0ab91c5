----------------------------- MODULE MCLogStream -----------------------------
(* Instances of LogStream for TLC. *)
EXTENDS LogStream

CONSTANTS here, there

\* The logs have a line before somebody looks at them.
Written == [j \in Jobs |-> 1]
=============================================================================
