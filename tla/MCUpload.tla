------------------------------ MODULE MCUpload ------------------------------
(* Instances of Upload for TLC. *)
EXTENDS Upload

CONSTANTS t1, t2, v1

\* Everybody sends the same file.
OneContent == [u \in Uploaders |-> v1]
=============================================================================
