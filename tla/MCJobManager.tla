---------------------------- MODULE MCJobManager ----------------------------
(***************************************************************************)
(* Instances of JobManager for TLC: two nodes and trees of one to six      *)
(* jobs.  Each cfg picks one of the forests below.                         *)
(***************************************************************************)
EXTENDS JobManagerRefinement

CONSTANTS n1, n2, r, j1, j2, j3, j4, j5, s, k1, k2

\* r waits for j1 and for j2, all on one node; or s alone.
ForkJobs == {r, j1, j2, s}
ForkParent == r :> NoJob @@ s :> NoJob @@ j1 :> r @@ j2 :> r
ForkRoot == s :> s @@ [j \in {r, j1, j2} |-> r]
ForkNode == [j \in ForkJobs |-> n1]
ForkAdded == [j \in ForkJobs |-> NoJob]
ForkSubmitter == [j \in ForkJobs |-> n1]

\* The request job j1 adds the container j2, and below it j3 on the other node.
GrowJobs == {r, j1, j2, j3}
GrowParent == r :> NoJob @@ j1 :> r @@ j2 :> r @@ j3 :> j2
GrowRoot == [j \in GrowJobs |-> r]
GrowNode == r :> n1 @@ j1 :> n1 @@ j2 :> n1 @@ j3 :> n2
GrowAdded == r :> NoJob @@ j1 :> NoJob @@ j2 :> j1 @@ j3 :> j1
GrowSubmitter == [j \in GrowJobs |-> n1]

\* The tree above, or one with two request jobs on one node: j4 adds j5 while
\* k1 adds k2.
TwinJobs == GrowJobs \cup {s, j4, j5, k1, k2}
TwinParent == [j \in TwinJobs |->
  IF j \in GrowJobs THEN GrowParent[j] ELSE IF j = s THEN NoJob ELSE s]
TwinRoot == [j \in TwinJobs |-> IF j \in GrowJobs THEN r ELSE s]
TwinNode == [j \in TwinJobs |-> IF j = j3 THEN n2 ELSE n1]
TwinAdded == GrowAdded @@ j5 :> j4 @@ k2 :> k1 @@ [j \in {s, j4, k1} |-> NoJob]
TwinSubmitter == [j \in TwinJobs |-> n1]

\* Two request jobs, j1 and j2, each add a job on the other node.
DuoJobs == {r, j1, j2, j3, j4}
DuoParent == [j \in DuoJobs |-> IF j = r THEN NoJob ELSE r]
DuoRoot == [j \in DuoJobs |-> r]
DuoNode == r :> n1 @@ j1 :> n1 @@ j2 :> n1 @@ j3 :> n2 @@ j4 :> n2
DuoAdded == r :> NoJob @@ j1 :> NoJob @@ j2 :> NoJob @@ j3 :> j1 @@ j4 :> j2
DuoSubmitter == [j \in DuoJobs |-> n1]

\* r waits for j1, which is on the other node.
PairJobs == {r, j1}
PairParent == r :> NoJob @@ j1 :> r
PairRoot == [j \in PairJobs |-> r]
PairNode == r :> n1 @@ j1 :> n2
PairAdded == [j \in PairJobs |-> NoJob]
PairSubmitter == [j \in PairJobs |-> n1]

\* One job, submitted by n1 and assigned to n2.
LoneJobs == {r}
LoneParent == r :> NoJob
LoneRoot == r :> r
LoneNode == r :> n2
LoneAdded == r :> NoJob
LoneSubmitter == r :> n1

\* Two request jobs: j1 adds the container j2 and j3 below it, j4 adds j5.
TagJobs == {s, j1, j4, j2, j3, j5}
TagParent == s :> NoJob @@ j1 :> s @@ j4 :> s @@ j2 :> s @@ j3 :> j2 @@ j5 :> s
TagRoot == [j \in TagJobs |-> s]
TagNode == [j \in TagJobs |-> n1]
TagAdded == j2 :> j1 @@ j3 :> j1 @@ j5 :> j4 @@ [j \in {s, j1, j4} |-> NoJob]
TagSubmitter == [j \in TagJobs |-> n1]
=============================================================================
