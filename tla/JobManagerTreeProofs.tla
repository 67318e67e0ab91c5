------------------------ MODULE JobManagerTreeProofs ------------------------
(***************************************************************************)
(* The order in which the job managers run a tree, for every forest of     *)
(* jobs, every set of nodes and every bound: the leaves first, also while  *)
(* request jobs extend the tree.                                           *)
(***************************************************************************)
EXTENDS JobManagerProofs

-----------------------------------------------------------------------------
(* Commands *)
Living == {j \in Jobs : Exists(j)}
Adders == {AddedBy[k] : k \in Jobs} \ {NoJob}

\* What a request job that adds jobs has issued, and its calls of add_job.
By(a) == {c \in Command : c.by = a}
AddsOf(a) == {c \in By(a) : c.op = "add"}
Hopping(a) == {c \in AddsOf(a) : c.hop}

\* add_tree and allow_execution of the tree of r by the one who submitted it.
Opening(r) == {c \in Command : /\ c.by = NoJob
                               /\ \/ c.op \in Adding /\ Root[c.job] = r
                                  \/ c.op = "list" /\ c.to = "WAITING" /\ Root[c.tree] = r}

\* allow_execution on its way to make x WAITING; and evaluate to count for x.
Listing(x) == {c \in Command : c.op = "list" /\ c.to = "WAITING" /\ Root[c.tree] = Root[x]}
Getting(x) == {c \in Command : c.op = "get" /\ c.to = "WAITING" /\ c.job = x}
Setting(x) == {c \in Command : c.op = "set" /\ c.to = "WAITING" /\ c.job = x}
Waking(x) == {c \in Command : /\ c.op \in {"get", "set"} /\ c.to = "WAITING"
                              /\ x = c.job \/ x \in c.left}
Counting(x) == {c \in Command : c.op = "count" /\ x \in c.left}

\* What works on jobs that Redis has.
Doing == {"fetch", "context", "get", "set", "store", "finish"}

\* None of these, nor of what becomes one.
Dull == {c \in Command :
  /\ c.by = NoJob
  /\ c.op \notin Adding \cup {"count"}
  /\ c.op \in {"list", "get", "set", "store", "finish"} => c.to \notin {"NEW", "WAITING"}
  /\ c.op \in {"list", "get", "set"} => c.then # "allow_execution"
  /\ c.op \in {"count", "get", "set"} => ~c.hop
  /\ c.op = "list" => c.from \in States
  /\ c.op \in Doing => c.job \in Living /\ c.left \subseteq Living}

\* The commands of node n: what makes jobs executable has found them in Redis and
\* comes from a request job of n, or from where the tree was submitted.
Ordered(n) == {c \in Command :
  /\ c.by # NoJob => /\ c.by \in Adders /\ NodeOf[c.by] = n
                     /\ c.op \in Adding \cup {"list", "get", "set"}
  /\ c.op \in {"list", "get", "set"} =>
       /\ c.to = "WAITING" <=> c.then = "allow_execution"
       /\ c.by # NoJob => c.to = "WAITING" /\ Root[c.tree] = Root[c.by]
  /\ c.op = "list" /\ c.to = "WAITING" =>
       c.from = "NEW" /\ (c.by = NoJob => n = Submitter[Root[c.tree]])
  /\ c.op \in {"get", "set"} => c.to # "NEW"
  /\ c.op \in {"count", "get", "set"} => ~c.hop
  /\ c.op = "list" => c.from \in States
  /\ c.op \in Doing => c.job \in Living /\ c.left \subseteq Living
  /\ c.op \in {"store", "finish"} => c.to \notin {"NEW", "WAITING"}
  /\ c.op = "count" => c.left \subseteq Living}

-----------------------------------------------------------------------------
(* What request jobs do, for the order of a tree *)

\* Request jobs that add beside themselves and not below, on one node that does
\* not crash (add_job puts them on the node that adds them); a job with tags has
\* no other request job beside it that adds jobs.
Requests ==
  /\ AddersStay
  /\ \A k \in Jobs : AddedBy[k] # NoJob => Parent[k] # AddedBy[k]
  /\ \A a, b \in Adders : Root[a] = Root[b] => NodeOf[a] = NodeOf[b]
  /\ \A k \in Tagged : AddedBy[k] # NoJob =>
       \A b \in Adders : Root[b] = Root[k] => b = AddedBy[k]

-----------------------------------------------------------------------------
(* Jobs that cannot start yet *)
Launched(j) == j \in inStartup[NodeOf[j]] \/ starts[j] > 0

\* evaluate has not seen x; and nothing is about to change that.
Asleep(x) == /\ x \notin idx["WAITING"]
             /\ ~Launched(x)
             /\ ~Has(cmds[NodeOf[x]], Counting(x))
Silent(x) == Asleep(x) /\ \A n \in Nodes : ~Has(cmds[n], Waking(x))

-----------------------------------------------------------------------------
(* The invariant *)

\* Only jobs that exist wait, start and end, and every job has those above it.
Stopping(j) == {b \in Callback : b.run = "abort_job" /\ b.job = j}
LiveInv ==
  /\ \A s \in States : idx[s] \subseteq Living
  /\ \A n \in Nodes, j \in Jobs : Has(loop[n], Stopping(j)) => Exists(j)
  /\ \A n \in Nodes : inStartup[n] \subseteq Living
  /\ \A j \in Jobs : starts[j] > 0 => Exists(j)
  /\ \A j \in succeeded : starts[j] > 0
  /\ \A x \in Living : Parent[x] \in Living \cup {NoJob} /\ Root[x] \in Living

\* A job is added after its request job has begun to add, and once.
PendingInv(k) ==
  /\ Has(cmds[Adder(k)], Pending(k)) => ~Exists(k)
  /\ Exists(k) => Begun(k)

\* A request job adds and releases one tree, and succeeds after that.
AdderInv(a) ==
  LET q == cmds[NodeOf[a]] IN
  /\ Once(q, By(a))
  /\ Has(q, By(a)) => a \notin succeeded /\ act[a] # "active" /\ starts[a] > 0
  /\ act[a] = "active" => a \notin succeeded

\* While a tree is submitted none of its jobs is executable.
OpeningInv(r) ==
  LET q == cmds[Submitter[r]] IN
  /\ Once(q, Opening(r))
  /\ Has(q, Opening(r)) => \A x \in Jobs : Root[x] = r => Silent(x)
  /\ \A i \in DOMAIN q : q[i] \in Opening(r) =>
       /\ q[i].op = "add" => q[i].job = r \/ Parent[q[i].job] \in Living
       /\ q[i].op = "tag" => q[i].job \in Living
       /\ q[i].op = "list" => Exists(r)

\* Every command of S comes before every one of T.
Before(q, S, T) == \A i, k \in DOMAIN q : q[i] \in S /\ q[k] \in T => i < k

\* The job m that a has just added sleeps until the next job is added: another
\* request job that finds m and makes it WAITING comes behind in the pipeline.
Guards(a, m) ==
  LET q == cmds[NodeOf[a]] IN
  /\ Exists(m) /\ Root[m] = Root[a] /\ Asleep(m)
  /\ \A n \in Nodes \ {NodeOf[a]} : ~Has(cmds[n], Waking(m))
  /\ Before(q, Hopping(a), Getting(m))
  /\ Has(q, Hopping(a)) => ~Has(q, Setting(m))
  /\ Before(q, AddsOf(a), Setting(m))

\* The next job of a request job goes below a job that sleeps, or beside the
\* request job.
GrowthInv(a) ==
  LET q == cmds[NodeOf[a]] IN
  /\ Has(q, AddsOf(a)) =>
       \/ \A i \in DOMAIN q : q[i] \in AddsOf(a) => Parent[q[i].job] \in Path[a] \ {a}
       \/ \E m \in Jobs : /\ Guards(a, m)
                          /\ \A i \in DOMAIN q : q[i] \in AddsOf(a) =>
                               Parent[q[i].job] \in Path[m]
  /\ \A i \in DOMAIN q : q[i] \in By(a) /\ q[i].op = "tag" =>
       /\ Exists(q[i].job) /\ Silent(q[i].job)
       /\ q[i].job \in Tagged /\ Root[q[i].job] = Root[a]

\* What has been launched, or soon will be, has only children that succeeded.
LeavesInv == \A j \in Jobs : Launched(j) => Children(j) \subseteq succeeded

TreeInv ==
  /\ \A n \in Nodes : \A i \in DOMAIN cmds[n] : cmds[n][i] \in Ordered(n)
  /\ LiveInv /\ LeavesInv
  /\ \A k \in Jobs : PendingInv(k)
  /\ \A a \in Adders : AdderInv(a) /\ GrowthInv(a)
  /\ \A r \in Jobs : Parent[r] = NoJob => OpeningInv(r)
-----------------------------------------------------------------------------
(* The turn of a node: its pipeline loses its head or not, and dull commands *)
(* or one other come behind.                                                 *)

Shift(p, q, d, x) ==
  \A i \in DOMAIN p : \/ p[i] \in Dull
                      \/ i + d \in DOMAIN q /\ p[i] = q[i + d]
                      \/ p[i] = x /\ \A k \in DOMAIN p : k <= i

\* What a turn leaves of the commands T.
LEMMA ShiftFacts ==
  ASSUME NEW q \in Seq(Command), NEW p \in Seq(Command), NEW d \in {0, 1}, NEW x,
         Shift(p, q, d, x), NEW T, T \cap Dull = {}
  PROVE  /\ Has(p, T) => Has(q, T) \/ x \in T
         /\ x \notin T => Fewer(p, q, T)
         /\ ~Has(q, T) => Once(p, T)
         /\ d = 1 /\ q # <<>> /\ Head(q) \in T /\ Once(q, T) =>
              Once(p, T) /\ (x \notin T => ~Has(p, T))
         /\ \A i \in DOMAIN p : p[i] \in T => p[i] = x \/ \E k \in DOMAIN q : p[i] = q[k]
<1>1. DOMAIN p \subseteq Nat /\ DOMAIN q \subseteq Nat /\ d \in Nat
  OBVIOUS
<1>2. \A i \in DOMAIN p : p[i] \in T =>
        \/ i + d \in DOMAIN q /\ p[i] = q[i + d]
        \/ p[i] = x /\ \A k \in DOMAIN p : k <= i
  BY DEF Shift
<1>3. \A i, k \in DOMAIN p : i + d = k + d => i = k
  BY <1>1
<1>4. \A i, k \in DOMAIN p : (\A h \in DOMAIN p : h <= i) /\ (\A h \in DOMAIN p : h <= k) => i = k
  BY <1>1
<1>5. Has(p, T) => Has(q, T) \/ x \in T
  BY <1>2 DEF Has
<1>6. ASSUME x \notin T
      PROVE  Fewer(p, q, T)
  <2>1. \A i \in DOMAIN p : p[i] \in T => i + d \in DOMAIN q /\ p[i] = q[i + d]
    BY <1>2, <1>6
  <2>2. Has(p, T) => Has(q, T)
    BY <1>5, <1>6
  <2>3. Once(q, T) => Once(p, T)
    BY <1>3, <2>1 DEF Once
  <2> QED
    BY <2>2, <2>3 DEF Fewer
<1>7. ASSUME ~Has(q, T)
      PROVE  Once(p, T)
  <2>1. \A i \in DOMAIN p : p[i] \in T => \A k \in DOMAIN p : k <= i
    BY <1>2, <1>7 DEF Has
  <2> QED
    BY <1>4, <2>1 DEF Once
<1>8. ASSUME d = 1, q # <<>>, Head(q) \in T, Once(q, T)
      PROVE  Once(p, T) /\ (x \notin T => ~Has(p, T))
  <2>1. 1 \in DOMAIN q /\ q[1] = Head(q)
    BY <1>8
  <2>2. \A i \in DOMAIN p : i + 1 \in DOMAIN q => q[i + 1] \notin T
    <3>1. \A i \in DOMAIN p : i + 1 # 1
      BY <1>1
    <3> QED
      BY <1>8, <2>1, <3>1 DEF Once
  <2>3. \A i \in DOMAIN p : p[i] \in T => p[i] = x /\ \A k \in DOMAIN p : k <= i
    BY <1>2, <1>8, <2>2
  <2> QED
    BY <1>4, <2>3 DEF Once, Has
<1>9. \A i \in DOMAIN p : p[i] \in T => p[i] = x \/ \E k \in DOMAIN q : p[i] = q[k]
  BY <1>2
<1> QED
  BY <1>5, <1>6, <1>7, <1>8, <1>9

\* What comes behind may be of T, or of S when nothing of T is there.
LEMMA ShiftOrder ==
  ASSUME NEW q \in Seq(Command), NEW p \in Seq(Command), NEW d \in {0, 1}, NEW x,
         Shift(p, q, d, x), NEW S, NEW T, S \cap Dull = {}, T \cap Dull = {},
         Before(q, S, T), x \in S => ~Has(q, T) /\ x \notin T
  PROVE  Before(p, S, T)
<1>1. DOMAIN p \subseteq Nat /\ DOMAIN q \subseteq Nat /\ d \in Nat
  OBVIOUS
<1> SUFFICES ASSUME NEW i \in DOMAIN p, NEW k \in DOMAIN p, p[i] \in S, p[k] \in T
             PROVE  i < k
  BY DEF Before
<1>2. /\ (i + d \in DOMAIN q /\ p[i] = q[i + d]) \/ p[i] = x
      /\ (k + d \in DOMAIN q /\ p[k] = q[k + d]) \/ (p[k] = x /\ \A h \in DOMAIN p : h <= k)
  BY DEF Shift
<1>3. CASE p[i] = x
  BY <1>2, <1>3 DEF Has
<1>4. CASE p[i] # x /\ k + d \in DOMAIN q /\ p[k] = q[k + d]
  <2>1. i + d < k + d
    BY <1>2, <1>4 DEF Before
  <2> QED
    BY <1>1, <2>1
<1>5. CASE p[i] # x /\ p[k] = x /\ \A h \in DOMAIN p : h <= k
  <2>1. i <= k /\ i # k
    BY <1>5
  <2> QED
    BY <1>1, <2>1
<1> QED
  BY <1>2, <1>3, <1>4, <1>5

\* A command at the head is not behind any other.
LEMMA HeadFirst ==
  ASSUME NEW Q, NEW q \in Seq(Q), q # <<>>, NEW S, NEW T, Before(q, S, T), Head(q) \in T
  PROVE  ~Has(q, S)
<1>1. 1 \in DOMAIN q /\ q[1] = Head(q) /\ \A i \in DOMAIN q : i \in Nat /\ 1 <= i
  OBVIOUS
<1> QED
  BY <1>1 DEF Before, Has

\* A sequence behind another.
LEMMA BehindFacts ==
  ASSUME NEW S, NEW q \in Seq(S), NEW R, NEW r \in Seq(R)
  PROVE  /\ DOMAIN (q \o r) = 1..(Len(q) + Len(r))
         /\ \A i \in DOMAIN (q \o r) :
              (q \o r)[i] = IF i \in DOMAIN q THEN q[i] ELSE r[i - Len(q)]
         /\ \A i \in DOMAIN (q \o r) : i \in DOMAIN q \/ i - Len(q) \in DOMAIN r
<1>1. /\ Len(q) \in Nat /\ Len(r) \in Nat
      /\ DOMAIN q = 1..Len(q) /\ DOMAIN r = 1..Len(r)
      /\ DOMAIN (q \o r) = 1..(Len(q) + Len(r))
  OBVIOUS
<1> QED
  BY <1>1

\* Dull commands, or one, come behind.
LEMMA ShiftAppend ==
  ASSUME NEW q \in Seq(Command), NEW d \in {0, 1}, d = 1 => q # <<>>,
         NEW b, b = IF d = 1 THEN Tail(q) ELSE q, NEW x,
         NEW r, r \in Seq(Dull) \/ r = <<x>>
  PROVE  Shift(b \o r, q, d, x)
<1>1. b \in Seq(Command) /\ \A i \in DOMAIN b : i + d \in DOMAIN q /\ b[i] = q[i + d]
  <2>1. CASE d = 1
    BY <2>1
  <2>2. CASE d = 0
    BY <2>2
  <2> QED
    BY <2>1, <2>2
<1>2. ASSUME NEW t \in Seq(Dull), NEW p, p = b \o t
      PROVE  Shift(p, q, d, x)
  <2>1. /\ \A i \in DOMAIN p : i \in DOMAIN b \/ i - Len(b) \in DOMAIN t
        /\ \A i \in DOMAIN p : p[i] = IF i \in DOMAIN b THEN b[i] ELSE t[i - Len(b)]
    BY <1>1, <1>2, BehindFacts
  <2>2. \A i \in DOMAIN t : t[i] \in Dull
    OBVIOUS
  <2> QED
    BY <1>1, <2>1, <2>2 DEF Shift
<1>3. ASSUME r = <<x>>, NEW p, p = b \o r
      PROVE  Shift(p, q, d, x)
  <2>1. r \in Seq({x}) /\ Len(r) = 1 /\ DOMAIN r = {1} /\ r[1] = x
    BY <1>3
  <2>2. /\ DOMAIN p = 1..(Len(b) + 1) /\ Len(b) \in Nat /\ DOMAIN b = 1..Len(b)
        /\ \A i \in DOMAIN p : i \in DOMAIN b \/ i - Len(b) \in DOMAIN r
        /\ \A i \in DOMAIN p : p[i] = IF i \in DOMAIN b THEN b[i] ELSE r[i - Len(b)]
    BY <1>1, <1>3, <2>1, BehindFacts
  <2>3. \A i \in DOMAIN p : i \notin DOMAIN b => i = Len(b) + 1 /\ p[i] = x
    BY <2>1, <2>2
  <2>4. \A k \in DOMAIN p : k <= Len(b) + 1
    BY <2>2
  <2> QED
    BY <1>1, <2>2, <2>3, <2>4 DEF Shift
<1> QED
  BY <1>2, <1>3

-----------------------------------------------------------------------------
(* The jobs above a job *)

\* Any set with a job, and with each job its parent, has them all.
LEMMA PathIn ==
  ASSUME NEW x \in Jobs, NEW S \in SUBSET Jobs, x \in S,
         \A i \in S : Parent[i] \in S \cup {NoJob}
  PROVE  Path[x] \subseteq S
BY DEF Path

\* They are in the tree of the job.
LEMMA PathRoot ==
  ASSUME NEW x \in Jobs, NEW p \in Path[x]
  PROVE  p \in Jobs /\ Root[p] = Root[x]
<1> DEFINE S == {z \in Jobs : Root[z] = Root[x]}
<1>1. ASSUME NEW i \in S
      PROVE  Parent[i] \in S \cup {NoJob}
  BY ForestAssumption
<1>2. Path[x] \subseteq S
  BY <1>1, PathIn
<1> QED
  BY <1>2

\* The parent of a job that exists exists, and so on.
LEMMA PathLives ==
  ASSUME LiveInv, NEW x \in Jobs, Exists(x), NEW p \in Path[x]
  PROVE  p \in Jobs /\ Exists(p)
<1>1. \A i \in Living : Parent[i] \in Living \cup {NoJob}
  BY DEF LiveInv
<1>2. Path[x] \subseteq Living
  BY <1>1, PathIn DEF Living
<1> QED
  BY <1>2 DEF Living

\* Above a job that has not been launched, or not succeeded, none has.
LEMMA NothingAbove ==
  ASSUME LiveInv, LeavesInv, NEW x \in Jobs, Exists(x), x \notin succeeded, NEW p \in Path[x]
  PROVE  p \in Jobs /\ Exists(p) /\ (p = x \/ ~Launched(p))
<1> DEFINE S == {z \in Living : z = x \/ ~Launched(z)}
<1>1. ASSUME NEW z \in S
      PROVE  Parent[z] \in S \cup {NoJob}
  <2>1. CASE Parent[z] \in Living /\ Launched(Parent[z])
    <3>1. z \in Children(Parent[z])
      BY DEF Children, Living
    <3>2. z \in succeeded
      BY <2>1, <3>1 DEF LeavesInv, Living
    <3>3. Launched(z) /\ z # x
      BY <3>2 DEF LiveInv, Launched
    <3> QED
      BY <3>3
  <2> QED
    BY <2>1 DEF LiveInv
<1>2. x \in S /\ S \in SUBSET Jobs
  BY DEF Living
<1>3. Path[x] \subseteq S
  BY <1>1, <1>2, PathIn
<1> QED
  BY <1>3 DEF Living

-----------------------------------------------------------------------------
(* A mild step of node n: x, if it counts, comes from c, the head.         *)

Turn(n, d, c, x) ==
  /\ \/ d = 0 /\ c = Blank
     \/ d = 1 /\ cmds[n] # <<>> /\ c = Head(cmds[n])
  /\ \A m \in Nodes \ {n} : cmds'[m] = cmds[m]
  /\ Shift(cmds'[n], cmds[n], d, x)

Inherits(c, x) ==
  /\ \A a \in Jobs : x \in By(a) => c \in By(a) /\ (x.op \in Adding <=> c.op \in Adding)
  /\ x.op \in Adding \cup {"list"} => c.hop /\ x = [c EXCEPT !.hop = FALSE]
  /\ \A z \in Jobs : x \in Counting(z) => z \in idx["WAITING"]
  /\ \A z \in Jobs : x \in Waking(z) => c \in Waking(z) \/ c \in Listing(z)
  /\ \A z \in Jobs : x \in Setting(z) => c \in Getting(z)

Settles(n, c, x) ==
  /\ \A j \in Jobs : Exists(j)' <=> Exists(j)
  /\ \A s \in States : idx'[s] \subseteq Living
  /\ \A m \in Nodes, j \in Jobs : Has(loop'[m], Stopping(j)) => Exists(j)
  /\ \A z \in idx'["WAITING"] : z \in idx["WAITING"] \/ c \in Setting(z)
  /\ \A m \in Nodes : \A z \in inStartup'[m] :
       \/ z \in inStartup[m]
       \/ m = n /\ c \in Counting(z) /\ NodeOf[z] = n /\ Children(z) \subseteq idx["SUCCESS"]
  /\ \A j \in Jobs : (starts[j] > 0 => starts'[j] > 0) /\ (starts'[j] > 0 => Launched(j))
  /\ succeeded \subseteq succeeded'
  /\ \A a \in succeeded' \ succeeded :
       /\ starts[a] > 0
       /\ a \in Adders => c \in By(a) /\ x \notin By(a) /\ act'[a] # "active"
  /\ \A a \in Adders : act'[a] = "active" => act[a] = "active" \/ starts[a] = 0

Mild(n, d, c, x) ==
  Turn(n, d, c, x) /\ x \in Ordered(n) /\ Inherits(c, x) /\ Settles(n, c, x)
Mildly == \E n \in Nodes : \E d, c, x : Mild(n, d, c, x)
MildReply(n) == \E x : Mild(n, 1, Head(cmds[n]), x)

-----------------------------------------------------------------------------
(* What is dull *)

\* Who adds jobs is a job.
LEMMA AdderFacts ==
  ASSUME NEW a \in Adders
  PROVE  a \in Jobs /\ a # NoJob /\ NodeOf[a] \in Nodes /\ Root[a] \in Jobs
BY ManagerAssumption, ForestAssumption DEF Adders

\* No dull command counts.
LEMMA NoDull ==
  /\ \A a \in Jobs : By(a) \cap Dull = {} /\ AddsOf(a) \cap Dull = {} /\ Hopping(a) \cap Dull = {}
  /\ \A r : Opening(r) \cap Dull = {}
  /\ \A z : /\ Listing(z) \cap Dull = {} /\ Getting(z) \cap Dull = {}
            /\ Setting(z) \cap Dull = {} /\ Waking(z) \cap Dull = {}
            /\ Counting(z) \cap Dull = {}
  /\ \A k \in Jobs : Pending(k) \cap Dull = {}
<1>1. \A a \in Jobs : By(a) \cap Dull = {} /\ AddsOf(a) \cap Dull = {} /\ Hopping(a) \cap Dull = {}
  BY JobsAssumption DEF Dull, By, AddsOf, Hopping
<1>2. \A r : Opening(r) \cap Dull = {}
  BY DEF Dull, Opening
<1>3. \A z : /\ Listing(z) \cap Dull = {} /\ Getting(z) \cap Dull = {}
             /\ Setting(z) \cap Dull = {} /\ Waking(z) \cap Dull = {}
             /\ Counting(z) \cap Dull = {}
  BY DEF Dull, Listing, Getting, Setting, Waking, Counting
<1>4. \A k \in Jobs : Pending(k) \cap Dull = {}
  BY DEF Dull, Pending, Adds
<1> QED
  BY <1>1, <1>2, <1>3, <1>4

\* Every node may issue dull commands.
LEMMA DullIsOrdered == \A n : Dull \subseteq Ordered(n)
BY DEF Dull, Ordered, Adding

LEMMA BlankIsDull == Blank \in Dull
BY BlankType DEF Dull, Adding, Doing

\* A pipeline holds commands.
LEMMA PipelineType ==
  ASSUME IInv, IInv'
  PROVE  \A m \in Nodes : cmds[m] \in Seq(Command) /\ cmds'[m] \in Seq(Command)
<1>1. \A D : Seq(Good(D)) \subseteq Seq(Command)
  <2>1. \A D : Good(D) \subseteq Command
    BY DEF Good
  <2> QED
    BY <2>1
<1> QED
  BY <1>1 DEF IInv

\* The effect of a turn on the commands T.
LEMMA TurnFacts ==
  ASSUME IInv, IInv', NEW n \in Nodes, NEW d, NEW c, NEW x, Turn(n, d, c, x),
         NEW T, T \cap Dull = {}, NEW m \in Nodes
  PROVE  /\ Has(cmds'[m], T) => Has(cmds[m], T) \/ (m = n /\ x \in T)
         /\ x \notin T => Fewer(cmds'[m], cmds[m], T)
         /\ ~Has(cmds[m], T) => Once(cmds'[m], T)
         /\ Once(cmds[m], T) /\ (x \in T => c \in T) => Once(cmds'[m], T)
         /\ c \in T => Has(cmds[n], T)
         /\ c \in T /\ Once(cmds[n], T) /\ x \notin T => ~Has(cmds'[n], T)
         /\ \A i \in DOMAIN cmds'[m] : cmds'[m][i] \in T =>
              \/ m = n /\ cmds'[m][i] = x
              \/ \E k \in DOMAIN cmds[m] : cmds'[m][i] = cmds[m][k]
<1>1. cmds[m] \in Seq(Command) /\ cmds'[m] \in Seq(Command) /\ cmds[n] \in Seq(Command)
  BY PipelineType
<1>2. c \in T => d = 1 /\ cmds[n] # <<>> /\ c = Head(cmds[n])
  BY BlankIsDull DEF Turn
<1>3. c \in T => Has(cmds[n], T)
  BY <1>1, <1>2, DropFewer
<1>4. CASE m = n
  <2>1. d \in {0, 1} /\ Shift(cmds'[n], cmds[n], d, x)
    BY DEF Turn
  <2>2. /\ Has(cmds'[n], T) => Has(cmds[n], T) \/ x \in T
        /\ x \notin T => Fewer(cmds'[n], cmds[n], T)
        /\ ~Has(cmds[n], T) => Once(cmds'[n], T)
        /\ d = 1 /\ cmds[n] # <<>> /\ Head(cmds[n]) \in T /\ Once(cmds[n], T) =>
             Once(cmds'[n], T) /\ (x \notin T => ~Has(cmds'[n], T))
        /\ \A i \in DOMAIN cmds'[n] : cmds'[n][i] \in T =>
             cmds'[n][i] = x \/ \E k \in DOMAIN cmds[n] : cmds'[n][i] = cmds[n][k]
    BY <1>1, <1>4, <2>1, ShiftFacts
  <2>3. Once(cmds[n], T) /\ (x \in T => c \in T) => Once(cmds'[n], T)
    BY <1>2, <2>2 DEF Fewer
  <2> QED
    BY <1>2, <1>3, <1>4, <2>2, <2>3
<1>5. CASE m # n
  <2>1. cmds'[m] = cmds[m]
    BY <1>5 DEF Turn
  <2>2. ~Has(cmds[m], T) => Once(cmds[m], T)
    BY DEF Has, Once
  <2>3. c \in T /\ Once(cmds[n], T) /\ x \notin T => ~Has(cmds'[n], T)
    <3>1. cmds'[n] \in Seq(Command) /\ d \in {0, 1} /\ Shift(cmds'[n], cmds[n], d, x)
      BY PipelineType DEF Turn
    <3> QED
      BY <1>1, <1>2, <3>1, ShiftFacts
  <2> QED
    BY <1>3, <1>5, <2>1, <2>2, <2>3, FewerFacts
<1> QED
  BY <1>4, <1>5

\* The effect of a turn on the order of the commands S and T.
LEMMA TurnOrder ==
  ASSUME IInv, IInv', NEW n \in Nodes, NEW d, NEW c, NEW x, Turn(n, d, c, x),
         NEW S, NEW T, S \cap Dull = {}, T \cap Dull = {}, NEW m \in Nodes,
         Before(cmds[m], S, T), x \in S => ~Has(cmds[n], T) /\ x \notin T
  PROVE  /\ Before(cmds'[m], S, T)
         /\ m = n /\ c \in T => ~Has(cmds[n], S)
<1>1. cmds[n] \in Seq(Command) /\ cmds'[n] \in Seq(Command)
  BY PipelineType
<1>2. m = n => Before(cmds'[m], S, T)
  BY <1>1, ShiftOrder DEF Turn
<1>3. m = n /\ c \in T => ~Has(cmds[n], S)
  BY <1>1, BlankIsDull, HeadFirst DEF Turn
<1> QED
  BY <1>2, <1>3 DEF Turn

-----------------------------------------------------------------------------
(* What a mild step keeps *)

\* Only what has found a job wakes it.
LEMMA AsleepKept ==
  ASSUME IInv, IInv', NEW n \in Nodes, NEW d, NEW c, NEW x, Turn(n, d, c, x),
         NEW z \in Jobs, Asleep(z), c \notin Setting(z),
         z \in idx'["WAITING"] => z \in idx["WAITING"] \/ c \in Setting(z),
         Launched(z)' => Launched(z) \/ (c \in Counting(z) /\ NodeOf[z] = n),
         x \in Counting(z) => z \in idx["WAITING"]
  PROVE  Asleep(z)'
<1>1. NodeOf[z] \in Nodes
  BY NodesOf
<1>2. Counting(z) \cap Dull = {}
  BY NoDull
<1>3. x \notin Counting(z)
  BY DEF Asleep
<1>4. Fewer(cmds'[NodeOf[z]], cmds[NodeOf[z]], Counting(z))
  BY <1>1, <1>2, <1>3, TurnFacts
<1>5. c \in Counting(z) => Has(cmds[n], Counting(z))
  BY <1>1, <1>2, TurnFacts
<1>6. ~Launched(z)'
  BY <1>5 DEF Asleep
<1> QED
  BY <1>4, <1>6 DEF Asleep, Fewer

\* What the step's head is, it was issued as.
LEMMA HeadOrdered ==
  ASSUME IInv, IInv', TreeInv, NEW n \in Nodes, NEW d, NEW c, NEW x, Turn(n, d, c, x)
  PROVE  c \in Ordered(n) /\ (\A a \in Adders : c \in By(a) => NodeOf[a] = n)
<1>1. CASE d = 1 /\ cmds[n] # <<>> /\ c = Head(cmds[n])
  <2>1. cmds[n] \in Seq(Command)
    BY PipelineType
  <2>2. 1 \in DOMAIN cmds[n] /\ cmds[n][1] = c
    BY <1>1, <2>1
  <2>3. c \in Ordered(n)
    BY <2>2 DEF TreeInv
  <2> QED
    BY <2>3, AdderFacts DEF Ordered, By
<1>2. CASE c = Blank
  BY <1>2, BlankIsDull, DullIsOrdered, NoDull, AdderFacts
<1> QED
  BY <1>1, <1>2 DEF Turn

\* Commands stay in order.
LEMMA OrderedKept ==
  ASSUME IInv, IInv', TreeInv, NEW n \in Nodes, NEW d, NEW c, NEW x, Turn(n, d, c, x),
         x \in Ordered(n)', Grows
  PROVE  \A m \in Nodes : \A i \in DOMAIN cmds'[m] : cmds'[m][i] \in Ordered(m)'
<1>1. \A m : Dull \subseteq Ordered(m)' /\ Ordered(m) \subseteq Ordered(m)'
  <2>1. Living \subseteq Living'
    BY DEF Living, Grows
  <2> QED
    BY <2>1 DEF Dull, Ordered, Adding
<1> SUFFICES ASSUME NEW m \in Nodes, NEW i \in DOMAIN cmds'[m]
             PROVE  cmds'[m][i] \in Ordered(m)'
  OBVIOUS
<1>2. CASE m = n
  <2>1. \/ cmds'[n][i] \in Dull
        \/ i + d \in DOMAIN cmds[n] /\ cmds'[n][i] = cmds[n][i + d]
        \/ cmds'[n][i] = x
    BY <1>2 DEF Turn, Shift
  <2> QED
    BY <1>1, <1>2, <2>1 DEF TreeInv
<1>3. CASE m # n
  BY <1>1, <1>3 DEF Turn, TreeInv
<1> QED
  BY <1>2, <1>3

\* What lives, and what may run.
LEMMA LiveKept ==
  ASSUME IInv, IInv', TreeInv, NEW n \in Nodes, NEW d, NEW c, NEW x, Mild(n, d, c, x)
  PROVE  /\ LiveInv' /\ LeavesInv'
         /\ \A j \in Jobs : Launched(j)' =>
              \/ Launched(j)
              \/ c \in Counting(j) /\ NodeOf[j] = n /\ Children(j) \subseteq idx["SUCCESS"]
<1>1. /\ Turn(n, d, c, x) /\ Settles(n, c, x)
      /\ LiveInv /\ LeavesInv
      /\ idx \in [States -> SUBSET Jobs] /\ idx' \in [States -> SUBSET Jobs]
      /\ succeeded \in SUBSET Jobs /\ inStartup' \in [Nodes -> SUBSET Jobs]
  BY DEF Mild, TreeInv, IInv, StoreTypeOK, RunnerTypes, NodeTypes
<1>2. c \in Ordered(n)
  BY <1>1, HeadOrdered
<1>3. Living' = Living /\ \A j \in Jobs : Children(j)' = Children(j)
  BY <1>1 DEF Living, Settles, Children
<1>4. \A z \in Jobs : (c \in Setting(z) \/ c \in Counting(z)) => z \in Living
  BY <1>2 DEF Ordered, Doing, Setting, Counting
<1>5. \A j \in Jobs : Launched(j)' =>
        Launched(j) \/ (c \in Counting(j) /\ NodeOf[j] = n /\ Children(j) \subseteq idx["SUCCESS"])
  BY <1>1, NodesOf DEF Launched, Settles
<1>6. LeavesInv'
  <2>1. idx["SUCCESS"] \subseteq succeeded
    BY DEF IInv, SuccessIsEarned
  <2> QED
    BY <1>1, <1>3, <1>5, <2>1 DEF LeavesInv, Settles
<1>7. /\ \A s \in States : idx'[s] \subseteq Living'
      /\ \A m \in Nodes, j \in Jobs : Has(loop'[m], Stopping(j)) => Exists(j)'
  BY <1>1, <1>3 DEF Settles
<1>8. \A m \in Nodes : inStartup'[m] \subseteq Living'
  BY <1>1, <1>3, <1>4 DEF LiveInv, Settles
<1>9. \A j \in Jobs : Launched(j) => j \in Living
  BY <1>1, NodesOf DEF Launched, LiveInv, Living
<1>10. \A j \in Jobs : starts'[j] > 0 => Exists(j)'
  BY <1>1, <1>9 DEF Settles, Living
<1>11. succeeded' \subseteq Jobs
  BY DEF IInv, RunnerTypes
<1>12. \A j \in succeeded' : starts'[j] > 0
  BY <1>1, <1>11 DEF Settles, LiveInv
<1>13. \A z \in Living' : Parent[z] \in Living' \cup {NoJob} /\ Root[z] \in Living'
  BY <1>1, <1>3 DEF LiveInv
<1> QED
  BY <1>5, <1>6, <1>7, <1>8, <1>10, <1>12, <1>13 DEF LiveInv

\* What is added, and by whom.
LEMMA PendingKept ==
  ASSUME IInv, IInv', TreeInv, NEW n \in Nodes, NEW d, NEW c, NEW x, Mild(n, d, c, x),
         NEW k \in Jobs
  PROVE  PendingInv(k)'
<1>1. /\ Turn(n, d, c, x) /\ Settles(n, c, x) /\ Inherits(c, x) /\ PendingInv(k)
      /\ x \in Command
  BY DEF Mild, TreeInv, Ordered
<1>2. Adder(k) \in Nodes /\ Root[k] \in Jobs /\ AddedBy[k] \in Jobs \cup {NoJob}
  BY NodesOf, ManagerAssumption
<1>3. x \in Pending(k) => c \in Pending(k)
  <2> SUFFICES ASSUME x \in Pending(k)
               PROVE  c \in Pending(k)
    OBVIOUS
  <2>1. x.op \in Adding
    BY DEF Pending, Adds
  <2>2. x = [c EXCEPT !.hop = FALSE]
    BY <1>1, <2>1 DEF Inherits
  <2>3. c \in Command
    BY <1>1, HeadOrdered DEF Ordered
  <2>4. x.op = c.op /\ x.job = c.job /\ x.left = c.left
    BY <2>2, <2>3 DEF Command
  <2> QED
    BY <2>3, <2>4 DEF Pending, Adds
<1>4. Has(cmds'[Adder(k)], Pending(k)) => Has(cmds[Adder(k)], Pending(k))
  <2>1. /\ Has(cmds'[Adder(k)], Pending(k)) =>
             Has(cmds[Adder(k)], Pending(k)) \/ (Adder(k) = n /\ x \in Pending(k))
        /\ c \in Pending(k) => Has(cmds[n], Pending(k))
    BY <1>1, <1>2, NoDull, TurnFacts
  <2> QED
    BY <1>3, <2>1
<1>5. Begun(k) => Begun(k)'
  <2>1. CASE AddedBy[k] = NoJob
    BY <1>1, <1>2, <2>1 DEF Begun, Settles
  <2>2. CASE AddedBy[k] # NoJob
    <3>1. AddedBy[k] \in Adders /\ AddedBy[k] \in Jobs
      BY <1>2, <2>2 DEF Adders
    <3>2. starts \in [Jobs -> Nat]
      BY DEF IInv, RunnerTypes
    <3> QED
      BY <1>1, <2>2, <3>1, <3>2 DEF Begun, Settles
  <2> QED
    BY <2>1, <2>2
<1>6. Exists(k)' <=> Exists(k)
  BY <1>1 DEF Settles
<1> QED
  BY <1>1, <1>4, <1>5, <1>6 DEF PendingInv

\* How far a request job is.
LEMMA AdderKept ==
  ASSUME IInv, IInv', TreeInv, NEW n \in Nodes, NEW d, NEW c, NEW x, Mild(n, d, c, x),
         NEW a \in Adders
  PROVE  AdderInv(a)'
<1>1. /\ Turn(n, d, c, x) /\ Settles(n, c, x) /\ Inherits(c, x) /\ AdderInv(a) /\ LiveInv
  BY DEF Mild, TreeInv
<1>2. a \in Jobs /\ NodeOf[a] \in Nodes /\ starts[a] \in Nat
  BY AdderFacts DEF IInv, RunnerTypes
<1>3. PICK q : q = cmds[NodeOf[a]]
  OBVIOUS
<1>4. PICK p : p = cmds'[NodeOf[a]]
  OBVIOUS
<1>5. x \in By(a) => c \in By(a)
  BY <1>1, <1>2 DEF Inherits
<1>6. c \in By(a) => NodeOf[a] = n
  BY <1>1, HeadOrdered
<1>7. /\ Has(p, By(a)) => Has(q, By(a)) \/ x \in By(a)
      /\ Once(q, By(a)) /\ (x \in By(a) => c \in By(a)) => Once(p, By(a))
      /\ c \in By(a) => Has(q, By(a))
      /\ c \in By(a) /\ Once(q, By(a)) /\ x \notin By(a) => ~Has(p, By(a))
  <2>1. By(a) \cap Dull = {}
    BY <1>2, NoDull
  <2> QED
    BY <1>1, <1>2, <1>3, <1>4, <1>6, <2>1, TurnFacts
<1>8. Once(q, By(a)) /\ Once(p, By(a)) /\ (Has(p, By(a)) => Has(q, By(a)))
  BY <1>1, <1>3, <1>5, <1>7 DEF AdderInv
<1>9. ASSUME Has(p, By(a))
      PROVE  a \notin succeeded' /\ act'[a] # "active" /\ starts'[a] > 0
  <2>1. a \notin succeeded /\ act[a] # "active" /\ starts[a] > 0
    BY <1>1, <1>3, <1>8, <1>9 DEF AdderInv
  <2>2. starts'[a] > 0 /\ act'[a] # "active"
    BY <1>1, <1>2, <2>1 DEF Settles
  <2>3. a \in succeeded' => c \in By(a) /\ x \notin By(a)
    BY <1>1, <2>1 DEF Settles
  <2> QED
    BY <1>7, <1>8, <1>9, <2>2, <2>3
<1>10. ASSUME act'[a] = "active"
       PROVE  a \notin succeeded'
  <2>1. a \notin succeeded
    BY <1>1, <1>2, <1>10 DEF Settles, AdderInv, LiveInv
  <2> QED
    BY <1>1, <1>10, <2>1 DEF Settles
<1> QED
  BY <1>4, <1>8, <1>9, <1>10 DEF AdderInv

\* Who makes the tree of z executable: the one who submitted it, or a request job.
LEMMA ListFacts ==
  ASSUME IInv, IInv', TreeInv, NEW n \in Nodes, NEW d, NEW c, NEW x, Turn(n, d, c, x),
         NEW z \in Jobs, c \in Listing(z)
  PROVE  \/ c \in Opening(Root[z]) /\ n = Submitter[Root[z]]
         \/ \E b \in Adders : /\ c \in By(b) /\ NodeOf[b] = n /\ Root[b] = Root[z]
                              /\ starts[b] > 0
<1>1. c \in Ordered(n) /\ c \in Command /\ Has(cmds[n], Listing(z))
  BY HeadOrdered, NoDull, TurnFacts DEF Listing
<1>2. CASE c.by = NoJob
  BY <1>1, <1>2 DEF Ordered, Listing, Opening
<1>3. CASE c.by # NoJob
  <2>1. PICK b \in Adders : b = c.by /\ NodeOf[b] = n /\ Root[b] = Root[z]
    BY <1>1, <1>3 DEF Ordered, Listing
  <2>2. c \in By(b) /\ By(b) \cap Dull = {}
    BY <1>1, <2>1, AdderFacts, NoDull DEF By
  <2>3. Has(cmds[n], By(b))
    BY <2>2, TurnFacts
  <2>4. starts[b] > 0
    BY <2>1, <2>3 DEF TreeInv, AdderInv
  <2> QED
    BY <2>1, <2>2, <2>4
<1> QED
  BY <1>2, <1>3

\* When a job of the tree has started, it is a request job.
LEMMA LateList ==
  ASSUME IInv, IInv', TreeInv, NEW n \in Nodes, NEW d, NEW c, NEW x, Turn(n, d, c, x),
         NEW z \in Jobs, c \in Listing(z), NEW a \in Jobs, Root[a] = Root[z], starts[a] > 0
  PROVE  \E b \in Adders : c \in By(b) /\ NodeOf[b] = n /\ Root[b] = Root[z]
<1>1. Root[z] \in Jobs /\ Parent[Root[z]] = NoJob /\ OpeningInv(Root[z])
  BY ForestAssumption DEF TreeInv
<1>2. CASE c \in Opening(Root[z]) /\ n = Submitter[Root[z]]
  <2>1. Has(cmds[n], Opening(Root[z]))
    BY <1>2, NoDull, TurnFacts
  <2>2. Silent(a)
    BY <1>1, <1>2, <2>1 DEF OpeningInv
  <2> QED
    BY <2>2 DEF Silent, Asleep, Launched
<1> QED
  BY <1>2, ListFacts

\* A silent job stays so, unless its tree is made executable.
LEMMA SilentKept ==
  ASSUME IInv, IInv', TreeInv, NEW n \in Nodes, NEW d, NEW c, NEW x, Turn(n, d, c, x),
         NEW z \in Jobs, Silent(z),
         z \in idx'["WAITING"] => z \in idx["WAITING"] \/ c \in Setting(z),
         Launched(z)' => Launched(z) \/ (c \in Counting(z) /\ NodeOf[z] = n),
         x \in Counting(z) => z \in idx["WAITING"],
         x \in Waking(z) => c \in Waking(z)
  PROVE  Silent(z)'
<1>1. /\ Waking(z) \cap Dull = {}
      /\ Setting(z) \subseteq Waking(z)
  BY NoDull DEF Setting, Waking
<1>2. c \notin Waking(z) /\ x \notin Waking(z)
  BY <1>1, TurnFacts DEF Silent
<1>3. \A m \in Nodes : ~Has(cmds'[m], Waking(z))
  BY <1>1, <1>2, TurnFacts DEF Silent
<1>4. Asleep(z)'
  BY <1>1, <1>2, AsleepKept DEF Silent
<1> QED
  BY <1>3, <1>4 DEF Silent

\* What a round trip leaves of a command.
LEMMA HopFacts ==
  ASSUME NEW c \in Command, NEW x, x = [c EXCEPT !.hop = FALSE]
  PROVE  /\ x \in Command /\ x.hop = FALSE /\ x.op = c.op /\ x.job = c.job
         /\ x.by = c.by /\ x.to = c.to /\ x.tree = c.tree /\ x.left = c.left
         /\ x.from = c.from /\ x.then = c.then
BY DEF Command

\* A tree that is being submitted.
LEMMA OpeningKept ==
  ASSUME IInv, IInv', TreeInv, NEW n \in Nodes, NEW d, NEW c, NEW x, Mild(n, d, c, x),
         NEW r \in Jobs, Parent[r] = NoJob
  PROVE  OpeningInv(r)'
<1>1. /\ Turn(n, d, c, x) /\ Settles(n, c, x) /\ Inherits(c, x) /\ OpeningInv(r)
      /\ c \in Command /\ x \in Command
  BY HeadOrdered DEF Mild, TreeInv, Ordered
<1>2. PICK s \in Nodes : s = Submitter[r]
  BY ManagerAssumption
<1>3. PICK q : q = cmds[s]
  OBVIOUS
<1>4. PICK p : p = cmds'[s]
  OBVIOUS
<1>5. Opening(r) \cap Dull = {}
  BY NoDull
<1>6. x \in Opening(r) => /\ c \in Opening(r)
                          /\ x.op = c.op /\ x.job = c.job
  <2> SUFFICES ASSUME x \in Opening(r)
               PROVE  c \in Opening(r) /\ x.op = c.op /\ x.job = c.job
    OBVIOUS
  <2>1. x = [c EXCEPT !.hop = FALSE]
    BY <1>1 DEF Inherits, Opening
  <2> QED
    BY <1>1, <2>1, HopFacts, ZenonT(40) DEF Opening
<1>7. /\ Has(p, Opening(r)) => Has(q, Opening(r)) \/ (s = n /\ x \in Opening(r))
      /\ Once(q, Opening(r)) /\ (x \in Opening(r) => c \in Opening(r)) => Once(p, Opening(r))
      /\ c \in Opening(r) => Has(cmds[n], Opening(r))
      /\ c \in Opening(r) /\ Once(cmds[n], Opening(r)) /\ x \notin Opening(r)
           => ~Has(cmds'[n], Opening(r))
      /\ \A i \in DOMAIN p : p[i] \in Opening(r) =>
           \/ s = n /\ p[i] = x
           \/ \E k \in DOMAIN q : p[i] = q[k]
  BY <1>1, <1>3, <1>4, <1>5, TurnFacts
<1>8. Once(q, Opening(r)) /\ Once(p, Opening(r)) /\ (Has(p, Opening(r)) => Has(q, Opening(r)))
  BY <1>1, <1>2, <1>3, <1>6, <1>7 DEF OpeningInv
<1>9. ASSUME Has(p, Opening(r)), NEW z \in Jobs, Root[z] = r
      PROVE  Silent(z)'
  <2>1. \A y \in Jobs : Root[y] = r => Silent(y)
    BY <1>1, <1>2, <1>3, <1>8, <1>9 DEF OpeningInv
  <2>2. ASSUME x \in Waking(z), c \in Listing(z)
        PROVE  FALSE
    <3>1. CASE c \in Opening(r) /\ n = s
      <4>1. x \notin Opening(r)
        BY <2>2 DEF Waking, Opening, Adding
      <4> QED
        BY <1>3, <1>4, <1>7, <1>8, <1>9, <3>1, <4>1
    <3>2. ASSUME NEW b \in Adders, Root[b] = r, starts[b] > 0
          PROVE  FALSE
      <4>1. Silent(b)
        BY <2>1, <3>2, AdderFacts
      <4> QED
        BY <3>2, <4>1 DEF Silent, Asleep, Launched
    <3> QED
      BY <1>1, <1>2, <1>9, <2>2, <3>1, <3>2, ListFacts
  <2>3. Silent(z) /\ (x \in Waking(z) => c \in Waking(z))
    BY <1>1, <1>9, <2>1, <2>2 DEF Inherits
  <2>4. \A j \in Jobs : Launched(j)' =>
          Launched(j) \/ (c \in Counting(j) /\ NodeOf[j] = n)
    BY LiveKept
  <2>5. /\ z \in idx'["WAITING"] => z \in idx["WAITING"] \/ c \in Setting(z)
        /\ x \in Counting(z) => z \in idx["WAITING"]
    BY <1>1 DEF Settles, Inherits
  <2> QED
    BY <1>1, <2>3, <2>4, <2>5, SilentKept
<1>10. \A j \in Jobs : Exists(j)' <=> Exists(j)
  BY <1>1 DEF Settles
<1>11. ASSUME NEW i \in DOMAIN p, p[i] \in Opening(r)
       PROVE  /\ p[i].op = "add" => p[i].job = r \/ Parent[p[i].job] \in Living'
              /\ p[i].op = "tag" => p[i].job \in Living'
              /\ p[i].op = "list" => Exists(r)'
  <2>1. PICK e : /\ e \in Opening(r) /\ e.op = p[i].op /\ e.job = p[i].job
                 /\ \E k \in DOMAIN q : q[k] = e
    <3>1. CASE \E k \in DOMAIN q : p[i] = q[k]
      BY <1>11, <3>1
    <3>2. CASE s = n /\ p[i] = x
      <4>1. c \in Opening(r) /\ c.op = p[i].op /\ c.job = p[i].job
        BY <1>6, <1>11, <3>2
      <4>2. d = 1 /\ cmds[n] # <<>> /\ c = Head(cmds[n])
        BY <1>1, <1>5, <4>1, BlankIsDull DEF Turn
      <4>3. 1 \in DOMAIN q /\ q[1] = c
        <5>1. q \in Seq(Command) /\ q # <<>> /\ c = Head(q)
          BY <1>3, <3>2, <4>2, PipelineType
        <5> QED
          BY <5>1
      <4> QED
        BY <4>1, <4>3
    <3> QED
      BY <1>7, <1>11, <3>1, <3>2
  <2>2. /\ e.op = "add" => e.job = r \/ Parent[e.job] \in Living
        /\ e.op = "tag" => e.job \in Living
        /\ e.op = "list" => Exists(r)
    BY <1>1, <1>2, <1>3, <2>1 DEF OpeningInv
  <2> QED
    BY <1>10, <2>1, <2>2 DEF Living
<1> QED
  BY <1>2, <1>4, <1>8, <1>9, <1>11 DEF OpeningInv

\* A job that a request job is to add below stays asleep until it has.
LEMMA GuardsKept ==
  ASSUME IInv, IInv', TreeInv, Requests,
         NEW n \in Nodes, NEW d, NEW c, NEW x, Turn(n, d, c, x),
         NEW a \in Adders, NEW m \in Jobs, Guards(a, m), Has(cmds'[NodeOf[a]], AddsOf(a)),
         x \in AddsOf(a) => c \in Hopping(a) /\ x.hop = FALSE,
         Exists(m)',
         m \in idx'["WAITING"] => m \in idx["WAITING"] \/ c \in Setting(m),
         Launched(m)' => Launched(m) \/ (c \in Counting(m) /\ NodeOf[m] = n),
         x \in Counting(m) => m \in idx["WAITING"],
         x \in Waking(m) => c \in Waking(m) \/ c \in Listing(m),
         x \in Setting(m) => c \in Getting(m)
  PROVE  Guards(a, m)'
<1>1. PICK s \in Nodes : s = NodeOf[a]
  BY AdderFacts
<1>2. PICK q : q = cmds[s]
  OBVIOUS
<1>3. PICK p : p = cmds'[s]
  OBVIOUS
<1>4. /\ a \in Jobs /\ AddsOf(a) \cap Dull = {} /\ Hopping(a) \cap Dull = {}
      /\ Getting(m) \cap Dull = {} /\ Setting(m) \cap Dull = {} /\ Waking(m) \cap Dull = {}
      /\ Hopping(a) \subseteq AddsOf(a) /\ AddsOf(a) \subseteq By(a)
      /\ Setting(m) \subseteq Waking(m)
      /\ AddsOf(a) \cap Setting(m) = {} /\ Hopping(a) \cap Getting(m) = {}
  <2>1. a \in Jobs
    BY AdderFacts
  <2>2. /\ Hopping(a) \subseteq AddsOf(a) /\ AddsOf(a) \subseteq By(a)
        /\ Setting(m) \subseteq Waking(m)
        /\ AddsOf(a) \cap Setting(m) = {} /\ Hopping(a) \cap Getting(m) = {}
    BY DEF Hopping, AddsOf, By, Setting, Waking, Getting
  <2> QED
    BY <2>1, <2>2, NoDull
<1>5. /\ Exists(m) /\ Root[m] = Root[a] /\ Asleep(m)
      /\ \A h \in Nodes \ {s} : ~Has(cmds[h], Waking(m))
      /\ Before(q, Hopping(a), Getting(m))
      /\ Has(q, Hopping(a)) => ~Has(q, Setting(m))
      /\ Before(q, AddsOf(a), Setting(m))
  BY <1>1, <1>2 DEF Guards
<1>6. x \notin Hopping(a)
  BY <1>4 DEF Hopping
<1>7. Has(q, AddsOf(a)) /\ starts[a] > 0
  <2>1. Has(p, AddsOf(a)) => Has(q, AddsOf(a)) \/ (s = n /\ x \in AddsOf(a))
    BY <1>2, <1>3, <1>4, TurnFacts
  <2>2. c \in Hopping(a) => Has(cmds[n], AddsOf(a))
    BY <1>4, TurnFacts
  <2>3. Has(q, AddsOf(a))
    BY <1>1, <1>2, <1>3, <2>1, <2>2
  <2>4. Has(q, By(a))
    BY <1>4, <2>3 DEF Has
  <2> QED
    BY <1>1, <1>2, <2>3, <2>4 DEF TreeInv, AdderInv
<1>8. c \notin Setting(m)
  <2>1. CASE s = n
    <3>1. q \in Seq(Command)
      BY <1>2, PipelineType
    <3>2. c \in Setting(m) => q # <<>> /\ c = Head(q)
      BY <1>2, <1>4, <2>1, BlankIsDull DEF Turn
    <3> QED
      BY <1>5, <1>7, <3>1, <3>2, HeadFirst
  <2>2. CASE s # n
    <3>1. c \in Setting(m) => Has(cmds[n], Waking(m))
      BY <1>4, TurnFacts
    <3> QED
      BY <1>5, <2>2, <3>1
  <2> QED
    BY <2>1, <2>2
<1>9. Asleep(m)'
  BY <1>5, <1>8, AsleepKept
<1>10. ASSUME NEW h \in Nodes \ {s}
       PROVE  ~Has(cmds'[h], Waking(m))
  <2>1. Has(cmds'[h], Waking(m)) => Has(cmds[h], Waking(m)) \/ (h = n /\ x \in Waking(m))
    BY <1>4, TurnFacts
  <2>2. h = n => c \notin Waking(m)
    <3>1. c \in Waking(m) => Has(cmds[n], Waking(m))
      BY <1>4, TurnFacts
    <3> QED
      BY <1>5, <3>1
  <2>3. h = n => c \notin Listing(m)
    <3> SUFFICES ASSUME h = n, c \in Listing(m)
                 PROVE  FALSE
      OBVIOUS
    <3>1. PICK b \in Adders : NodeOf[b] = n /\ Root[b] = Root[m]
      BY <1>4, <1>5, <1>7, LateList
    <3>2. NodeOf[b] = NodeOf[a]
      BY <1>5, <3>1 DEF Requests
    <3> QED
      BY <1>1, <3>1, <3>2
  <2> QED
    BY <1>5, <2>1, <2>2, <2>3
<1>11. Before(p, Hopping(a), Getting(m))
  BY <1>2, <1>3, <1>4, <1>5, <1>6, TurnOrder
<1>12. Has(p, Hopping(a)) => ~Has(p, Setting(m))
  <2> SUFFICES ASSUME Has(p, Hopping(a)), Has(p, Setting(m))
               PROVE  FALSE
    OBVIOUS
  <2>1. Has(q, Hopping(a))
    BY <1>2, <1>3, <1>4, <1>6, TurnFacts
  <2>2. s = n /\ x \in Setting(m)
    BY <1>2, <1>3, <1>4, <1>5, <2>1, TurnFacts
  <2>3. c \in Getting(m)
    BY <2>2
  <2> QED
    BY <1>2, <1>4, <1>5, <1>6, <2>1, <2>2, <2>3, TurnOrder
<1>13. Before(p, AddsOf(a), Setting(m))
  <2>1. CASE x \in AddsOf(a) /\ s = n
    <3>1. Has(q, Hopping(a))
      BY <1>2, <1>4, <2>1, TurnFacts
    <3>2. x \notin Setting(m)
      BY <1>4, <2>1
    <3> QED
      BY <1>2, <1>3, <1>4, <1>5, <2>1, <3>1, <3>2, TurnOrder
  <2>2. CASE x \notin AddsOf(a)
    BY <1>2, <1>3, <1>4, <1>5, <2>2, TurnOrder
  <2>3. CASE s # n
    BY <1>2, <1>3, <1>5, <2>3 DEF Turn
  <2> QED
    BY <2>1, <2>2, <2>3
<1> QED
  BY <1>1, <1>3, <1>5, <1>9, <1>10, <1>11, <1>12, <1>13 DEF Guards

\* What a pipeline has after a mild step it had before, but for a round trip.
LEMMA MildElement ==
  ASSUME IInv, IInv', TreeInv, NEW n \in Nodes, NEW d, NEW c, NEW x, Turn(n, d, c, x),
         x.op \in Adding => c.hop /\ x = [c EXCEPT !.hop = FALSE],
         NEW a \in Jobs, NEW m \in Nodes, NEW i \in DOMAIN cmds'[m],
         cmds'[m][i] \in By(a), cmds'[m][i].op \in Adding
  PROVE  \E k \in DOMAIN cmds[m] :
           LET e == cmds[m][k] IN
           e \in By(a) /\ e.op = cmds'[m][i].op /\ e.job = cmds'[m][i].job
<1>1. By(a) \cap Dull = {} /\ c \in Command
  BY NoDull, HeadOrdered DEF Ordered
<1>2. CASE m = n /\ cmds'[m][i] = x
  <2>1. x = [c EXCEPT !.hop = FALSE]
    BY <1>2
  <2>2. c.op = x.op /\ c.job = x.job /\ c \in By(a)
    <3>1. x.op = c.op /\ x.job = c.job /\ x.by = c.by
      BY <1>1, <2>1, HopFacts
    <3>2. x.by = a
      BY <1>2 DEF By
    <3> QED
      BY <1>1, <3>1, <3>2 DEF By
  <2>3. cmds[n] # <<>> /\ c = Head(cmds[n]) /\ cmds[n] \in Seq(Command)
    BY <1>1, <2>2, BlankIsDull, PipelineType DEF Turn
  <2>4. 1 \in DOMAIN cmds[n] /\ cmds[n][1] = c
    BY <2>3
  <2> QED
    BY <1>2, <2>2, <2>4
<1> QED
  BY <1>1, <1>2, TurnFacts

\* What a request job adds, and where.
LEMMA GrowthKept ==
  ASSUME IInv, IInv', OnceInv, TreeInv, Requests,
         NEW n \in Nodes, NEW d, NEW c, NEW x, Mild(n, d, c, x), NEW a \in Adders
  PROVE  GrowthInv(a)'
<1>1. /\ Turn(n, d, c, x) /\ Settles(n, c, x) /\ Inherits(c, x) /\ GrowthInv(a)
      /\ c \in Command /\ x \in Command
      /\ \A j \in Jobs : Launched(j)' => Launched(j) \/ (c \in Counting(j) /\ NodeOf[j] = n)
      /\ \A j \in Jobs : Exists(j)' <=> Exists(j)
  BY HeadOrdered, LiveKept DEF Mild, TreeInv, Ordered, Settles
<1>2. PICK s \in Nodes : s = NodeOf[a]
  BY AdderFacts
<1>3. PICK q : q = cmds[s]
  OBVIOUS
<1>4. PICK p : p = cmds'[s]
  OBVIOUS
<1>5. a \in Jobs
  BY AdderFacts
<1>6. ASSUME NEW i \in DOMAIN p, p[i] \in By(a), p[i].op \in Adding
      PROVE  \E k \in DOMAIN q : q[k] \in By(a) /\ q[k].op = p[i].op /\ q[k].job = p[i].job
  BY <1>1, <1>3, <1>4, <1>5, <1>6, MildElement DEF Inherits
<1>7. ASSUME NEW i \in DOMAIN p, p[i] \in AddsOf(a)
      PROVE  \E k \in DOMAIN q : q[k] \in AddsOf(a) /\ q[k].job = p[i].job
  <2>1. p[i] \in By(a) /\ p[i].op = "add"
    BY <1>7 DEF AddsOf
  <2>2. PICK k \in DOMAIN q : q[k] \in By(a) /\ q[k].op = "add" /\ q[k].job = p[i].job
    BY <1>6, <2>1 DEF Adding
  <2> QED
    BY <2>2 DEF AddsOf
<1>8. ASSUME NEW P, \A i \in DOMAIN q : q[i] \in AddsOf(a) => Parent[q[i].job] \in P
      PROVE  \A i \in DOMAIN p : p[i] \in AddsOf(a) => Parent[p[i].job] \in P
  BY <1>7, <1>8
<1>9. ASSUME Has(p, AddsOf(a))
      PROVE  \/ \A i \in DOMAIN p : p[i] \in AddsOf(a) => Parent[p[i].job] \in Path[a] \ {a}
             \/ \E m \in Jobs : /\ Guards(a, m)'
                                /\ \A i \in DOMAIN p : p[i] \in AddsOf(a) =>
                                     Parent[p[i].job] \in Path[m]
  <2>1. Has(q, AddsOf(a))
    BY <1>7, <1>9 DEF Has
  <2>2. CASE \A i \in DOMAIN q : q[i] \in AddsOf(a) => Parent[q[i].job] \in Path[a] \ {a}
    BY <1>8, <2>2
  <2>3. ASSUME NEW m \in Jobs, Guards(a, m),
               \A i \in DOMAIN q : q[i] \in AddsOf(a) => Parent[q[i].job] \in Path[m]
        PROVE  \E h \in Jobs : /\ Guards(a, h)'
                               /\ \A i \in DOMAIN p : p[i] \in AddsOf(a) =>
                                    Parent[p[i].job] \in Path[h]
    <3>1. x \in AddsOf(a) => c \in Hopping(a) /\ x.hop = FALSE
      <4> SUFFICES ASSUME x \in AddsOf(a)
                   PROVE  c \in Hopping(a) /\ x.hop = FALSE
        OBVIOUS
      <4>1. x.op = "add" /\ x.by = a
        BY DEF AddsOf, By
      <4>2. c.hop /\ x = [c EXCEPT !.hop = FALSE]
        BY <1>1, <4>1 DEF Inherits, Adding
      <4>3. x.op = c.op /\ x.by = c.by /\ x.hop = FALSE
        BY <1>1, <4>2, HopFacts
      <4> QED
        BY <1>1, <4>1, <4>2, <4>3 DEF Hopping, AddsOf, By
    <3>2. Exists(m)'
      BY <1>1, <2>3 DEF Guards
    <3>3. /\ m \in idx'["WAITING"] => m \in idx["WAITING"] \/ c \in Setting(m)
          /\ x \in Counting(m) => m \in idx["WAITING"]
          /\ x \in Waking(m) => c \in Waking(m) \/ c \in Listing(m)
          /\ x \in Setting(m) => c \in Getting(m)
      BY <1>1 DEF Settles, Inherits
    <3>4. Guards(a, m)'
      BY <1>1, <1>2, <1>4, <1>9, <2>3, <3>1, <3>2, <3>3, GuardsKept
    <3> QED
      BY <1>8, <2>3, <3>4
  <2> QED
    BY <1>1, <1>2, <1>3, <2>1, <2>2, <2>3 DEF GrowthInv
<1>10. ASSUME NEW i \in DOMAIN p, p[i] \in By(a), p[i].op = "tag"
       PROVE  /\ Exists(p[i].job)' /\ Silent(p[i].job)'
              /\ p[i].job \in Tagged /\ Root[p[i].job] = Root[a]
  <2>1. PICK k \in DOMAIN q : q[k] \in By(a) /\ q[k].op = "tag" /\ q[k].job = p[i].job
    BY <1>6, <1>10 DEF Adding
  <2>2. PICK z : z = q[k].job
    OBVIOUS
  <2>3. Exists(z) /\ Silent(z) /\ z \in Tagged /\ Root[z] = Root[a]
    BY <1>1, <1>2, <1>3, <2>1, <2>2 DEF GrowthInv
  <2>4. z \in Jobs
    BY <2>3, ManagerAssumption
  <2>5. Has(q, By(a)) /\ Once(q, By(a)) /\ starts[a] > 0
    BY <1>2, <1>3, <2>1 DEF Has, TreeInv, AdderInv
  <2>6. AddedBy[z] = a
    <3>1. q \in Seq(Place(s))
      BY <1>3 DEF OnceInv, Placed
    <3>2. q[k] \in Place(s)
      BY <3>1
    <3> QED
      BY <2>1, <2>2, <3>2 DEF Place, By, Adding
  <2>7. c \notin Listing(z)
    <3> SUFFICES ASSUME c \in Listing(z)
                 PROVE  FALSE
      OBVIOUS
    <3>1. PICK b \in Adders : c \in By(b) /\ NodeOf[b] = n /\ Root[b] = Root[z]
      BY <1>1, <1>5, <2>3, <2>4, <2>5, LateList
    <3>2. b = a
      BY <1>5, <2>3, <2>4, <2>6, <3>1, AdderFacts DEF Requests
    <3>3. cmds[n] # <<>> /\ c = Head(cmds[n]) /\ cmds[n] \in Seq(Command)
      BY <1>1, <1>5, <3>1, <3>2, BlankIsDull, NoDull, PipelineType DEF Turn
    <3>4. 1 \in DOMAIN q /\ q[1] = c
      BY <1>2, <1>3, <3>1, <3>2, <3>3
    <3>5. k = 1
      BY <2>1, <2>5, <3>1, <3>2, <3>4 DEF Once
    <3> QED
      BY <2>1, <3>4, <3>5 DEF Listing
  <2>8. /\ z \in idx'["WAITING"] => z \in idx["WAITING"] \/ c \in Setting(z)
        /\ x \in Counting(z) => z \in idx["WAITING"]
        /\ x \in Waking(z) => c \in Waking(z)
        /\ Launched(z)' => Launched(z) \/ (c \in Counting(z) /\ NodeOf[z] = n)
    BY <1>1, <2>4, <2>7 DEF Settles, Inherits
  <2>9. Silent(z)'
    BY <1>1, <2>3, <2>4, <2>8, SilentKept
  <2> QED
    BY <1>1, <2>1, <2>2, <2>3, <2>4, <2>9
<1> QED
  BY <1>2, <1>4, <1>9, <1>10 DEF GrowthInv

\* A mild step keeps everything.
LEMMA MildSafe ==
  ASSUME IInv, IInv', OnceInv, TreeInv, Requests,
         NEW n \in Nodes, NEW d, NEW c, NEW x, Mild(n, d, c, x)
  PROVE  TreeInv'
<1>1. x \in Ordered(n)' /\ Grows
  <2>1. Living' = Living
    BY DEF Mild, Settles, Living
  <2> QED
    BY <2>1 DEF Mild, Settles, Grows, Ordered
<1>2. \A m \in Nodes : \A i \in DOMAIN cmds'[m] : cmds'[m][i] \in Ordered(m)'
  BY <1>1, OrderedKept DEF Mild
<1>3. LiveInv' /\ LeavesInv'
  BY LiveKept
<1>4. \A k \in Jobs : PendingInv(k)'
  BY PendingKept
<1>5. \A a \in Adders : AdderInv(a)' /\ GrowthInv(a)'
  BY AdderKept, GrowthKept
<1>6. \A r \in Jobs : Parent[r] = NoJob => OpeningInv(r)'
  BY OpeningKept
<1> QED
  BY <1>2, <1>3, <1>4, <1>5, <1>6 DEF TreeInv

\* Of whatever node.
LEMMA MildlySafe ==
  ASSUME IInv, IInv', OnceInv, TreeInv, Requests, Mildly
  PROVE  TreeInv'
BY MildSafe DEF Mildly

-----------------------------------------------------------------------------
(* Turns *)

\* The next command comes behind, with the head taken off or not.
LEMMA OneTurn ==
  ASSUME IInv, IInv', NEW n \in Nodes, NEW x
  PROVE  /\ cmds[n] # <<>> /\ Issue(n, <<x>>) => Turn(n, 1, Head(cmds[n]), x)
         /\ Enqueue(n, <<x>>) => Turn(n, 0, Blank, x)
<1>1. cmds[n] \in Seq(Command) /\ DOMAIN cmds = Nodes
  BY PipelineType DEF IInv
<1>2. PICK q \in Seq(Command) : q = cmds[n]
  BY <1>1
<1>3. ASSUME q # <<>>, Issue(n, <<x>>)
      PROVE  Turn(n, 1, Head(q), x)
  <2>1. PICK b : b = Tail(q)
    OBVIOUS
  <2>2. cmds'[n] = b \o <<x>> /\ \A m \in Nodes \ {n} : cmds'[m] = cmds[m]
    BY <1>1, <1>2, <1>3, <2>1 DEF Issue
  <2>3. Shift(b \o <<x>>, q, 1, x)
    BY <1>3, <2>1, ShiftAppend
  <2> QED
    BY <1>2, <1>3, <2>2, <2>3 DEF Turn
<1>4. ASSUME Enqueue(n, <<x>>)
      PROVE  Turn(n, 0, Blank, x)
  <2>1. cmds'[n] = q \o <<x>> /\ \A m \in Nodes \ {n} : cmds'[m] = cmds[m]
    BY <1>1, <1>2, <1>4 DEF Enqueue
  <2>2. Shift(q \o <<x>>, q, 0, x)
    BY ShiftAppend
  <2> QED
    BY <1>2, <2>1, <2>2 DEF Turn
<1> QED
  BY <1>2, <1>3, <1>4

\* Dull commands come behind.
LEMMA DullTurn ==
  ASSUME IInv, IInv', NEW n \in Nodes, NEW r \in Seq(Dull)
  PROVE  /\ cmds[n] # <<>> /\ Issue(n, r) => Turn(n, 1, Head(cmds[n]), Blank)
         /\ Enqueue(n, r) => Turn(n, 0, Blank, Blank)
<1>1. cmds[n] \in Seq(Command) /\ DOMAIN cmds = Nodes
  BY PipelineType DEF IInv
<1>2. PICK q \in Seq(Command) : q = cmds[n]
  BY <1>1
<1>3. ASSUME q # <<>>, Issue(n, r)
      PROVE  Turn(n, 1, Head(q), Blank)
  <2>1. PICK b : b = Tail(q)
    OBVIOUS
  <2>2. cmds'[n] = b \o r /\ \A m \in Nodes \ {n} : cmds'[m] = cmds[m]
    BY <1>1, <1>2, <1>3, <2>1 DEF Issue
  <2>3. Shift(b \o r, q, 1, Blank)
    BY <1>3, <2>1, ShiftAppend
  <2> QED
    BY <1>2, <1>3, <2>2, <2>3 DEF Turn
<1>4. ASSUME Enqueue(n, r)
      PROVE  Turn(n, 0, Blank, Blank)
  <2>1. cmds'[n] = q \o r /\ \A m \in Nodes \ {n} : cmds'[m] = cmds[m]
    BY <1>1, <1>2, <1>4 DEF Enqueue
  <2>2. Shift(q \o r, q, 0, Blank)
    BY ShiftAppend
  <2> QED
    BY <1>2, <2>1, <2>2 DEF Turn
<1> QED
  BY <1>2, <1>3, <1>4

\* What is dull.
LEMMA DullFacts ==
  ASSUME NEW c \in Command, c.by = NoJob,
         \/ c.op \notin Adding \cup {"count", "list", "get", "set", "store", "finish"}
         \/ /\ c.op \in {"list", "get", "set", "store", "finish"}
            /\ c.to \notin {"NEW", "WAITING"} /\ c.then # "allow_execution",
         c.op \in Doing => c.job \in Living /\ c.left \subseteq Living,
         c.op \in {"get", "set"} => ~c.hop, c.op = "list" => c.from \in States
  PROVE  c \in Dull
BY DEF Dull, Adding

\* Commands about one job.
LEMMA JobIsDull ==
  ASSUME NEW j \in Jobs, NEW op \in {"fetch", "context", "handler_job", "handler_context"},
         op \in Doing => j \in Living
  PROVE  JobCommand(op, j) \in Dull /\ [JobCommand(op, j) EXCEPT !.hop = TRUE] \in Dull
<1>1. JobCommand(op, j) \in Command /\ [JobCommand(op, j) EXCEPT !.hop = TRUE] \in Command
  BY JobCommandIsGood DEF Good, JobOps, Living
<1>2. /\ JobCommand(op, j).op = op /\ JobCommand(op, j).by = NoJob
      /\ JobCommand(op, j).job = j /\ JobCommand(op, j).left = {}
      /\ [JobCommand(op, j) EXCEPT !.hop = TRUE].op = op
      /\ [JobCommand(op, j) EXCEPT !.hop = TRUE].by = NoJob
      /\ [JobCommand(op, j) EXCEPT !.hop = TRUE].job = j
      /\ [JobCommand(op, j) EXCEPT !.hop = TRUE].left = {}
  BY BlankType, ZenonT(40) DEF JobCommand, Command
<1> QED
  BY <1>1, <1>2, DullFacts DEF Adding

\* A job ends, and its state is published.
LEMMA StatusIsDull ==
  ASSUME NEW j \in Jobs, NEW s \in States
  PROVE  /\ Publish(j, s) \in Dull
         /\ s \notin {"NEW", "WAITING"} /\ Exists(j) => Completed(j, s) \in Dull
<1>1. Publish(j, s) \in Command /\ Completed(j, s) \in Command
  BY PublishIsGood, CompletedIsGood DEF Good
<1>2. Publish(j, s).op = "publish" /\ Publish(j, s).by = NoJob
  BY BlankType DEF Publish, Command
<1>3. /\ Completed(j, s).op \in {"store", "finish"} /\ Completed(j, s).by = NoJob
      /\ Completed(j, s).to = s /\ Completed(j, s).then = "none"
      /\ Completed(j, s).job = j /\ Completed(j, s).left = {}
  BY BlankType, ZenonT(40) DEF Completed, Command
<1> QED
  BY <1>1, <1>2, <1>3, DullFacts DEF Adding, Doing, Living

\* set_state_tree, to abort.
LEMMA ListIsDull ==
  ASSUME NEW j \in Jobs, NEW from \in States, NEW node \in Nodes \cup {NoNode},
         NEW then \in TreeConts \ {"allow_execution"}, NEW todo \in SUBSET Jobs
  PROVE  /\ ListCommand(j, from, "ABORTED", node, then) \in Dull
         /\ [ListCommand(j, from, "ABORTED", node, then) EXCEPT !.todo = todo] \in Dull
<1>1. /\ ListCommand(j, from, "ABORTED", node, then) \in Command
      /\ [ListCommand(j, from, "ABORTED", node, then) EXCEPT !.todo = todo] \in Command
  BY ListIsGood DEF Good
<1>2. \A c \in {ListCommand(j, from, "ABORTED", node, then),
               [ListCommand(j, from, "ABORTED", node, then) EXCEPT !.todo = todo]} :
        c.op = "list" /\ c.by = NoJob /\ c.to = "ABORTED" /\ c.then = then /\ c.from = from
  <2>1. LET L == ListCommand(j, from, "ABORTED", node, then) IN
        L.op = "list" /\ L.by = NoJob /\ L.to = "ABORTED" /\ L.then = then /\ L.from = from
    BY BlankType DEF ListCommand, Command
  <2>2. LET L == ListCommand(j, from, "ABORTED", node, then)
            M == [L EXCEPT !.todo = todo]
        IN M.op = L.op /\ M.by = L.by /\ M.to = L.to /\ M.then = L.then /\ M.from = L.from
    BY <1>1 DEF Command
  <2> QED
    BY <2>1, <2>2
<1> QED
  BY <1>1, <1>2, DullFacts DEF Doing

\* Concatenation is associative.
LEMMA ConcatTwice ==
  ASSUME NEW p \in Seq(Command), NEW q \in Seq(Command), NEW r \in Seq(Command)
  PROVE  (p \o q) \o r = p \o (q \o r)
OBVIOUS

\* A status goes out, and then dull commands.
LEMMA SendTurn ==
  ASSUME IInv, IInv', NEW n \in Nodes, NEW S \in SUBSET Jobs, NEW s \in States,
         NEW d \in {0, 1}, d = 1 => cmds[n] # <<>>,
         NEW b, b = IF d = 1 THEN Tail(cmds[n]) ELSE cmds[n],
         NEW next \in Seq(Dull), SendJobStatus(n, S, s, b, next)
  PROVE  Turn(n, d, IF d = 1 THEN Head(cmds[n]) ELSE Blank, Blank)
<1>1. PICK order \in SetToSeqs(S) :
        cmds' = [cmds EXCEPT ![n] =
                   b \o [i \in DOMAIN order |-> Publish(order[i], s)] \o next]
  BY DEF SendJobStatus
<1> DEFINE sent == [i \in DOMAIN order |-> Publish(order[i], s)]
<1>2. sent \in Seq(Dull)
  <2>1. PICK k \in Nat : DOMAIN order = 1..k
    BY OrderIsSeq
  <2>2. \A j \in Jobs : Publish(j, s) \in Dull
    BY StatusIsDull
  <2>3. \A i \in 1..k : Publish(order[i], s) \in Dull
    BY <2>1, <2>2, OrderIsSeq
  <2> QED
    BY <2>1, <2>3
<1>3. cmds' = [cmds EXCEPT ![n] = (b \o sent) \o next]
  BY <1>1
<1> HIDE DEF sent
<1>4. cmds[n] \in Seq(Command) /\ DOMAIN cmds = Nodes /\ Dull \subseteq Command
  BY PipelineType DEF IInv, Dull
<1>5. b \in Seq(Command) /\ sent \in Seq(Command) /\ next \in Seq(Command)
  BY <1>2, <1>4, TailIsSeq
<1>6. (b \o sent) \o next = b \o (sent \o next)
  BY <1>5, ConcatTwice
<1>7. PICK r \in Seq(Dull) : r = sent \o next
  BY <1>2, ConcatIsSeq
<1>8. PICK q \in Seq(Command) : q = cmds[n]
  BY <1>4
<1>9. Shift(b \o r, q, d, Blank)
  BY <1>8, ShiftAppend
<1>10. cmds'[n] = b \o r /\ \A m \in Nodes \ {n} : cmds'[m] = cmds[m]
  BY <1>3, <1>4, <1>6, <1>7
<1>11. Shift(cmds'[n], cmds[n], d, Blank)
  BY <1>7, <1>8, <1>9, <1>10
<1> QED
  BY <1>10, <1>11 DEF Turn

-----------------------------------------------------------------------------
(* Steps that settle *)

\* A transaction about jobs that exist.
LEMMA StoreSettles ==
  ASSUME IInv, LiveInv, NEW c,
         \/ UNCHANGED <<state, idx>>
         \/ \E j \in Living, from \in States \cup {Absent}, to \in States :
              SetTx(j, from, to) /\ (to = "WAITING" => c \in Setting(j))
  PROVE  /\ \A j \in Jobs : Exists(j)' <=> Exists(j)
         /\ \A s \in States : idx'[s] \subseteq Living
         /\ \A z \in idx'["WAITING"] : z \in idx["WAITING"] \/ c \in Setting(z)
<1>1. CASE UNCHANGED <<state, idx>>
  BY <1>1 DEF Exists, LiveInv
<1>2. ASSUME NEW j \in Living, NEW from \in States \cup {Absent}, NEW to \in States,
             SetTx(j, from, to), to = "WAITING" => c \in Setting(j)
      PROVE  /\ \A i \in Jobs : Exists(i)' <=> Exists(i)
             /\ \A s \in States : idx'[s] \subseteq Living
             /\ \A z \in idx'["WAITING"] : z \in idx["WAITING"] \/ c \in Setting(z)
  <2>1. state' = [state EXCEPT ![j] = to] /\ state \in [Jobs -> States \cup {Absent}]
    BY <1>2 DEF SetTx, IInv, StoreTypeOK
  <2>2. Exists(j) /\ j \in Jobs /\ to # Absent
    BY DEF Living, States, Absent
  <2>3. \A i \in Jobs : Exists(i)' <=> Exists(i)
    BY <2>1, <2>2 DEF Exists
  <2>4. \A s \in States : idx'[s] \subseteq idx[s] \cup (IF s = to THEN {j} ELSE {})
    BY <1>2 DEF SetTx
  <2>5. "WAITING" \in States
    BY DEF States
  <2> QED
    BY <1>2, <2>3, <2>4, <2>5 DEF LiveInv
<1> QED
  BY <1>1, <1>2

\* A step of a runner that goes on, ends without success, or is no runner.
LEMMA Settled ==
  ASSUME IInv, TreeInv, NEW n, NEW c, NEW x,
         UNCHANGED <<starts, succeeded>>,
         \A m \in Nodes : inStartup'[m] \subseteq inStartup[m],
         \A j \in Jobs : act'[j] = "active" => act[j] = "active",
         \A m \in Nodes, j \in Jobs : Has(loop'[m], Stopping(j)) => Exists(j),
         \/ UNCHANGED <<state, idx>>
         \/ \E j \in Living, from \in States \cup {Absent}, to \in States :
              SetTx(j, from, to) /\ (to = "WAITING" => c \in Setting(j))
  PROVE  Settles(n, c, x)
<1>1. /\ \A j \in Jobs : Exists(j)' <=> Exists(j)
      /\ \A s \in States : idx'[s] \subseteq Living
      /\ \A z \in idx'["WAITING"] : z \in idx["WAITING"] \/ c \in Setting(z)
  BY StoreSettles DEF TreeInv
<1>2. \A m \in Nodes : \A z \in inStartup'[m] : z \in inStartup[m]
  OBVIOUS
<1>3. \A j \in Jobs : (starts[j] > 0 => starts'[j] > 0) /\ (starts'[j] > 0 => Launched(j))
  BY DEF Launched
<1>4. /\ succeeded \subseteq succeeded' /\ succeeded' \ succeeded = {}
      /\ \A a \in Adders : act'[a] = "active" => act[a] = "active"
  BY AdderFacts
<1> QED
  BY <1>1, <1>2, <1>3, <1>4 DEF Settles

\* The callbacks that wait: fewer, or some that stop no runner.
LEMMA LoopFewer ==
  ASSUME IInv, NEW n \in Nodes,
         \/ UNCHANGED loop
         \/ loop[n] # <<>> /\ loop' = [loop EXCEPT ![n] = Tail(@)]
         \/ \E S \in SUBSET Jobs, s \in States : \E order : JobStatus(n, S, s, order)
  PROVE  \A m \in Nodes, j \in Jobs : Has(loop'[m], Stopping(j)) => Has(loop[m], Stopping(j))
<1>1. loop \in [Nodes -> Seq(GoodCallback)]
  BY DEF IInv
<1>2. CASE loop[n] # <<>> /\ loop' = [loop EXCEPT ![n] = Tail(@)]
  <2>1. PICK q \in Seq(GoodCallback) : q = loop[n]
    BY <1>1
  <2>2. ASSUME NEW j \in Jobs
        PROVE  Has(Tail(q), Stopping(j)) => Has(q, Stopping(j))
    <3>1. q # <<>>
      BY <1>2, <2>1
    <3>2. Fewer(Tail(q), q, Stopping(j))
      BY <3>1, DropFewer
    <3> QED
      BY <3>2 DEF Fewer
  <2> QED
    BY <1>1, <1>2, <2>1, <2>2
<1>3. ASSUME NEW S \in SUBSET Jobs, NEW s \in States, NEW order, JobStatus(n, S, s, order)
      PROVE  \A m \in Nodes, j \in Jobs : Has(loop'[m], Stopping(j)) => Has(loop[m], Stopping(j))
  <2>1. PICK F \in SUBSET Jobs : F = {j \in S : [job |-> j, state |-> s] \notin Filter(n)}
    OBVIOUS
  <2>2. PICK fresh \in SetToSeqs(F) :
          loop' = [loop EXCEPT ![n] = @ \o [i \in DOMAIN fresh |-> CallbackFor(fresh[i], s)]]
    BY <1>3, <2>1 DEF JobStatus
  <2> DEFINE R == {b \in Callback : b.run # "abort_job"}
             r == [i \in DOMAIN fresh |-> CallbackFor(fresh[i], s)]
  <2>3. r \in Seq(R)
    <3>1. /\ \E k \in Nat : DOMAIN fresh = 1..k
          /\ \A i \in DOMAIN fresh : fresh[i] \in Jobs
      BY OrderIsSeq
    <3>2. \A j \in Jobs : CallbackFor(j, s) \in R
      BY DEF CallbackFor, Callback
    <3> QED
      BY <3>1, <3>2
  <2>4. loop[n] \in Seq(GoodCallback) /\ loop' = [loop EXCEPT ![n] = loop[n] \o r]
    BY <1>1, <2>2
  <2> HIDE DEF r
  <2>5. \A j \in Jobs : Stopping(j) \cap R = {}
    BY DEF Stopping
  <2>6. ASSUME NEW j \in Jobs
        PROVE  Has(loop[n] \o r, Stopping(j)) => Has(loop[n], Stopping(j))
    BY <2>3, <2>4, <2>5, ExtendFewer DEF Fewer
  <2> QED
    BY <1>1, <2>4, <2>6
<1> QED
  BY <1>2, <1>3

\* So only jobs that exist are stopped.
LEMMA LoopKept ==
  ASSUME IInv, LiveInv, NEW n \in Nodes,
         \/ UNCHANGED loop
         \/ loop[n] # <<>> /\ loop' = [loop EXCEPT ![n] = Tail(@)]
         \/ \E S \in SUBSET Jobs, s \in States : \E order : JobStatus(n, S, s, order)
  PROVE  \A m \in Nodes, j \in Jobs : Has(loop'[m], Stopping(j)) => Exists(j)
BY LoopFewer DEF LiveInv

\* Nothing becomes of a head behind which dull commands come.
LEMMA DullMild ==
  ASSUME NEW n, NEW d, NEW c, Turn(n, d, c, Blank), Settles(n, c, Blank)
  PROVE  Mild(n, d, c, Blank)
<1>1. Blank \in Dull /\ Blank \in Ordered(n)
  BY BlankIsDull, DullIsOrdered
<1>2. \A z \in Jobs : Blank \notin By(z) /\ Blank \notin Counting(z) /\ Blank \notin Waking(z)
                      /\ Blank \notin Setting(z)
  BY <1>1, NoDull
<1>3. Blank.op \notin Adding \cup {"list"}
  BY BlankType DEF Adding
<1> QED
  BY <1>1, <1>2, <1>3 DEF Mild, Inherits

\* A reply after which dull commands go out.
LEMMA Replied ==
  ASSUME IInv, IInv', OnceInv, TreeInv, Requests, NEW n \in Nodes, cmds[n] # <<>>,
         NEW r \in Seq(Dull), Issue(n, r), Settles(n, Head(cmds[n]), Blank)
  PROVE  Mildly
<1>1. Turn(n, 1, Head(cmds[n]), Blank)
  BY DullTurn
<1> QED
  BY <1>1, DullMild DEF Mildly

\* Dull commands go out, or none.
LEMMA Queued ==
  ASSUME IInv, IInv', OnceInv, TreeInv, Requests, NEW n \in Nodes,
         NEW r \in Seq(Dull), Enqueue(n, r) \/ UNCHANGED cmds, Settles(n, Blank, Blank)
  PROVE  Mildly
<1>1. CASE Enqueue(n, r)
  <2>1. Turn(n, 0, Blank, Blank)
    BY <1>1, DullTurn
  <2> QED
    BY <2>1, DullMild DEF Mildly
<1>2. CASE UNCHANGED cmds
  <2>1. Turn(n, 0, Blank, Blank)
    <3>1. cmds[n] \in Seq(Command)
      BY PipelineType
    <3>2. \A i \in DOMAIN cmds[n] : i + 0 = i
      BY <3>1
    <3> QED
      BY <1>2, <3>2 DEF Turn, Shift
  <2> QED
    BY <2>1, DullMild DEF Mildly
<1> QED
  BY <1>1, <1>2

\* A status goes out, and then dull commands.
LEMMA Sent ==
  ASSUME IInv, IInv', OnceInv, TreeInv, Requests, NEW n \in Nodes,
         NEW S \in SUBSET Jobs, NEW s \in States,
         NEW d \in {0, 1}, d = 1 => cmds[n] # <<>>,
         NEW b, b = IF d = 1 THEN Tail(cmds[n]) ELSE cmds[n],
         NEW next \in Seq(Dull), SendJobStatus(n, S, s, b, next),
         Settles(n, IF d = 1 THEN Head(cmds[n]) ELSE Blank, Blank)
  PROVE  Mildly
<1>1. Turn(n, d, IF d = 1 THEN Head(cmds[n]) ELSE Blank, Blank)
  BY SendTurn
<1> QED
  BY <1>1, DullMild DEF Mildly

\* A command takes the place of the head.
LEMMA Replaced ==
  ASSUME IInv, IInv', OnceInv, TreeInv, Requests, NEW n \in Nodes, cmds[n] # <<>>,
         NEW x \in Ordered(n), Issue(n, <<x>>), Inherits(Head(cmds[n]), x),
         Settles(n, Head(cmds[n]), x)
  PROVE  MildReply(n)
<1>1. Turn(n, 1, Head(cmds[n]), x)
  BY OneTurn
<1> QED
  BY <1>1 DEF Mild, MildReply

-----------------------------------------------------------------------------
(* The steps that issue dull commands *)

\* What a command at the head may be.
LEMMA HeadLives ==
  ASSUME IInv, IInv', TreeInv, NEW n \in Nodes, cmds[n] # <<>>
  PROVE  LET c == Head(cmds[n]) IN
         /\ c \in Ordered(n) /\ c \in Command /\ c \in Good(succeeded)
         /\ c.op \in Doing => c.job \in Living /\ c.job \in Jobs /\ c.left \subseteq Living
         /\ c.op \in JobOps => c.job \in Jobs
         /\ c.op \in TreeOps => c.tree \in Jobs
<1>1. PICK q \in Seq(Command) : q = cmds[n]
  BY PipelineType
<1>2. 1 \in DOMAIN q /\ q[1] = Head(q)
  BY <1>1
<1>3. Head(q) \in Ordered(n)
  BY <1>1, <1>2 DEF TreeInv
<1>4. Head(q) \in Good(succeeded)
  BY <1>1, HeadIsGood
<1> QED
  BY <1>1, <1>3, <1>4 DEF Ordered, Good, Living

\* Replies that change nothing the order of the tree rests on.
LEMMA DullReply ==
  ASSUME IInv, IInv', OnceInv, TreeInv, Requests, NEW n \in Nodes,
         \/ Instantiate(n) \/ GotContext(n) \/ AbortHandlerJob(n) \/ FindAbortHandlers(n)
         \/ RunAbortHandler(n) \/ NodeJobs(n) \/ PublishStatus(n)
  PROVE  Mildly
<1> DEFINE c == Head(cmds[n])
<1>1. cmds[n] # <<>>
  BY DEF Instantiate, GotContext, AbortHandlerJob, FindAbortHandlers, RunAbortHandler,
         NodeJobs, PublishStatus, Answer
<1>2. /\ c \in Command /\ LiveInv
      /\ c.op \in Doing => c.job \in Living /\ c.job \in Jobs
      /\ c.op \in JobOps => c.job \in Jobs
  BY <1>1, HeadLives DEF TreeInv
<1>3. UNCHANGED <<state, idx, loop, inStartup, act, starts, succeeded>>
  <2>1. CASE Instantiate(n) \/ GotContext(n) \/ AbortHandlerJob(n)
    BY <2>1 DEF Instantiate, GotContext, AbortHandlerJob, storeVars, managerVars, history
  <2>2. CASE FindAbortHandlers(n) \/ RunAbortHandler(n)
    BY <2>2 DEF FindAbortHandlers, RunAbortHandler, storeVars, managerVars, history
  <2>3. CASE NodeJobs(n) \/ PublishStatus(n)
    BY <2>3 DEF NodeJobs, PublishStatus, storeVars, managerVars, history
  <2> QED
    BY <2>1, <2>2, <2>3
<1>4. Settles(n, c, Blank)
  <2>1. \A m \in Nodes, j \in Jobs : Has(loop'[m], Stopping(j)) => Exists(j)
    BY <1>2, <1>3, LoopKept
  <2> HIDE DEF c
  <2> QED
    BY <1>3, <2>1, Settled
<1>5. \A r \in Seq(Dull) : Issue(n, r) => Mildly
  BY <1>1, <1>4, Replied
<1>6. \A x \in Dull : Issue(n, <<x>>) => Mildly
  <2>1. \A x \in Dull : <<x>> \in Seq(Dull)
    OBVIOUS
  <2> QED
    BY <1>5, <2>1
<1>7. <<>> \in Seq(Dull)
  OBVIOUS
<1> HIDE DEF c
<1>8. CASE Instantiate(n)
  <2>1. c.op = "fetch" /\ Issue(n, <<[JobCommand("context", c.job) EXCEPT !.hop = TRUE]>>)
    BY <1>8 DEF Instantiate, Answer, c
  <2>2. [JobCommand("context", c.job) EXCEPT !.hop = TRUE] \in Dull
    BY <1>2, <2>1, JobIsDull DEF Doing
  <2> QED
    BY <1>6, <2>1, <2>2
<1>9. CASE GotContext(n)
  <2> DEFINE x == [JobCommand("get", c.job) EXCEPT !.to = "RUNNING", !.then = "on_running",
                                                   !.all = ContextOf(c.job)]
  <2>1. c.op = "context" /\ Issue(n, <<x>>)
    BY <1>9 DEF GotContext, Answer, c
  <2>2. c.job \in Living /\ c.job \in Jobs
    BY <1>2, <2>1 DEF Doing
  <2>3. JobCommand("get", c.job) \in Command
    BY <2>2, BlankType DEF JobCommand, Command, Ops
  <2>4. /\ JobCommand("get", c.job).op = "get" /\ JobCommand("get", c.job).by = NoJob
        /\ JobCommand("get", c.job).job = c.job /\ JobCommand("get", c.job).left = {}
        /\ JobCommand("get", c.job).hop = FALSE
    BY BlankType DEF JobCommand, Command
  <2>5. ContextOf(c.job) \in SUBSET Jobs
    BY DEF ContextOf, Tree
  <2>6. /\ x \in Command /\ x.op = "get" /\ x.by = NoJob /\ x.job = c.job /\ x.left = {}
        /\ x.to = "RUNNING" /\ x.then = "on_running" /\ x.hop = FALSE
    BY <2>3, <2>4, <2>5, ZenonT(40) DEF Command, States, Conts
  <2> HIDE DEF x
  <2>7. x \in Dull
    BY <2>2, <2>6, DullFacts
  <2> QED
    BY <1>6, <2>1, <2>7
<1>10. CASE AbortHandlerJob(n)
  <2>1. /\ c.op = "handler_job"
        /\ Issue(n, <<[JobCommand("handler_context", c.job) EXCEPT !.hop = TRUE]>>)
    BY <1>10 DEF AbortHandlerJob, Answer, c
  <2>2. [JobCommand("handler_context", c.job) EXCEPT !.hop = TRUE] \in Dull
    BY <1>2, <2>1, JobIsDull DEF Doing, JobOps
  <2> QED
    BY <1>6, <2>1, <2>2
<1>11. CASE FindAbortHandlers(n)
  <2> DEFINE found == {k \in Tree(c.tree) \cap JobsOf(n) \cap handlers[n] : Exists(k)}
  <2>1. PICK order \in SetToSeqs(found) :
          Issue(n, [i \in DOMAIN order |-> JobCommand("handler_job", order[i])])
    BY <1>11 DEF FindAbortHandlers, c
  <2>2. found \in SUBSET Jobs
    BY DEF JobsOf
  <2> HIDE DEF found
  <2>3. PICK k \in Nat : DOMAIN order = 1..k
    BY <2>2, OrderIsSeq
  <2>4. \A i \in 1..k : JobCommand("handler_job", order[i]) \in Dull
    <3>1. \A i \in 1..k : order[i] \in Jobs
      BY <2>2, <2>3, OrderIsSeq
    <3> QED
      BY <3>1, JobIsDull DEF Doing
  <2>5. [i \in DOMAIN order |-> JobCommand("handler_job", order[i])] \in Seq(Dull)
    BY <2>3, <2>4
  <2> QED
    BY <1>5, <2>1, <2>5
<1>12. CASE RunAbortHandler(n) \/ PublishStatus(n)
  <2>1. Issue(n, <<>>)
    BY <1>12 DEF RunAbortHandler, PublishStatus
  <2> QED
    BY <1>5, <1>7, <2>1
<1>13. CASE NodeJobs(n)
  <2> DEFINE found == JobsOf(c.node) \cap (idx["RUNNING"] \cup
                                          IF c.node = n THEN {} ELSE idx["WAITING"])
  <2>1. \/ Issue(n, <<>>)
        \/ \E j \in found : Issue(n, <<ForceAbort(j, c.node, found \ {j})>>)
    BY <1>13 DEF NodeJobs, c
  <2>2. found \in SUBSET Jobs /\ c.node \in Nodes \cup {NoNode}
    BY <1>2 DEF JobsOf, Command
  <2> HIDE DEF found
  <2>3. \A j \in found : ForceAbort(j, c.node, found \ {j}) \in Dull
    BY <2>2, ListIsDull DEF ForceAbort, TreeConts, States
  <2> QED
    BY <1>5, <1>6, <1>7, <2>1, <2>3
<1> QED
  BY <1>8, <1>9, <1>10, <1>11, <1>12, <1>13

\* on_running of handle_failure has running jobs stopped.
LEMMA AbortRunnersLoop ==
  ASSUME IInv, NEW n \in Nodes, AbortRunners(n)
  PROVE  \A m \in Nodes, j \in Jobs :
           Has(loop'[m], Stopping(j)) => Has(loop[m], Stopping(j)) \/ j \in idx["RUNNING"]
<1> DEFINE running == idx["RUNNING"] \cap Tree(Head(cmds[n]).tree) \cap JobsOf(n) \cap runners[n]
<1>1. PICK order \in SetToSeqs(running) :
        loop' = [loop EXCEPT ![n] = @ \o
                  [i \in DOMAIN order |-> [run |-> "abort_job", job |-> order[i]]]]
  BY DEF AbortRunners
<1>2. loop \in [Nodes -> Seq(GoodCallback)]
  BY DEF IInv
<1>3. running \in SUBSET Jobs /\ running \subseteq idx["RUNNING"]
  BY DEF JobsOf
<1> HIDE DEF running
<1> DEFINE R == {b \in Callback : b.job \in idx["RUNNING"]}
           r == [i \in DOMAIN order |-> [run |-> "abort_job", job |-> order[i]]]
<1>4. r \in Seq(R)
  <2>1. PICK k \in Nat : DOMAIN order = 1..k
    BY <1>3, OrderIsSeq
  <2>2. \A i \in 1..k : order[i] \in idx["RUNNING"] /\ order[i] \in Jobs
    BY <1>3, <2>1, OrderIsSeq
  <2>3. \A i \in 1..k : [run |-> "abort_job", job |-> order[i]] \in R
    BY <2>2 DEF Callback
  <2> QED
    BY <2>1, <2>3
<1>5. PICK q \in Seq(GoodCallback) : q = loop[n]
  BY <1>2
<1>6. loop'[n] = q \o r /\ \A m \in Nodes \ {n} : loop'[m] = loop[m]
  BY <1>1, <1>2, <1>5
<1> HIDE DEF r, R
<1> SUFFICES ASSUME NEW m \in Nodes, NEW j \in Jobs, Has(loop'[m], Stopping(j))
             PROVE  Has(loop[m], Stopping(j)) \/ j \in idx["RUNNING"]
  OBVIOUS
<1>7. CASE m = n
  <2>1. Has(q, Stopping(j)) \/ Has(r, Stopping(j))
    BY <1>4, <1>5, <1>6, <1>7, AppendTokens, ZenonT(40)
  <2>2. Has(r, Stopping(j)) => j \in idx["RUNNING"]
    <3>1. \A i \in DOMAIN r : r[i] \in R
      BY <1>4
    <3> QED
      BY <3>1 DEF Has, Stopping, R
  <2> QED
    BY <1>5, <1>7, <2>1, <2>2
<1> QED
  BY <1>6, <1>7

\* Otherwise it changes nothing the order of the tree rests on.
LEMMA AbortRunnersTree ==
  ASSUME IInv, IInv', OnceInv, TreeInv, Requests, NEW n \in Nodes, AbortRunners(n)
  PROVE  Mildly
<1>1. cmds[n] # <<>> /\ Issue(n, <<>>) /\ <<>> \in Seq(Dull)
  BY DEF AbortRunners, Answer
<1>2. UNCHANGED <<state, idx, inStartup, act, starts, succeeded>>
  BY DEF AbortRunners, storeVars, managerVars, history
<1>3. \A m \in Nodes, j \in Jobs : Has(loop'[m], Stopping(j)) => Exists(j)
  <2>1. LiveInv /\ "RUNNING" \in States
    BY DEF TreeInv, States
  <2> QED
    BY <2>1, AbortRunnersLoop DEF LiveInv, Living
<1>4. Settles(n, Head(cmds[n]), Blank)
  BY <1>2, <1>3, Settled
<1> QED
  BY <1>1, <1>4, Replied

-----------------------------------------------------------------------------
(* Round trips, and jobs that end *)

\* The lookup of the root, the jobs that wait, and the state of a job.
LEMMA RoundTripTree ==
  ASSUME IInv, IInv', OnceInv, TreeInv, Requests, NEW n \in Nodes,
         GetRoot(n) \/ WaitingJobs(n) \/ GotCurrentState(n)
  PROVE  Mildly
<1> DEFINE c == Head(cmds[n])
<1>1. cmds[n] # <<>>
  BY DEF GetRoot, WaitingJobs, GotCurrentState, Answer
<1>2. c \in Command /\ LiveInv /\ c \in Ordered(n)
  BY <1>1, HeadLives DEF TreeInv
<1>3. UNCHANGED <<state, idx, loop, inStartup, act, starts, succeeded>>
  BY DEF GetRoot, WaitingJobs, GotCurrentState, storeVars, managerVars, history
<1>4. \A x : Settles(n, c, x)
  <2>1. \A m \in Nodes, j \in Jobs : Has(loop'[m], Stopping(j)) => Exists(j)
    BY <1>2, <1>3, LoopKept
  <2> HIDE DEF c
  <2> QED
    BY <1>3, <2>1, Settled
<1>5. \A x \in Ordered(n) : Issue(n, <<x>>) /\ Inherits(c, x) => Mildly
  BY <1>1, <1>4, Replaced DEF MildReply, Mildly
<1> HIDE DEF c
<1>6. CASE GetRoot(n)
  <2>1. PICK x : x = [c EXCEPT !.hop = FALSE]
    OBVIOUS
  <2>2. c.hop /\ Issue(n, <<x>>)
    BY <1>6, <2>1 DEF GetRoot, c
  <2>3. /\ x \in Command /\ x.hop = FALSE /\ x.op = c.op /\ x.job = c.job
        /\ x.by = c.by /\ x.to = c.to /\ x.tree = c.tree /\ x.left = c.left
        /\ x.from = c.from /\ x.then = c.then
    BY <1>2, <2>1, HopFacts
  <2>4. x \in Ordered(n)
    BY <1>2, <2>3 DEF Ordered
  <2>5. x.op \notin {"count", "get", "set"}
    BY <1>2, <2>2, <2>3 DEF Ordered
  <2>6. Inherits(c, x)
    BY <1>2, <2>1, <2>2, <2>3, <2>5 DEF Inherits, By, Counting, Waking, Setting
  <2> QED
    BY <1>5, <2>2, <2>4, <2>6
<1>7. CASE WaitingJobs(n)
  <2>1. PICK waiting \in SUBSET Jobs : waiting = idx["WAITING"] \cap JobsOf(n)
    BY DEF JobsOf
  <2>2. PICK x : x = [Blank EXCEPT !.op = "count", !.left = waiting]
    OBVIOUS
  <2>3. Issue(n, <<>>) \/ Issue(n, <<x>>)
    BY <1>7, <2>1, <2>2 DEF WaitingJobs
  <2>4. /\ x \in Command /\ x.op = "count" /\ x.left = waiting /\ x.by = NoJob
        /\ x.hop = FALSE
    BY <2>2, BlankType DEF Command, Ops
  <2>5. waiting \subseteq Living
    BY <1>2, <2>1 DEF LiveInv, States
  <2>6. x \in Ordered(n)
    BY <2>4, <2>5 DEF Ordered, Doing
  <2>7. Inherits(c, x)
    <3>1. \A a \in Jobs : x \notin By(a)
      BY <2>4, JobsAssumption DEF By
    <3> QED
      BY <2>1, <2>4, <3>1 DEF Inherits, Counting, Waking, Setting, Adding
  <2>8. Issue(n, <<>>) => Mildly
    <3>1. <<>> \in Seq(Dull)
      OBVIOUS
    <3> QED
      BY <1>1, <1>4, <3>1, Replied DEF c
  <2> QED
    BY <1>5, <2>3, <2>6, <2>7, <2>8
<1>8. CASE GotCurrentState(n)
  <2>1. PICK x : x = [c EXCEPT !.op = "set", !.from = state[c.job]]
    OBVIOUS
  <2>2. c.op = "get" /\ Issue(n, <<x>>)
    BY <1>8, <2>1 DEF GotCurrentState, Answer, c
  <2>3. state[c.job] \in States \cup {Absent}
    <3>1. c.job \in Jobs
      BY <1>1, <2>2, HeadLives DEF c, JobOps
    <3> QED
      BY <3>1 DEF IInv, StoreTypeOK
  <2>4. /\ x \in Command /\ x.op = "set" /\ x.hop = c.hop /\ x.job = c.job
        /\ x.by = c.by /\ x.to = c.to /\ x.tree = c.tree /\ x.left = c.left
        /\ x.then = c.then
    BY <1>2, <2>1, <2>3 DEF Command, Ops
  <2>5. x \in Ordered(n)
    BY <1>2, <2>2, <2>4 DEF Ordered, Doing
  <2>6. Inherits(c, x)
    <3>1. \A z \in Jobs : /\ x \in By(z) => c \in By(z)
                          /\ x \in Waking(z) => c \in Waking(z)
                          /\ x \in Setting(z) => c \in Getting(z)
                          /\ x \notin Counting(z)
      BY <1>2, <2>2, <2>4 DEF By, Counting, Waking, Setting, Getting
    <3>2. x.op \notin Adding \cup {"list"} /\ c.op \notin Adding
      BY <2>2, <2>4 DEF Adding
    <3> QED
      BY <3>1, <3>2 DEF Inherits
  <2> QED
    BY <1>5, <2>2, <2>5, <2>6
<1> QED
  BY <1>6, <1>7, <1>8

\* completed, and on_state_updated.
LEMMA FinishTree ==
  ASSUME IInv, IInv', OnceInv, TreeInv, Requests, NEW n \in Nodes,
         StateUpdated(n) \/ ContextStored(n) \/ GotFinishedJob(n)
  PROVE  Mildly
<1> DEFINE c == Head(cmds[n])
<1>1. cmds[n] # <<>>
  BY DEF StateUpdated, ContextStored, GotFinishedJob, Answer
<1>2. /\ c \in Command /\ LiveInv /\ c \in Ordered(n) /\ c.to \in States
      /\ c.op \in Doing => c.job \in Living /\ c.job \in Jobs /\ c.left \subseteq Living
  BY <1>1, HeadLives DEF TreeInv, Command
<1>3. UNCHANGED <<inStartup, act, starts, succeeded>>
  BY DEF StateUpdated, ContextStored, GotFinishedJob, FinishRunner, managerVars, history
<1> HIDE DEF c
<1>4. ASSUME c.op \in Doing, FinishRunner(n, c.job, c.to),
             \/ UNCHANGED <<state, idx>>
             \/ SetTx(c.job, c.from, c.to) /\ c.to # "WAITING"
      PROVE  Mildly
  <2>1. {c.job} \in SUBSET Jobs /\ <<>> \in Seq(Dull)
    BY <1>2, <1>4
  <2>2. SendJobStatus(n, {c.job}, c.to, Tail(cmds[n]), <<>>)
    BY <1>4 DEF FinishRunner
  <2>3. \E order : JobStatus(n, {c.job}, c.to, order)
    BY <2>2 DEF SendJobStatus
  <2>4. \A m \in Nodes, j \in Jobs : Has(loop'[m], Stopping(j)) => Exists(j)
    BY <1>2, <2>1, <2>3, LoopKept
  <2>5. c.from \in States \cup {Absent}
    BY <1>2 DEF Command
  <2>6. Settles(n, c, Blank)
    BY <1>2, <1>3, <1>4, <2>4, <2>5, Settled
  <2> QED
    BY <1>1, <1>2, <2>1, <2>2, <2>6, Sent DEF c
<1>5. ASSUME NEW x \in Dull, Issue(n, <<x>>), UNCHANGED <<state, idx, loop>>
      PROVE  Mildly
  <2>1. \A m \in Nodes, j \in Jobs : Has(loop'[m], Stopping(j)) => Exists(j)
    BY <1>2, <1>5, LoopKept
  <2>2. Settles(n, c, Blank)
    BY <1>3, <1>5, <2>1, Settled
  <2>3. <<x>> \in Seq(Dull)
    BY <1>5
  <2> QED
    BY <1>1, <1>5, <2>2, <2>3, Replied DEF c
<1>6. CASE StateUpdated(n)
  <2>1. /\ c.op = "set" /\ c.then = "on_state_updated"
        /\ SetTx(c.job, c.from, c.to) /\ FinishRunner(n, c.job, c.to)
    BY <1>6 DEF StateUpdated, Answer, c
  <2>2. c.to # "WAITING" /\ c.op \in Doing
    BY <1>2, <2>1 DEF Ordered, Doing
  <2> QED
    BY <1>4, <2>1, <2>2
<1>7. CASE ContextStored(n)
  <2>1. PICK x : x = [JobCommand("finish", c.job) EXCEPT !.to = c.to]
    OBVIOUS
  <2>2. c.op = "store" /\ Issue(n, <<x>>) /\ UNCHANGED <<state, idx, loop>>
    BY <1>7, <2>1 DEF ContextStored, ContextTx, Answer, c
  <2>3. c.job \in Living /\ c.job \in Jobs /\ c.to \notin {"NEW", "WAITING"}
    BY <1>2, <2>2 DEF Ordered, Doing
  <2>4. /\ x \in Command /\ x.op = "finish" /\ x.job = c.job /\ x.to = c.to
        /\ x.by = NoJob /\ x.left = {} /\ x.then = "none"
    <3>1. JobCommand("finish", c.job) \in Command
      BY <2>3, BlankType DEF JobCommand, Command, Ops
    <3>2. /\ JobCommand("finish", c.job).op = "finish"
          /\ JobCommand("finish", c.job).job = c.job
          /\ JobCommand("finish", c.job).by = NoJob
          /\ JobCommand("finish", c.job).left = {}
          /\ JobCommand("finish", c.job).then = "none"
      BY BlankType DEF JobCommand, Command
    <3> QED
      BY <1>2, <2>1, <3>1, <3>2, ZenonT(40) DEF Command
  <2>5. x \in Dull
    BY <2>3, <2>4, DullFacts
  <2> QED
    BY <1>5, <2>2, <2>5
<1>8. CASE GotFinishedJob(n)
  <2>1. c.op = "finish" /\ c.op \in Doing /\ ~c.hop /\ UNCHANGED storeVars
    BY <1>8 DEF GotFinishedJob, Answer, Doing, c
  <2>2. CASE FinishRunner(n, c.job, c.to)
    BY <1>4, <2>1, <2>2 DEF storeVars
  <2>3. CASE /\ Issue(n, <<[c EXCEPT !.op = "get", !.then = "on_state_updated"]>>)
             /\ UNCHANGED <<up, loop, inbox, managerVars, act, history, spent>>
    <3>1. PICK x : x = [c EXCEPT !.op = "get", !.then = "on_state_updated"]
      OBVIOUS
    <3>2. /\ x \in Command /\ x.op = "get" /\ x.then = "on_state_updated"
          /\ x.job = c.job /\ x.to = c.to /\ x.by = c.by /\ x.left = c.left
          /\ x.hop = c.hop
      BY <1>2, <3>1 DEF Command, Ops, Conts
    <3>3. c.by = NoJob /\ c.to \notin {"NEW", "WAITING"}
      BY <1>2, <2>1 DEF Ordered, Adding
    <3>4. x \in Dull
      BY <1>2, <2>1, <3>2, <3>3, DullFacts
    <3> QED
      BY <1>5, <2>1, <2>3, <3>1, <3>4 DEF storeVars
  <2> QED
    BY <1>8, <2>2, <2>3 DEF GotFinishedJob, c
<1> QED
  BY <1>6, <1>7, <1>8

-----------------------------------------------------------------------------
(* set_state_tree *)

\* What the callbacks of set_state_tree work on: the head h, or what it found.
Found(h, c) ==
  /\ c \in Good(succeeded) /\ c.then \in TreeConts
  /\ c.by = h.by /\ c.to = h.to /\ c.then = h.then /\ c.tree = h.tree
  /\ h.op \in {"list", "set"} /\ c.op \in {"list", "set"} /\ ~c.hop
  /\ c.left \subseteq Living
  /\ \A z \in c.left : c.to = "WAITING" => h \in Waking(z) \cup Listing(z)

\* The callback of set_state_tree: by whose tree became executable has succeeded.
LEMMA TreeSetTree ==
  ASSUME IInv, IInv', OnceInv, TreeInv, Requests, NEW n \in Nodes, cmds[n] # <<>>,
         NEW c, Found(Head(cmds[n]), c), TreeSet(n, c),
         \/ UNCHANGED <<state, idx>>
         \/ \E j \in Living, from \in States \cup {Absent}, to \in States :
              SetTx(j, from, to) /\ (to = "WAITING" => Head(cmds[n]) \in Setting(j))
  PROVE  MildReply(n)
<1> DEFINE h == Head(cmds[n])
<1>1. /\ h \in Command /\ LiveInv /\ h \in Ordered(n) /\ c \in Command
      /\ c.tree \in Jobs /\ c.by \in Jobs \cup {NoJob} /\ c.node \in Nodes \cup {NoNode}
      /\ c.all \in SUBSET Jobs /\ c.todo \in SUBSET Jobs
  BY HeadLives DEF TreeInv, Found, Good, Command
<1>2. "WAITING" \in States /\ "ABORTED" \in States /\ <<>> \in Seq(Dull)
      /\ "RUNNING" \in States
  BY DEF States
<1>3. UNCHANGED <<inStartup, starts>>
  BY DEF TreeSet
<1>4. ASSUME NEW S \in SUBSET Jobs, NEW s \in States, NEW next,
             SendJobStatus(n, S, s, Tail(cmds[n]), next)
      PROVE  \A m \in Nodes, j \in Jobs : Has(loop'[m], Stopping(j)) => Exists(j)
  <2>1. \E order : JobStatus(n, S, s, order)
    BY <1>4 DEF SendJobStatus
  <2> QED
    BY <1>1, <1>4, <2>1, LoopKept
<1> HIDE DEF h
<1>5. ASSUME NEW S \in SUBSET Jobs, NEW s \in States, NEW next \in Seq(Dull),
             SendJobStatus(n, S, s, Tail(cmds[n]), next), Settles(n, h, Blank)
      PROVE  MildReply(n)
  <2>1. Turn(n, 1, h, Blank)
    BY <1>5, SendTurn DEF h
  <2> QED
    BY <1>5, <2>1, DullMild DEF MildReply, h
<1>6. ASSUME UNCHANGED <<act, succeeded>>, NEW S \in SUBSET Jobs, NEW s \in States,
             NEW next \in Seq(Dull), SendJobStatus(n, S, s, Tail(cmds[n]), next)
      PROVE  MildReply(n)
  <2>1. \A m \in Nodes, j \in Jobs : Has(loop'[m], Stopping(j)) => Exists(j)
    BY <1>4, <1>6
  <2>2. Settles(n, h, Blank)
    BY <1>3, <1>6, <2>1, Settled DEF h
  <2> QED
    BY <1>5, <1>6, <2>2
<1>7. CASE /\ c.then = "allow_execution" /\ c.by = NoJob
           /\ SendJobStatus(n, {c.tree}, "WAITING", Tail(cmds[n]), <<>>)
           /\ UNCHANGED <<act, succeeded>>
  BY <1>1, <1>2, <1>6, <1>7
<1>8. CASE /\ c.then = "allow_execution" /\ c.by # NoJob
           /\ SendJobStatus(n, {c.tree}, "WAITING", Tail(cmds[n]),
                            <<Completed(c.by, "SUCCESS")>>)
           /\ act' = [act EXCEPT ![c.by] = "reported"]
           /\ succeeded' = succeeded \cup {c.by}
  <2>1. h \in By(c.by) /\ c.by \in Adders
    BY <1>1, <1>8 DEF Found, By, Ordered, h
  <2>2. starts[c.by] > 0
    <3>1. Has(cmds[n], By(c.by))
      <4>1. PICK q \in Seq(Command) : q = cmds[n]
        BY PipelineType
      <4>2. 1 \in DOMAIN q /\ q[1] = h
        BY <4>1 DEF h
      <4> QED
        BY <2>1, <4>1, <4>2 DEF Has
    <3>2. NodeOf[c.by] = n
      BY <1>1, <2>1, <1>8 DEF Ordered, Found, h
    <3> QED
      BY <2>1, <3>1, <3>2 DEF TreeInv, AdderInv
  <2>3. Completed(c.by, "SUCCESS") \in Dull
    BY <1>1, <1>8, <2>2, StatusIsDull DEF LiveInv, States
  <2>4. <<Completed(c.by, "SUCCESS")>> \in Seq(Dull)
    BY <2>3
  <2>5. \A m \in Nodes, j \in Jobs : Has(loop'[m], Stopping(j)) => Exists(j)
    BY <1>1, <1>2, <1>4, <1>8
  <2>6. /\ \A j \in Jobs : Exists(j)' <=> Exists(j)
        /\ \A s \in States : idx'[s] \subseteq Living
        /\ \A z \in idx'["WAITING"] : z \in idx["WAITING"] \/ h \in Setting(z)
    BY <1>1, StoreSettles DEF h
  <2>7. act \in [Jobs -> Activities] /\ c.by \in Jobs /\ Adders \subseteq Jobs
    BY <1>1, <1>8, AdderFacts DEF IInv, RunnerTypes
  <2>8. /\ succeeded \subseteq succeeded'
        /\ \A a \in succeeded' \ succeeded :
             /\ starts[a] > 0
             /\ a \in Adders => h \in By(a) /\ Blank \notin By(a) /\ act'[a] # "active"
    <3>1. Blank \notin By(c.by)
      BY <2>7, BlankIsDull, NoDull
    <3> QED
      BY <1>8, <2>1, <2>2, <2>7, <3>1
  <2>9. \A a \in Adders : act'[a] = "active" => act[a] = "active"
    BY <1>8, <2>7
  <2>10. \A j \in Jobs : (starts[j] > 0 => starts'[j] > 0) /\ (starts'[j] > 0 => Launched(j))
    BY <1>3 DEF Launched
  <2>11. Settles(n, h, Blank)
    BY <1>3, <2>5, <2>6, <2>8, <2>9, <2>10 DEF Settles
  <2> QED
    BY <1>1, <1>2, <1>5, <1>8, <2>4, <2>11
<1>9. CASE /\ SendJobStatus(n, c.all, "ABORTED", Tail(cmds[n]), <<>>)
           /\ UNCHANGED <<act, succeeded>>
  BY <1>1, <1>2, <1>6, <1>9
<1>10. CASE /\ SendJobStatus(n, c.all, "ABORTED", Tail(cmds[n]),
                 <<[ListCommand(c.tree, "RUNNING", "ABORTED", c.node, "force_running")
                      EXCEPT !.todo = c.todo]>>)
            /\ UNCHANGED <<act, succeeded>>
  <2>1. [ListCommand(c.tree, "RUNNING", "ABORTED", c.node, "force_running")
           EXCEPT !.todo = c.todo] \in Dull
    BY <1>1, <1>2, ListIsDull DEF TreeConts
  <2> QED
    BY <1>1, <1>2, <1>6, <1>10, <2>1, UnitIsSeq
<1>11. CASE /\ \E j \in c.todo : SendJobStatus(n, c.all, "ABORTED", Tail(cmds[n]),
                                   <<ForceAbort(j, c.node, c.todo \ {j})>>)
            /\ UNCHANGED <<act, succeeded>>
  <2>1. PICK j \in c.todo : SendJobStatus(n, c.all, "ABORTED", Tail(cmds[n]),
                              <<ForceAbort(j, c.node, c.todo \ {j})>>)
    BY <1>11
  <2>2. ForceAbort(j, c.node, c.todo \ {j}) \in Dull
    BY <1>1, <1>2, ListIsDull DEF ForceAbort, TreeConts
  <2> QED
    BY <1>1, <1>2, <1>6, <1>11, <2>1, <2>2, UnitIsSeq
<1> QED
  BY <1>7, <1>8, <1>9, <1>10, <1>11 DEF TreeSet

\* process_job goes on with the next job, or ends.
LEMMA NextInTreeTree ==
  ASSUME IInv, IInv', OnceInv, TreeInv, Requests, NEW n \in Nodes, cmds[n] # <<>>,
         NEW c, Found(Head(cmds[n]), c), NextInTree(n, c),
         \/ UNCHANGED <<state, idx>>
         \/ \E j \in Living, from \in States \cup {Absent}, to \in States :
              SetTx(j, from, to) /\ (to = "WAITING" => Head(cmds[n]) \in Setting(j))
  PROVE  MildReply(n)
<1> DEFINE h == Head(cmds[n])
<1>1. h \in Command /\ LiveInv /\ h \in Ordered(n) /\ c \in Command
  BY HeadLives DEF TreeInv, Found, Good
<1> HIDE DEF h
<1>2. CASE c.left = {} /\ TreeSet(n, c)
  BY <1>2, TreeSetTree
<1>3. CASE /\ \E j \in c.left :
                Issue(n, <<[c EXCEPT !.op = "get", !.job = j, !.left = c.left \ {j}]>>)
           /\ UNCHANGED <<up, loop, inbox, managerVars, act, history, spent>>
  <2>1. PICK j \in c.left :
          Issue(n, <<[c EXCEPT !.op = "get", !.job = j, !.left = c.left \ {j}]>>)
    BY <1>3, ZenonT(40)
  <2>2. PICK x : x = [c EXCEPT !.op = "get", !.job = j, !.left = c.left \ {j}]
    OBVIOUS
  <2>3. /\ x \in Command /\ x.op = "get" /\ x.job = j /\ x.left = c.left \ {j}
        /\ x.by = c.by /\ x.to = c.to /\ x.tree = c.tree /\ x.then = c.then /\ x.hop = c.hop
    BY <1>1, <2>2 DEF Command, Ops
  <2>4. /\ ~c.hop /\ c.by = h.by /\ c.to = h.to /\ c.then = h.then /\ c.tree = h.tree
        /\ h.op \in {"list", "set"} /\ c.left \subseteq Living
        /\ \A z \in c.left : c.to = "WAITING" => h \in Waking(z) \cup Listing(z)
        /\ c.to \in {"WAITING", "ABORTED"}
    BY DEF Found, Good, h
  <2>5. x \in Ordered(n)
    BY <1>1, <2>1, <2>3, <2>4 DEF Ordered
  <2>6. Inherits(h, x)
    <3>1. \A z \in Jobs : /\ x \in By(z) => h \in By(z)
                          /\ x \in Waking(z) => z \in c.left /\ c.to = "WAITING"
                          /\ x \notin Setting(z) /\ x \notin Counting(z)
      BY <1>1, <2>1, <2>3, <2>4 DEF By, Waking, Setting, Counting
    <3>2. x.op \notin Adding \cup {"list"} /\ h.op \notin Adding
      BY <2>3, <2>4 DEF Adding
    <3> QED
      BY <2>4, <3>1, <3>2 DEF Inherits
  <2>7. UNCHANGED <<loop, inStartup, act, starts, succeeded>>
    BY <1>3 DEF managerVars, history
  <2>8. \A m \in Nodes, i \in Jobs : Has(loop'[m], Stopping(i)) => Exists(i)
    BY <1>1, <2>7, LoopKept
  <2>9. Settles(n, h, x)
    BY <2>7, <2>8, Settled DEF h
  <2> QED
    BY <2>1, <2>2, <2>5, <2>6, <2>9, Replaced DEF h
<1> QED
  BY <1>2, <1>3, ZenonT(40) DEF NextInTree

\* The list, and the jobs on it.
LEMMA SetTreeTree ==
  ASSUME IInv, IInv', OnceInv, TreeInv, Requests, NEW n \in Nodes,
         ListTree(n) \/ TreeJobSet(n)
  PROVE  MildReply(n) /\ Mildly
<1> DEFINE h == Head(cmds[n])
<1>1. cmds[n] # <<>>
  BY DEF ListTree, TreeJobSet, Answer
<1>2. /\ h \in Command /\ h \in Good(succeeded) /\ LiveInv /\ h \in Ordered(n)
      /\ h.op \in Doing => h.job \in Living /\ h.job \in Jobs /\ h.left \subseteq Living
  BY <1>1, HeadLives DEF TreeInv
<1> HIDE DEF h
<1>3. CASE ListTree(n)
  <2>1. PICK found \in SUBSET Jobs : found = {j \in idx[h.from] \cap Tree(h.tree) :
                                                h.node = NoNode \/ NodeOf[j] = h.node}
    BY DEF Tree
  <2>2. PICK c : c = [h EXCEPT !.left = found, !.all = found]
    OBVIOUS
  <2>3. h.op = "list" /\ ~h.hop /\ UNCHANGED <<state, idx>> /\ NextInTree(n, c)
    BY <1>3, <2>1, <2>2 DEF ListTree, Answer, storeVars, h
  <2>4. /\ c \in Command /\ c.left = found /\ c.op = h.op /\ c.by = h.by /\ c.to = h.to
        /\ c.then = h.then /\ c.tree = h.tree /\ c.hop = h.hop /\ c.job = h.job
    BY <1>2, <2>2 DEF Command
  <2>5. h.from \in States
    BY <1>2, <2>3 DEF Ordered
  <2>6. found \subseteq Living
    BY <1>2, <2>1, <2>5 DEF LiveInv
  <2>7. \A z \in found : h.to = "WAITING" => h \in Listing(z)
    BY <1>2, <2>1, <2>3 DEF Listing, Tree
  <2>8. c \in Good(succeeded) /\ c.then \in TreeConts
    BY <1>2, <2>3, <2>4 DEF Good, JobOps, TreeOps
  <2>9. Found(h, c)
    BY <2>3, <2>4, <2>6, <2>7, <2>8 DEF Found
  <2> QED
    BY <1>1, <2>3, <2>9, NextInTreeTree DEF MildReply, Mildly, h
<1>4. CASE TreeJobSet(n)
  <2>1. /\ h.op = "set" /\ ~h.hop /\ h.then \notin {"on_running", "on_state_updated"}
        /\ SetTx(h.job, h.from, h.to) /\ NextInTree(n, h)
    BY <1>4 DEF TreeJobSet, Answer, h
  <2>2. h.then \in TreeConts
    BY <1>2, <2>1 DEF Good, Command, Conts, TreeConts
  <2>3. h.job \in Living /\ h.left \subseteq Living
    BY <1>2, <2>1 DEF Doing
  <2>4. Found(h, h)
    BY <1>2, <2>1, <2>2, <2>3 DEF Found, Waking
  <2>5. h.from \in States \cup {Absent} /\ h.to \in States
    BY <1>2 DEF Command
  <2>6. h.to = "WAITING" => h \in Setting(h.job)
    BY <1>2, <2>1 DEF Setting
  <2> QED
    BY <1>1, <2>1, <2>3, <2>4, <2>5, <2>6, NextInTreeTree DEF MildReply, Mildly, h
<1> QED
  BY <1>3, <1>4

-----------------------------------------------------------------------------
(* Jobs that start *)

\* Two cardinalities that agree: all children of a ready job are successes.
LEMMA ReadyDone ==
  ASSUME IInv, LiveInv, NEW j \in Jobs, Ready(j)
  PROVE  Children(j) \subseteq idx["SUCCESS"]
<1>1. "SUCCESS" \in States
  BY DEF States
<1>2. ChildrenIn(j, "SUCCESS") \subseteq Children(j)
  BY <1>1 DEF LiveInv, Living, ChildrenIn, Children
<1>3. IsFiniteSet(Children(j))
  <2>1. Children(j) \subseteq Jobs
    BY DEF Children
  <2> QED
    BY <2>1, JobsAssumption, FS_Subset
<1>4. ChildrenIn(j, "SUCCESS") = Children(j)
  BY <1>2, <1>3, FS_Subset DEF Ready
<1> QED
  BY <1>4 DEF ChildrenIn

\* evaluate puts the ready jobs into in_startup.
LEMMA StartJobsTree ==
  ASSUME IInv, IInv', OnceInv, TreeInv, Requests, NEW n \in Nodes, StartJobs(n)
  PROVE  Mildly
<1> DEFINE c == Head(cmds[n])
<1>1. cmds[n] # <<>> /\ c.op = "count"
  BY DEF StartJobs, Answer
<1>2. PICK new : new = {j \in c.left : Ready(j)} \ inStartup[n]
  OBVIOUS
<1>3. /\ inStartup' = [inStartup EXCEPT ![n] = @ \cup new]
      /\ UNCHANGED <<state, idx, loop, act, starts, succeeded>>
  BY <1>2 DEF StartJobs, storeVars, history
<1>4. PICK order \in SetToSeqs(new) :
        Issue(n, [i \in DOMAIN order |-> JobCommand("fetch", order[i])])
  BY <1>2 DEF StartJobs
<1>5. c \in Command /\ LiveInv /\ c \in Ordered(n) /\ inStartup \in [Nodes -> SUBSET Jobs]
  BY <1>1, HeadLives DEF TreeInv, IInv, NodeTypes
<1>6. c.left \subseteq JobsOf(n)
  <2>1. cmds[n] \in Seq(Place(n))
    BY DEF OnceInv, Placed
  <2>2. c \in Place(n)
    BY <1>1, <2>1, TailIsSeq
  <2> QED
    BY <1>1, <2>2 DEF Place
<1>7. new \in SUBSET Jobs /\ new \subseteq Living
  BY <1>1, <1>2, <1>5, <1>6 DEF JobsOf, Ordered
<1> HIDE DEF c
<1>8. \A z \in new : c \in Counting(z) /\ NodeOf[z] = n /\ Children(z) \subseteq idx["SUCCESS"]
  BY <1>1, <1>2, <1>5, <1>6, <1>7, ReadyDone DEF Counting, JobsOf
<1>9. [i \in DOMAIN order |-> JobCommand("fetch", order[i])] \in Seq(Dull)
  <2>1. PICK k \in Nat : DOMAIN order = 1..k
    BY <1>7, OrderIsSeq
  <2>2. \A i \in 1..k : order[i] \in new
    BY <1>7, <2>1, OrderIsSeq
  <2>3. \A j \in new : JobCommand("fetch", j) \in Dull
    BY <1>7, JobIsDull
  <2> QED
    BY <2>1, <2>2, <2>3
<1>10. Settles(n, c, Blank)
  <2>1. \A m \in Nodes, j \in Jobs : Has(loop'[m], Stopping(j)) => Exists(j)
    BY <1>3, <1>5, LoopKept
  <2>2. /\ \A j \in Jobs : Exists(j)' <=> Exists(j)
        /\ \A s \in States : idx'[s] \subseteq Living
        /\ \A z \in idx'["WAITING"] : z \in idx["WAITING"] \/ c \in Setting(z)
    BY <1>3, <1>5, StoreSettles
  <2>3. \A m \in Nodes : \A z \in inStartup'[m] :
          \/ z \in inStartup[m]
          \/ m = n /\ c \in Counting(z) /\ NodeOf[z] = n /\ Children(z) \subseteq idx["SUCCESS"]
    BY <1>3, <1>5, <1>8
  <2>4. \A j \in Jobs : (starts[j] > 0 => starts'[j] > 0) /\ (starts'[j] > 0 => Launched(j))
    BY <1>3 DEF Launched
  <2> QED
    BY <1>3, <2>1, <2>2, <2>3, <2>4 DEF Settles
<1> QED
  BY <1>1, <1>4, <1>9, <1>10, Replied DEF c

\* on_running: a job of in_startup starts.
LEMMA StartRunnerTree ==
  ASSUME IInv, IInv', OnceInv, TreeInv, Requests, NEW n \in Nodes, StartRunner(n)
  PROVE  Mildly
<1> DEFINE c == Head(cmds[n])
<1>1. /\ cmds[n] # <<>> /\ c.op = "set" /\ c.then = "on_running" /\ Issue(n, <<>>)
      /\ SetTx(c.job, c.from, c.to)
      /\ act' = [act EXCEPT ![c.job] = "active"]
      /\ starts' = [starts EXCEPT ![c.job] = @ + 1]
      /\ UNCHANGED <<loop, inStartup, succeeded>>
  BY DEF StartRunner, Answer, managerVars
<1>2. /\ c \in Command /\ LiveInv /\ c \in Ordered(n)
      /\ c.job \in Living /\ c.job \in Jobs
  BY <1>1, HeadLives DEF TreeInv, Doing
<1>3. /\ c.from \in States \cup {Absent} /\ c.to \in States /\ c.to # "WAITING"
      /\ act \in [Jobs -> Activities] /\ starts \in [Jobs -> Nat]
  BY <1>1, <1>2 DEF Command, Ordered, IInv, RunnerTypes
<1>4. Has(cmds[n], Chain(c.job)) /\ NodeOf[c.job] = n
  <2>1. PICK q \in Seq(Command) : q = cmds[n]
    BY PipelineType
  <2>2. 1 \in DOMAIN q /\ q[1] = c
    BY <1>1, <2>1
  <2>3. c \in Chain(c.job) /\ c \in Starting
    BY <1>1, <1>2 DEF Chain, Starting
  <2>4. cmds[n] \in Seq(Place(n))
    BY DEF OnceInv, Placed
  <2>5. c \in Place(n)
    BY <1>1, <2>4, TailIsSeq
  <2> QED
    BY <2>1, <2>2, <2>3, <2>5 DEF Has, Place
<1>5. c.job \in inStartup[n] /\ starts[c.job] < Lives(n)
  BY <1>2, <1>4 DEF OnceInv, StartsInv, StartInv
<1> HIDE DEF c
<1>6. c.job \in Adders => starts[c.job] = 0
  <2> SUFFICES ASSUME c.job \in Adders
               PROVE  starts[c.job] = 0
    OBVIOUS
  <2>1. n \notin Crashing
    BY <1>4 DEF Requests, AddersStay, Adders
  <2> QED
    BY <1>2, <1>3, <1>5, <2>1 DEF Lives
<1>7. Settles(n, c, Blank)
  <2>1. \A m \in Nodes, j \in Jobs : Has(loop'[m], Stopping(j)) => Exists(j)
    BY <1>1, <1>2, LoopKept
  <2>2. /\ \A j \in Jobs : Exists(j)' <=> Exists(j)
        /\ \A s \in States : idx'[s] \subseteq Living
        /\ \A z \in idx'["WAITING"] : z \in idx["WAITING"] \/ c \in Setting(z)
    BY <1>1, <1>2, <1>3, StoreSettles
  <2>3. \A j \in Jobs : (starts[j] > 0 => starts'[j] > 0) /\ (starts'[j] > 0 => Launched(j))
    BY <1>1, <1>2, <1>3, <1>4, <1>5 DEF Launched
  <2>4. \A a \in Adders : act'[a] = "active" => act[a] = "active" \/ starts[a] = 0
    BY <1>1, <1>2, <1>3, <1>6, AdderFacts
  <2> QED
    BY <1>1, <2>1, <2>2, <2>3, <2>4 DEF Settles
<1>8. <<>> \in Seq(Dull)
  OBVIOUS
<1> QED
  BY <1>1, <1>7, <1>8, Replied DEF c

-----------------------------------------------------------------------------
(* The other steps *)

\* The IO loop, messages, users, checks, crashes and restarts.
LEMMA RunTree ==
  ASSUME IInv, IInv', OnceInv, TreeInv, Requests, NEW n \in Nodes,
         \/ Run(n) \/ OtherStatus(n) \/ Crash(n) \/ Restart(n) \/ SweepNode(n)
         \/ \E j \in Jobs : UserAbort(j)
  PROVE  Mildly
<1>1. /\ LiveInv /\ act \in [Jobs -> Activities] /\ "ABORTED" \in States
      /\ "WAITING" \in States /\ <<>> \in Seq(Dull) /\ Pacemaker \in Nodes
      /\ inStartup \in [Nodes -> SUBSET Jobs] /\ loop \in [Nodes -> Seq(GoodCallback)]
  <2>1. LiveInv /\ Pacemaker \in Nodes
    BY ManagerAssumption DEF TreeInv
  <2>2. act \in [Jobs -> Activities]
    BY DEF IInv, RunnerTypes
  <2>3. inStartup \in [Nodes -> SUBSET Jobs] /\ loop \in [Nodes -> Seq(GoodCallback)]
    BY DEF IInv, NodeTypes
  <2>4. "ABORTED" \in States /\ "WAITING" \in States
    BY DEF States
  <2>5. <<>> \in Seq(Dull)
    OBVIOUS
  <2> QED
    BY <2>1, <2>2, <2>3, <2>4, <2>5
<1>2. ASSUME UNCHANGED <<state, idx, starts, succeeded>>, inStartup' = inStartup,
             NEW m \in Nodes,
             \/ UNCHANGED loop
             \/ loop[m] # <<>> /\ loop' = [loop EXCEPT ![m] = Tail(@)]
             \/ \E S \in SUBSET Jobs, s \in States : \E order : JobStatus(m, S, s, order),
             \A j \in Jobs : act'[j] = "active" => act[j] = "active"
      PROVE  Settles(m, Blank, Blank)
  <2>1. \A h \in Nodes, j \in Jobs : Has(loop'[h], Stopping(j)) => Exists(j)
    BY <1>1, <1>2, LoopKept
  <2> QED
    BY <1>2, <2>1, Settled
<1>3. ASSUME NEW x \in Dull, NEW m \in Nodes, Enqueue(m, <<x>>),
             UNCHANGED <<state, idx, starts, succeeded, inStartup, act>>,
             UNCHANGED loop \/ (loop[m] # <<>> /\ loop' = [loop EXCEPT ![m] = Tail(@)])
      PROVE  Mildly
  <2>1. Settles(m, Blank, Blank) /\ <<x>> \in Seq(Dull)
    BY <1>2, <1>3
  <2> QED
    BY <1>3, <2>1, Queued
<1>4. [Blank EXCEPT !.op = "ready"] \in Dull
      /\ \A t \in Nodes : [Blank EXCEPT !.op = "node_jobs", !.node = t] \in Dull
  BY BlankType, ZenonT(40) DEF Dull, Command, Ops, Adding, Doing
<1>5. CASE Evaluate(n)
  <2>1. /\ Enqueue(n, <<[Blank EXCEPT !.op = "ready"]>>)
        /\ UNCHANGED <<state, idx, starts, succeeded, inStartup, act>>
        /\ loop[n] # <<>> /\ loop' = [loop EXCEPT ![n] = Tail(@)]
    BY <1>5 DEF Evaluate, Runs, storeVars, managerVars, history
  <2> QED
    BY <1>3, <1>4, <2>1, ZenonT(40)
<1>6. CASE OtherStatus(n)
  <2>1. /\ Enqueue(n, <<[Blank EXCEPT !.op = "ready"]>>)
        /\ UNCHANGED <<state, idx, starts, succeeded, inStartup, act, loop>>
    BY <1>6 DEF OtherStatus, storeVars, managerVars, history
  <2> QED
    BY <1>3, <1>4, <2>1, ZenonT(40)
<1>7. CASE HandleFailure(n)
  <2>1. PICK j \in Jobs : j = Head(loop[n]).job
    BY <1>7, RunsGood DEF HandleFailure
  <2>2. PICK next : next = <<ListCommand(j, "WAITING", "ABORTED", n, "handle_failure"),
                             TreeCommand("running", j), TreeCommand("tree", j)>>
    OBVIOUS
  <2>3. /\ Enqueue(n, next)
        /\ UNCHANGED <<state, idx, starts, succeeded, inStartup, act>>
        /\ loop[n] # <<>> /\ loop' = [loop EXCEPT ![n] = Tail(@)]
    BY <1>7, <2>1, <2>2 DEF HandleFailure, Runs, storeVars, managerVars, history
  <2>4. /\ ListCommand(j, "WAITING", "ABORTED", n, "handle_failure") \in Dull
        /\ TreeCommand("running", j) \in Dull /\ TreeCommand("tree", j) \in Dull
    <3>1. \A op \in {"running", "tree"} : TreeCommand(op, j) \in Command
                 /\ TreeCommand(op, j).op = op /\ TreeCommand(op, j).by = NoJob
      BY BlankType DEF TreeCommand, Command, Ops
    <3>2. ListCommand(j, "WAITING", "ABORTED", n, "handle_failure") \in Dull
      BY <1>1, ListIsDull DEF TreeConts
    <3> QED
      BY <3>1, <3>2, DullFacts DEF Adding, Doing
  <2>5. next \in Seq(Dull)
    BY <2>2, <2>4
  <2>6. Settles(n, Blank, Blank)
    BY <1>2, <2>3
  <2> QED
    BY <2>3, <2>5, <2>6, Queued
<1>8. CASE AbortJob(n)
  <2>1. PICK j \in Jobs : j = Head(loop[n]).job
    BY <1>8, RunsGood DEF AbortJob
  <2>2. /\ UNCHANGED <<state, idx, starts, succeeded, inStartup>>
        /\ loop[n] # <<>> /\ loop' = [loop EXCEPT ![n] = Tail(@)]
        /\ Head(loop[n]).run = "abort_job"
        /\ Enqueue(n, <<Completed(j, "ABORTED")>>) \/ UNCHANGED cmds
        /\ act' = [act EXCEPT ![j] = "reported"] \/ UNCHANGED act
    BY <1>8, <2>1 DEF AbortJob, Runs, storeVars, managerVars, history
  <2>3. Exists(j)
    <3>1. PICK q \in Seq(GoodCallback) : q = loop[n]
      BY <1>1
    <3>2. 1 \in DOMAIN q /\ q[1] = Head(q) /\ Head(q) \in GoodCallback
      BY <2>2, <3>1
    <3>3. Head(q) \in Stopping(j)
      BY <2>1, <2>2, <3>1, <3>2 DEF GoodCallback, Stopping
    <3>4. Has(q, Stopping(j))
      BY <3>2, <3>3 DEF Has
    <3> QED
      BY <1>1, <3>1, <3>4 DEF LiveInv
  <2>4. <<Completed(j, "ABORTED")>> \in Seq(Dull)
    BY <1>1, <2>3, StatusIsDull, UnitIsSeq
  <2>5. Settles(n, Blank, Blank)
    BY <1>1, <1>2, <2>2
  <2> QED
    BY <2>2, <2>4, <2>5, Queued
<1>9. CASE Receive(n)
  <2>1. PICK m \in Status : m = Head(inbox[n]) /\ JobStatus(n, {m.job}, m.state, <<m.job>>)
    <3>1. inbox[n] \in Seq(Status) /\ inbox[n] # <<>>
      BY <1>9 DEF Receive, IInv, NodeTypes
    <3>2. Head(inbox[n]) \in Status
      BY <3>1, TailIsSeq
    <3> QED
      BY <1>9, <3>2 DEF Receive
  <2>2. {m.job} \in SUBSET Jobs /\ m.state \in States
    BY DEF Status
  <2>3. UNCHANGED <<state, idx, starts, succeeded, inStartup, act, cmds>>
    BY <1>9 DEF Receive, storeVars, history
  <2>4. Settles(n, Blank, Blank)
    BY <1>2, <2>1, <2>2, <2>3
  <2> QED
    BY <1>1, <2>3, <2>4, Queued
<1>10. CASE Crash(n)
  <2>1. /\ UNCHANGED <<state, idx, starts, succeeded>>
        /\ inStartup' = [inStartup EXCEPT ![n] = {}]
        /\ loop' = [loop EXCEPT ![n] = <<>>]
        /\ cmds' = [cmds EXCEPT ![n] = <<>>]
        /\ act' = [j \in Jobs |-> IF NodeOf[j] = n THEN "idle" ELSE act[j]]
    BY <1>10 DEF Crash, storeVars, history
  <2>2. \A h \in Nodes, j \in Jobs : Has(loop'[h], Stopping(j)) => Exists(j)
    BY <1>1, <2>1, EmptyTokens DEF LiveInv
  <2>3. Settles(n, Blank, Blank)
    <3>1. /\ \A m \in Nodes : inStartup'[m] \subseteq inStartup[m]
          /\ \A j \in Jobs : act'[j] = "active" => act[j] = "active"
      BY <1>1, <2>1
    <3> QED
      BY <2>1, <2>2, <3>1, Settled
  <2>4. Turn(n, 0, Blank, Blank)
    <3>1. DOMAIN cmds = Nodes
      BY DEF IInv
    <3>2. cmds'[n] = <<>> /\ \A m \in Nodes \ {n} : cmds'[m] = cmds[m]
      BY <2>1, <3>1
    <3> QED
      BY <3>2 DEF Turn, Shift
  <2> QED
    BY <2>3, <2>4, DullMild DEF Mildly
<1>11. CASE Restart(n)
  <2>1. /\ Enqueue(n, <<[Blank EXCEPT !.op = "node_jobs", !.node = n]>>)
        /\ UNCHANGED <<state, idx, starts, succeeded, inStartup, act, loop>>
    BY <1>11 DEF Restart, storeVars, managerVars, history
  <2> QED
    BY <1>3, <1>4, <2>1, ZenonT(40)
<1>12. CASE SweepNode(n)
  <2>1. /\ Enqueue(Pacemaker, <<[Blank EXCEPT !.op = "node_jobs", !.node = n]>>)
        /\ UNCHANGED <<state, idx, starts, succeeded, inStartup, act, loop>>
    BY <1>12 DEF SweepNode, storeVars, managerVars, history
  <2> QED
    BY <1>1, <1>3, <1>4, <2>1, ZenonT(40)
<1>13. ASSUME NEW j \in Jobs, UserAbort(j)
       PROVE  Mildly
  <2>1. /\ SendJobStatus(Pacemaker, {j}, "ABORTED", cmds[Pacemaker], <<>>)
        /\ UNCHANGED <<state, idx, starts, succeeded, inStartup, act>>
    BY <1>13 DEF UserAbort, storeVars, history
  <2>2. {j} \in SUBSET Jobs
    OBVIOUS
  <2>3. \E S \in SUBSET Jobs, s \in States : \E order : JobStatus(Pacemaker, S, s, order)
    BY <1>1, <2>1, <2>2 DEF SendJobStatus
  <2>4. Settles(Pacemaker, Blank, Blank)
    BY <1>1, <1>2, <2>1, <2>3
  <2>5. PICK d \in {0, 1} : d = 0
    OBVIOUS
  <2>6. Turn(Pacemaker, 0, Blank, Blank)
    <3>1. PICK b : b = cmds[Pacemaker]
      OBVIOUS
    <3>2. PICK S \in SUBSET Jobs : S = {j}
      BY <2>2
    <3>3. PICK next \in Seq(Dull) : next = <<>>
      BY <1>1
    <3>4. SendJobStatus(Pacemaker, S, "ABORTED", b, next)
      BY <2>1, <3>1, <3>2, <3>3
    <3>5. b = IF d = 1 THEN Tail(cmds[Pacemaker]) ELSE cmds[Pacemaker]
      BY <2>5, <3>1
    <3>6. Turn(Pacemaker, d, IF d = 1 THEN Head(cmds[Pacemaker]) ELSE Blank, Blank)
      BY <1>1, <2>5, <3>4, <3>5, SendTurn
    <3> QED
      BY <2>5, <3>6
  <2> QED
    BY <1>1, <2>4, <2>6, DullMild DEF Mildly
<1> QED
  BY <1>5, <1>6, <1>7, <1>8, <1>9, <1>10, <1>11, <1>12, <1>13 DEF Run

\* A job ends; one that succeeds adds no jobs.
LEMMA RunnerTree ==
  ASSUME IInv, IInv', OnceInv, TreeInv, Requests, NEW j \in Jobs, Succeed(j) \/ Fail(j)
  PROVE  Mildly
<1>1. LiveInv /\ act \in [Jobs -> Activities] /\ NodeOf[j] \in Nodes
  BY NodesOf DEF TreeInv, IInv, RunnerTypes
<1>2. /\ act[j] = "active" /\ act' = [act EXCEPT ![j] = "reported"]
      /\ UNCHANGED <<state, idx, loop, inStartup, starts>>
  BY DEF Succeed, Fail, storeVars, managerVars, history
<1>3. starts[j] > 0 /\ Exists(j)
  BY <1>1, <1>2 DEF OnceInv, StartsInv, StartInv, LiveInv
<1>4. PICK s \in {"SUCCESS", "FAILED"} : Enqueue(NodeOf[j], <<Completed(j, s)>>)
  BY DEF Succeed, Fail
<1>5. <<Completed(j, s)>> \in Seq(Dull)
  BY <1>3, StatusIsDull, UnitIsSeq DEF States
<1>6. Settles(NodeOf[j], Blank, Blank)
  <2>1. \A m \in Nodes, i \in Jobs : Has(loop'[m], Stopping(i)) => Exists(i)
    BY <1>1, <1>2, LoopKept
  <2>2. /\ \A i \in Jobs : Exists(i)' <=> Exists(i)
        /\ \A t \in States : idx'[t] \subseteq Living
        /\ \A z \in idx'["WAITING"] : z \in idx["WAITING"] \/ Blank \in Setting(z)
    BY <1>1, <1>2, StoreSettles
  <2>3. /\ succeeded \subseteq succeeded'
        /\ \A a \in succeeded' \ succeeded : a = j /\ a \notin Adders
    BY DEF Succeed, Fail, AddedWith, Adders, history
  <2>4. \A a \in Adders : act'[a] = "active" => act[a] = "active"
    BY <1>1, <1>2, AdderFacts
  <2>5. \A i \in Jobs : (starts[i] > 0 => starts'[i] > 0) /\ (starts'[i] > 0 => Launched(i))
    BY <1>2 DEF Launched
  <2> QED
    BY <1>2, <1>3, <2>1, <2>2, <2>3, <2>4, <2>5 DEF Settles
<1> QED
  BY <1>1, <1>4, <1>5, <1>6, Queued

-----------------------------------------------------------------------------
(* Jobs that are added *)

\* Nothing waits for a job that Redis does not have yet.
LEMMA NotYet ==
  ASSUME IInv, TreeInv, NEW k \in Jobs, ~Exists(k)
  PROVE  Silent(k)
<1>1. LiveInv /\ k \notin Living
  BY DEF TreeInv, Living
<1>2. k \notin idx["WAITING"] /\ ~Launched(k)
  BY <1>1, NodesOf DEF LiveInv, Launched, States
<1>3. ASSUME NEW n \in Nodes, NEW i \in DOMAIN cmds[n]
      PROVE  cmds[n][i] \notin Counting(k) /\ cmds[n][i] \notin Waking(k)
  <2>1. cmds[n][i] \in Ordered(n)
    BY DEF TreeInv
  <2> QED
    BY <1>1, <2>1 DEF Ordered, Doing, Counting, Waking
<1> QED
  BY <1>2, <1>3, NodesOf DEF Silent, Asleep, Has

\* Who adds jobs wakes none.
LEMMA SleepKept ==
  ASSUME IInv, IInv', TreeInv, NEW n \in Nodes, NEW d, NEW c, NEW x, Turn(n, d, c, x),
         c.op \in Adding \cup {"ready"}, x.op \in Adding \cup {"list"},
         UNCHANGED <<starts, inStartup>>, idx'["WAITING"] = idx["WAITING"], NEW z \in Jobs
  PROVE  /\ Launched(z)' <=> Launched(z)
         /\ Asleep(z) => Asleep(z)'
         /\ Silent(z) => Silent(z)'
         /\ c \notin Setting(z) /\ c \notin Counting(z) /\ c \notin Waking(z)
         /\ x \notin Setting(z) /\ x \notin Counting(z) /\ x \notin Waking(z)
<1>1. /\ c \notin Setting(z) /\ c \notin Counting(z) /\ c \notin Waking(z)
      /\ x \notin Setting(z) /\ x \notin Counting(z) /\ x \notin Waking(z)
  BY DEF Setting, Counting, Waking, Adding
<1>2. Launched(z)' <=> Launched(z)
  BY DEF Launched
<1>3. Asleep(z) => Asleep(z)'
  BY <1>1, <1>2, AsleepKept
<1>4. Silent(z) => Silent(z)'
  BY <1>1, <1>2, SilentKept
<1> QED
  BY <1>1, <1>2, <1>3, <1>4

\* The request jobs that do not add at this step.
LEMMA GrowthElsewhere ==
  ASSUME IInv, IInv', TreeInv, Requests,
         NEW n \in Nodes, NEW d, NEW c, NEW x, Turn(n, d, c, x),
         c.op \in Adding \cup {"ready"}, x.op \in Adding \cup {"list"},
         UNCHANGED <<starts, inStartup>>, idx'["WAITING"] = idx["WAITING"], Grows,
         NEW a \in Adders, x \notin By(a)
  PROVE  GrowthInv(a)'
<1>1. PICK s \in Nodes : s = NodeOf[a]
  BY AdderFacts
<1>2. PICK q : q = cmds[s]
  OBVIOUS
<1>3. PICK p : p = cmds'[s]
  OBVIOUS
<1>4. a \in Jobs /\ By(a) \cap Dull = {} /\ AddsOf(a) \subseteq By(a) /\ GrowthInv(a)
  BY AdderFacts, NoDull DEF AddsOf, TreeInv
<1>5. ASSUME NEW i \in DOMAIN p, p[i] \in By(a)
      PROVE  \E k \in DOMAIN q : p[i] = q[k]
  BY <1>2, <1>3, <1>4, <1>5, TurnFacts
<1>6. ASSUME NEW P, \A i \in DOMAIN q : q[i] \in AddsOf(a) => Parent[q[i].job] \in P
      PROVE  \A i \in DOMAIN p : p[i] \in AddsOf(a) => Parent[p[i].job] \in P
  BY <1>4, <1>5, <1>6
<1>7. ASSUME Has(p, AddsOf(a))
      PROVE  \/ \A i \in DOMAIN p : p[i] \in AddsOf(a) => Parent[p[i].job] \in Path[a] \ {a}
             \/ \E m \in Jobs : /\ Guards(a, m)'
                                /\ \A i \in DOMAIN p : p[i] \in AddsOf(a) =>
                                     Parent[p[i].job] \in Path[m]
  <2>1. Has(q, AddsOf(a))
    BY <1>4, <1>5, <1>7 DEF Has
  <2>2. CASE \A i \in DOMAIN q : q[i] \in AddsOf(a) => Parent[q[i].job] \in Path[a] \ {a}
    BY <1>6, <2>2
  <2>3. ASSUME NEW m \in Jobs, Guards(a, m),
               \A i \in DOMAIN q : q[i] \in AddsOf(a) => Parent[q[i].job] \in Path[m]
        PROVE  \E h \in Jobs : /\ Guards(a, h)'
                               /\ \A i \in DOMAIN p : p[i] \in AddsOf(a) =>
                                    Parent[p[i].job] \in Path[h]
    <3>1. Exists(m)'
      BY <2>3 DEF Guards, Grows
    <3>2. /\ Launched(m)' <=> Launched(m)
          /\ x \notin Setting(m) /\ x \notin Counting(m) /\ x \notin Waking(m)
      BY SleepKept
    <3>3. x \notin AddsOf(a)
      BY <1>4
    <3>4. Guards(a, m)'
      BY <1>1, <1>3, <1>7, <2>3, <3>1, <3>2, <3>3, GuardsKept
    <3> QED
      BY <1>6, <2>3, <3>4
  <2> QED
    BY <1>1, <1>2, <1>4, <2>1, <2>2, <2>3 DEF GrowthInv
<1>8. ASSUME NEW i \in DOMAIN p, p[i] \in By(a), p[i].op = "tag"
      PROVE  /\ Exists(p[i].job)' /\ Silent(p[i].job)'
             /\ p[i].job \in Tagged /\ Root[p[i].job] = Root[a]
  <2>1. PICK z : z = p[i].job
    OBVIOUS
  <2>2. Exists(z) /\ Silent(z) /\ z \in Tagged /\ Root[z] = Root[a]
    BY <1>1, <1>2, <1>4, <1>5, <1>8, <2>1 DEF GrowthInv
  <2>3. z \in Jobs
    BY <2>2, ManagerAssumption
  <2>4. Silent(z)' /\ Exists(z)'
    BY <2>2, <2>3, SleepKept DEF Grows
  <2> QED
    BY <2>1, <2>2, <2>4
<1> QED
  BY <1>1, <1>3, <1>7, <1>8 DEF GrowthInv

\* add_tree at the head of the pipeline of n: the next job, the tags of this one,
\* or allow_execution of the tree.
AddTurn(n, c, x) ==
  /\ cmds[n] # <<>> /\ c = Head(cmds[n]) /\ c.op \in Adding /\ Turn(n, 1, c, x)
  /\ x \in Command /\ x.by = c.by
  /\ \/ x.op = "add" /\ x.job \in c.left /\ x.left = c.left \ {x.job}
          /\ Parent[x.job] \in Path[c.job]
     \/ c.op = "add" /\ x.op = "tag" /\ x.job = c.job /\ x.job \in Tagged /\ x.left = c.left
     \/ x.op = "list" /\ x.from = "NEW" /\ x.to = "WAITING" /\ x.then = "allow_execution"
          /\ x.tree = Root[c.job] /\ c.left = {}
  /\ IF c.op = "add" THEN AddTx(c.job) ELSE UNCHANGED <<state, idx>>
  /\ UNCHANGED <<starts, succeeded, loop, inStartup, act>>

\* Which job that is, and what was known of it.
LEMMA AddPlace ==
  ASSUME IInv, OnceInv, TreeInv, NEW n \in Nodes, NEW c, cmds[n] # <<>>,
         c = Head(cmds[n]), c.op \in Adding
  PROVE  /\ c \in Command /\ c \in Place(n) /\ c \in Ordered(n)
         /\ c.job \in Jobs /\ Adder(c.job) = n /\ c.by = AddedBy[c.job]
         /\ c.left \subseteq Batch(c.job) \ {c.job} /\ c.left \in SUBSET Jobs
         /\ \E i \in DOMAIN cmds[n] : cmds[n][i] = c
<1>1. cmds[n] \in Seq(Place(n))
  BY DEF OnceInv, Placed
<1>2. 1 \in DOMAIN cmds[n] /\ cmds[n][1] = c /\ c \in Place(n)
  BY <1>1
<1>3. c \in Ordered(n)
  BY <1>2 DEF TreeInv
<1>4. c \in Command
  BY <1>2 DEF Place
<1> QED
  BY <1>2, <1>3, <1>4 DEF Place, Command

\* A job that is added, or has been and gets its tags, wakes no job above it.
LEMMA WhereAdded ==
  ASSUME IInv, OnceInv, TreeInv, Requests, NEW n \in Nodes, NEW c, cmds[n] # <<>>,
         c = Head(cmds[n]), c.op \in Adding
  PROVE  /\ c.op = "add" =>
              /\ ~Exists(c.job)
              /\ \/ Parent[c.job] = NoJob
                 \/ Parent[c.job] \in Living /\ ~Launched(Parent[c.job])
         /\ c.op = "tag" => Exists(c.job)
         /\ Silent(c.job)
         /\ AddedBy[c.job] # NoJob => /\ AddedBy[c.job] \in Adders
                                      /\ c \in By(AddedBy[c.job])
                                      /\ Root[c.job] = Root[AddedBy[c.job]]
         /\ AddedBy[c.job] = NoJob => c \in Opening(Root[c.job])
<1>1. PICK k \in Jobs : k = c.job
  BY AddPlace
<1>2. /\ c \in Command /\ Adder(k) = n /\ c.by = AddedBy[k]
      /\ c.left \subseteq Batch(k) \ {k}
  BY <1>1, AddPlace
<1>3. PICK i \in DOMAIN cmds[n] : cmds[n][i] = c
  BY AddPlace
<1>4. c.op = "add" => ~Exists(k)
  <2> SUFFICES ASSUME c.op = "add"
               PROVE  ~Exists(k)
    OBVIOUS
  <2>1. c \in Pending(k)
    BY <1>1, <1>2, BatchFacts DEF Pending, Adds, Adding
  <2>2. Has(cmds[Adder(k)], Pending(k))
    BY <1>2, <1>3, <2>1 DEF Has
  <2> QED
    BY <2>2 DEF TreeInv, PendingInv
<1>5. c.op = "add" => Silent(k)
  BY <1>4, NotYet
<1>6. CASE AddedBy[k] = NoJob
  <2>1. PICK r \in Jobs : r = Root[k] /\ Parent[r] = NoJob
    BY ForestAssumption
  <2>2. c \in Opening(r) /\ n = Submitter[r] /\ OpeningInv(r)
    BY <1>1, <1>2, <1>6, <2>1 DEF Opening, Adder, TreeInv
  <2>3. Has(cmds[n], Opening(r))
    BY <1>3, <2>2 DEF Has
  <2>4. \A y \in Jobs : Root[y] = r => Silent(y)
    BY <2>2, <2>3 DEF OpeningInv
  <2>5. /\ c.op = "add" => k = r \/ Parent[k] \in Living
        /\ c.op = "tag" => k \in Living
    BY <1>1, <1>3, <2>2 DEF OpeningInv
  <2>6. Parent[k] \in Living => ~Launched(Parent[k])
    <3>1. Parent[k] \in Living => Root[Parent[k]] = r /\ Parent[k] \in Jobs
      BY <2>1, ForestAssumption, JobsAssumption DEF Living
    <3> QED
      BY <2>4, <3>1 DEF Silent, Asleep
  <2> QED
    BY <1>1, <1>4, <1>6, <2>1, <2>2, <2>4, <2>5, <2>6, ZenonT(40) DEF Living
<1>7. CASE AddedBy[k] # NoJob
  <2>1. PICK a \in Adders : a = AddedBy[k]
    BY <1>7 DEF Adders
  <2>2. a \in Jobs /\ NodeOf[a] = n /\ c \in By(a)
    BY <1>2, <1>7, <2>1, AdderFacts DEF Adder, By
  <2>3. Has(cmds[n], By(a)) /\ LiveInv /\ LeavesInv /\ AdderInv(a) /\ GrowthInv(a)
    BY <1>3, <2>2 DEF Has, TreeInv
  <2>4. a \notin succeeded /\ Exists(a)
    BY <2>2, <2>3 DEF AdderInv, LiveInv
  <2>5. CASE c.op = "tag"
    BY <1>1, <1>3, <1>7, <2>1, <2>2, <2>3, <2>5 DEF GrowthInv
  <2>6. CASE c.op = "add"
    <3>1. c \in AddsOf(a) /\ Has(cmds[n], AddsOf(a))
      BY <1>3, <2>2, <2>6 DEF AddsOf, Has
    <3>2. \/ Parent[k] \in Path[a] \ {a}
          \/ \E m \in Jobs : Guards(a, m) /\ Parent[k] \in Path[m]
      BY <1>1, <1>3, <2>2, <2>3, <3>1 DEF GrowthInv
    <3>3. ASSUME NEW m \in Jobs, Exists(m), m \notin succeeded, Root[m] = Root[a],
                 NEW p \in Path[m], p = Parent[k], p # m \/ ~Launched(m)
          PROVE  p \in Living /\ ~Launched(p) /\ Root[k] = Root[a]
      <4>1. p \in Jobs /\ Exists(p) /\ ~Launched(p)
        BY <2>3, <3>3, NothingAbove
      <4>2. Root[p] = Root[m]
        BY <3>3, PathRoot
      <4>3. Root[k] = Root[p]
        BY <3>3, <4>1, ForestAssumption, JobsAssumption
      <4> QED
        BY <3>3, <4>1, <4>2, <4>3 DEF Living
    <3>4. CASE Parent[k] \in Path[a] \ {a}
      BY <1>1, <1>4, <1>5, <1>7, <2>1, <2>2, <2>4, <2>6, <3>3, <3>4
    <3>5. ASSUME NEW m \in Jobs, Guards(a, m), Parent[k] \in Path[m]
          PROVE  Parent[k] \in Living /\ ~Launched(Parent[k]) /\ Root[k] = Root[a]
      <4>1. Exists(m) /\ Root[m] = Root[a] /\ ~Launched(m)
        BY <3>5 DEF Guards, Asleep
      <4>2. m \notin succeeded
        BY <2>3, <4>1 DEF LiveInv, Launched
      <4> QED
        BY <3>3, <3>5, <4>1, <4>2
    <3> QED
      BY <1>1, <1>4, <1>5, <1>7, <2>1, <2>2, <2>6, <3>2, <3>4, <3>5
  <2> QED
    BY <1>1, <2>5, <2>6 DEF Adding
<1> QED
  BY <1>6, <1>7

\* The jobs that exist are those that did, and the one that is added.
LEMMA AddGrows ==
  ASSUME IInv, IInv', OnceInv, TreeInv, NEW n \in Nodes, NEW c, NEW x, AddTurn(n, c, x)
  PROVE  /\ Grows /\ idx'["WAITING"] = idx["WAITING"]
         /\ \A j \in Jobs : Exists(j)' <=> Exists(j) \/ (c.op = "add" /\ j = c.job)
         /\ \A s \in States : idx'[s] \subseteq Living'
<1>1. /\ c.job \in Jobs /\ LiveInv
      /\ state \in [Jobs -> States \cup {Absent}] /\ idx \in [States -> SUBSET Jobs]
  BY AddPlace DEF AddTurn, TreeInv, IInv, StoreTypeOK
<1>2. "NEW" # Absent /\ "WAITING" # "NEW" /\ "WAITING" \in States /\ "NEW" \in States
  BY DEF Absent, States
<1>3. \A j \in Jobs : Exists(j)' <=> Exists(j) \/ (c.op = "add" /\ j = c.job)
  <2>1. CASE c.op = "add"
    BY <1>1, <1>2, <2>1 DEF AddTurn, AddTx, Exists
  <2>2. CASE c.op # "add"
    BY <2>2 DEF AddTurn, Exists
  <2> QED
    BY <2>1, <2>2
<1>4. idx'["WAITING"] = idx["WAITING"]
  BY <1>1, <1>2 DEF AddTurn, AddTx
<1>5. ASSUME NEW s \in States, NEW j \in idx'[s]
      PROVE  j \in Living'
  <2>1. j \in idx[s] \/ (c.op = "add" /\ j = c.job)
    BY <1>1, <1>2, <1>5 DEF AddTurn, AddTx
  <2>2. idx[s] \subseteq Living
    BY <1>1 DEF LiveInv
  <2> QED
    BY <1>1, <1>3, <2>1, <2>2 DEF Living
<1> QED
  BY <1>3, <1>4, <1>5 DEF Grows

\* A job that is added has those above it, and they have not been launched.
LEMMA AddLive ==
  ASSUME IInv, IInv', OnceInv, TreeInv, Requests,
         NEW n \in Nodes, NEW c, NEW x, AddTurn(n, c, x)
  PROVE  LiveInv' /\ LeavesInv'
<1>1. PICK k \in Jobs : k = c.job
  BY AddPlace DEF AddTurn
<1>2. /\ Turn(n, 1, c, x) /\ UNCHANGED <<starts, succeeded, loop, inStartup>>
      /\ LiveInv /\ LeavesInv /\ cmds[n] # <<>> /\ c = Head(cmds[n]) /\ c.op \in Adding
  BY DEF AddTurn, TreeInv
<1>3. /\ Grows /\ \A j \in Jobs : Exists(j)' <=> Exists(j) \/ (c.op = "add" /\ j = k)
      /\ \A s \in States : idx'[s] \subseteq Living'
  BY <1>1, AddGrows
<1>4. c.op = "add" => \/ Parent[k] = NoJob
                      \/ Parent[k] \in Living /\ ~Launched(Parent[k])
  BY <1>1, <1>2, WhereAdded
<1>5. Living \subseteq Living' /\ \A j \in Living' : j \in Living \/ (c.op = "add" /\ j = k)
  BY <1>3 DEF Living, Grows
<1>6. ASSUME NEW z \in Living'
      PROVE  Parent[z] \in Living' \cup {NoJob} /\ Root[z] \in Living'
  <2>1. CASE z \in Living
    BY <1>2, <1>5, <2>1 DEF LiveInv
  <2>2. CASE c.op = "add" /\ z = k /\ Parent[k] = NoJob
    BY <1>6, <2>2, ForestAssumption
  <2>3. CASE c.op = "add" /\ z = k /\ Parent[k] \in Living
    <3>1. Parent[k] # NoJob /\ Root[Parent[k]] \in Living
      BY <1>2, <2>3, JobsAssumption DEF LiveInv, Living
    <3>2. Root[k] = Root[Parent[k]]
      BY <3>1, ForestAssumption
    <3> QED
      BY <1>5, <2>3, <3>1, <3>2
  <2> QED
    BY <1>4, <1>5, <1>6, <2>1, <2>2, <2>3
<1>7. LiveInv'
  <2>1. /\ \A s \in Nodes, j \in Jobs : Has(loop'[s], Stopping(j)) => Exists(j)'
        /\ \A s \in Nodes : inStartup'[s] \subseteq Living'
    BY <1>2, <1>3, <1>5 DEF LiveInv, Grows
  <2>2. /\ \A j \in Jobs : starts'[j] > 0 => Exists(j)'
        /\ \A j \in succeeded' : starts'[j] > 0
    BY <1>2, <1>3 DEF LiveInv, Grows
  <2> QED
    BY <1>3, <1>6, <2>1, <2>2 DEF LiveInv
<1>8. ASSUME NEW j \in Jobs, Launched(j)', NEW z \in Children(j)'
      PROVE  z \in succeeded'
  <2>1. Launched(j)
    BY <1>2, <1>8 DEF Launched
  <2>2. z \in Jobs /\ Parent[z] = j /\ Exists(z)'
    BY <1>8 DEF Children
  <2>3. Exists(z)
    BY <1>3, <1>4, <2>1, <2>2, JobsAssumption
  <2>4. z \in Children(j)
    BY <2>2, <2>3 DEF Children
  <2> QED
    BY <1>2, <2>1, <2>4 DEF LeavesInv
<1> QED
  BY <1>7, <1>8 DEF LeavesInv

\* The next command is one that may go out.
LEMMA AddOrdered ==
  ASSUME IInv, IInv', OnceInv, TreeInv, Requests,
         NEW n \in Nodes, NEW c, NEW x, AddTurn(n, c, x)
  PROVE  x \in Ordered(n)'
<1>1. PICK k \in Jobs : k = c.job
  BY AddPlace DEF AddTurn
<1>2. /\ cmds[n] # <<>> /\ c = Head(cmds[n]) /\ c.op \in Adding
      /\ x \in Command /\ x.by = AddedBy[k] /\ Adder(k) = n
      /\ \/ x.op \in Adding
         \/ x.op = "list" /\ x.from = "NEW" /\ x.to = "WAITING" /\ x.then = "allow_execution"
              /\ x.tree = Root[k]
  BY <1>1, AddPlace DEF AddTurn, Adding
<1>3. PICK r \in Jobs : r = Root[k] /\ Root[r] = r
  BY ForestAssumption
<1>4. x.by # NoJob => x.by \in Adders /\ NodeOf[x.by] = n /\ Root[x.by] = r
  BY <1>1, <1>2, <1>3, WhereAdded DEF Adder
<1>5. x.by = NoJob => n = Submitter[r]
  BY <1>2, <1>3 DEF Adder
<1>6. CASE x.op \in Adding
  BY <1>2, <1>4, <1>6 DEF Ordered, Adding, Doing
<1>7. CASE x.op = "list" /\ x.from = "NEW" /\ x.to = "WAITING" /\ x.then = "allow_execution"
             /\ x.tree = r
  BY <1>2, <1>3, <1>4, <1>5, <1>7 DEF Ordered, Doing, States
<1> QED
  BY <1>2, <1>3, <1>6, <1>7

\* A job that has been added is not added again.
LEMMA AddPending ==
  ASSUME IInv, IInv', OnceInv, TreeInv, Requests,
         NEW n \in Nodes, NEW c, NEW x, AddTurn(n, c, x), NEW z \in Jobs
  PROVE  PendingInv(z)'
<1>1. PICK k \in Jobs : k = c.job
  BY AddPlace DEF AddTurn
<1>2. /\ cmds[n] # <<>> /\ c = Head(cmds[n]) /\ c.op \in Adding /\ Turn(n, 1, c, x)
      /\ c \in Command /\ Adder(k) = n /\ c.left \subseteq Batch(k) \ {k}
      /\ c.left \in SUBSET Jobs /\ x \in Command
      /\ UNCHANGED <<starts, act>> /\ PendingInv(z) /\ AddInv(z)
  BY <1>1, AddPlace DEF AddTurn, TreeInv, OnceInv, AddsInv, Requests
<1>3. /\ Grows /\ \A j \in Jobs : Exists(j)' <=> Exists(j) \/ (c.op = "add" /\ j = k)
  BY <1>1, AddGrows
<1>4. Adder(z) \in Nodes /\ Pending(z) \cap Dull = {}
  BY NodesOf, NoDull
<1>5. x \in Pending(z) => c \in Pending(z) /\ (c.op = "add" => z # k)
  <2> SUFFICES ASSUME x \in Pending(z)
               PROVE  c \in Pending(z) /\ (c.op = "add" => z # k)
    OBVIOUS
  <2>1. \/ x.op = "add" /\ x.job \in c.left /\ x.left \subseteq c.left
        \/ x.op = "tag" /\ x.job = k /\ x.left = c.left
    BY <1>1 DEF AddTurn, Pending, Adds, Adding
  <2>2. z \in c.left /\ x.job \in Batch(z)
    BY <2>1 DEF Pending, Adds
  <2>3. k \in Batch(z)
    <3>1. CASE x.job \in c.left
      BY <1>2, <2>2, <3>1, BatchFacts
    <3> QED
      BY <2>1, <2>2, <3>1
  <2> QED
    BY <1>1, <1>2, <2>2, <2>3 DEF Pending, Adds
<1>6. Has(cmds'[Adder(z)], Pending(z)) => Has(cmds[Adder(z)], Pending(z))
  BY <1>2, <1>4, <1>5, TurnFacts
<1>7. Begun(z) => Begun(z)'
  BY <1>2, <1>3, NodesOf DEF Begun, Grows
<1>8. CASE z = k /\ c.op = "add"
  <2>1. c \in Pending(z) /\ Once(cmds[n], Adds(z))
    BY <1>1, <1>2, <1>8, BatchFacts DEF Pending, Adds, AddInv
  <2>2. Once(cmds[n], Pending(z))
    BY <2>1 DEF Once, Pending
  <2>3. ~Has(cmds'[n], Pending(z))
    BY <1>2, <1>4, <1>5, <1>8, <2>1, <2>2, TurnFacts
  <2>4. Begun(z)'
    <3>1. CASE AddedBy[z] = NoJob
      <4>1. Root[z] \in Living'
        BY <1>3, <1>8, AddLive DEF LiveInv, Living
      <4> QED
        BY <3>1, <4>1 DEF Begun, Living
    <3>2. CASE AddedBy[z] # NoJob
      <4>1. c \in Late(z)
        BY <2>1, <3>2 DEF Late, Pending
      <4>2. Has(cmds[n], Late(z))
        BY <1>2, <4>1, AddPlace DEF Has
      <4> QED
        BY <1>2, <1>7, <1>8, <4>2 DEF AddInv
    <3> QED
      BY <3>1, <3>2
  <2> QED
    BY <1>2, <1>8, <2>3, <2>4 DEF PendingInv
<1>9. CASE ~(z = k /\ c.op = "add")
  BY <1>2, <1>3, <1>6, <1>7, <1>9 DEF PendingInv
<1> QED
  BY <1>8, <1>9

\* A request job that adds goes on to the next job, or to allow_execution.
LEMMA AddAdder ==
  ASSUME IInv, IInv', OnceInv, TreeInv, NEW n \in Nodes, NEW c, NEW x, AddTurn(n, c, x),
         NEW a \in Adders
  PROVE  AdderInv(a)'
<1>1. /\ Turn(n, 1, c, x) /\ UNCHANGED <<starts, succeeded, act>> /\ x.by = c.by
      /\ AdderInv(a) /\ cmds[n] # <<>> /\ c = Head(cmds[n]) /\ c.op \in Adding
      /\ c \in Command
  BY AddPlace DEF AddTurn, TreeInv
<1>2. a \in Jobs /\ NodeOf[a] \in Nodes /\ By(a) \cap Dull = {}
  BY AdderFacts, NoDull
<1>3. x \in By(a) => c \in By(a) /\ NodeOf[a] = n
  <2>1. x \in By(a) => c \in By(a)
    BY <1>1 DEF By
  <2> QED
    BY <1>1, <2>1, HeadOrdered
<1>4. /\ Once(cmds'[NodeOf[a]], By(a))
      /\ Has(cmds'[NodeOf[a]], By(a)) => Has(cmds[NodeOf[a]], By(a))
  BY <1>1, <1>2, <1>3, TurnFacts DEF AdderInv
<1> QED
  BY <1>1, <1>4 DEF AdderInv

\* So does the one who submits a tree.
LEMMA AddOpening ==
  ASSUME IInv, IInv', OnceInv, TreeInv, Requests,
         NEW n \in Nodes, NEW c, NEW x, AddTurn(n, c, x), NEW r \in Jobs, Parent[r] = NoJob
  PROVE  OpeningInv(r)'
<1>1. PICK k \in Jobs : k = c.job
  BY AddPlace DEF AddTurn
<1>2. /\ cmds[n] # <<>> /\ c = Head(cmds[n]) /\ c.op \in Adding /\ Turn(n, 1, c, x)
      /\ c \in Command /\ Adder(k) = n /\ c.left \subseteq Batch(k) \ {k} /\ c.by = AddedBy[k]
      /\ c.left \in SUBSET Jobs /\ x \in Command /\ x.by = c.by /\ OpeningInv(r)
      /\ UNCHANGED <<starts, inStartup>> /\ x.op \in Adding \cup {"list"}
  BY <1>1, AddPlace DEF AddTurn, TreeInv, Adding
<1>3. PICK s \in Nodes : s = Submitter[r]
  BY ManagerAssumption
<1>4. PICK q : q = cmds[s]
  OBVIOUS
<1>5. PICK p : p = cmds'[s]
  OBVIOUS
<1>6. Opening(r) \cap Dull = {}
  BY NoDull
<1>7. /\ Grows /\ idx'["WAITING"] = idx["WAITING"]
      /\ \A j \in Jobs : Exists(j)' <=> Exists(j) \/ (c.op = "add" /\ j = k)
  BY <1>1, AddGrows
<1>8. k \in Living' /\ LiveInv'
  <2>1. c.op = "tag" => Exists(k)
    BY <1>1, <1>2, WhereAdded
  <2> QED
    BY <1>2, <1>7, <2>1, AddLive DEF Living, Adding
<1>9. x \in Opening(r) =>
        /\ c \in Opening(r) /\ n = s
        /\ x.op = "add" => Parent[x.job] \in Living'
        /\ x.op = "tag" => x.job \in Living'
        /\ x.op = "list" => Exists(r)'
  <2> SUFFICES ASSUME x \in Opening(r)
               PROVE  /\ c \in Opening(r) /\ n = s
                      /\ x.op = "add" => Parent[x.job] \in Living'
                      /\ x.op = "tag" => x.job \in Living'
                      /\ x.op = "list" => Exists(r)'
    OBVIOUS
  <2>1. AddedBy[k] = NoJob
    BY <1>2 DEF Opening
  <2>2. \/ x.op = "add" /\ x.job \in c.left /\ Parent[x.job] \in Path[k]
        \/ x.op = "tag" /\ x.job = k
        \/ x.op = "list" /\ x.tree = Root[k]
    BY <1>1 DEF AddTurn
  <2>3. Root[k] = r
    <3>1. CASE x.op = "add" /\ x.job \in c.left
      <4>1. Root[x.job] = r /\ x.job \in Batch(k) /\ x.job \in Jobs
        BY <1>2, <3>1 DEF Opening
      <4> QED
        BY <2>1, <4>1 DEF Batch
    <3>2. CASE x.op = "tag" /\ x.job = k
      BY <3>2 DEF Opening
    <3>3. CASE x.op = "list" /\ x.tree = Root[k]
      BY <3>3, ForestAssumption DEF Opening, Adding
    <3> QED
      BY <2>2, <3>1, <3>2, <3>3
  <2>4. c \in Opening(r) /\ n = s
    BY <1>1, <1>2, <1>3, <2>1, <2>3 DEF Opening, Adder
  <2>5. x.op = "add" => Parent[x.job] \in Living'
    <3> SUFFICES ASSUME x.op = "add"
                 PROVE  Parent[x.job] \in Living'
      OBVIOUS
    <3>1. PICK y \in Path[k] : y = Parent[x.job]
      BY <2>2
    <3>2. ASSUME NEW z \in Living'
          PROVE  Parent[z] \in Living' \cup {NoJob}
      BY <1>8 DEF LiveInv
    <3>3. Living' \in SUBSET Jobs
      BY DEF Living
    <3>4. Path[k] \subseteq Living'
      BY <1>8, <3>2, <3>3, PathIn
    <3> QED
      BY <3>1, <3>4
  <2>6. x.op = "tag" => x.job \in Living'
    BY <1>8, <2>2
  <2>7. x.op = "list" => Exists(r)'
    BY <1>8, <2>3 DEF LiveInv, Living
  <2> QED
    BY <2>4, <2>5, <2>6, <2>7
<1>10. Once(p, Opening(r)) /\ (Has(p, Opening(r)) => Has(q, Opening(r)))
  BY <1>2, <1>3, <1>4, <1>5, <1>6, <1>9, TurnFacts DEF OpeningInv
<1>11. ASSUME Has(p, Opening(r)), NEW z \in Jobs, Root[z] = r
       PROVE  Silent(z)'
  <2>1. Silent(z)
    BY <1>2, <1>3, <1>4, <1>10, <1>11 DEF OpeningInv
  <2> QED
    BY <1>2, <1>7, <2>1, SleepKept
<1>12. ASSUME NEW i \in DOMAIN p, p[i] \in Opening(r)
       PROVE  /\ p[i].op = "add" => p[i].job = r \/ Parent[p[i].job] \in Living'
              /\ p[i].op = "tag" => p[i].job \in Living'
              /\ p[i].op = "list" => Exists(r)'
  <2>1. CASE p[i] = x
    BY <1>9, <1>12, <2>1
  <2>2. CASE \E h \in DOMAIN q : p[i] = q[h]
    <3>1. /\ p[i].op = "add" => p[i].job = r \/ Parent[p[i].job] \in Living
          /\ p[i].op = "tag" => p[i].job \in Living
          /\ p[i].op = "list" => Exists(r)
      BY <1>2, <1>3, <1>4, <1>12, <2>2 DEF OpeningInv
    <3>2. Living \subseteq Living'
      BY <1>7 DEF Living, Grows
    <3> QED
      BY <1>7, <3>1, <3>2 DEF Grows
  <2> QED
    BY <1>2, <1>4, <1>5, <1>6, <1>12, <2>1, <2>2, TurnFacts
<1> QED
  BY <1>3, <1>5, <1>10, <1>11, <1>12 DEF OpeningInv

\* The job that has been added sleeps until the next one is, or has its tags.
LEMMA AddGrowth ==
  ASSUME IInv, IInv', OnceInv, TreeInv, Requests,
         NEW n \in Nodes, NEW c, NEW x, AddTurn(n, c, x), NEW a \in Adders
  PROVE  GrowthInv(a)'
<1>1. PICK k \in Jobs : k = c.job
  BY AddPlace DEF AddTurn
<1>2. /\ cmds[n] # <<>> /\ c = Head(cmds[n]) /\ c.op \in Adding /\ Turn(n, 1, c, x)
      /\ c \in Command /\ c.by = AddedBy[k] /\ x \in Command /\ x.by = c.by
      /\ UNCHANGED <<starts, inStartup>> /\ x.op \in Adding \cup {"list"} /\ AdderInv(a)
  BY <1>1, AddPlace DEF AddTurn, TreeInv, Adding
<1>3. /\ Grows /\ idx'["WAITING"] = idx["WAITING"]
      /\ \A j \in Jobs : Exists(j)' <=> Exists(j) \/ (c.op = "add" /\ j = k)
  BY <1>1, AddGrows
<1>4. CASE x \notin By(a)
  BY <1>2, <1>3, <1>4, GrowthElsewhere
<1>5. CASE x \in By(a)
  <2>1. AddedBy[k] = a /\ a \in Jobs /\ a # NoJob /\ c \in By(a) /\ NodeOf[a] = n
    BY <1>2, <1>5, AdderFacts, HeadOrdered DEF By
  <2>2. Exists(k)' /\ Silent(k) /\ Root[k] = Root[a]
    BY <1>1, <1>2, <1>3, <2>1, WhereAdded DEF Adding
  <2>3. Silent(k)'
    BY <1>2, <1>3, <2>2, SleepKept
  <2>4. PICK p : p = cmds'[n]
    OBVIOUS
  <2>5. \A i \in DOMAIN p : p[i] \in By(a) => p[i] = x
    <3>1. Once(p, By(a)) /\ cmds[n] \in Seq(Command) /\ p \in Seq(Command)
      BY <2>1, <2>4, AddAdder, PipelineType DEF AdderInv
    <3>2. Once(cmds[n], By(a)) /\ By(a) \cap Dull = {}
      BY <1>2, <2>1, NoDull DEF AdderInv
    <3>3. 1 \in DOMAIN cmds[n] /\ cmds[n][1] = c
      BY <1>2, <3>1
    <3>4. \A i \in DOMAIN p : i + 1 # 1
      BY <3>1
    <3>5. \A i \in DOMAIN p : i + 1 \in DOMAIN cmds[n] => cmds[n][i + 1] \notin By(a)
      BY <2>1, <3>2, <3>3, <3>4 DEF Once
    <3> QED
      BY <1>2, <2>4, <3>2, <3>5 DEF Turn, Shift
  <2>6. Has(p, AddsOf(a)) =>
          \E m \in Jobs : /\ Guards(a, m)'
                          /\ \A i \in DOMAIN p : p[i] \in AddsOf(a) =>
                               Parent[p[i].job] \in Path[m]
    <3> SUFFICES ASSUME Has(p, AddsOf(a))
                 PROVE  /\ Guards(a, k)'
                        /\ \A i \in DOMAIN p : p[i] \in AddsOf(a) =>
                             Parent[p[i].job] \in Path[k]
      OBVIOUS
    <3>1. x.op = "add" /\ \A i \in DOMAIN p : p[i] \in AddsOf(a) => p[i] = x
      BY <2>5 DEF Has, AddsOf
    <3>2. Parent[x.job] \in Path[k]
      BY <1>1, <3>1 DEF AddTurn
    <3>3. /\ Asleep(k)' /\ \A m \in Nodes : ~Has(cmds'[m], Waking(k))
      BY <2>3 DEF Silent
    <3>4. ~Has(p, Getting(k)) /\ ~Has(p, Setting(k))
      <4>1. Getting(k) \subseteq Waking(k) /\ Setting(k) \subseteq Waking(k)
        BY DEF Getting, Setting, Waking
      <4> QED
        BY <2>4, <3>3, <4>1 DEF Has
    <3>5. Before(p, Hopping(a), Getting(k)) /\ Before(p, AddsOf(a), Setting(k))
      BY <3>4 DEF Has, Before
    <3>6. Guards(a, k)'
      BY <2>1, <2>2, <2>4, <3>3, <3>4, <3>5 DEF Guards
    <3> QED
      BY <3>1, <3>2, <3>6
  <2>7. ASSUME NEW i \in DOMAIN p, p[i] \in By(a), p[i].op = "tag"
        PROVE  /\ Exists(p[i].job)' /\ Silent(p[i].job)'
               /\ p[i].job \in Tagged /\ Root[p[i].job] = Root[a]
    <3>1. p[i] = x /\ x.op = "tag"
      BY <2>5, <2>7
    <3>2. x.job = k /\ k \in Tagged
      BY <1>1, <3>1 DEF AddTurn
    <3> QED
      BY <2>2, <2>3, <3>1, <3>2
  <2> QED
    BY <2>1, <2>4, <2>6, <2>7 DEF GrowthInv
<1> QED
  BY <1>4, <1>5

\* add_tree goes on.
LEMMA AddTurnTree ==
  ASSUME IInv, IInv', OnceInv, TreeInv, Requests,
         NEW n \in Nodes, NEW c, NEW x, AddTurn(n, c, x)
  PROVE  TreeInv'
<1>1. Turn(n, 1, c, x) /\ Grows /\ x \in Ordered(n)'
  BY AddGrows, AddOrdered DEF AddTurn
<1>2. \A m \in Nodes : \A i \in DOMAIN cmds'[m] : cmds'[m][i] \in Ordered(m)'
  BY <1>1, OrderedKept
<1>3. LiveInv' /\ LeavesInv'
  BY AddLive
<1>4. \A k \in Jobs : PendingInv(k)'
  BY AddPending
<1>5. \A a \in Adders : AdderInv(a)' /\ GrowthInv(a)'
  BY AddAdder, AddGrowth
<1>6. \A r \in Jobs : Parent[r] = NoJob => OpeningInv(r)'
  BY AddOpening
<1> QED
  BY <1>2, <1>3, <1>4, <1>5, <1>6 DEF TreeInv

\* add_job and its tags are turns of add_tree.
LEMMA AddJobTree ==
  ASSUME IInv, IInv', OnceInv, TreeInv, Requests, NEW n \in Nodes, AddJob(n) \/ TagJob(n)
  PROVE  \E y, z : AddTurn(n, y, z)
<1>1. PICK c : c = Head(cmds[n])
  OBVIOUS
<1>2. /\ cmds[n] # <<>> /\ c.op \in Adding
      /\ UNCHANGED <<starts, succeeded, loop, inStartup, act>>
      /\ IF c.op = "add" THEN AddTx(c.job) ELSE UNCHANGED <<state, idx>>
  <2>1. CASE AddJob(n)
    BY <1>1, <2>1 DEF AddJob, Answer, history, Adding
  <2>2. CASE TagJob(n)
    BY <1>1, <2>2 DEF TagJob, Answer, history, Adding, managerVars, storeVars
  <2> QED
    BY <2>1, <2>2
<1>3. /\ c \in Command /\ c.job \in Jobs /\ Adder(c.job) = n /\ c.by = AddedBy[c.job]
      /\ c.left \subseteq Batch(c.job) \ {c.job} /\ c.left \in SUBSET Jobs
      /\ Root[c.job] \in Jobs
  BY <1>1, <1>2, AddPlace, NodesOf
<1>4. \/ AddNext(n, c)
      \/ c.op = "add" /\ c.job \in Tagged /\ Issue(n, <<[c EXCEPT !.op = "tag", !.hop = TRUE]>>)
  BY <1>1 DEF AddJob, TagJob, Answer
<1>5. ASSUME NEW x \in Command, Issue(n, <<x>>), x.by = c.by,
             \/ x.op = "add" /\ x.job \in c.left /\ x.left = c.left \ {x.job}
                  /\ Parent[x.job] \in Path[c.job]
             \/ c.op = "add" /\ x.op = "tag" /\ x.job = c.job /\ x.job \in Tagged
                  /\ x.left = c.left
             \/ x.op = "list" /\ x.from = "NEW" /\ x.to = "WAITING"
                  /\ x.then = "allow_execution" /\ x.tree = Root[c.job] /\ c.left = {}
      PROVE  \E y, z : AddTurn(n, y, z)
  <2>1. Turn(n, 1, c, x)
    BY <1>1, <1>2, <1>5, OneTurn
  <2>2. AddTurn(n, c, x)
    BY <1>1, <1>2, <1>5, <2>1 DEF AddTurn
  <2> QED
    BY <2>2
<1>6. ASSUME NEW j \in NextJobs(c.job, c.left), Issue(n, <<AddCommand(j, c.left, c.by)>>)
      PROVE  \E y, z : AddTurn(n, y, z)
  <2>1. /\ j \in c.left /\ Parent[j] \in Path[c.job] /\ j \in Jobs
        /\ c.by \in Jobs \cup {NoJob}
    BY <1>3, <1>6 DEF NextJobs, Command
  <2>2. PICK x \in Command : x = AddCommand(j, c.left, c.by)
    BY <1>3, <2>1, AddIsGood DEF Good
  <2>3. x.op = "add" /\ x.job = j /\ x.left = c.left \ {j} /\ x.by = c.by
    BY <1>3, <2>1, <2>2, BlankType DEF AddCommand, Command
  <2> QED
    BY <1>5, <1>6, <2>1, <2>2, <2>3
<1>7. CASE /\ c.left = {}
           /\ Issue(n, <<[ListCommand(Root[c.job], "NEW", "WAITING", NoNode,
                                      "allow_execution") EXCEPT !.by = c.by]>>)
  <2>1. PICK x : x = [ListCommand(Root[c.job], "NEW", "WAITING", NoNode, "allow_execution")
                        EXCEPT !.by = c.by]
    OBVIOUS
  <2>2. x \in Command
    <3>1. c.by \in Jobs \cup {NoJob}
      BY <1>3 DEF Command
    <3>2. x \in Plain
      BY <1>3, <2>1, <3>1, ListIsPlain DEF TreeConts, States
    <3> QED
      BY <3>2 DEF Plain
  <2>3. /\ x.op = "list" /\ x.from = "NEW" /\ x.to = "WAITING"
        /\ x.then = "allow_execution" /\ x.tree = Root[c.job] /\ x.by = c.by
    BY <2>1, BlankType DEF ListCommand, Command
  <2> QED
    BY <1>5, <1>7, <2>1, <2>2, <2>3
<1>8. CASE c.op = "add" /\ c.job \in Tagged /\ Issue(n, <<[c EXCEPT !.op = "tag", !.hop = TRUE]>>)
  <2>1. PICK x : x = [c EXCEPT !.op = "tag", !.hop = TRUE]
    OBVIOUS
  <2>2. x \in Command /\ x.op = "tag" /\ x.job = c.job /\ x.left = c.left /\ x.by = c.by
    BY <1>3, <2>1 DEF Command, Ops
  <2> QED
    BY <1>5, <1>8, <2>1, <2>2
<1> QED
  BY <1>4, <1>6, <1>7, <1>8 DEF AddNext

\* add_tree is called: for the jobs of a request job that has not added yet, or for
\* a tree that is not there.
LEMMA BeginTree ==
  ASSUME IInv, IInv', OnceInv, TreeInv, Requests, NEW n \in Nodes,
         NEW x \in Place(n), x \in Command, x.op = "add", Enqueue(n, <<x>>),
         UNCHANGED <<state, idx, starts, succeeded, loop, inStartup>>,
         \A a \in Adders : act'[a] = "active" => act[a] = "active",
         \A k \in Jobs : x \in Pending(k) => ~Begun(k),
         \A k \in Jobs : Begun(k) => Begun(k)',
         x.by = NoJob =>
           /\ Parent[x.job] = NoJob /\ n = Submitter[x.job]
           /\ \A j \in Jobs : Root[j] = x.job => ~Exists(j)
           /\ ~Has(cmds[n], Opening(x.job)),
         x.by # NoJob =>
           /\ x.by \in Adders /\ NodeOf[x.by] = n /\ act[x.by] = "active" /\ starts[x.by] > 0
           /\ act'[x.by] # "active" /\ Parent[x.job] \in Path[x.by] \ {x.by}
  PROVE  TreeInv'
<1>1. /\ Turn(n, 0, Blank, x) /\ Blank.op = "ready" /\ x.op \in Adding /\ x.job \in Jobs
      /\ idx'["WAITING"] = idx["WAITING"]
  BY OneTurn, BlankType DEF Place, Adding
<1>2. Grows /\ LiveInv' /\ LeavesInv' /\ Living' = Living
  <2>1. \A j \in Jobs : Exists(j)' <=> Exists(j)
    BY DEF Exists
  <2>2. LiveInv /\ LeavesInv
    BY DEF TreeInv
  <2>3. Grows /\ Living' = Living
    BY <2>1 DEF Grows, Living
  <2>4. LiveInv'
    BY <2>1, <2>2, <2>3 DEF LiveInv
  <2>5. \A j \in Jobs : Children(j)' = Children(j) /\ (Launched(j)' <=> Launched(j))
    BY <2>1 DEF Children, Launched
  <2> QED
    BY <2>2, <2>3, <2>4, <2>5 DEF LeavesInv
<1>3. x \in Ordered(n)'
  BY <1>1 DEF Ordered, Adding, Doing
<1>4. \A m \in Nodes : \A i \in DOMAIN cmds'[m] : cmds'[m][i] \in Ordered(m)'
  BY <1>1, <1>2, <1>3, OrderedKept
<1>5. ASSUME NEW k \in Jobs
      PROVE  PendingInv(k)'
  <2>1. PendingInv(k) /\ Adder(k) \in Nodes /\ Pending(k) \cap Dull = {}
    BY NodesOf, NoDull DEF TreeInv
  <2>2. Has(cmds'[Adder(k)], Pending(k)) => Has(cmds[Adder(k)], Pending(k)) \/ ~Begun(k)
    BY <1>1, <2>1, TurnFacts
  <2>3. Exists(k)' <=> Exists(k)
    BY DEF Exists
  <2> QED
    BY <2>1, <2>2, <2>3 DEF PendingInv
<1>6. ASSUME NEW a \in Adders
      PROVE  AdderInv(a)'
  <2>1. a \in Jobs /\ NodeOf[a] \in Nodes /\ By(a) \cap Dull = {} /\ AdderInv(a)
    BY AdderFacts, NoDull DEF TreeInv
  <2>2. CASE x \notin By(a)
    <3>1. Fewer(cmds'[NodeOf[a]], cmds[NodeOf[a]], By(a))
      BY <1>1, <2>1, <2>2, TurnFacts
    <3> QED
      BY <2>1, <3>1 DEF AdderInv, Fewer
  <2>3. CASE x \in By(a)
    <3>1. /\ a = x.by /\ NodeOf[a] = n /\ act[a] = "active" /\ starts[a] > 0
          /\ act'[a] # "active"
      BY <2>1, <2>3, AdderFacts DEF By
    <3>2. ~Has(cmds[n], By(a)) /\ a \notin succeeded
      BY <2>1, <3>1 DEF AdderInv
    <3>3. Once(cmds'[n], By(a))
      BY <1>1, <2>1, <3>2, TurnFacts
    <3> QED
      BY <3>1, <3>2, <3>3 DEF AdderInv
  <2> QED
    BY <2>2, <2>3
<1>7. ASSUME NEW a \in Adders
      PROVE  GrowthInv(a)'
  <2>1. a \in Jobs /\ NodeOf[a] \in Nodes /\ By(a) \cap Dull = {} /\ AdderInv(a)
    BY AdderFacts, NoDull DEF TreeInv
  <2>2. CASE x \notin By(a)
    BY <1>1, <1>2, <2>2, GrowthElsewhere
  <2>3. CASE x \in By(a)
    <3>1. /\ a = x.by /\ NodeOf[a] = n /\ act[a] = "active"
          /\ Parent[x.job] \in Path[a] \ {a}
      BY <2>1, <2>3, AdderFacts DEF By
    <3>2. ~Has(cmds[n], By(a))
      BY <2>1, <3>1 DEF AdderInv
    <3>3. \A i \in DOMAIN cmds'[n] : cmds'[n][i] \in By(a) => cmds'[n][i] = x
      BY <1>1, <2>1, <3>2, TurnFacts DEF Has
    <3>4. AddsOf(a) \subseteq By(a)
      BY DEF AddsOf
    <3> QED
      BY <3>1, <3>3, <3>4 DEF GrowthInv
  <2> QED
    BY <2>2, <2>3
<1>8. ASSUME NEW r \in Jobs, Parent[r] = NoJob
      PROVE  OpeningInv(r)'
  <2>1. PICK s \in Nodes : s = Submitter[r]
    BY ManagerAssumption
  <2>2. Opening(r) \cap Dull = {} /\ OpeningInv(r) /\ Root[r] = r
    BY <1>8, NoDull, ForestAssumption DEF TreeInv
  <2>3. ASSUME NEW z \in Jobs, Silent(z)
        PROVE  Silent(z)'
    BY <1>1, <2>3, SleepKept
  <2>4. x \in Opening(r) => /\ r = x.job /\ n = s /\ ~Has(cmds[s], Opening(r))
                            /\ \A z \in Jobs : Root[z] = r => Silent(z)
    <3>1. x \in Opening(r) => x.by = NoJob /\ Root[x.job] = r
      BY <1>1 DEF Opening
    <3>2. Parent[x.job] = NoJob => Root[x.job] = x.job
      BY <1>1, ForestAssumption
    <3> QED
      BY <2>1, <3>1, <3>2, NotYet
  <2>5. /\ Once(cmds'[s], Opening(r))
        /\ Has(cmds'[s], Opening(r)) => Has(cmds[s], Opening(r)) \/ x \in Opening(r)
    <3>1. CASE x \in Opening(r)
      BY <1>1, <2>2, <2>4, <3>1, TurnFacts
    <3>2. CASE x \notin Opening(r)
      BY <1>1, <2>1, <2>2, <3>2, TurnFacts DEF OpeningInv
    <3> QED
      BY <3>1, <3>2
  <2>6. ASSUME Has(cmds'[s], Opening(r)), NEW z \in Jobs, Root[z] = r
        PROVE  Silent(z)'
    <3>1. Silent(z)
      BY <2>1, <2>2, <2>4, <2>5, <2>6 DEF OpeningInv
    <3> QED
      BY <2>3, <3>1
  <2>7. ASSUME NEW i \in DOMAIN cmds'[s], NEW e, e = cmds'[s][i], e \in Opening(r)
        PROVE  /\ e.op = "add" => e.job = r \/ Parent[e.job] \in Living'
               /\ e.op = "tag" => e.job \in Living'
               /\ e.op = "list" => Exists(r)'
    <3>1. CASE e = x
      BY <2>4, <2>7, <3>1
    <3>2. CASE \E k \in DOMAIN cmds[s] : e = cmds[s][k]
      <4>1. /\ e.op = "add" => e.job = r \/ Parent[e.job] \in Living
            /\ e.op = "tag" => e.job \in Living
            /\ e.op = "list" => Exists(r)
        BY <2>1, <2>2, <2>7, <3>2 DEF OpeningInv
      <4> QED
        BY <1>2, <4>1 DEF Living
    <3> QED
      BY <1>1, <2>2, <2>7, <3>1, <3>2, TurnFacts
  <2> QED
    BY <2>1, <2>5, <2>6, <2>7 DEF OpeningInv
<1> QED
  BY <1>2, <1>4, <1>5, <1>6, <1>7, <1>8 DEF TreeInv

\* A request job adds the jobs it has.
LEMMA AddJobsTree ==
  ASSUME IInv, IInv', OnceInv, TreeInv, Requests, NEW a \in Jobs, AddJobs(a)
  PROVE  TreeInv'
<1>1. PICK n \in Nodes : n = NodeOf[a]
  BY NodesOf
<1>2. /\ act[a] = "active" /\ act' = [act EXCEPT ![a] = "adding"]
      /\ UNCHANGED <<state, idx, starts, succeeded, loop, inStartup>>
  BY DEF AddJobs, managerVars, history, storeVars
<1>3. PICK k0 \in AddedWith(a) : /\ Parent[k0] \notin AddedWith(a)
                                 /\ Enqueue(n, <<AddCommand(k0, AddedWith(a), a)>>)
  BY <1>1 DEF AddJobs
<1>4. k0 \in Jobs /\ AddedBy[k0] = a /\ a # NoJob /\ a \in Adders
  BY <1>3, JobsAssumption DEF AddedWith, Adders
<1>5. Adder(k0) = n /\ Batch(k0) = AddedWith(a)
  BY <1>1, <1>4 DEF Adder, Batch, AddedWith
<1>6. PICK x \in Place(n) : /\ x = AddCommand(k0, AddedWith(a), a)
                            /\ x \in Command /\ x.op = "add" /\ x.job = k0
  BY <1>4, <1>5, AddCommandFacts
<1>7. x.by = a
  BY <1>4, <1>6 DEF Place, Adding
<1>8. starts[a] > 0 /\ act \in [Jobs -> Activities]
  BY <1>2 DEF OnceInv, StartsInv, StartInv, IInv, RunnerTypes
<1>9. \A b \in Jobs : act'[b] = "active" => act[b] = "active"
  BY <1>2, <1>8
<1>10. act'[a] # "active"
  BY <1>2, <1>8
<1>11. Parent[k0] \in Path[a] \ {a}
  <2>1. Parent[k0] # NoJob /\ Parent[k0] \in Jobs
    BY <1>4, RequestAssumption, ForestAssumption
  <2>2. AddedBy[Parent[k0]] # a
    BY <1>3, <2>1 DEF AddedWith
  <2>3. Parent[k0] \in Path[a]
    BY <1>4, <2>2, RequestAssumption
  <2> QED
    BY <1>4, <2>3 DEF Requests
<1>12. \A k \in Jobs : x \in Pending(k) => ~Begun(k)
  <2> SUFFICES ASSUME NEW k \in Jobs, x \in Pending(k)
               PROVE  ~Begun(k)
    OBVIOUS
  <2>1. k0 \in Batch(k)
    BY <1>6 DEF Pending, Adds
  <2>2. AddedBy[k] = a
    BY <1>4, <2>1 DEF Batch
  <2> QED
    BY <1>2, <1>4, <2>2 DEF Begun
<1>13. \A k \in Jobs : Begun(k) => Begun(k)'
  <2>1. \A b \in Jobs : act[b] # "active" => act'[b] # "active"
    BY <1>9
  <2> QED
    BY <1>2, <2>1, ManagerAssumption DEF Begun, Exists
<1>14. \A b \in Adders : act'[b] = "active" => act[b] = "active"
  BY <1>9, AdderFacts
<1>15. Enqueue(n, <<x>>)
  BY <1>3, <1>6
<1> QED
  BY <1>1, <1>2, <1>4, <1>6, <1>7, <1>8, <1>10, <1>11, <1>12, <1>13, <1>14, <1>15, BeginTree

\* A tree is submitted while none of its jobs exists or is being added.
LEMMA SubmitTree ==
  ASSUME IInv, IInv', OnceInv, TreeInv, Requests, NEW r \in Jobs, Submit(r)
  PROVE  TreeInv'
<1>1. PICK n \in Nodes : n = Submitter[r]
  BY ManagerAssumption
<1>2. /\ Parent[r] = NoJob /\ AddedBy[r] = NoJob /\ ~Submitted(r)
      /\ UNCHANGED <<state, idx, starts, succeeded, loop, inStartup, act>>
  BY DEF Submit, managerVars, history, storeVars
<1>3. Root[r] = r /\ LiveInv /\ OpeningInv(r)
  BY <1>2, ForestAssumption DEF TreeInv
<1>4. PICK batch : batch = {j \in Tree(r) : AddedBy[j] = NoJob}
  OBVIOUS
<1>5. Enqueue(n, <<AddCommand(r, batch, NoJob)>>)
  BY <1>1, <1>4 DEF Submit
<1>6. Adder(r) = n /\ Batch(r) = batch
  BY <1>1, <1>2, <1>3, <1>4 DEF Adder, Batch, Tree
<1>7. PICK x \in Place(n) : /\ x = AddCommand(r, batch, NoJob)
                            /\ x \in Command /\ x.op = "add" /\ x.job = r
  BY <1>2, <1>6, AddCommandFacts
<1>8. x.by = NoJob
  BY <1>2, <1>7 DEF Place, Adding
<1>9. \A j \in Jobs : Root[j] = r => ~Exists(j)
  <2>1. ~Exists(r)
    BY <1>2 DEF Submitted
  <2> QED
    BY <1>3, <2>1 DEF LiveInv, Living
<1>10. ~Has(cmds[n], Opening(r))
  <2> SUFFICES ASSUME NEW i \in DOMAIN cmds[n], NEW e, e = cmds[n][i], e \in Opening(r)
               PROVE  FALSE
    BY DEF Has
  <2>1. /\ e.op = "add" => e.job = r \/ Parent[e.job] \in Living
        /\ e.op = "tag" => e.job \in Living
        /\ e.op = "list" => Exists(r)
    BY <1>1, <1>3 DEF OpeningInv
  <2>2. e.op \in {"add", "tag"} /\ Root[e.job] = r
    BY <1>3, <1>9, <2>1 DEF Opening, Adding
  <2>3. e.job \in Jobs
    <3>1. cmds[n] \in Seq(Place(n))
      BY DEF OnceInv, Placed
    <3>2. e \in Place(n)
      BY <3>1
    <3> QED
      BY <2>2, <3>2 DEF Place, Adding
  <2>4. e.job # r \/ e.op # "add"
    BY <1>2 DEF Submitted
  <2>5. CASE e.op = "tag"
    BY <1>9, <2>1, <2>2, <2>5 DEF Living
  <2>6. CASE e.op = "add"
    <3>1. Parent[e.job] \in Living
      BY <2>1, <2>4, <2>6
    <3>2. Root[Parent[e.job]] = r
      BY <2>2, <2>3, <3>1, ForestAssumption, JobsAssumption DEF Living
    <3> QED
      BY <1>9, <3>1, <3>2 DEF Living
  <2> QED
    BY <2>2, <2>5, <2>6
<1>11. \A k \in Jobs : x \in Pending(k) => ~Begun(k)
  <2> SUFFICES ASSUME NEW k \in Jobs, x \in Pending(k)
               PROVE  ~Begun(k)
    OBVIOUS
  <2>1. r \in Batch(k)
    BY <1>7 DEF Pending, Adds
  <2>2. AddedBy[k] = NoJob /\ Root[k] = r
    BY <1>2, <1>3, <2>1 DEF Batch
  <2> QED
    BY <1>2, <2>2 DEF Begun, Submitted
<1>12. \A k \in Jobs : Begun(k) => Begun(k)'
  BY <1>2 DEF Begun, Exists
<1>13. Enqueue(n, <<x>>)
  BY <1>5, <1>7
<1> QED
  BY <1>1, <1>2, <1>7, <1>8, <1>9, <1>10, <1>11, <1>12, <1>13, BeginTree

-----------------------------------------------------------------------------
(* The invariant holds *)

\* Nothing has been submitted.
LEMMA TreeInit == Init => TreeInv
<1> SUFFICES ASSUME Init
             PROVE  TreeInv
  OBVIOUS
<1>1. /\ state = [j \in Jobs |-> Absent] /\ idx = [s \in States |-> {}]
      /\ cmds = [n \in Nodes |-> <<>>] /\ loop = [n \in Nodes |-> <<>>]
      /\ inStartup = [n \in Nodes |-> {}] /\ starts = [j \in Jobs |-> 0]
      /\ act = [j \in Jobs |-> "idle"] /\ succeeded = {}
  BY DEF Init, StoreInit
<1>2. \A n \in Nodes : DOMAIN cmds[n] = {} /\ DOMAIN loop[n] = {} /\ inStartup[n] = {}
  BY <1>1
<1>3. \A n \in Nodes : \A T : ~Has(cmds[n], T) /\ ~Has(loop[n], T) /\ Once(cmds[n], T)
  BY <1>2 DEF Has, Once
<1>4. \A j \in Jobs : ~Exists(j) /\ starts[j] = 0 /\ act[j] = "idle" /\ ~Launched(j)
  BY <1>1, NodesOf DEF Exists, Launched
<1>5. Living = {}
  BY <1>4 DEF Living
<1>6. LiveInv /\ LeavesInv
  BY <1>1, <1>2, <1>3, <1>4, <1>5 DEF LiveInv, LeavesInv
<1>7. \A k \in Jobs : PendingInv(k)
  BY <1>3, <1>4, NodesOf DEF PendingInv
<1>8. \A a \in Adders : AdderInv(a) /\ GrowthInv(a)
  BY <1>2, <1>3, <1>4, AdderFacts DEF AdderInv, GrowthInv
<1>9. \A r \in Jobs : OpeningInv(r)
  BY <1>2, <1>3, ManagerAssumption DEF OpeningInv
<1> QED
  BY <1>2, <1>6, <1>7, <1>8, <1>9 DEF TreeInv

\* No step breaks it.
LEMMA TreeStep ==
  ASSUME Requests
  PROVE  IInv /\ OnceInv /\ TreeInv /\ [Next]_vars /\ IInv' => TreeInv'
<1> SUFFICES ASSUME IInv, IInv', OnceInv, TreeInv, [Next]_vars
             PROVE  TreeInv'
  OBVIOUS
<1>1. CASE UNCHANGED vars
  <2>1. PICK n \in Nodes : n = Pacemaker
    BY ManagerAssumption
  <2>2. UNCHANGED <<state, idx, starts, succeeded, inStartup, act, loop, cmds>>
    BY <1>1 DEF vars
  <2>3. \A m \in Nodes, j \in Jobs : Has(loop'[m], Stopping(j)) => Exists(j)
    BY <2>2 DEF TreeInv, LiveInv
  <2>4. Settles(n, Blank, Blank)
    BY <2>2, <2>3, Settled
  <2>5. <<>> \in Seq(Dull)
    OBVIOUS
  <2> QED
    BY <2>2, <2>4, <2>5, Queued, MildlySafe
<1>2. ASSUME NEW n \in Nodes, Reply(n)
      PROVE  TreeInv'
  <2>1. AddJob(n) \/ TagJob(n) \/ Mildly
    BY <1>2, RoundTripTree, StartJobsTree, DullReply, StartRunnerTree, FinishTree,
       SetTreeTree, AbortRunnersTree DEF Reply
  <2> QED
    BY <2>1, AddJobTree, AddTurnTree, MildlySafe
<1>3. ASSUME NEW n \in Nodes, Run(n) \/ OtherStatus(n) \/ Crash(n) \/ Restart(n) \/ SweepNode(n)
      PROVE  TreeInv'
  BY <1>3, RunTree, MildlySafe
<1>4. ASSUME NEW j \in Jobs, Runner(j) \/ Submit(j)
      PROVE  TreeInv'
  BY <1>4, RunnerTree, AddJobsTree, SubmitTree, MildlySafe DEF Runner
<1>5. ASSUME NEW j \in Jobs, UserAbort(j)
      PROVE  TreeInv'
  <2>1. Pacemaker \in Nodes
    BY ManagerAssumption
  <2> QED
    BY <1>5, <2>1, RunTree, MildlySafe
<1> QED
  BY <1>1, <1>2, <1>3, <1>4, <1>5 DEF Next

-----------------------------------------------------------------------------
(* Theorem *)

\* A job starts after its children, whenever they were added: once start_job of a
\* job was called, every child it has has called success(), however evaluations,
\* failures, aborts, crashes and restarts interleave, and also where request jobs
\* add jobs beside themselves and make the tree executable again (get_ready_to_run,
\* add_tree, allow_execution).
THEOREM LeavesBeforeRoots ==
  ASSUME Requests
  PROVE  Spec => []LeavesFirst
<1>1. IInv /\ OnceInv /\ TreeInv => LeavesFirst
  BY DEF TreeInv, LeavesInv, Launched, LeavesFirst
<1>2. Init => IInv /\ OnceInv /\ TreeInv
  BY InitSafe, OnceInit, TreeInit
<1>3. IInv /\ OnceInv /\ TreeInv /\ [Next]_vars => (IInv /\ OnceInv /\ TreeInv)'
  BY StepSafe, OnceStep, TreeStep
<1> QED
  BY <1>1, <1>2, <1>3, PTL DEF Spec
=============================================================================
