---------------------------- MODULE JobTreeProofs ----------------------------
(***************************************************************************)
(* What follows from the promise of JobTree, for every forest of jobs.     *)
(***************************************************************************)
EXTENDS JobTree, TLAPS

\* A job that has not begun has not been started.
Counted == \A j \in Jobs : runs[j] = IF Begun(j) THEN 1 ELSE 0

IInv == TypeOK /\ Counted /\ FromTheLeaves

\* Nothing has begun at first.
LEMMA InitHolds == Init => IInv
  BY DEF Init, IInv, TypeOK, Phases, Counted, Begun, FromTheLeaves

\* A step of a job, or the end of some, keeps the types and the counts, and the
\* order between a job and its parent and children.
LEMMA StepHolds == IInv /\ Next => IInv'
<1> SUFFICES ASSUME IInv, Next
             PROVE  IInv'
  OBVIOUS
<1> USE DEF IInv
<1>1. ASSUME NEW j \in Jobs, Add(j)
      PROVE  IInv'
  <2>1. TypeOK' /\ Counted'
    BY <1>1 DEF Add, Become, TypeOK, Phases, Counted, Begun
  <2>2. FromTheLeaves'
    BY <1>1 DEF Add, Become, TypeOK, Phases, Begun, FromTheLeaves
  <2> QED
    BY <2>1, <2>2
<1>2. ASSUME NEW j \in Jobs, Start(j)
      PROVE  IInv'
  <2>1. TypeOK' /\ Counted'
    BY <1>2 DEF Start, Become, TypeOK, Phases, Counted, Begun
  <2>2. FromTheLeaves'
    BY <1>2 DEF Start, Become, TypeOK, Phases, Begun, FromTheLeaves
  <2> QED
    BY <2>1, <2>2
<1>3. ASSUME NEW j \in Jobs, Succeed(j)
      PROVE  IInv'
  <2>1. TypeOK' /\ Counted'
    BY <1>3 DEF Succeed, Become, TypeOK, Phases, Counted, Begun
  <2>2. FromTheLeaves'
    BY <1>3 DEF Succeed, Become, TypeOK, Phases, Begun, FromTheLeaves
  <2> QED
    BY <2>1, <2>2
<1>4. ASSUME NEW S \in SUBSET Jobs, End(S)
      PROVE  IInv'
  <2>1. TypeOK' /\ Counted'
    BY <1>4 DEF End, TypeOK, Phases, Counted, Begun
  <2>2. FromTheLeaves'
    BY <1>4 DEF End, TypeOK, Phases, Begun, FromTheLeaves
  <2> QED
    BY <2>1, <2>2
<1> QED
  BY <1>1, <1>2, <1>3, <1>4 DEF Next

\* The invariant holds in every state.
LEMMA Invariance == Spec => []IInv
<1>1. IInv /\ [Next]_jobVars => IInv'
  <2> SUFFICES ASSUME IInv, [Next]_jobVars
               PROVE  IInv'
    OBVIOUS
  <2>1. CASE Next
    BY <2>1, StepHolds
  <2>2. CASE UNCHANGED jobVars
    BY <2>2 DEF jobVars, IInv, TypeOK, Counted, Begun, FromTheLeaves
  <2> QED
    BY <2>1, <2>2
<1> QED
  BY InitHolds, <1>1, PTL DEF Spec

\* Managers that keep the promise start no job a second time (_start_job).
THEOREM OnceOnly == Spec => []RunsOnce
<1>1. IInv => RunsOnce
  <2> SUFFICES ASSUME IInv, NEW j \in Jobs
               PROVE  runs[j] <= 1
    BY ZenonT(40) DEF RunsOnce
  <2>1. runs[j] = 0 \/ runs[j] = 1
    BY DEF IInv, Counted
  <2> QED
    BY <2>1
<1> QED
  BY <1>1, Invariance, PTL

\* Managers that keep the promise run a tree from its leaves to its root, and
\* nothing is added below a job that has begun (get_ready_to_run, add_tree).
THEOREM LeavesBeforeParents == Spec => []FromTheLeaves
<1>1. IInv => FromTheLeaves
  BY DEF IInv
<1> QED
  BY <1>1, Invariance, PTL
=============================================================================
