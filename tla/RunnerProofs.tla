---------------------------- MODULE RunnerProofs ----------------------------
(***************************************************************************)
(* Proofs about CheckerSupervisor for any set of leases and any capacity,  *)
(* and about Runner, its caller, for any set of runs, any number of        *)
(* targets and any capacity.  The facts about the supervisor rest on the   *)
(* assumptions of its own module alone.                                    *)
(***************************************************************************)
EXTENDS Runner, FiniteSetTheorems, TLAPS

(* Subsets of Leases are finite and have natural cardinalities. *)
LEMMA LeaseSetFinite ==
    ASSUME NEW S \in SUBSET Leases
    PROVE  IsFiniteSet(S) /\ Cardinality(S) \in Nat
BY FS_Subset, FS_CardinalityType, LeasesAssumption

(* Marking every live lease stuck makes the stuck count the active count. *)
LEMMA MarkAllCount ==
    ASSUME NEW L \in SUBSET Leases, NEW F \in SUBSET Leases
    PROVE  Cardinality(L \cap F) + Cardinality(L \ F) = Cardinality(L)
<1>1. IsFiniteSet(L) /\ Cardinality(L) \in Nat /\ Cardinality(L \cap F) \in Nat
  BY LeaseSetFinite
<1>2. Cardinality(L \ F) = Cardinality(L) - Cardinality(L \cap F)
  BY <1>1, FS_Difference
<1>3. QED
  BY <1>1, <1>2

(* Counting one lease more or less. *)
LEMMA CountOne ==
    ASSUME NEW L \in SUBSET Leases, NEW l \in Leases
    PROVE  /\ l \notin L => Cardinality(L \cup {l}) = Cardinality(L) + 1
           /\ l \in L => Cardinality(L \ {l}) = Cardinality(L) - 1
BY LeaseSetFinite, FS_AddElement, FS_RemoveElement

(* The supervisor starts with no lease and a closed drained channel. *)
LEMMA SupInitInv == SupInit => SupInv
<1> SUFFICES ASSUME SupInit
             PROVE  SupInv
  OBVIOUS
<1>1. leases = {} /\ leases \cap flagged = {} /\ leases \cap done = {}
  BY DEF SupInit
<1>2. LeaseAccounting
  BY <1>1, FS_EmptySet, CapacityAssumption DEF SupInit, LeaseAccounting
<1>3. SupTypeOK /\ LeaseStates /\ CleanShutdownIsFinal
  BY <1>1
  DEF SupInit, SupTypeOK, LeaseStates, CleanShutdownIsFinal, Snapshots, NoSnapshot
<1>4. QED
  BY <1>2, <1>3 DEF SupInv

(* Every operation of the supervisor preserves its invariant. *)
LEMMA SupNextInv == SupInv /\ [SupNext]_supVars => SupInv'
<1> SUFFICES ASSUME SupInv, [SupNext]_supVars
             PROVE  SupInv'
  OBVIOUS
<1> USE CapacityAssumption
<1>t. SupTypeOK /\ LeaseAccounting /\ LeaseStates /\ CleanShutdownIsFinal
  BY DEF SupInv
<1>f. /\ leases \in SUBSET Leases /\ flagged \in SUBSET Leases
      /\ leases \cap flagged \in SUBSET Leases
      /\ Cardinality(leases) \in Nat /\ Cardinality(leases \cap flagged) \in Nat
  BY <1>t, LeaseSetFinite DEF SupTypeOK
<1>1. ASSUME NEW l \in Leases, Acquire(l)
      PROVE  SupInv'
  <2>1. admit /\ shutdown = "none" /\ l \notin leases /\ l \notin flagged
    BY <1>1, <1>t DEF Acquire, CanAcquire, LeaseStates, SupTypeOK
  <2>2. Cardinality(leases') = Cardinality(leases) + 1
    BY <1>1, <1>f, <2>1, CountOne DEF Acquire
  <2>3. leases' \cap flagged' = leases \cap flagged
    BY <1>1, <2>1 DEF Acquire
  <2>4. SupTypeOK'
    <3>1. drained' \in BOOLEAN
      BY <1>1, <1>t, Zenon DEF Acquire, SupTypeOK
    <3>2. active' \in Nat /\ leases' \subseteq Leases
      BY <1>1, <1>t DEF Acquire, SupTypeOK
    <3>3. QED
      BY <1>1, <1>t, <3>1, <3>2 DEF Acquire, SupTypeOK
  <2>5. LeaseAccounting'
    BY <1>1, <1>t, <2>2, <2>3 DEF Acquire, CanAcquire, LeaseAccounting, SupTypeOK
  <2>6. LeaseStates'
    BY <1>1, <1>t, <2>1 DEF Acquire, LeaseStates
  <2>7. QED
    BY <1>1, <2>1, <2>4, <2>5, <2>6 DEF Acquire, SupInv, CleanShutdownIsFinal
<1>2. ASSUME NEW l \in Leases, Release(l)
      PROVE  SupInv'
  <2>1. l \in leases /\ leases' = leases \ {l} /\ flagged' = flagged
    BY <1>2 DEF Release
  <2>2. Cardinality(leases') = Cardinality(leases) - 1 /\ Cardinality(leases') \in Nat
    BY <1>f, <2>1, CountOne, LeaseSetFinite
  <2>3. Cardinality(leases' \cap flagged')
           = IF l \in flagged THEN Cardinality(leases \cap flagged) - 1
             ELSE Cardinality(leases \cap flagged)
    <3>1. CASE l \in flagged
      <4>1. leases' \cap flagged' = (leases \cap flagged) \ {l} /\ l \in leases \cap flagged
        BY <2>1, <3>1
      <4>2. QED
        BY <1>f, <3>1, <4>1, CountOne
    <3>2. CASE l \notin flagged
      <4>1. leases' \cap flagged' = leases \cap flagged
        BY <2>1, <3>2
      <4>2. QED
        BY <3>2, <4>1
    <3>3. QED
      BY <3>1, <3>2
  <2>4. Cardinality(leases' \cap flagged') \in Nat
    BY <1>f, <2>1, LeaseSetFinite
  <2>5. LeaseAccounting'
    BY <1>2, <1>t, <2>2, <2>3, <2>4 DEF Release, LeaseAccounting, SupTypeOK
  <2>6. SupTypeOK'
    BY <1>2, <1>t, <2>2, <2>4, <2>5 DEF Release, SupTypeOK, LeaseAccounting
  <2>7. LeaseStates'
    BY <1>2, <1>t, <2>1 DEF Release, LeaseStates
  <2>8. QED
    BY <1>2, <1>t, <2>1, <2>5, <2>6, <2>7 DEF Release, SupInv, CleanShutdownIsFinal
<1>3. ASSUME NEW l \in Leases, MarkStuck(l)
      PROVE  SupInv'
  <2>1. CASE l \in leases /\ l \notin flagged
    <3>1. leases' \cap flagged' = (leases \cap flagged) \cup {l} /\ l \notin leases \cap flagged
      BY <1>3, <2>1 DEF MarkStuck
    <3>2. Cardinality(leases' \cap flagged') = Cardinality(leases \cap flagged) + 1
      BY <1>f, <3>1, CountOne
    <3>3. SupTypeOK' /\ LeaseAccounting'
      BY <1>3, <1>t, <2>1, <3>2 DEF MarkStuck, SupTypeOK, LeaseAccounting
    <3>4. LeaseStates'
      BY <1>3, <1>t, <2>1 DEF MarkStuck, LeaseStates
    <3>5. QED
      BY <1>3, <1>t, <3>3, <3>4 DEF MarkStuck, SupInv, CleanShutdownIsFinal
  <2>2. CASE ~(l \in leases /\ l \notin flagged)
    BY <1>3, <1>t, <2>2
    DEF MarkStuck, SupInv, SupTypeOK, LeaseAccounting, LeaseStates, CleanShutdownIsFinal
  <2>3. QED
    BY <2>1, <2>2
<1>4. ASSUME BeginShutdown
      PROVE  SupInv'
  <2>1. leases' \cap flagged' = leases /\ leases' = leases
    BY <1>4 DEF BeginShutdown
  <2>2. stuck' = Cardinality(leases)
    BY <1>4, <1>t, <1>f, MarkAllCount DEF BeginShutdown, LeaseAccounting
  <2>3. SupTypeOK' /\ LeaseAccounting'
    BY <1>4, <1>t, <1>f, <2>1, <2>2 DEF BeginShutdown, SupTypeOK, LeaseAccounting
  <2>4. LeaseStates' /\ CleanShutdownIsFinal'
    BY <1>4, <1>t DEF BeginShutdown, LeaseStates, CleanShutdownIsFinal
  <2>5. QED
    BY <2>3, <2>4 DEF SupInv
<1>5. ASSUME ShutdownDrained \/ ShutdownExpired
      PROVE  SupInv'
  BY <1>5, <1>t
  DEF ShutdownDrained, ShutdownExpired, SupInv, SupTypeOK, LeaseAccounting, LeaseStates,
      CleanShutdownIsFinal
<1>6. ASSUME ShutdownCapture
      PROVE  SupInv'
  <2>1. SupTypeOK' /\ LeaseAccounting' /\ LeaseStates'
    BY <1>6, <1>t
    DEF ShutdownCapture, SupTypeOK, LeaseAccounting, LeaseStates, Snapshots
  <2>2. active = 0 => leases = {}
    BY <1>t, FS_EmptySet, LeaseSetFinite DEF LeaseAccounting, SupTypeOK
  <2>3. CleanShutdownIsFinal'
    BY <1>6, <2>2 DEF ShutdownCapture, CleanShutdownIsFinal
  <2>4. QED
    BY <2>1, <2>3 DEF SupInv
<1>7. CASE UNCHANGED supVars
  BY <1>7, <1>t
  DEF supVars, SupInv, SupTypeOK, LeaseAccounting, LeaseStates, CleanShutdownIsFinal
<1>8. QED
  BY <1>1, <1>2, <1>3, <1>4, <1>5, <1>6, <1>7 DEF SupNext, ShutdownStep

(* The inductive invariant holds of every behaviour of the supervisor,     *)
(* whatever order its callers use it in.                                   *)
THEOREM SupInvariance == SupervisorSpec => []SupInv
BY SupInitInv, SupNextInv, PTL DEF SupervisorSpec

(* The counters, the limit and the drained channel of the supervisor are   *)
(* right at all times.                                                     *)
THEOREM LeaseAccountingHolds == SupervisorSpec => []LeaseAccounting
<1>1. SupInv => LeaseAccounting
  BY DEF SupInv
<1>2. QED
  BY <1>1, SupInvariance, PTL

(* Once shutdown has begun, every worker still running is counted stuck. *)
THEOREM ShutdownCountHolds == SupervisorSpec => []ShutdownCountsEveryWorker
<1>1. ASSUME SupInv, shutdown # "none"
      PROVE  stuck = active
  <2>1. leases \cap flagged = leases
    BY <1>1 DEF SupInv, LeaseStates
  <2>2. QED
    BY <1>1, <2>1 DEF SupInv, LeaseAccounting
<1>2. SupInv => ShutdownCountsEveryWorker
  BY <1>1 DEF ShutdownCountsEveryWorker
<1>3. QED
  BY <1>2, SupInvariance, PTL

(* A shutdown that reported no active worker stays without one. *)
THEOREM CleanShutdownHolds == SupervisorSpec => []CleanShutdownIsFinal
<1>1. SupInv => CleanShutdownIsFinal
  BY DEF SupInv
<1>2. QED
  BY <1>1, SupInvariance, PTL

-----------------------------------------------------------------------------
(* The runner. *)

(* A job is a pair of its run and its index. *)
LEMMA JobParts ==
    ASSUME NEW j \in Jobs
    PROVE  j[1] \in Runs /\ j[2] \in Indices /\ j = <<j[1], j[2]>> /\ j \in JobsOf(j[1])
BY DEF Jobs, JobsOf

(* Updating a function at one argument keeps its type. *)
LEMMA Update ==
    ASSUME NEW S, NEW T, NEW f \in [S -> T], NEW x \in S, NEW v \in T
    PROVE  [f EXCEPT ![x] = v] \in [S -> T]
OBVIOUS

(* An empty channel holds nothing and a completed worker is not at its     *)
(* return.                                                                 *)
LEMMA NothingPending == ~(0 > 0) /\ "completed" # "returned"
OBVIOUS

(* The jobs of a run are as many as its targets. *)
LEMMA JobsOfCount ==
    ASSUME NEW r \in Runs
    PROVE  IsFiniteSet(JobsOf(r)) /\ Cardinality(JobsOf(r)) = NumTargets
<1>1. IsFiniteSet(Indices) /\ Cardinality(Indices) = NumTargets
  BY FS_Interval, NumTargetsAssumption DEF Indices
<1>2. IsFiniteSet({r}) /\ Cardinality({r}) = 1
  BY FS_Singleton
<1>3. QED
  BY <1>1, <1>2, FS_Product, NumTargetsAssumption DEF JobsOf

(* The initial state satisfies the invariant. *)
LEMMA RunnerInitInv == Init => RunnerInv
<1> SUFFICES ASSUME Init
             PROVE  RunnerInv
  OBVIOUS
<1> USE NumTargetsAssumption
<1>1. SupInv
  BY SupInitInv DEF Init
<1>2. RunnerTypeOK
  BY DEF Init, RunnerTypeOK, Jobs, Indices
<1>3. ASSUME NEW r \in Runs
      PROVE  RunInv(r)
  <2>1. Collected(r) = {}
    BY DEF Init, Collected, JobsOf, Jobs
  <2>2. QED
    BY <2>1, FS_EmptySet DEF Init, RunInv
<1>4. ASSUME NEW j \in Jobs
      PROVE  JobLease(j) /\ JobOutcome(j) /\ JobValue(j)
  BY JobParts DEF Init, SupInit, JobLease, JobOutcome, JobValue, Sources, Codes
<1>5. QED
  BY <1>1, <1>2, <1>3, <1>4 DEF RunnerInv, OwnInv

(* Every step of the runner is a step of the supervisor or leaves it alone. *)
LEMMA RunnerStepRefines == RunnerInv /\ [Next]_vars => [SupNext]_supVars
<1> SUFFICES ASSUME RunnerInv, [Next]_vars
             PROVE  [SupNext]_supVars
  OBVIOUS
<1> USE DEF supVars
<1>1. ASSUME NEW r \in Runs, RunStartTarget(r)
      PROVE  [SupNext]_supVars
  <2>1. <<r, next[r]>> \in Leases
    BY <1>1, JobLeasesAssumption, NumTargetsAssumption
    DEF RunnerInv, OwnInv, RunnerTypeOK, RunInv, RunStartTarget, Jobs, Indices
  <2>2. QED
    BY <1>1, <2>1 DEF RunStartTarget, SupNext
<1>2. ASSUME NEW r \in Runs, RunStep(r) \/ Clock(r) \/ ParentCancel(r), ~RunStartTarget(r)
      PROVE  UNCHANGED supVars
  BY <1>2 DEF RunStep, RunBegin, RunCancelled, RunCollect, RunReturn, Clock,
     RunDeadlinePasses, RunTimerFires, ParentCancel
<1>3. ASSUME NEW j \in Jobs, CutoffStep(j)
      PROVE  [SupNext]_supVars
  BY <1>3, JobLeasesAssumption DEF CutoffStep, CutoffStart, CutoffCommit, SupNext
<1>4. ASSUME NEW j \in Jobs, WorkerReturn(j) \/ WorkerFinish(j) \/ CheckDeadline(j)
      PROVE  [SupNext]_supVars
  BY <1>4, JobLeasesAssumption
  DEF WorkerReturn, WorkerFinish, WorkerComplete, WorkerRelease, WorkerPublish,
      CheckDeadline, SupNext
<1>5. ASSUME Shutdown
      PROVE  [SupNext]_supVars
  BY <1>5 DEF Shutdown, SupNext
<1>6. QED
  BY <1>1, <1>2, <1>3, <1>4, <1>5 DEF Next, vars

(* A step that leaves the run's own variables and contexts alone preserves *)
(* what the invariant says of the run.                                     *)
LEMMA RunFrame ==
    ASSUME OwnInv, UNCHANGED <<runVars, ctxVars>>
    PROVE  \A r \in Runs : RunInv(r)'
<1> TAKE r \in Runs
<1>1. Collected(r)' = Collected(r)
  BY DEF runVars, Collected
<1>2. QED
  BY <1>1 DEF OwnInv, RunInv, runVars, ctxVars

(* What the supervisor's operations do to the lease of one job. *)
LEMMA MarkStuckEffect ==
    ASSUME NEW j, MarkStuck(j)
    PROVE  /\ leases' = leases /\ done' = done /\ cancelled' = cancelled
           /\ flagged \subseteq flagged' /\ (j \in leases => j \in flagged')
BY DEF MarkStuck

(* Nothing the invariant says of target j is disturbed by a step that      *)
(* leaves its variables alone and only lets its contexts end and its lease *)
(* be marked.                                                              *)
SameJob(j) ==
    /\ worker'[j] = worker[j] /\ produced'[j] = produced[j]
    /\ returnedLate'[j] = returnedLate[j] /\ checkLate'[j] = checkLate[j]
    /\ claimed'[j] = claimed[j] /\ winner'[j] = winner[j]
    /\ outcomes'[j] = outcomes[j] /\ value'[j] = value[j] /\ results'[j] = results[j]
    /\ cut'[j] = cut[j]
    /\ phase'[j[1]] = phase[j[1]] /\ next'[j[1]] = next[j[1]]
    /\ runPassed[j[1]] => runPassed'[j[1]]
    /\ parentDone[j[1]] => parentDone'[j[1]]
    /\ cancelled => cancelled'
    /\ j \in leases' <=> j \in leases
    /\ j \in done' <=> j \in done
    /\ j \in flagged => j \in flagged'

JobInv(j) == JobLease(j) /\ JobOutcome(j) /\ JobValue(j)

LEMMA JobFrame ==
    ASSUME NEW j \in Jobs, JobInv(j), SameJob(j)
    PROVE  JobInv(j)'
<1>1. JobLease(j)'
  BY DEF JobInv, SameJob, JobLease
<1>2. JobOutcome(j)'
  BY DEF JobInv, SameJob, JobOutcome
<1>3. JobValue(j)'
  BY DEF JobInv, SameJob, JobValue, Settled, Truthful, CancelSeen
<1>4. QED
  BY <1>1, <1>2, <1>3 DEF JobInv

(* The parts of the invariant a step of one job needs. *)
LEMMA InvParts ==
    ASSUME RunnerInv
    PROVE  /\ SupTypeOK /\ LeaseStates /\ OwnInv /\ RunnerTypeOK
           /\ \A r \in Runs : RunInv(r)
           /\ \A j \in Jobs : JobInv(j)
BY DEF RunnerInv, SupInv, OwnInv, JobInv

(* A step of one job preserves the invariant if it preserves it for that   *)
(* job and leaves the run variables and all other jobs alone.              *)
LEMMA OneJobStep ==
    ASSUME RunnerInv, NEW j \in Jobs, RunnerTypeOK', UNCHANGED <<runVars, ctxVars>>,
           \A k \in Jobs \ {j} : SameJob(k), JobInv(j)'
    PROVE  OwnInv'
<1>1. \A r \in Runs : RunInv(r)'
  BY InvParts, RunFrame
<1>2. ASSUME NEW k \in Jobs
      PROVE  JobInv(k)'
  <2>1. CASE k = j
    BY <2>1
  <2>2. CASE k # j
    BY <2>2, InvParts, JobFrame
  <2>3. QED
    BY <2>1, <2>2
<1>3. QED
  BY <1>1, <1>2 DEF OwnInv, JobInv

(* A check's own deadline preserves the invariant. *)
LEMMA CheckDeadlineInv ==
    ASSUME RunnerInv, NEW j \in Jobs, CheckDeadline(j)
    PROVE  OwnInv'
<1> USE DEF CheckDeadline, supVars, runVars, ctxVars, workVars, chanVars
<1>0. /\ RunnerTypeOK /\ LeaseStates /\ JobInv(j) /\ RunInv(j[1])
      /\ j[1] \in Runs /\ j \in Jobs
  BY InvParts, JobParts
<1>1. RunnerTypeOK'
  BY <1>0, JobParts DEF RunnerTypeOK
<1>2. \A k \in Jobs \ {j} : SameJob(k)
  BY <1>0, JobParts DEF RunnerTypeOK, SameJob
<1>3. JobLease(j)'
  BY <1>0 DEF RunnerTypeOK, JobInv, JobLease
<1>4. JobOutcome(j)'
  BY <1>0 DEF RunnerTypeOK, JobInv, JobOutcome
<1>5. JobValue(j)'
  BY <1>0 DEF RunnerTypeOK, JobInv, JobValue, Settled, Truthful, CancelSeen
<1>6. QED
  BY <1>1, <1>2, <1>3, <1>4, <1>5, OneJobStep DEF JobInv

(* A checker's return preserves the invariant. *)
LEMMA WorkerReturnInv ==
    ASSUME RunnerInv, NEW j \in Jobs, WorkerReturn(j)
    PROVE  OwnInv'
<1> USE DEF WorkerReturn, supVars, runVars, ctxVars, workVars, chanVars
<1>0. /\ RunnerTypeOK /\ LeaseStates /\ JobInv(j) /\ RunInv(j[1])
      /\ j[1] \in Runs /\ j \in Jobs
  BY InvParts, JobParts
<1>1. RunnerTypeOK'
  BY <1>0, JobParts DEF RunnerTypeOK
<1>2. \A k \in Jobs \ {j} : SameJob(k)
  BY <1>0, JobParts DEF RunnerTypeOK, SameJob
<1>3. JobLease(j)'
  BY <1>0 DEF RunnerTypeOK, JobInv, JobLease
<1>4. JobOutcome(j)'
  BY <1>0 DEF RunnerTypeOK, JobInv, JobOutcome
<1>5. JobValue(j)'
  BY <1>0 DEF RunnerTypeOK, JobInv, JobValue, Settled, Truthful, CancelSeen
<1>6. QED
  BY <1>1, <1>2, <1>3, <1>4, <1>5, OneJobStep DEF JobInv

(* Giving the lease back preserves the invariant. *)
LEMMA WorkerReleaseInv ==
    ASSUME RunnerInv, NEW j \in Jobs, WorkerRelease(j)
    PROVE  OwnInv'
<1> USE DEF WorkerRelease, supVars, runVars, ctxVars, workVars, chanVars, Release
<1>0. /\ RunnerTypeOK /\ LeaseStates /\ JobInv(j) /\ RunInv(j[1])
      /\ j[1] \in Runs /\ j \in Jobs
  BY InvParts, JobParts
<1>c. claimed[j] /\ ~(phase[j[1]] # "returned" /\ j[2] >= next[j[1]])
  BY <1>0 DEF JobInv, JobOutcome
<1>1. RunnerTypeOK'
  BY <1>0, JobParts DEF RunnerTypeOK
<1>2. \A k \in Jobs \ {j} : SameJob(k)
  BY <1>0, JobParts DEF RunnerTypeOK, SameJob
<1>3. JobLease(j)'
  BY <1>0 DEF RunnerTypeOK, JobInv, JobLease
<1>4. JobOutcome(j)'
  BY <1>0, <1>c DEF RunnerTypeOK, JobInv, JobOutcome
<1>5. JobValue(j)'
  BY <1>0 DEF RunnerTypeOK, JobInv, JobValue, Settled, Truthful, CancelSeen
<1>6. QED
  BY <1>1, <1>2, <1>3, <1>4, <1>5, OneJobStep DEF JobInv

(* Publishing a claimed outcome preserves the invariant. *)
LEMMA WorkerPublishInv ==
    ASSUME RunnerInv, NEW j \in Jobs, WorkerPublish(j)
    PROVE  OwnInv'
<1> USE DEF WorkerPublish, supVars, runVars, ctxVars, workVars, chanVars, Send
<1>0. /\ RunnerTypeOK /\ LeaseStates /\ JobInv(j) /\ RunInv(j[1])
      /\ j[1] \in Runs /\ j \in Jobs
  BY InvParts, JobParts
<1>c. /\ claimed[j] /\ outcomes[j] = 0 /\ results[j] = "none" /\ j \notin leases
      /\ phase[j[1]] # "returned" /\ ~(j[2] >= next[j[1]])
  BY <1>0 DEF JobInv, JobLease, JobOutcome, LeaseStates
<1>1. RunnerTypeOK'
  BY <1>0, JobParts DEF RunnerTypeOK
<1>2. \A k \in Jobs \ {j} : SameJob(k)
  BY <1>0, JobParts DEF RunnerTypeOK, SameJob
<1>3. JobLease(j)'
  BY <1>0, <1>c DEF RunnerTypeOK, JobInv, JobLease
<1>4. JobOutcome(j)'
  BY <1>0, <1>c DEF RunnerTypeOK, JobInv, JobOutcome
<1>5. JobValue(j)'
  BY <1>0, <1>c DEF RunnerTypeOK, JobInv, JobValue, Settled, Truthful, CancelSeen
<1>6. QED
  BY <1>1, <1>2, <1>3, <1>4, <1>5, OneJobStep DEF JobInv

(* Starting a cutoff preserves the invariant. *)
LEMMA CutoffStartInv ==
    ASSUME RunnerInv, NEW j \in Jobs, NEW s \in Sources, CutoffStart(j, s)
    PROVE  OwnInv'
<1> USE DEF CutoffStart, supVars, runVars, ctxVars, workVars, chanVars
<1>0. /\ RunnerTypeOK /\ LeaseStates /\ JobInv(j) /\ RunInv(j[1])
      /\ j[1] \in Runs /\ j \in Jobs
  BY InvParts, JobParts
<1>c. CutoffCode(j) \in {"timeout", "cancelled"}
  BY DEF CutoffCode
<1>d. ~claimed[j] => Truthful(j, CutoffCode(j))
  <2>1. worker[j] # "none"
    BY <1>0 DEF JobInv, JobOutcome
  <2>2. ~claimed[j] => phase[j[1]] # "returned"
    BY <1>0, <2>1 DEF JobInv, JobOutcome
  <2>3. QED
    BY <1>0, <2>2 DEF RunnerTypeOK, RunInv, CutoffCode, Truthful, CancelSeen, CheckResults
<1>e. /\ cut' = [cut EXCEPT ![j] = [cut[j] EXCEPT ![s] = CutoffCode(j)]]
      /\ cut[j] \in [Sources -> Codes \cup {"unarmed", "armed", "done"}]
      /\ cut'[j] = [cut[j] EXCEPT ![s] = CutoffCode(j)]
  BY <1>0 DEF RunnerTypeOK
<1>1. RunnerTypeOK'
  <2>1. cut'[j] \in [Sources -> Codes \cup {"unarmed", "armed", "done"}]
    BY <1>c, <1>e DEF Codes
  <2>2. QED
    BY <1>0, <1>e, <2>1 DEF RunnerTypeOK
<1>2. \A k \in Jobs \ {j} : SameJob(k)
  BY <1>0, JobParts DEF RunnerTypeOK, SameJob
<1>3. JobLease(j)'
  BY <1>0 DEF RunnerTypeOK, JobInv, JobLease
<1>4. JobOutcome(j)'
  <2>1. worker[j] # "none"
    BY <1>0 DEF JobInv, JobOutcome
  <2>2. QED
    BY <1>0, <2>1 DEF JobInv, JobOutcome
<1>5. JobValue(j)'
  <2>1. ASSUME ~claimed[j], NEW s1 \in Sources, cut'[j][s1] \in Codes
        PROVE  Truthful(j, cut[j][s1])'
    <3>1. Truthful(j, cut'[j][s1])
      BY <1>0, <1>d, <1>e, <2>1 DEF JobInv, JobValue
    <3>2. QED
      BY <3>1 DEF Truthful, CancelSeen
  <2>2. QED
    BY <1>0, <2>1 DEF JobInv, JobValue, Settled, Truthful, CancelSeen
<1>6. QED
  BY <1>1, <1>2, <1>3, <1>4, <1>5, OneJobStep DEF JobInv

(* Committing a cutoff preserves the invariant. *)
LEMMA CutoffCommitInv ==
    ASSUME RunnerInv, NEW j \in Jobs, NEW s \in Sources, CutoffCommit(j, s)
    PROVE  OwnInv'
<1> USE DEF CutoffCommit, supVars, runVars, ctxVars, workVars, chanVars, Send, CanClaim
<1>0. /\ RunnerTypeOK /\ LeaseStates /\ JobInv(j) /\ RunInv(j[1])
      /\ j[1] \in Runs /\ j \in Jobs
  BY InvParts, JobParts
<1>m. /\ leases' = leases /\ done' = done /\ cancelled' = cancelled /\ flagged \subseteq flagged'
      /\ ~claimed[j] /\ j \in leases => j \in flagged'
  BY MarkStuckEffect
<1>e. /\ cut[j] \in [Sources -> Codes \cup {"unarmed", "armed", "done"}]
      /\ cut' = [cut EXCEPT ![j] = [cut[j] EXCEPT ![s] = "done"]]
      /\ cut'[j] = [cut[j] EXCEPT ![s] = "done"] /\ "done" \notin Codes /\ "unarmed" \notin Codes
      /\ cut[j][s] \in Results
  BY <1>0 DEF RunnerTypeOK, Codes, Results
<1>w. worker[j] # "none"
  BY <1>0, <1>e DEF JobInv, JobOutcome
<1>n. ~claimed[j] => /\ outcomes[j] = 0 /\ results[j] = "none" /\ winner[j] = "none"
                     /\ phase[j[1]] # "returned" /\ ~(j[2] >= next[j[1]])
                     /\ worker[j] \in {"checking", "returned"}
  BY <1>0, <1>w DEF JobInv, JobOutcome
<1>1. RunnerTypeOK'
  <2>1. cut' \in [Jobs -> [Sources -> Codes \cup {"unarmed", "armed", "done"}]]
    BY <1>0, <1>e DEF RunnerTypeOK
  <2>2. /\ outcomes' \in [Jobs -> Nat] /\ value' \in [Jobs -> Results \cup {"none"}]
        /\ claimed' \in [Jobs -> BOOLEAN]
    <3>1. CASE claimed[j]
      BY <1>0, <3>1 DEF RunnerTypeOK
    <3>2. CASE ~claimed[j]
      <4>1. claimed' \in [Jobs -> BOOLEAN]
        BY <1>0, <3>2, Update, Zenon DEF RunnerTypeOK
      <4>2. QED
        BY <1>0, <1>e, <3>2, <4>1 DEF RunnerTypeOK
    <3>3. QED
      BY <3>1, <3>2
  <2>3. QED
    BY <1>0, <2>1, <2>2 DEF RunnerTypeOK
<1>2. \A k \in Jobs \ {j} : SameJob(k)
  BY <1>0, <1>m, JobParts DEF RunnerTypeOK, SameJob
<1>3. JobLease(j)'
  BY <1>0, <1>m, <1>w, <1>n DEF RunnerTypeOK, JobInv, JobLease
<1>4. JobOutcome(j)'
  <2>1. CASE claimed[j]
    BY <1>0, <1>w, <2>1 DEF JobInv, JobOutcome
  <2>2. CASE ~claimed[j]
    BY <1>0, <1>w, <1>n, <2>2 DEF RunnerTypeOK, JobInv, JobOutcome
  <2>3. QED
    BY <2>1, <2>2
<1>5. JobValue(j)'
  <2>1. CASE claimed[j]
    BY <1>0, <1>m, <2>1 DEF JobInv, JobValue, Settled, Truthful, CancelSeen
  <2>2. CASE ~claimed[j]
    <3>1. cut[j][s] # "none" /\ cut[j][s] \notin CheckResults
      BY DEF Codes, CheckResults
    <3>2. Truthful(j, cut[j][s]) /\ cut[j][s] \in Codes
      BY <1>0, <2>2 DEF JobInv, JobValue
    <3>3. claimed'[j] /\ value'[j] = cut[j][s] /\ outcomes'[j] = 1
      BY <1>0, <1>n, <2>2 DEF RunnerTypeOK
    <3>4. QED
      BY <1>0, <1>m, <1>n, <2>2, <3>1, <3>2, <3>3
      DEF JobInv, JobValue, Settled, Truthful, CancelSeen
  <2>3. QED
    BY <2>1, <2>2
<1>6. QED
  BY <1>1, <1>2, <1>3, <1>4, <1>5, OneJobStep DEF JobInv

(* Completing a worker preserves the invariant. *)
LEMMA WorkerCompleteInv ==
    ASSUME RunnerInv, NEW j \in Jobs, WorkerComplete(j)
    PROVE  OwnInv'
<1> USE DEF WorkerComplete, supVars, runVars, ctxVars, workVars, chanVars, CanClaim
<1>0. /\ RunnerTypeOK /\ LeaseStates /\ JobInv(j) /\ RunInv(j[1])
      /\ j[1] \in Runs /\ j \in Jobs
  BY InvParts, JobParts
<1>m. /\ leases' = leases /\ done' = done /\ cancelled' = cancelled /\ flagged \subseteq flagged'
      /\ ~claimed[j] /\ j \in leases /\ CompletionCode(j) # "" => j \in flagged'
  BY MarkStuckEffect
<1>e. /\ cut' = [cut EXCEPT ![j] = Stopped(cut[j])] /\ cut'[j] = Stopped(cut[j])
      /\ Stopped(cut[j]) \in [Sources -> Codes \cup {"unarmed", "armed", "done"}]
  <2>1. cut[j] \in [Sources -> Codes \cup {"unarmed", "armed", "done"}]
    BY <1>0 DEF RunnerTypeOK
  <2>2. Stopped(cut[j]) \in [Sources -> Codes \cup {"unarmed", "armed", "done"}]
    BY <2>1 DEF Stopped
  <2>3. QED
    BY <1>0, <2>2 DEF RunnerTypeOK
<1>n. ~claimed[j] => /\ outcomes[j] = 0 /\ results[j] = "none" /\ winner[j] = "none"
                     /\ phase[j[1]] # "returned"
  BY <1>0 DEF JobInv, JobOutcome
<1>k. ~(phase[j[1]] # "returned" /\ j[2] >= next[j[1]])
  BY <1>0 DEF JobInv, JobOutcome
<1> PICK code : code = CompletionCode(j)
  OBVIOUS
<1> PICK x : x = IF code = "" THEN produced[j] ELSE code
  OBVIOUS
<1>c. code \in {"", "timeout", "cancelled"} /\ code = CompletionCode(j)
  BY DEF CompletionCode
<1>p. /\ produced[j] \in CheckResults /\ x \in Results /\ x # "none"
      /\ code = "" => x = produced[j]
      /\ code # "" => x = code
  BY <1>0, <1>c DEF JobInv, JobValue, Results, Codes, CheckResults
<1>w. worker' = [worker EXCEPT ![j] = "completed"] /\ worker'[j] = "completed" /\ claimed'[j]
  BY <1>0 DEF RunnerTypeOK
<1>x. ~claimed[j] => winner' = [winner EXCEPT ![j] = x] /\ winner'[j] = x
  BY <1>0, <1>c, <1>p DEF RunnerTypeOK
<1>v. ~claimed[j] => Truthful(j, x)'
  <2>1. code = "cancelled" /\ ~claimed[j] => CancelSeen(j[1])
    BY <1>0, <1>c, <1>n DEF CompletionCode, RunInv, CancelSeen
  <2>2. code = "timeout" => runPassed[j[1]] \/ checkLate[j]
    BY <1>0, <1>c DEF CompletionCode, DeadlineReached, RunInv, JobInv, JobValue
  <2>3. code = "" => ~returnedLate[j] /\ (j[2] \in Traceroutes \/ ~checkLate[j])
    BY <1>c DEF CompletionCode, DeadlineReached
  <2>4. QED
    BY <1>m, <1>c, <1>p, <1>w, <2>1, <2>2, <2>3 DEF Truthful, CancelSeen, CheckResults
<1>1. RunnerTypeOK'
  <2>1. winner' \in [Jobs -> Results \cup {"none"}] /\ claimed' \in [Jobs -> BOOLEAN]
    <3>1. CASE claimed[j]
      BY <1>0, <3>1 DEF RunnerTypeOK
    <3>2. CASE ~claimed[j]
      <4>1. claimed' \in [Jobs -> BOOLEAN]
        BY <1>0, <3>2, Update, Zenon DEF RunnerTypeOK
      <4>2. winner \in [Jobs -> Results \cup {"none"}] /\ x \in Results \cup {"none"}
        BY <1>0, <1>p DEF RunnerTypeOK
      <4>3. winner' = [winner EXCEPT ![j] = x]
        BY <1>x, <3>2
      <4>4. winner' \in [Jobs -> Results \cup {"none"}]
        BY <1>0, <4>2, <4>3, Update, Zenon
      <4>5. QED
        BY <4>1, <4>4
    <3>3. QED
      BY <3>1, <3>2
  <2>2. cut' \in [Jobs -> [Sources -> Codes \cup {"unarmed", "armed", "done"}]]
    <3>1. cut \in [Jobs -> [Sources -> Codes \cup {"unarmed", "armed", "done"}]]
      BY <1>0 DEF RunnerTypeOK
    <3>2. QED
      BY <1>e, <3>1, Update, Zenon
  <2>3. worker' \in [Jobs -> {"none", "checking", "returned", "completed", "released"}]
    BY <1>0, <1>w DEF RunnerTypeOK
  <2>4. QED
    BY <1>0, <2>1, <2>2, <2>3 DEF RunnerTypeOK
<1>2. \A k \in Jobs \ {j} : SameJob(k)
  <2> SUFFICES ASSUME NEW k \in Jobs, k # j
               PROVE  SameJob(k)
    OBVIOUS
  <2>1. worker'[k] = worker[k] /\ cut'[k] = cut[k]
    <3>1. DOMAIN worker = Jobs /\ DOMAIN cut = Jobs
      BY ONLY <1>0 DEF RunnerTypeOK
    <3>2. /\ worker' = [worker EXCEPT ![j] = "completed"]
          /\ cut' = [cut EXCEPT ![j] = Stopped(cut[j])]
      BY <1>e, <1>w
    <3>3. k \in Jobs /\ k # j
      OBVIOUS
    <3>4. QED
      BY ONLY <3>1, <3>2, <3>3
  <2>2. claimed'[k] = claimed[k] /\ winner'[k] = winner[k]
    <3>1. CASE claimed[j]
      BY <3>1
    <3>2. CASE ~claimed[j]
      BY <1>0, <1>x, <3>2 DEF RunnerTypeOK
    <3>3. QED
      BY <3>1, <3>2
  <2>3. QED
    BY <1>m, <2>1, <2>2 DEF SameJob
<1>3. JobLease(j)'
  <2>1. CASE claimed[j]
    BY <1>0, <1>m, <1>w, <2>1 DEF JobInv, JobLease
  <2>2. CASE ~claimed[j]
    BY <1>0, <1>m, <1>w, <1>x, <1>p, <2>2 DEF JobInv, JobLease
  <2>3. QED
    BY <2>1, <2>2
<1>4. JobOutcome(j)'
  <2>1. CASE claimed[j]
    BY <1>0, <1>w, <1>k, <2>1 DEF JobInv, JobOutcome
  <2>2. CASE ~claimed[j]
    BY <1>0, <1>w, <1>k, <1>x, <1>n, <2>2 DEF JobInv, JobOutcome
  <2>3. QED
    BY <2>1, <2>2
<1>5. JobValue(j)'
  <2>1. CASE claimed[j]
    BY <1>0, <1>m, <1>w, <2>1 DEF JobInv, JobValue, Settled, Truthful, CancelSeen
  <2>2. CASE ~claimed[j]
    <3>1. winner'[j] # "none" => Truthful(j, winner[j])'
      BY <1>x, <1>v, <2>2 DEF Truthful
    <3>2. claimed'[j] /\ results'[j] = "none"
      BY <1>n, <1>w, <2>2
    <3>3. returnedLate'[j] => runPassed'[j[1]]
      BY <1>0 DEF JobInv, JobValue
    <3>4. ~(outcomes'[j] > 0) /\ ~(worker'[j] = "returned")
      <4>1. outcomes'[j] = 0 /\ worker'[j] = "completed"
        BY <1>n, <1>w, <2>2
      <4>2. QED
        BY <4>1, NothingPending, Zenon
    <3>5. QED
      BY <3>1, <3>2, <3>3, <3>4, Zenon DEF JobValue
  <2>3. QED
    BY <2>1, <2>2
<1>6. QED
  BY <1>1, <1>2, <1>3, <1>4, <1>5, OneJobStep DEF JobInv

(* The caller's cancellation preserves the invariant. *)
LEMMA ParentCancelInv ==
    ASSUME RunnerInv, NEW r \in Runs, ParentCancel(r)
    PROVE  OwnInv'
<1> USE DEF ParentCancel, supVars, runVars, ctxVars, workVars, chanVars
<1>0. RunnerTypeOK /\ LeaseStates /\ SupTypeOK /\ OwnInv
  BY InvParts
<1>1. RunnerTypeOK'
  BY <1>0 DEF RunnerTypeOK
<1>2. ASSUME NEW r1 \in Runs
      PROVE  RunInv(r1)'
  <2>1. Collected(r1)' = Collected(r1)
    BY DEF Collected
  <2>2. QED
    BY <1>0, <2>1, NumTargetsAssumption DEF OwnInv, RunnerTypeOK, RunInv
<1>3. ASSUME NEW j \in Jobs
      PROVE  JobInv(j)'
  <2>1. JobLease(j)' /\ JobOutcome(j)'
    BY <1>0, JobParts DEF OwnInv, RunnerTypeOK, JobLease, JobOutcome
  <2>2. JobValue(j)'
    BY <1>0, JobParts DEF OwnInv, RunnerTypeOK, JobValue, Settled, Truthful, CancelSeen
  <2>3. QED
    BY <2>1, <2>2 DEF JobInv
<1>4. QED
  BY <1>1, <1>2, <1>3 DEF OwnInv, JobInv

(* Passing the deadline preserves the invariant. *)
LEMMA RunDeadlinePassesInv ==
    ASSUME RunnerInv, NEW r \in Runs, RunDeadlinePasses(r)
    PROVE  OwnInv'
<1> USE DEF RunDeadlinePasses, supVars, runVars, ctxVars, workVars, chanVars
<1>0. RunnerTypeOK /\ LeaseStates /\ SupTypeOK /\ OwnInv
  BY InvParts
<1>1. RunnerTypeOK'
  BY <1>0 DEF RunnerTypeOK
<1>2. ASSUME NEW r1 \in Runs
      PROVE  RunInv(r1)'
  <2>1. Collected(r1)' = Collected(r1)
    BY DEF Collected
  <2>2. QED
    BY <1>0, <2>1, NumTargetsAssumption DEF OwnInv, RunnerTypeOK, RunInv
<1>3. ASSUME NEW j \in Jobs
      PROVE  JobInv(j)'
  <2>1. JobLease(j)' /\ JobOutcome(j)'
    BY <1>0, JobParts DEF OwnInv, RunnerTypeOK, JobLease, JobOutcome
  <2>2. JobValue(j)'
    BY <1>0, JobParts DEF OwnInv, RunnerTypeOK, JobValue, Settled, Truthful, CancelSeen
  <2>3. QED
    BY <2>1, <2>2 DEF JobInv
<1>4. QED
  BY <1>1, <1>2, <1>3 DEF OwnInv, JobInv

(* The run's timer preserves the invariant. *)
LEMMA RunTimerFiresInv ==
    ASSUME RunnerInv, NEW r \in Runs, RunTimerFires(r)
    PROVE  OwnInv'
<1> USE DEF RunTimerFires, supVars, runVars, ctxVars, workVars, chanVars
<1>0. RunnerTypeOK /\ LeaseStates /\ SupTypeOK /\ OwnInv
  BY InvParts
<1>1. RunnerTypeOK'
  BY <1>0 DEF RunnerTypeOK
<1>2. ASSUME NEW r1 \in Runs
      PROVE  RunInv(r1)'
  <2>1. Collected(r1)' = Collected(r1)
    BY DEF Collected
  <2>2. QED
    BY <1>0, <2>1, NumTargetsAssumption DEF OwnInv, RunnerTypeOK, RunInv
<1>3. ASSUME NEW j \in Jobs
      PROVE  JobInv(j)'
  <2>1. JobLease(j)' /\ JobOutcome(j)'
    BY <1>0, JobParts DEF OwnInv, RunnerTypeOK, JobLease, JobOutcome
  <2>2. JobValue(j)'
    BY <1>0, JobParts DEF OwnInv, RunnerTypeOK, JobValue, Settled, Truthful, CancelSeen
  <2>3. QED
    BY <2>1, <2>2 DEF JobInv
<1>4. QED
  BY <1>1, <1>2, <1>3 DEF OwnInv, JobInv

(* Beginning a run preserves the invariant. *)
LEMMA RunBeginInv ==
    ASSUME RunnerInv, NEW r \in Runs, RunBegin(r)
    PROVE  OwnInv'
<1> USE DEF RunBegin, supVars, runVars, ctxVars, workVars, chanVars
<1>0. RunnerTypeOK /\ LeaseStates /\ SupTypeOK /\ OwnInv
  BY InvParts
<1>1. RunnerTypeOK'
  BY <1>0 DEF RunnerTypeOK
<1>2. ASSUME NEW r1 \in Runs
      PROVE  RunInv(r1)'
  <2>1. Collected(r1)' = Collected(r1)
    BY DEF Collected
  <2>2. QED
    BY <1>0, <2>1, NumTargetsAssumption DEF OwnInv, RunnerTypeOK, RunInv
<1>3. ASSUME NEW j \in Jobs
      PROVE  JobInv(j)'
  <2>1. JobLease(j)' /\ JobOutcome(j)'
    BY <1>0, JobParts DEF OwnInv, RunnerTypeOK, JobLease, JobOutcome
  <2>2. JobValue(j)'
    BY <1>0, JobParts DEF OwnInv, RunnerTypeOK, JobValue, Settled, Truthful, CancelSeen
  <2>3. QED
    BY <2>1, <2>2 DEF JobInv
<1>4. QED
  BY <1>1, <1>2, <1>3 DEF OwnInv, JobInv

(* A run whose caller has already left preserves the invariant. *)
LEMMA RunCancelledInv ==
    ASSUME RunnerInv, NEW r \in Runs, RunCancelled(r)
    PROVE  OwnInv'
<1> USE DEF RunCancelled, supVars, runVars, ctxVars, workVars, chanVars
<1>0. RunnerTypeOK /\ LeaseStates /\ SupTypeOK /\ OwnInv
  BY InvParts
<1>w. ASSUME NEW j \in Jobs, j[1] = r
      PROVE  worker[j] = "none" /\ outcomes[j] = 0 /\ winner[j] = "none"
  <2>1. j[2] >= next[r]
    BY <1>0, <1>w, JobParts DEF OwnInv, RunInv, Indices
  <2>2. QED
    BY <1>0, <1>w, <2>1 DEF OwnInv, JobOutcome
<1>1. RunnerTypeOK'
  <2>1. results' \in [Jobs -> Results \cup {"none"}]
    BY <1>0 DEF RunnerTypeOK, Results, Codes
  <2>2. QED
    BY <1>0, <2>1 DEF RunnerTypeOK
<1>2. ASSUME NEW r1 \in Runs
      PROVE  RunInv(r1)'
  <2>1. CASE r1 = r
    BY <1>0, <2>1 DEF OwnInv, RunnerTypeOK, RunInv
  <2>2. CASE r1 # r
    <3>1. Collected(r1)' = Collected(r1)
      BY <2>2 DEF Collected, JobsOf, Jobs
    <3>2. QED
      BY <1>0, <2>2, <3>1 DEF OwnInv, RunnerTypeOK, RunInv
  <2>3. QED
    BY <2>1, <2>2
<1>3. ASSUME NEW j \in Jobs
      PROVE  JobInv(j)'
  <2>1. CASE j[1] # r
    BY <1>0, <2>1, JobParts, JobFrame, InvParts DEF RunnerTypeOK, SameJob
  <2>2. CASE j[1] = r
    <3>1. results'[j] = "cancelled" /\ phase'[j[1]] = "returned"
      BY <1>0, <2>2 DEF RunnerTypeOK
    <3>2. JobLease(j)' /\ JobOutcome(j)'
      BY <1>0, <1>w, <2>2, <3>1 DEF OwnInv, JobLease, JobOutcome
    <3>3. JobValue(j)'
      BY <1>0, <1>w, <2>2, <3>1 DEF OwnInv, JobValue, Settled, Truthful, CancelSeen, CheckResults
    <3>4. QED
      BY <3>2, <3>3 DEF JobInv
  <2>3. QED
    BY <2>1, <2>2
<1>4. QED
  BY <1>1, <1>2, <1>3 DEF OwnInv, JobInv

(* Starting a target preserves the invariant. *)
LEMMA RunStartTargetInv ==
    ASSUME RunnerInv, NEW r \in Runs, RunStartTarget(r)
    PROVE  OwnInv'
<1> USE DEF RunStartTarget, supVars, runVars, ctxVars, workVars, chanVars, Acquire, Send
<1>0. RunnerTypeOK /\ LeaseStates /\ SupTypeOK /\ OwnInv
  BY InvParts
<1> PICK j : j = <<r, next[r]>>
  OBVIOUS
<1>j. j \in Jobs /\ j[1] = r /\ j[2] = next[r] /\ next[r] \in Indices
  BY <1>0, NumTargetsAssumption DEF OwnInv, RunnerTypeOK, RunInv, Jobs, Indices
<1>w. /\ worker[j] = "none" /\ outcomes[j] = 0 /\ results[j] = "none"
      /\ ~claimed[j] /\ winner[j] = "none" /\ j \notin leases /\ j \notin done
      /\ \A s \in Sources : cut[j][s] = "unarmed"
      /\ JobInv(j)
  <2>1. JobInv(j)
    BY <1>j, InvParts
  <2>2. j[2] >= next[j[1]] /\ phase[j[1]] # "returned"
    BY <1>0, <1>j DEF Indices
  <2>3. QED
    BY <2>1, <2>2 DEF JobInv, JobOutcome, JobLease
<1> DEFINE Started ==
             /\ Acquire(j)
             /\ worker' = [worker EXCEPT ![j] = "checking"]
             /\ cut' = [cut EXCEPT ![j] = [s \in Sources |-> "armed"]]
             /\ UNCHANGED chanVars
           Refused ==
             /\ outcomes' = [outcomes EXCEPT ![j] = @ + 1]
             /\ value' = [value EXCEPT ![j] = "checker_capacity_unavailable"]
             /\ UNCHANGED <<supVars, worker, cut>>
<1>s. Started \/ Refused
  OBVIOUS
<1>o. ASSUME NEW k \in Jobs, k # j
      PROVE  /\ k \in leases' <=> k \in leases
             /\ worker'[k] = worker[k] /\ cut'[k] = cut[k]
             /\ outcomes'[k] = outcomes[k] /\ value'[k] = value[k]
             /\ UNCHANGED <<done, flagged, cancelled>>
  <2>1. CASE Started
    BY <1>0, <1>o, <2>1 DEF RunnerTypeOK
  <2>2. CASE Refused
    BY <1>0, <1>o, <2>2 DEF RunnerTypeOK
  <2>3. QED
    BY <1>s, <2>1, <2>2
<1>1. RunnerTypeOK'
  <2>1. /\ phase' \in [Runs -> {"idle", "starting", "collecting", "returned"}]
        /\ next' \in [Runs -> 1 .. NumTargets + 1]
    BY <1>0, <1>j, NumTargetsAssumption DEF RunnerTypeOK, Indices
  <2>2. /\ outcomes' \in [Jobs -> Nat] /\ value' \in [Jobs -> Results \cup {"none"}]
        /\ worker' \in [Jobs -> {"none", "checking", "returned", "completed", "released"}]
    <3>1. CASE Started
      BY <1>0, <1>j, <3>1 DEF RunnerTypeOK
    <3>2. CASE Refused
      BY <1>0, <1>j, <3>2 DEF RunnerTypeOK, Codes, Results
    <3>3. QED
      BY <1>s, <3>1, <3>2
  <2>3. cut' \in [Jobs -> [Sources -> Codes \cup {"unarmed", "armed", "done"}]]
    <3>1. [s \in Sources |-> "armed"] \in [Sources -> Codes \cup {"unarmed", "armed", "done"}]
      OBVIOUS
    <3>2. cut \in [Jobs -> [Sources -> Codes \cup {"unarmed", "armed", "done"}]]
      BY <1>0 DEF RunnerTypeOK
    <3>3. cut' = cut \/ cut' = [cut EXCEPT ![j] = [s \in Sources |-> "armed"]]
      BY <1>s
    <3>4. [cut EXCEPT ![j] = [s \in Sources |-> "armed"]]
             \in [Jobs -> [Sources -> Codes \cup {"unarmed", "armed", "done"}]]
      BY <1>j, <3>1, <3>2
    <3>5. QED
      BY <3>2, <3>3, <3>4, Zenon
  <2>4. QED
    BY <1>0, <2>1, <2>2, <2>3 DEF RunnerTypeOK
<1>2. ASSUME NEW r1 \in Runs
      PROVE  RunInv(r1)'
  <2>1. Collected(r1)' = Collected(r1)
    BY DEF Collected
  <2>2. RunInv(r1) /\ received' = received /\ runErr' = runErr /\ runPassed' = runPassed
        /\ parentDone' = parentDone /\ phase[r] = "starting"
    BY <1>0 DEF OwnInv
  <2>3. CASE r1 # r
    BY <1>0, <2>1, <2>2, <2>3 DEF RunnerTypeOK, RunInv
  <2>4. CASE r1 = r
    <3>1. phase'[r] = IF next[r] = NumTargets THEN "collecting" ELSE "starting"
      BY <1>0, <2>2 DEF RunnerTypeOK
    <3>2. next'[r] = next[r] + 1 /\ next[r] \in Indices
      BY <1>0, <1>j DEF RunnerTypeOK
    <3>3. QED
      BY <2>1, <2>2, <2>4, <3>1, <3>2, NumTargetsAssumption DEF RunInv, Indices
  <2>5. QED
    BY <2>3, <2>4
<1>3. ASSUME NEW k \in Jobs
      PROVE  JobInv(k)'
  <2>1. CASE k[1] # r
    <3>1. k # j
      BY <1>j, <2>1
    <3>2. /\ k \in leases' <=> k \in leases
          /\ worker'[k] = worker[k] /\ cut'[k] = cut[k]
          /\ outcomes'[k] = outcomes[k] /\ value'[k] = value[k]
          /\ UNCHANGED <<done, flagged, cancelled>>
      BY <1>o, <3>1
    <3>3. phase'[k[1]] = phase[k[1]] /\ next'[k[1]] = next[k[1]]
      BY <1>0, <2>1, JobParts DEF RunnerTypeOK
    <3>4. SameJob(k)
      BY <3>2, <3>3 DEF SameJob
    <3>5. QED
      BY <3>4, JobFrame, InvParts
  <2>2. CASE k[1] = r /\ k # j
    <3>1. /\ k \in leases' <=> k \in leases
          /\ worker'[k] = worker[k] /\ cut'[k] = cut[k]
          /\ outcomes'[k] = outcomes[k] /\ value'[k] = value[k]
          /\ UNCHANGED <<done, flagged, cancelled>>
      BY <1>o, <2>2
    <3>2. JobInv(k)
      BY InvParts
    <3>3. /\ phase[k[1]] = "starting" /\ phase'[k[1]] # "returned"
          /\ next'[k[1]] = next[k[1]] + 1 /\ next[k[1]] \in Int /\ k[2] \in Int
      BY <1>0, <1>j, <2>2, JobParts DEF RunnerTypeOK, Indices
    <3>4. JobLease(k)'
      BY <3>1, <3>2 DEF JobInv, JobLease
    <3>5. JobOutcome(k)'
      BY <3>1, <3>2, <3>3 DEF JobInv, JobOutcome
    <3>6. JobValue(k)'
      BY <3>1, <3>2 DEF JobInv, JobValue, Settled, Truthful, CancelSeen
    <3>7. QED
      BY <3>4, <3>5, <3>6 DEF JobInv
  <2>3. CASE k = j
    <3>1. next'[j[1]] = j[2] + 1 /\ j[2] \in Int /\ phase'[j[1]] # "returned"
      BY <1>0, <1>j DEF RunnerTypeOK, Indices
    <3>2. /\ claimed'[j] = claimed[j] /\ results'[j] = results[j] /\ winner'[j] = winner[j]
          /\ returnedLate'[j] = returnedLate[j] /\ runPassed' = runPassed
      OBVIOUS
    <3>3. CASE Started
      <4>1. /\ worker'[j] = "checking" /\ j \in leases' /\ outcomes'[j] = 0
            /\ \A s \in Sources : cut'[j][s] = "armed"
        BY <1>0, <1>j, <1>w, <3>3 DEF RunnerTypeOK
      <4>2. JobLease(j)' /\ JobOutcome(j)'
        BY <1>w, <3>1, <3>2, <4>1 DEF JobLease, JobOutcome
      <4>3. JobValue(j)'
        BY <1>w, <3>2, <4>1 DEF JobInv, JobValue, Codes
      <4>4. QED
        BY <2>3, <4>2, <4>3 DEF JobInv
    <3>4. CASE Refused
      <4>1. /\ worker'[j] = "none" /\ outcomes'[j] = 1
            /\ value'[j] = "checker_capacity_unavailable"
        BY <1>0, <1>j, <1>w, <3>4 DEF RunnerTypeOK
      <4>2. JobLease(j)' /\ JobOutcome(j)'
        BY <1>w, <3>1, <3>2, <3>4, <4>1 DEF JobLease, JobOutcome
      <4>3. JobValue(j)'
        BY <1>w, <3>2, <3>4, <4>1
        DEF JobInv, JobValue, Settled, Truthful, CheckResults, Codes
      <4>4. QED
        BY <2>3, <4>2, <4>3 DEF JobInv
    <3>5. QED
      BY <1>s, <3>3, <3>4
  <2>4. QED
    BY <1>j, <2>1, <2>2, <2>3
<1>4. QED
  BY <1>1, <1>2, <1>3 DEF OwnInv, JobInv

(* Collecting an outcome preserves the invariant. *)
LEMMA RunCollectInv ==
    ASSUME RunnerInv, NEW r \in Runs, RunCollect(r)
    PROVE  OwnInv'
<1> USE DEF RunCollect, supVars, runVars, ctxVars, workVars, chanVars
<1>0. RunnerTypeOK /\ OwnInv
  BY InvParts
<1>c. PICK j \in JobsOf(r) :
          /\ outcomes[j] > 0
          /\ outcomes' = [outcomes EXCEPT ![j] = @ - 1]
          /\ results' = [results EXCEPT ![j] = value[j]]
  OBVIOUS
<1>j. j \in Jobs /\ j[1] = r /\ JobInv(j)
  BY <1>c, InvParts DEF JobsOf, Jobs
<1>n. /\ outcomes[j] = 1 /\ results[j] = "none" /\ winner[j] = "none"
      /\ value[j] # "none" /\ Settled(j, value[j]) /\ value[j] \in Results
      /\ worker[j] # "none" => claimed[j]
      /\ ~(j[2] >= next[j[1]])
  <2>1. outcomes[j] \in Nat /\ value[j] \in Results \cup {"none"}
    BY <1>0, <1>j DEF RunnerTypeOK
  <2>2. phase[j[1]] # "returned"
    BY <1>j
  <2>3. QED
    BY <1>c, <1>j, <2>1, <2>2 DEF JobInv, JobOutcome, JobValue
<1>a. outcomes'[j] = 0 /\ results'[j] = value[j]
  BY <1>0, <1>c, <1>j, <1>n DEF RunnerTypeOK
<1>o. \A k \in Jobs \ {j} : outcomes'[k] = outcomes[k] /\ results'[k] = results[k]
  BY <1>0, <1>c, <1>j DEF RunnerTypeOK
<1>1. RunnerTypeOK'
  <2>1. outcomes' \in [Jobs -> Nat]
    BY <1>0, <1>c, <1>j, <1>n DEF RunnerTypeOK
  <2>2. results' \in [Jobs -> Results \cup {"none"}]
    BY <1>0, <1>c, <1>j, <1>n DEF RunnerTypeOK
  <2>3. received' \in [Runs -> 0 .. NumTargets]
    BY <1>0, NumTargetsAssumption DEF RunnerTypeOK
  <2>4. QED
    BY <1>0, <2>1, <2>2, <2>3 DEF RunnerTypeOK
<1>2. ASSUME NEW r1 \in Runs
      PROVE  RunInv(r1)'
  <2>1. CASE r1 # r
    <3>1. Collected(r1)' = Collected(r1)
      BY <1>j, <1>o, <2>1 DEF Collected, JobsOf, Jobs
    <3>2. received'[r1] = received[r1]
      BY <1>0, <2>1 DEF RunnerTypeOK
    <3>3. QED
      BY <1>0, <3>1, <3>2 DEF OwnInv, RunInv
  <2>2. CASE r1 = r
    <3>1. Collected(r)' = Collected(r) \cup {j}
      BY <1>a, <1>c, <1>n, <1>o DEF Collected, JobsOf, Jobs
    <3>2. j \notin Collected(r) /\ IsFiniteSet(Collected(r))
      <4>1. Collected(r) \subseteq JobsOf(r)
        BY DEF Collected
      <4>2. QED
        BY <1>n, <4>1, JobsOfCount, FS_Subset DEF Collected
    <3>3. Cardinality(Collected(r)') = Cardinality(Collected(r)) + 1
      BY <3>1, <3>2, FS_AddElement
    <3>4. received'[r] = received[r] + 1
      BY <1>0 DEF RunnerTypeOK
    <3>5. RunInv(r)
      BY <1>0 DEF OwnInv
    <3>6. QED
      BY <2>2, <3>3, <3>4, <3>5 DEF RunInv
  <2>3. QED
    BY <2>1, <2>2
<1>3. ASSUME NEW k \in Jobs
      PROVE  JobInv(k)'
  <2>1. CASE k # j
    <3>1. SameJob(k)
      BY <1>o, <2>1 DEF SameJob
    <3>2. QED
      BY <3>1, JobFrame, InvParts
  <2>2. CASE k = j
    <3>1. JobLease(j)'
      BY <1>j DEF JobInv, JobLease
    <3>2. JobOutcome(j)'
      BY <1>j, <1>a, <1>n DEF JobInv, JobOutcome
    <3>3. JobValue(j)'
      BY <1>j, <1>a, <1>n DEF JobInv, JobValue, Settled, Truthful, CancelSeen
    <3>4. QED
      BY <2>2, <3>1, <3>2, <3>3 DEF JobInv
  <2>3. QED
    BY <2>1, <2>2
<1>4. QED
  BY <1>1, <1>2, <1>3 DEF OwnInv, JobInv

(* Returning a report preserves the invariant: as many outcomes as targets *)
(* have been received and none twice, so every target has its result.      *)
LEMMA RunReturnInv ==
    ASSUME RunnerInv, NEW r \in Runs, RunReturn(r)
    PROVE  OwnInv'
<1> USE DEF RunReturn, supVars, runVars, ctxVars, workVars, chanVars
<1>0. RunnerTypeOK /\ OwnInv
  BY InvParts
<1>a. \A j \in JobsOf(r) : results[j] # "none"
  <2>1. Collected(r) \subseteq JobsOf(r) /\ Cardinality(Collected(r)) = NumTargets
    BY <1>0 DEF OwnInv, RunInv, Collected
  <2>2. Collected(r) = JobsOf(r)
    BY <2>1, JobsOfCount, FS_Subset
  <2>3. QED
    BY <2>2 DEF Collected
<1>1. RunnerTypeOK'
  BY <1>0 DEF RunnerTypeOK
<1>2. ASSUME NEW r1 \in Runs
      PROVE  RunInv(r1)'
  <2>1. Collected(r1)' = Collected(r1)
    BY DEF Collected
  <2>2. CASE r1 # r
    BY <1>0, <2>1, <2>2 DEF OwnInv, RunnerTypeOK, RunInv
  <2>3. CASE r1 = r
    BY <1>0, <2>3 DEF OwnInv, RunnerTypeOK, RunInv
  <2>4. QED
    BY <2>2, <2>3
<1>3. ASSUME NEW j \in Jobs
      PROVE  JobInv(j)'
  <2>1. CASE j[1] # r
    <3>1. SameJob(j)
      BY <1>0, <2>1, JobParts DEF RunnerTypeOK, SameJob
    <3>2. QED
      BY <3>1, JobFrame, InvParts
  <2>2. CASE j[1] = r
    <3>1. results[j] # "none" /\ phase'[r] = "returned" /\ JobInv(j)
      BY <1>0, <1>a, <2>2, JobParts, InvParts DEF RunnerTypeOK
    <3>2. JobLease(j)' /\ JobOutcome(j)'
      BY <2>2, <3>1 DEF JobInv, JobLease, JobOutcome
    <3>3. JobValue(j)'
      BY <3>1 DEF JobInv, JobValue, Settled, Truthful, CancelSeen
    <3>4. QED
      BY <3>2, <3>3 DEF JobInv
  <2>3. QED
    BY <2>1, <2>2
<1>4. QED
  BY <1>1, <1>2, <1>3 DEF OwnInv, JobInv

(* The supervisor's shutdown preserves the runner's invariant. *)
LEMMA ShutdownInv ==
    ASSUME RunnerInv, Shutdown
    PROVE  OwnInv'
<1>1. UNCHANGED <<runVars, ctxVars, workVars, chanVars, cut>>
  BY DEF Shutdown
<1>2. /\ UNCHANGED <<leases, done>> /\ flagged \subseteq flagged'
      /\ cancelled => cancelled'
  BY DEF Shutdown, ShutdownStep, BeginShutdown, ShutdownDrained, ShutdownExpired,
     ShutdownCapture
<1>3. RunnerTypeOK'
  BY <1>1, InvParts DEF RunnerTypeOK, runVars, ctxVars, workVars, chanVars
<1>4. \A r \in Runs : RunInv(r)'
  BY <1>1, InvParts, RunFrame
<1>5. ASSUME NEW j \in Jobs
      PROVE  JobInv(j)'
  <2>1. SameJob(j)
    BY <1>1, <1>2 DEF SameJob, runVars, ctxVars, workVars, chanVars
  <2>2. QED
    BY <2>1, JobFrame, InvParts
<1>6. QED
  BY <1>3, <1>4, <1>5 DEF OwnInv, JobInv

(* Every step of the runner preserves the invariant. *)
LEMMA RunnerNextInv == RunnerInv /\ [Next]_vars => RunnerInv'
<1> SUFFICES ASSUME RunnerInv, [Next]_vars
             PROVE  RunnerInv'
  OBVIOUS
<1>1. SupInv'
  BY RunnerStepRefines, SupNextInv DEF RunnerInv
<1>2. ASSUME NEW r \in Runs, RunStep(r) \/ Clock(r) \/ ParentCancel(r)
      PROVE  OwnInv'
  BY <1>2, ParentCancelInv, RunDeadlinePassesInv, RunTimerFiresInv, RunBeginInv,
     RunCancelledInv, RunStartTargetInv, RunCollectInv, RunReturnInv
  DEF RunStep, Clock
<1>3. ASSUME NEW j \in Jobs,
             CutoffStep(j) \/ WorkerReturn(j) \/ WorkerFinish(j) \/ CheckDeadline(j)
      PROVE  OwnInv'
  BY <1>3, CutoffStartInv, CutoffCommitInv, WorkerReturnInv, WorkerCompleteInv,
     WorkerReleaseInv, WorkerPublishInv, CheckDeadlineInv
  DEF CutoffStep, WorkerFinish
<1>4. CASE UNCHANGED vars
  <2>1. UNCHANGED <<supVars, runVars, ctxVars, workVars, chanVars, cut>>
    BY <1>4 DEF vars
  <2>2. RunnerTypeOK'
    BY <2>1, InvParts DEF RunnerTypeOK, runVars, ctxVars, workVars, chanVars
  <2>3. ASSUME NEW j \in Jobs
        PROVE  JobInv(j)'
    <3>1. SameJob(j)
      BY <2>1 DEF SameJob, supVars, runVars, ctxVars, workVars, chanVars
    <3>2. QED
      BY <3>1, JobFrame, InvParts
  <2>4. QED
    BY <2>1, <2>2, <2>3, InvParts, RunFrame, <1>1 DEF OwnInv, JobInv, RunnerInv
<1>5. QED
  BY <1>1, <1>2, <1>3, <1>4, ShutdownInv DEF Next, RunnerInv

(* The inductive invariant holds of every behaviour of the runner. *)
THEOREM RunnerInvariance == Spec => []RunnerInv
BY RunnerInitInv, RunnerNextInv, PTL DEF Spec

(* Every variable of the runner and of its supervisor has its type. *)
THEOREM TypeCorrectness == Spec => []TypeOK
<1>1. RunnerInv => TypeOK
  BY DEF RunnerInv, SupInv, OwnInv, TypeOK
<1>2. QED
  BY <1>1, RunnerInvariance, PTL

(* No target ever has two outcomes and a returned report has one for each, *)
(* for any number of concurrent reports and targets.                       *)
THEOREM OneOutcomeHolds == Spec => []OneOutcomePerTarget
<1>1. ASSUME RunnerInv, NEW j \in Jobs
      PROVE  /\ outcomes[j] + (IF results[j] = "none" THEN 0 ELSE 1) <= 1
             /\ phase[j[1]] = "returned" => results[j] # "none"
  <2>1. outcomes[j] \in Nat
    BY <1>1, InvParts DEF RunnerTypeOK
  <2>2. QED
    BY <1>1, <2>1, InvParts DEF JobInv, JobOutcome
<1>2. RunnerInv => OneOutcomePerTarget
  BY <1>1 DEF OneOutcomePerTarget
<1>3. QED
  BY <1>2, RunnerInvariance, PTL

(* Capacity a returned report still holds is held by cut-off checkers      *)
(* only, and is counted as stuck.                                          *)
THEOREM OnlyStuckLeasesHolds == Spec => []OnlyStuckLeasesOutliveRun
<1>1. ASSUME RunnerInv, NEW j \in Jobs
      PROVE  /\ phase[j[1]] = "returned" /\ j \in leases => j \in flagged
             /\ results[j] \in CheckResults => j \notin leases
  <2>1. JobInv(j) /\ LeaseStates
    BY <1>1, InvParts
  <2>2. results[j] \in CheckResults => results[j] # "none"
    BY DEF CheckResults
  <2>3. results[j] \in CheckResults => j \notin leases
    BY <2>1, <2>2 DEF JobInv, JobLease, JobValue, Settled, LeaseStates
  <2>4. ASSUME phase[j[1]] = "returned", j \in leases
        PROVE  j \in flagged
    <3>1. results[j] # "none" /\ winner[j] = "none"
      BY <2>1, <2>4 DEF JobInv, JobOutcome
    <3>2. worker[j] # "none" /\ claimed[j]
      BY <2>1, <2>4, <3>1 DEF JobInv, JobLease, JobOutcome
    <3>3. QED
      BY <2>1, <2>4, <3>1, <3>2 DEF JobInv, JobLease, CheckResults
  <2>5. QED
    BY <2>3, <2>4
<1>2. RunnerInv => OnlyStuckLeasesOutliveRun
  BY <1>1 DEF OnlyStuckLeasesOutliveRun
<1>3. QED
  BY <1>2, RunnerInvariance, PTL

(* The code every result carries is true of the run it belongs to. *)
THEOREM CodesAreTruthfulHolds == Spec => []CodesAreTruthful
<1>1. ASSUME RunnerInv, NEW j \in Jobs
      PROVE  /\ results[j] = "cancelled" => CancelSeen(j[1])
             /\ results[j] = "timeout" => runPassed[j[1]] \/ checkLate[j]
             /\ results[j] \in CheckResults =>
                  /\ results[j] = produced[j] /\ ~returnedLate[j]
                  /\ j[2] \in Traceroutes \/ ~checkLate[j]
  BY <1>1, InvParts DEF JobInv, JobValue, Settled, Truthful, CheckResults
<1>2. RunnerInv => CodesAreTruthful
  BY <1>1 DEF CodesAreTruthful
<1>3. QED
  BY <1>2, RunnerInvariance, PTL

=============================================================================
