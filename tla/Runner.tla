------------------------------- MODULE Runner -------------------------------
(***************************************************************************)
(* Report execution (backend/diagnostic/runner.go, Runner.RunWithID,       *)
(* runChecker and targetTerminal) over the CheckerSupervisor it shares     *)
(* with every other report.                                                *)
(*                                                                         *)
(* A run starts one goroutine per target that got a lease, arms two        *)
(* cutoffs per target (context.AfterFunc on the run's context and on the   *)
(* supervisor's) and collects one outcome per target.  The worker and the  *)
(* two cutoffs race for the target's sync.Once.  A checker may ignore its  *)
(* context and never return.                                               *)
(*                                                                         *)
(* Time is abstracted to the events "the run's deadline passes", "its      *)
(* timer fires" and "the check's own deadline is reached".                 *)
(***************************************************************************)
EXTENDS CheckerSupervisor

CONSTANTS
    Runs,         \* concurrent RunWithID calls
    NumTargets,   \* len(req.Targets)
    Traceroutes   \* indices of the targets of KindTraceroute

Indices == 1 .. NumTargets
Jobs == Runs \X Indices
JobsOf(r) == {r} \X Indices

ASSUME NumTargetsAssumption == NumTargets \in Nat \ {0}
ASSUME RunsAssumption == IsFiniteSet(Runs)
ASSUME TraceroutesAssumption == Traceroutes \subseteq Indices
(* Each job acquires at most once, so its lease is named after it. *)
ASSUME JobLeasesAssumption == Leases = Jobs

VARIABLES
    phase,        \* where each RunWithID call is
    next,         \* the target its start loop is at
    received,     \* outcomes its collect loop has received
    results,      \* the results slice
    parentDone,   \* the caller's context is done
    runPassed,    \* the wall clock is past the run context's deadline
    runErr,       \* runCtx.Err()
    worker,       \* where each target's runChecker goroutine is
    produced,     \* what Check returned
    returnedLate, \* completedAt was not before the run's deadline
    checkLate,    \* deadlineReached(checkCtx, completedAt)
    claimed,      \* targetTerminal.once has been done
    winner,       \* the outcome the worker claimed and has yet to publish
    outcomes,     \* outcomes of each target in the channel
    value,        \* the result of the last outcome sent
    cut           \* the state of each target's two cutoff callbacks

runVars == <<phase, next, received, results>>
ctxVars == <<parentDone, runPassed, runErr>>
workVars == <<worker, produced, returnedLate, checkLate, claimed, winner>>
chanVars == <<outcomes, value>>
vars == <<supVars, runVars, ctxVars, workVars, chanVars, cut>>

CheckResults == {"checked", "checker_panic"}
Codes == {"timeout", "cancelled", "checker_capacity_unavailable"}
Results == CheckResults \cup Codes
Sources == {"run", "server"}

Init ==
    /\ SupInit
    /\ phase = [r \in Runs |-> "idle"]
    /\ next = [r \in Runs |-> 1]
    /\ received = [r \in Runs |-> 0]
    /\ results = [j \in Jobs |-> "none"]
    /\ parentDone = [r \in Runs |-> FALSE]
    /\ runPassed = [r \in Runs |-> FALSE]
    /\ runErr = [r \in Runs |-> "none"]
    /\ worker = [j \in Jobs |-> "none"]
    /\ produced = [j \in Jobs |-> "none"]
    /\ returnedLate = [j \in Jobs |-> FALSE]
    /\ checkLate = [j \in Jobs |-> FALSE]
    /\ claimed = [j \in Jobs |-> FALSE]
    /\ winner = [j \in Jobs |-> "none"]
    /\ outcomes = [j \in Jobs |-> 0]
    /\ value = [j \in Jobs |-> "none"]
    /\ cut = [j \in Jobs |-> [s \in Sources |-> "unarmed"]]

-----------------------------------------------------------------------------
(* Contexts. *)

(* The caller's context ends; cancellation reaches the derived runCtx. *)
ParentCancel(r) ==
    /\ ~parentDone[r] /\ phase[r] # "returned"
    /\ parentDone' = [parentDone EXCEPT ![r] = TRUE]
    /\ runErr' = [runErr EXCEPT ![r] =
                    IF phase[r] # "idle" /\ runErr[r] = "none" THEN "canceled" ELSE @]
    /\ UNCHANGED <<supVars, runVars, runPassed, workVars, chanVars, cut>>

(* The clock passes the run's deadline before the context's timer runs. *)
RunDeadlinePasses(r) ==
    /\ phase[r] \in {"starting", "collecting"} /\ ~runPassed[r]
    /\ runPassed' = [runPassed EXCEPT ![r] = TRUE]
    /\ UNCHANGED <<supVars, runVars, parentDone, runErr, workVars, chanVars, cut>>

RunTimerFires(r) ==
    /\ runPassed[r] /\ runErr[r] = "none"
    /\ runErr' = [runErr EXCEPT ![r] = "deadline"]
    /\ UNCHANGED <<supVars, runVars, parentDone, runPassed, workVars, chanVars, cut>>

(* The check's own deadline: while Check runs, the clock reaches it; after *)
(* Check returned in time, the context's timer still may fire before the   *)
(* worker looks.  Once the target is claimed nobody looks.                 *)
CheckDeadline(j) ==
    /\ j[2] \notin Traceroutes
    /\ worker[j] \in {"checking", "returned"} /\ ~checkLate[j] /\ ~claimed[j]
    /\ checkLate' = [checkLate EXCEPT ![j] = TRUE]
    /\ UNCHANGED <<supVars, runVars, ctxVars, worker, produced, returnedLate, claimed,
                   winner, chanVars, cut>>

-----------------------------------------------------------------------------
(* targetTerminal. *)

Send(j, result) ==
    /\ outcomes' = [outcomes EXCEPT ![j] = @ + 1]
    /\ value' = [value EXCEPT ![j] = result]

CancelSeen(r) == parentDone[r] \/ cancelled

DeadlineReached(j) == runErr[j[1]] = "deadline" \/ returnedLate[j]

(* Mutant: a cutoff never looks for a cancellation. *)
CutoffAlwaysTimeout(j) == "timeout"

(* The code cutoff commits. *)
CutoffCode(j) == IF CancelSeen(j[1]) THEN "cancelled" ELSE "timeout"

(* The code complete commits; "" keeps the checker's own result.  The last *)
(* case is the cancellation of checkCtx alone.                             *)
CompletionCode(j) ==
    IF CancelSeen(j[1]) THEN "cancelled"
    ELSE IF DeadlineReached(j) \/ (j[2] \notin Traceroutes /\ checkLate[j]) THEN "timeout"
    ELSE IF runErr[j[1]] = "canceled" THEN "cancelled"
    ELSE ""

(* Mutant: a target may be claimed more than once. *)
ClaimWithoutOnce(j) == TRUE

(* sync.Once: the first caller wins, the others leave with nothing. *)
CanClaim(j) == ~claimed[j]

(* Mutant: the run's context has no cutoff. *)
CutoffStartServerOnly(j, s) ==
    /\ cut[j][s] = "armed"
    /\ s = "server" /\ cancelled
    /\ cut' = [cut EXCEPT ![j][s] = CutoffCode(j)]
    /\ UNCHANGED <<supVars, runVars, ctxVars, workVars, chanVars>>

(* context.AfterFunc starts a cutoff goroutine once its context is done;   *)
(* cutoff first reads the two contexts ...                                 *)
CutoffStart(j, s) ==
    /\ cut[j][s] = "armed"
    /\ \/ s = "run" /\ runErr[j[1]] # "none"
       \/ s = "server" /\ cancelled
    /\ cut' = [cut EXCEPT ![j][s] = CutoffCode(j)]
    /\ UNCHANGED <<supVars, runVars, ctxVars, workVars, chanVars>>

(* ... and then commits: claim, markStuck under the same once, send. *)
CutoffCommit(j, s) ==
    /\ cut[j][s] \in Codes
    /\ cut' = [cut EXCEPT ![j][s] = "done"]
    /\ IF CanClaim(j)
       THEN claimed' = [claimed EXCEPT ![j] = TRUE] /\ MarkStuck(j) /\ Send(j, cut[j][s])
       ELSE UNCHANGED <<claimed, supVars, chanVars>>
    /\ UNCHANGED <<runVars, ctxVars, worker, produced, returnedLate, checkLate, winner>>

-----------------------------------------------------------------------------
(* runChecker. *)

(* Check returns, or panics; completedAt is taken. *)
WorkerReturn(j) ==
    /\ worker[j] = "checking"
    /\ \E result \in CheckResults : produced' = [produced EXCEPT ![j] = result]
    /\ worker' = [worker EXCEPT ![j] = "returned"]
    /\ returnedLate' = [returnedLate EXCEPT ![j] = runPassed[j[1]]]
    /\ UNCHANGED <<supVars, runVars, ctxVars, checkLate, claimed, winner, chanVars, cut>>

Stopped(c) == [s \in Sources |-> IF c[s] = "armed" THEN "done" ELSE c[s]]

(* terminal.complete: classify, claim, and stop the cutoffs that have not  *)
(* started yet.                                                            *)
WorkerComplete(j) ==
    /\ worker[j] = "returned"
    /\ worker' = [worker EXCEPT ![j] = "completed"]
    /\ cut' = [cut EXCEPT ![j] = Stopped(@)]
    /\ IF CanClaim(j)
       THEN LET code == CompletionCode(j) IN
            /\ claimed' = [claimed EXCEPT ![j] = TRUE]
            /\ winner' = [winner EXCEPT ![j] = IF code = "" THEN produced[j] ELSE code]
            /\ IF code = "" THEN UNCHANGED supVars ELSE MarkStuck(j)
       ELSE UNCHANGED <<claimed, winner, supVars>>
    /\ UNCHANGED <<runVars, ctxVars, produced, returnedLate, checkLate, chanVars>>

(* The lease is given back before the outcome is published ... *)
WorkerRelease(j) ==
    /\ worker[j] = "completed"
    /\ worker' = [worker EXCEPT ![j] = "released"]
    /\ Release(j)
    /\ UNCHANGED <<runVars, ctxVars, produced, returnedLate, checkLate, claimed, winner,
                   chanVars, cut>>

(* Mutant: the outcome may be published before the lease is given back. *)
WorkerPublishEarly(j) ==
    /\ worker[j] \in {"completed", "released"} /\ winner[j] # "none"
    /\ winner' = [winner EXCEPT ![j] = "none"]
    /\ Send(j, winner[j])
    /\ UNCHANGED <<supVars, runVars, ctxVars, worker, produced, returnedLate, checkLate,
                   claimed, cut>>

(* ... which the worker does only if it won the claim. *)
WorkerPublish(j) ==
    /\ worker[j] = "released" /\ winner[j] # "none"
    /\ winner' = [winner EXCEPT ![j] = "none"]
    /\ Send(j, winner[j])
    /\ UNCHANGED <<supVars, runVars, ctxVars, worker, produced, returnedLate, checkLate,
                   claimed, cut>>

-----------------------------------------------------------------------------
(* RunWithID. *)

RunBegin(r) ==
    /\ phase[r] = "idle" /\ ~parentDone[r]
    /\ phase' = [phase EXCEPT ![r] = "starting"]
    /\ UNCHANGED <<supVars, next, received, results, ctxVars, workVars, chanVars, cut>>

(* The caller's context was already done: every result is "cancelled". *)
RunCancelled(r) ==
    /\ phase[r] = "idle" /\ parentDone[r]
    /\ phase' = [phase EXCEPT ![r] = "returned"]
    /\ results' = [j \in Jobs |-> IF j[1] = r THEN "cancelled" ELSE results[j]]
    /\ UNCHANGED <<supVars, next, received, ctxVars, workVars, chanVars, cut>>

(* One iteration of the start loop: a lease, two cutoffs and a goroutine,  *)
(* or an outcome that says there was no capacity.                          *)
RunStartTarget(r) ==
    LET j == <<r, next[r]>> IN
    /\ phase[r] = "starting"
    /\ phase' = [phase EXCEPT ![r] = IF next[r] = NumTargets THEN "collecting" ELSE @]
    /\ next' = [next EXCEPT ![r] = @ + 1]
    /\ IF CanAcquire
       THEN /\ Acquire(j)
            /\ worker' = [worker EXCEPT ![j] = "checking"]
            /\ cut' = [cut EXCEPT ![j] = [s \in Sources |-> "armed"]]
            /\ UNCHANGED chanVars
       ELSE /\ Send(j, "checker_capacity_unavailable")
            /\ UNCHANGED <<supVars, worker, cut>>
    /\ UNCHANGED <<received, results, ctxVars, produced, returnedLate, checkLate,
                   claimed, winner>>

RunCollect(r) ==
    /\ phase[r] = "collecting" /\ received[r] < NumTargets
    /\ received' = [received EXCEPT ![r] = @ + 1]
    /\ \E j \in JobsOf(r) :
          /\ outcomes[j] > 0
          /\ outcomes' = [outcomes EXCEPT ![j] = @ - 1]
          /\ results' = [results EXCEPT ![j] = value[j]]
    /\ UNCHANGED <<supVars, phase, next, ctxVars, workVars, value, cut>>

(* The report is final; the deferred cancelRun ends the run's context. *)
RunReturn(r) ==
    /\ phase[r] = "collecting" /\ received[r] = NumTargets
    /\ phase' = [phase EXCEPT ![r] = "returned"]
    /\ runErr' = [runErr EXCEPT ![r] = IF @ = "none" THEN "canceled" ELSE @]
    /\ UNCHANGED <<supVars, next, received, results, parentDone, runPassed, workVars,
                   chanVars, cut>>

(* main's shutdownService calls ShutdownSnapshot once, at any moment. *)
Shutdown ==
    ShutdownStep /\ UNCHANGED <<runVars, ctxVars, workVars, chanVars, cut>>

CutoffStep(j) == \E s \in Sources : CutoffStart(j, s) \/ CutoffCommit(j, s)
WorkerFinish(j) == WorkerComplete(j) \/ WorkerRelease(j) \/ WorkerPublish(j)
RunStep(r) ==
    \/ RunBegin(r) \/ RunCancelled(r) \/ RunStartTarget(r)
    \/ RunCollect(r) \/ RunReturn(r)
Clock(r) == RunDeadlinePasses(r) \/ RunTimerFires(r)

Next ==
    \/ \E r \in Runs : RunStep(r) \/ Clock(r) \/ ParentCancel(r)
    \/ \E j \in Jobs : CutoffStep(j) \/ WorkerReturn(j) \/ WorkerFinish(j) \/ CheckDeadline(j)
    \/ Shutdown

Spec == Init /\ [][Next]_vars

(* Goroutines that can run do run and time passes; nothing obliges a       *)
(* checker to return, a caller to cancel or the process to shut down.      *)
Fairness ==
    /\ \A r \in Runs : WF_vars(RunStep(r)) /\ WF_vars(Clock(r))
    /\ \A j \in Jobs : WF_vars(CutoffStep(j)) /\ WF_vars(WorkerFinish(j))

FairSpec == Spec /\ Fairness

-----------------------------------------------------------------------------
(* Every variable of the runner has its type. *)
RunnerTypeOK ==
    /\ phase \in [Runs -> {"idle", "starting", "collecting", "returned"}]
    /\ next \in [Runs -> 1 .. NumTargets + 1]
    /\ received \in [Runs -> 0 .. NumTargets]
    /\ results \in [Jobs -> Results \cup {"none"}]
    /\ parentDone \in [Runs -> BOOLEAN]
    /\ runPassed \in [Runs -> BOOLEAN]
    /\ runErr \in [Runs -> {"none", "deadline", "canceled"}]
    /\ worker \in [Jobs -> {"none", "checking", "returned", "completed", "released"}]
    /\ produced \in [Jobs -> CheckResults \cup {"none"}]
    /\ returnedLate \in [Jobs -> BOOLEAN]
    /\ checkLate \in [Jobs -> BOOLEAN]
    /\ claimed \in [Jobs -> BOOLEAN]
    /\ winner \in [Jobs -> Results \cup {"none"}]
    /\ outcomes \in [Jobs -> Nat]
    /\ value \in [Jobs -> Results \cup {"none"}]
    /\ cut \in [Jobs -> [Sources -> Codes \cup {"unarmed", "armed", "done"}]]

TypeOK == SupTypeOK /\ RunnerTypeOK

(* A target never has two outcomes, in the channel or collected, however   *)
(* its worker and its two cutoffs race, so sends never block on the        *)
(* buffered channel and the counting collect loop never mistakes one       *)
(* target for another: a report is returned with a result for every one.   *)
OneOutcomePerTarget ==
    \A j \in Jobs :
        /\ outcomes[j] + (IF results[j] = "none" THEN 0 ELSE 1) <= 1
        /\ phase[j[1]] = "returned" => results[j] # "none"

(* After a run returned, a lease it still holds belongs to a checker that  *)
(* was cut off and is counted as stuck; a target whose own result was      *)
(* reported has already given its capacity back, so the next report can    *)
(* have it.                                                                *)
OnlyStuckLeasesOutliveRun ==
    \A j \in Jobs :
        /\ phase[j[1]] = "returned" /\ j \in leases => j \in flagged
        /\ results[j] \in CheckResults => j \notin leases

(* The codes a report carries are true: "cancelled" only if the caller or  *)
(* the process cancelled (never by the run's own clean-up), "timeout" only *)
(* if a deadline passed, and a target's own result only if its checker     *)
(* returned it before the run's deadline and the check's own deadline (a   *)
(* traceroute has none) was not reached before the claim.                  *)
CodesAreTruthful ==
    \A j \in Jobs :
        /\ results[j] = "cancelled" => CancelSeen(j[1])
        /\ results[j] = "timeout" => runPassed[j[1]] \/ checkLate[j]
        /\ results[j] \in CheckResults =>
             /\ results[j] = produced[j] /\ ~returnedLate[j]
             /\ j[2] \in Traceroutes \/ ~checkLate[j]

(* Every report ends, even when checkers never return: the run's budget    *)
(* ends it.                                                                *)
EveryRunReturns == \A r \in Runs : (phase[r] = "starting") ~> (phase[r] = "returned")

-----------------------------------------------------------------------------
(* The inductive invariant.  Only an unclaimed target can still get an     *)
(* outcome, the winner of the claim owns it until it is sent, and a        *)
(* claimed target that keeps its lease is marked stuck or about to report  *)
(* its own result.                                                         *)

(* The result x of target j is what it says. *)
Truthful(j, x) ==
    /\ x = "cancelled" => CancelSeen(j[1])
    /\ x = "timeout" => runPassed[j[1]] \/ checkLate[j]
    /\ x \in CheckResults => /\ x = produced[j] /\ ~returnedLate[j]
                             /\ j[2] \in Traceroutes \/ ~checkLate[j]
                             /\ worker[j] \in {"completed", "released"}

(* A result that has left the worker has left it after the release. *)
Settled(j, x) == Truthful(j, x) /\ (x \in CheckResults => worker[j] = "released")

Collected(r) == {j \in JobsOf(r) : results[j] # "none"}

RunInv(r) ==
    /\ phase[r] = "idle" => next[r] = 1
    /\ phase[r] = "starting" => next[r] <= NumTargets
    /\ phase[r] # "returned" => Cardinality(Collected(r)) = received[r]
    /\ runErr[r] = "deadline" => runPassed[r]
    /\ runErr[r] = "canceled" => parentDone[r] \/ phase[r] = "returned"

JobLease(j) ==
    /\ worker[j] = "none" => j \notin leases \cup done
    /\ worker[j] \in {"checking", "returned", "completed"} => j \in leases
    /\ worker[j] = "released" => j \in done
    /\ j \in leases /\ claimed[j] => j \in flagged \/ winner[j] \in CheckResults

JobOutcome(j) ==
    /\ phase[j[1]] # "returned" /\ j[2] >= next[j[1]]
         => worker[j] = "none" /\ outcomes[j] = 0 /\ results[j] = "none"
    /\ worker[j] = "none"
         => ~claimed[j] /\ winner[j] = "none" /\ \A s \in Sources : cut[j][s] = "unarmed"
    /\ worker[j] # "none" /\ ~claimed[j]
         => outcomes[j] = 0 /\ results[j] = "none" /\ worker[j] \in {"checking", "returned"}
    /\ winner[j] # "none"
         => /\ claimed[j] /\ worker[j] \in {"completed", "released"}
            /\ outcomes[j] = 0 /\ results[j] = "none"
    /\ results[j] # "none" => outcomes[j] = 0
    /\ outcomes[j] <= 1
    /\ phase[j[1]] = "returned" => results[j] # "none"

JobValue(j) ==
    /\ outcomes[j] > 0 => value[j] # "none" /\ Settled(j, value[j])
    /\ results[j] # "none" => Settled(j, results[j])
    /\ winner[j] # "none" => Truthful(j, winner[j])
    /\ ~claimed[j] => \A s \in Sources : cut[j][s] \in Codes => Truthful(j, cut[j][s])
    /\ returnedLate[j] => runPassed[j[1]]
    /\ worker[j] = "returned" => produced[j] \in CheckResults

(* The runner's own part of the invariant; SupInv is the supervisor's. *)
OwnInv ==
    /\ RunnerTypeOK
    /\ \A r \in Runs : RunInv(r)
    /\ \A j \in Jobs : JobLease(j) /\ JobOutcome(j) /\ JobValue(j)

RunnerInv == SupInv /\ OwnInv

=============================================================================
