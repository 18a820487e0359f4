------------------------- MODULE CheckerSupervisor -------------------------
(***************************************************************************)
(* The process-wide checker execution limit (backend/diagnostic/runner.go, *)
(* CheckerSupervisor).  A lease is taken before a checker goroutine is     *)
(* started and given back when the goroutine really ends.  Every operation *)
(* runs under the supervisor's mutex and is one action; ShutdownSnapshot   *)
(* unlocks while it waits and is split there.  The callers are left free:  *)
(* Next lets them call the operations in any order.  Module Runner models  *)
(* the one caller the program has.                                         *)
(***************************************************************************)
EXTENDS Integers, FiniteSets

CONSTANTS
    Leases,     \* identities of checkerLease objects, one per acquire
    Capacity    \* CheckerSupervisor.capacity

ASSUME CapacityAssumption == Capacity \in Nat \ {0}
ASSUME LeasesAssumption == IsFiniteSet(Leases)

VARIABLES
    active,     \* s.active
    stuck,      \* s.stuck
    leases,     \* the keys of s.leases
    done,       \* leases whose done flag is set
    flagged,    \* leases whose stuck flag is set
    admit,      \* s.admit
    cancelled,  \* s.ctx has been cancelled
    drained,    \* the channel s.drained is closed
    shutdown,   \* where ShutdownSnapshot is
    snapshot    \* the counts ShutdownSnapshot returned

supVars == <<active, stuck, leases, done, flagged, admit, cancelled, drained,
             shutdown, snapshot>>

Snapshots == [active : Nat, stuck : Nat]
NoSnapshot == [active |-> 0, stuck |-> 0]

SupInit ==
    /\ active = 0 /\ stuck = 0
    /\ leases = {} /\ done = {} /\ flagged = {}
    /\ admit = TRUE /\ cancelled = FALSE /\ drained = TRUE
    /\ shutdown = "none" /\ snapshot = NoSnapshot

-----------------------------------------------------------------------------
(* Mutant: admission is not looked at. *)
CanAcquireUnchecked == active < Capacity

(* acquire returns nil, and changes nothing, unless CanAcquire. *)
CanAcquire == admit /\ active < Capacity

Acquire(l) ==
    /\ CanAcquire
    /\ l \notin leases \cup done
    /\ drained' = (IF active = 0 THEN FALSE ELSE drained)
    /\ active' = active + 1
    /\ leases' = leases \cup {l}
    /\ UNCHANGED <<stuck, done, flagged, admit, cancelled, shutdown, snapshot>>

(* Mutant: a stuck lease that ends stays in the count. *)
ReleaseForgetsStuck(l) ==
    /\ l \in leases
    /\ done' = done \cup {l}
    /\ leases' = leases \ {l}
    /\ active' = active - 1
    /\ drained' = (IF active = 1 THEN TRUE ELSE drained)
    /\ UNCHANGED <<stuck, flagged, admit, cancelled, shutdown, snapshot>>

(* release of a lease that is already done returns early. *)
Release(l) ==
    /\ l \in leases
    /\ done' = done \cup {l}
    /\ leases' = leases \ {l}
    /\ stuck' = (IF l \in flagged THEN stuck - 1 ELSE stuck)
    /\ active' = active - 1
    /\ drained' = (IF active = 1 THEN TRUE ELSE drained)
    /\ UNCHANGED <<flagged, admit, cancelled, shutdown, snapshot>>

(* markStuck ignores a lease that is done or already stuck. *)
MarkStuck(l) ==
    /\ IF l \in leases /\ l \notin flagged
       THEN flagged' = flagged \cup {l} /\ stuck' = stuck + 1
       ELSE UNCHANGED <<flagged, stuck>>
    /\ UNCHANGED <<active, leases, done, admit, cancelled, drained, shutdown, snapshot>>

-----------------------------------------------------------------------------
(* Mutant: shutdown leaves the live leases unmarked. *)
BeginShutdownUnmarked ==
    /\ shutdown = "none"
    /\ admit' = FALSE /\ cancelled' = TRUE
    /\ shutdown' = "waiting"
    /\ UNCHANGED <<active, stuck, leases, done, flagged, drained, snapshot>>

(* ShutdownSnapshot up to its select: admission stops, every live lease is *)
(* marked stuck and the shared context is cancelled.                       *)
BeginShutdown ==
    /\ shutdown = "none"
    /\ admit' = FALSE /\ cancelled' = TRUE
    /\ flagged' = flagged \cup leases
    /\ stuck' = stuck + Cardinality(leases \ flagged)
    /\ shutdown' = "waiting"
    /\ UNCHANGED <<active, leases, done, drained, snapshot>>

(* The select ends because the captured drained channel is closed ... *)
ShutdownDrained ==
    /\ shutdown = "waiting" /\ drained
    /\ shutdown' = "woken"
    /\ UNCHANGED <<active, stuck, leases, done, flagged, admit, cancelled, drained, snapshot>>

(* ... or because the caller's drain deadline has passed. *)
ShutdownExpired ==
    /\ shutdown = "waiting"
    /\ shutdown' = "woken"
    /\ UNCHANGED <<active, stuck, leases, done, flagged, admit, cancelled, drained, snapshot>>

(* The counts are captured under the lock, some time after the wait ended. *)
ShutdownCapture ==
    /\ shutdown = "woken"
    /\ snapshot' = [active |-> active, stuck |-> stuck]
    /\ shutdown' = "returned"
    /\ UNCHANGED <<active, stuck, leases, done, flagged, admit, cancelled, drained>>

ShutdownStep ==
    BeginShutdown \/ ShutdownDrained \/ ShutdownExpired \/ ShutdownCapture

SupNext ==
    \/ \E l \in Leases : Acquire(l) \/ Release(l) \/ MarkStuck(l)
    \/ ShutdownStep

SupervisorSpec == SupInit /\ [][SupNext]_supVars

-----------------------------------------------------------------------------
(* Every supervisor variable has its type. *)
SupTypeOK ==
    /\ active \in Nat /\ stuck \in Nat
    /\ leases \subseteq Leases /\ done \subseteq Leases /\ flagged \subseteq Leases
    /\ admit \in BOOLEAN /\ cancelled \in BOOLEAN /\ drained \in BOOLEAN
    /\ shutdown \in {"none", "waiting", "woken", "returned"}
    /\ snapshot \in Snapshots

(* The two counters are the sizes of the sets they count whatever the      *)
(* order of release and markStuck, the limit holds, and the drained        *)
(* channel is closed exactly while no lease is out: release never closes a *)
(* closed channel (a panic in Go) and shutdown never wakes on the channel  *)
(* of an earlier idle period.                                              *)
LeaseAccounting ==
    /\ active = Cardinality(leases)
    /\ stuck = Cardinality(leases \cap flagged)
    /\ active <= Capacity
    /\ drained <=> (active = 0)

(* From the moment shutdown starts every worker still running is counted   *)
(* as stuck, and stays so until it ends.                                   *)
ShutdownCountsEveryWorker == (shutdown # "none") => (stuck = active)

(* A shutdown that reported no active worker is final: no worker runs at   *)
(* any later time, so the process may exit with success.                   *)
CleanShutdownIsFinal ==
    (shutdown = "returned" /\ snapshot.active = 0) => leases = {}

(* Only live leases are marked, a lease is live or done, and shutdown has  *)
(* closed admission and marked every lease that is left.                   *)
LeaseStates ==
    /\ leases \cap done = {}
    /\ flagged \subseteq leases \cup done
    /\ shutdown # "none" => ~admit /\ leases \subseteq flagged

(* The inductive invariant behind the properties above. *)
SupInv ==
    /\ SupTypeOK
    /\ LeaseAccounting
    /\ LeaseStates
    /\ CleanShutdownIsFinal

=============================================================================
