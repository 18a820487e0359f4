----------------------- MODULE ServiceShutdownProofs -----------------------
(***************************************************************************)
(* Proofs about ServiceShutdown for any number of connections, checkers    *)
(* and lookups: the accounts of the listener and what exit code 0 means.   *)
(* They rest on the invariant of CheckerSupervisor, whose operations the   *)
(* process calls.                                                          *)
(***************************************************************************)
EXTENDS ServiceShutdown, FiniteSetTheorems, TLAPS

(* The supervisor's invariant, for the leases of this module: RunnerProofs *)
(* has the same facts for the leases of a report's checkers.               *)

(* Subsets of Leases are finite and have natural cardinalities. *)
LEMMA LeaseSetFinite ==
    ASSUME NEW S \in SUBSET Leases
    PROVE  IsFiniteSet(S) /\ Cardinality(S) \in Nat
BY FS_Subset, FS_CardinalityType, LeasesAssumption

(* Marking every live lease stuck makes the stuck count the active count. *)
LEMMA MarkAllCount ==
    ASSUME NEW L \in SUBSET Leases, NEW F \in SUBSET Leases
    PROVE  Cardinality(L \cap F) + Cardinality(L \ F) = Cardinality(L)
<1>1. IsFiniteSet(L) /\ Cardinality(L) \in Nat /\ Cardinality(L \cap F) \in Nat
  BY LeaseSetFinite
<1>2. Cardinality(L \ F) = Cardinality(L) - Cardinality(L \cap F)
  BY <1>1, FS_Difference
<1>3. QED
  BY <1>1, <1>2

(* Counting one lease more or less. *)
LEMMA CountOne ==
    ASSUME NEW L \in SUBSET Leases, NEW l \in Leases
    PROVE  /\ l \notin L => Cardinality(L \cup {l}) = Cardinality(L) + 1
           /\ l \in L => Cardinality(L \ {l}) = Cardinality(L) - 1
BY LeaseSetFinite, FS_AddElement, FS_RemoveElement

(* The supervisor starts with no lease and a closed drained channel. *)
LEMMA SupInitInv == SupInit => SupInv
<1> SUFFICES ASSUME SupInit
             PROVE  SupInv
  OBVIOUS
<1>1. leases = {} /\ leases \cap flagged = {} /\ leases \cap done = {}
  BY DEF SupInit
<1>2. LeaseAccounting
  BY <1>1, FS_EmptySet, CapacityAssumption DEF SupInit, LeaseAccounting
<1>3. SupTypeOK /\ LeaseStates /\ CleanShutdownIsFinal
  BY <1>1
  DEF SupInit, SupTypeOK, LeaseStates, CleanShutdownIsFinal, Snapshots, NoSnapshot
<1>4. QED
  BY <1>2, <1>3 DEF SupInv

(* Every operation of the supervisor preserves its invariant. *)
LEMMA SupNextInv == SupInv /\ [SupNext]_supVars => SupInv'
<1> SUFFICES ASSUME SupInv, [SupNext]_supVars
             PROVE  SupInv'
  OBVIOUS
<1> USE CapacityAssumption
<1>t. SupTypeOK /\ LeaseAccounting /\ LeaseStates /\ CleanShutdownIsFinal
  BY DEF SupInv
<1>f. /\ leases \in SUBSET Leases /\ flagged \in SUBSET Leases
      /\ leases \cap flagged \in SUBSET Leases
      /\ Cardinality(leases) \in Nat /\ Cardinality(leases \cap flagged) \in Nat
  BY <1>t, LeaseSetFinite DEF SupTypeOK
<1>1. ASSUME NEW l \in Leases, Acquire(l)
      PROVE  SupInv'
  <2>1. admit /\ shutdown = "none" /\ l \notin leases /\ l \notin flagged
    BY <1>1, <1>t DEF Acquire, CanAcquire, LeaseStates, SupTypeOK
  <2>2. Cardinality(leases') = Cardinality(leases) + 1
    BY <1>1, <1>f, <2>1, CountOne DEF Acquire
  <2>3. leases' \cap flagged' = leases \cap flagged
    BY <1>1, <2>1 DEF Acquire
  <2>4. SupTypeOK'
    <3>1. drained' \in BOOLEAN
      BY <1>1, <1>t, Zenon DEF Acquire, SupTypeOK
    <3>2. active' \in Nat /\ leases' \subseteq Leases
      BY <1>1, <1>t DEF Acquire, SupTypeOK
    <3>3. QED
      BY <1>1, <1>t, <3>1, <3>2 DEF Acquire, SupTypeOK
  <2>5. LeaseAccounting'
    BY <1>1, <1>t, <2>2, <2>3 DEF Acquire, CanAcquire, LeaseAccounting, SupTypeOK
  <2>6. LeaseStates'
    BY <1>1, <1>t, <2>1 DEF Acquire, LeaseStates
  <2>7. QED
    BY <1>1, <2>1, <2>4, <2>5, <2>6 DEF Acquire, SupInv, CleanShutdownIsFinal
<1>2. ASSUME NEW l \in Leases, Release(l)
      PROVE  SupInv'
  <2>1. l \in leases /\ leases' = leases \ {l} /\ flagged' = flagged
    BY <1>2 DEF Release
  <2>2. Cardinality(leases') = Cardinality(leases) - 1 /\ Cardinality(leases') \in Nat
    BY <1>f, <2>1, CountOne, LeaseSetFinite
  <2>3. Cardinality(leases' \cap flagged')
           = IF l \in flagged THEN Cardinality(leases \cap flagged) - 1
             ELSE Cardinality(leases \cap flagged)
    <3>1. CASE l \in flagged
      <4>1. leases' \cap flagged' = (leases \cap flagged) \ {l} /\ l \in leases \cap flagged
        BY <2>1, <3>1
      <4>2. QED
        BY <1>f, <3>1, <4>1, CountOne
    <3>2. CASE l \notin flagged
      <4>1. leases' \cap flagged' = leases \cap flagged
        BY <2>1, <3>2
      <4>2. QED
        BY <3>2, <4>1
    <3>3. QED
      BY <3>1, <3>2
  <2>4. Cardinality(leases' \cap flagged') \in Nat
    BY <1>f, <2>1, LeaseSetFinite
  <2>5. LeaseAccounting'
    BY <1>2, <1>t, <2>2, <2>3, <2>4 DEF Release, LeaseAccounting, SupTypeOK
  <2>6. SupTypeOK'
    BY <1>2, <1>t, <2>2, <2>4, <2>5 DEF Release, SupTypeOK, LeaseAccounting
  <2>7. LeaseStates'
    BY <1>2, <1>t, <2>1 DEF Release, LeaseStates
  <2>8. QED
    BY <1>2, <1>t, <2>1, <2>5, <2>6, <2>7 DEF Release, SupInv, CleanShutdownIsFinal
<1>3. ASSUME NEW l \in Leases, MarkStuck(l)
      PROVE  SupInv'
  <2>1. CASE l \in leases /\ l \notin flagged
    <3>1. leases' \cap flagged' = (leases \cap flagged) \cup {l} /\ l \notin leases \cap flagged
      BY <1>3, <2>1 DEF MarkStuck
    <3>2. Cardinality(leases' \cap flagged') = Cardinality(leases \cap flagged) + 1
      BY <1>f, <3>1, CountOne
    <3>3. SupTypeOK' /\ LeaseAccounting'
      BY <1>3, <1>t, <2>1, <3>2 DEF MarkStuck, SupTypeOK, LeaseAccounting
    <3>4. LeaseStates'
      BY <1>3, <1>t, <2>1 DEF MarkStuck, LeaseStates
    <3>5. QED
      BY <1>3, <1>t, <3>3, <3>4 DEF MarkStuck, SupInv, CleanShutdownIsFinal
  <2>2. CASE ~(l \in leases /\ l \notin flagged)
    BY <1>3, <1>t, <2>2
    DEF MarkStuck, SupInv, SupTypeOK, LeaseAccounting, LeaseStates, CleanShutdownIsFinal
  <2>3. QED
    BY <2>1, <2>2
<1>4. ASSUME BeginShutdown
      PROVE  SupInv'
  <2>1. leases' \cap flagged' = leases /\ leases' = leases
    BY <1>4 DEF BeginShutdown
  <2>2. stuck' = Cardinality(leases)
    BY <1>4, <1>t, <1>f, MarkAllCount DEF BeginShutdown, LeaseAccounting
  <2>3. SupTypeOK' /\ LeaseAccounting'
    BY <1>4, <1>t, <1>f, <2>1, <2>2 DEF BeginShutdown, SupTypeOK, LeaseAccounting
  <2>4. LeaseStates' /\ CleanShutdownIsFinal'
    BY <1>4, <1>t DEF BeginShutdown, LeaseStates, CleanShutdownIsFinal
  <2>5. QED
    BY <2>3, <2>4 DEF SupInv
<1>5. ASSUME ShutdownDrained \/ ShutdownExpired
      PROVE  SupInv'
  BY <1>5, <1>t
  DEF ShutdownDrained, ShutdownExpired, SupInv, SupTypeOK, LeaseAccounting, LeaseStates,
      CleanShutdownIsFinal
<1>6. ASSUME ShutdownCapture
      PROVE  SupInv'
  <2>1. SupTypeOK' /\ LeaseAccounting' /\ LeaseStates'
    BY <1>6, <1>t
    DEF ShutdownCapture, SupTypeOK, LeaseAccounting, LeaseStates, Snapshots
  <2>2. active = 0 => leases = {}
    BY <1>t, FS_EmptySet, LeaseSetFinite DEF LeaseAccounting, SupTypeOK
  <2>3. CleanShutdownIsFinal'
    BY <1>6, <2>2 DEF ShutdownCapture, CleanShutdownIsFinal
  <2>4. QED
    BY <2>1, <2>3 DEF SupInv
<1>7. CASE UNCHANGED supVars
  BY <1>7, <1>t
  DEF supVars, SupInv, SupTypeOK, LeaseAccounting, LeaseStates, CleanShutdownIsFinal
<1>8. QED
  BY <1>1, <1>2, <1>3, <1>4, <1>5, <1>6, <1>7 DEF SupNext, ShutdownStep

-----------------------------------------------------------------------------
(* The process. *)

AfterHTTP == {"checkers", "lookups", "joining", "exited"}

(* A connection's lease is given back when its socket is closed. *)
ConnInv(c) == released[c] <=> conn[c] \in {"severed", "closed"}

(* server.Shutdown: the listener stays closed, and unless it failed it has *)
(* left no connection that could carry a request.                          *)
HTTPInv ==
    /\ stage \in {"polling"} \cup AfterHTTP => accept = "closed"
    /\ stage \in AfterHTTP /\ ~httpErr => Serving = {}

(* supervisor.ShutdownSnapshot belongs to its stage. *)
CheckersInv ==
    /\ stage \in {"serving", "stopping", "draining", "http", "polling"} => shutdown = "none"
    /\ stage \in {"lookups", "joining", "exited"} => shutdown = "returned"

(* BeginDrain and Close of the context service belong to theirs; once it   *)
(* drains nothing starts, and a clean Close is final.                      *)
LookupsInv ==
    /\ stage \in {"serving", "stopping", "draining"} <=> close = "none"
    /\ stage \in {"joining", "exited"} <=> close \in {"closed", "failed"}
    /\ close = "none" <=> accepting
    /\ close = "closed" => work = 0

ExitInv == stage = "exited" /\ exitCode = 0 => ~ShutdownErr

(* The inductive invariant. *)
ShutdownInv ==
    /\ TypeOK
    /\ SupInv
    /\ ConnectionLeases
    /\ \A c \in Conns : ConnInv(c)
    /\ HTTPInv /\ CheckersInv /\ LookupsInv /\ ExitInv

-----------------------------------------------------------------------------
ServingStates == {"idle", "gate", "working", "finished"}

(* The initial state satisfies the invariant. *)
LEMMA ShutdownInitInv == Init => ShutdownInv
<1> SUFFICES ASSUME Init
             PROVE  ShutdownInv
  OBVIOUS
<1> USE ConnsAssumption
<1>1. SupInv
  BY SupInitInv DEF Init
<1>2. TypeOK
  BY <1>1 DEF Init, OwnedInit, TypeOK, SupInv
<1>3. ConnectionLeases
  <2>1. Serving = {}
    BY DEF Init, Serving
  <2>2. QED
    BY <2>1, FS_EmptySet DEF Init, ConnectionLeases
<1>4. \A c \in Conns : ConnInv(c)
  BY DEF Init, ConnInv
<1>5. HTTPInv /\ CheckersInv /\ LookupsInv /\ ExitInv
  BY DEF Init, SupInit, OwnedInit, HTTPInv, AfterHTTP, CheckersInv, LookupsInv, ExitInv
<1>6. QED
  BY <1>1, <1>2, <1>3, <1>4, <1>5 DEF ShutdownInv

(* Every step of the process is a step of the supervisor or leaves it alone. *)
LEMMA ProcessStepSup == [Next]_vars => [SupNext]_supVars
<1> SUFFICES ASSUME [Next]_vars
             PROVE  [SupNext]_supVars
  OBVIOUS
<1>1. ASSUME NEW c \in Conns, StartChecker(c) \/ AbandonChecker(c) \/ CheckerEnds(c)
      PROVE  SupNext
  BY <1>1, ConnLeasesAssumption DEF StartChecker, AbandonChecker, CheckerEnds, SupNext
<1>2. ASSUME NEW c \in Conns,
             \/ Accept(c) \/ RequestArrives(c) \/ Gate(c) \/ StartLookup(c) \/ HandlerReturns(c)
             \/ KeepAlive(c) \/ ConnectionEnds(c) \/ CloseIdle(c)
      PROVE  UNCHANGED supVars
  BY <1>2 DEF Accept, RequestArrives, Gate, StartLookup, HandlerReturns, KeepAlive, ConnectionEnds,
     CloseIdle
<1>3. ASSUME BackoffEnds \/ LookupEnds \/ Signal \/ ServeFails \/ DeadlinePasses
      PROVE  UNCHANGED supVars
  BY <1>3 DEF BackoffEnds, LookupEnds, Signal, ServeFails, DeadlinePasses
<1>4. ASSUME DrainPhase \/ DrainLookups \/ ShutdownHTTP \/ ShutdownReturns \/ CloseLookups \/ Exit
      PROVE  UNCHANGED supVars
  BY <1>4 DEF DrainPhase, DrainLookups, ShutdownHTTP, ShutdownReturns, CloseLookups, Exit
<1>5. ASSUME ShutdownCheckers
      PROVE  SupNext
  BY <1>5 DEF ShutdownCheckers, SupNext, ShutdownStep
<1>6. ASSUME UNCHANGED vars
      PROVE  UNCHANGED supVars
  BY <1>6 DEF vars
<1>7. QED
  BY <1>1, <1>2, <1>3, <1>4, <1>5, <1>6 DEF Next, MainStep

-----------------------------------------------------------------------------
(* A step that leaves the connections alone. *)
LEMMA SameConnections ==
    ASSUME ShutdownInv, UNCHANGED <<conn, released, connLeases>>
    PROVE  Serving' = Serving /\ ConnectionLeases' /\ \A c \in Conns : ConnInv(c)'
<1>1. Serving' = Serving
  BY DEF Serving
<1>2. QED
  BY <1>1 DEF ShutdownInv, ConnectionLeases, ConnInv

(* A step that leaves main and what it waits for alone. *)
LEMMA SameStage ==
    ASSUME ShutdownInv,
           UNCHANGED <<stage, httpErr, exitCode, shutdown, snapshot, close, accepting>>,
           accept = "closed" => accept' = "closed",
           close = "closed" => work' = 0,
           stage \in AfterHTTP /\ ~httpErr => Serving' = {}
    PROVE  HTTPInv' /\ CheckersInv' /\ LookupsInv' /\ ExitInv'
BY DEF ShutdownInv, HTTPInv, CheckersInv, LookupsInv, ExitInv, ShutdownErr, AfterHTTP

(* The listener takes a lease for a socket, or refuses it. *)
LEMMA AcceptInv ==
    ASSUME ShutdownInv, SupInv', NEW c \in Conns, Accept(c)
    PROVE  ShutdownInv'
<1> USE ConnsAssumption
<1>1. /\ accept = "open" /\ conn[c] = "none"
      /\ UNCHANGED <<supVars, ownedVars, released, procVars>>
  BY DEF Accept
<1>2. \/ /\ connLeases < MaxConnections /\ connLeases' = connLeases + 1
         /\ conn' = [conn EXCEPT ![c] = "idle"] /\ accept' = accept
      \/ /\ conn' = [conn EXCEPT ![c] = "refused"] /\ accept' = "backoff"
         /\ connLeases' = connLeases
  BY DEF Accept
<1>3. TypeOK'
  BY <1>1, <1>2 DEF ShutdownInv, TypeOK, SupInv, ownedVars, procVars
<1>4. ConnectionLeases'
  <2>1. IsFiniteSet(Serving) /\ c \notin Serving
    BY <1>1, FS_Subset DEF Serving
  <2>2. CASE conn' = [conn EXCEPT ![c] = "idle"]
    <3>1. Serving' = Serving \cup {c}
      BY <2>2 DEF Serving, ShutdownInv, TypeOK
    <3>2. Cardinality(Serving') = Cardinality(Serving) + 1
      BY <2>1, <3>1, FS_AddElement
    <3>3. connLeases' = connLeases + 1 /\ connLeases < MaxConnections
      <4>1. conn'[c] = "idle"
        BY <2>2 DEF ShutdownInv, TypeOK
      <4>2. QED
        BY <1>2, <4>1 DEF ShutdownInv, TypeOK
    <3>4. QED
      BY <3>2, <3>3 DEF ShutdownInv, TypeOK, ConnectionLeases
  <2>3. CASE conn' = [conn EXCEPT ![c] = "refused"]
    <3>1. Serving' = Serving
      BY <1>1, <2>3 DEF Serving, ShutdownInv, TypeOK
    <3>2. connLeases' = connLeases
      <4>1. conn'[c] = "refused"
        BY <2>3 DEF ShutdownInv, TypeOK
      <4>2. QED
        BY <1>2, <4>1 DEF ShutdownInv, TypeOK
    <3>3. QED
      BY <3>1, <3>2 DEF ShutdownInv, ConnectionLeases
  <2>4. QED
    BY <1>2, <2>2, <2>3
<1>5. \A d \in Conns : ConnInv(d)'
  BY <1>1, <1>2 DEF ShutdownInv, TypeOK, ConnInv
<1>6. stage \notin AfterHTTP
  BY <1>1 DEF ShutdownInv, HTTPInv
<1>7. HTTPInv' /\ CheckersInv' /\ LookupsInv' /\ ExitInv'
  BY <1>1, <1>6, SameStage DEF procVars, supVars, ownedVars, ShutdownInv, LookupsInv
<1>8. QED
  BY <1>3, <1>4, <1>5, <1>7 DEF ShutdownInv

(* A connection moves between the states in which it is served. *)
LEMMA MoveInv ==
    ASSUME ShutdownInv, SupInv', NEW c \in Conns,
           RequestArrives(c) \/ Gate(c) \/ HandlerReturns(c) \/ KeepAlive(c)
    PROVE  ShutdownInv'
<1>1. /\ conn[c] \in ServingStates
      /\ \E s \in ServingStates : conn' = [conn EXCEPT ![c] = s]
      /\ UNCHANGED <<supVars, ownedVars, released, connLeases, accept, procVars>>
  BY DEF RequestArrives, Gate, HandlerReturns, KeepAlive, ServingStates
<1>2. Serving' = Serving
  BY <1>1 DEF Serving, ServingStates, ShutdownInv, TypeOK
<1>3. TypeOK'
  BY <1>1 DEF ShutdownInv, TypeOK, SupInv, ownedVars, procVars, ServingStates
<1>4. ConnectionLeases'
  BY <1>1, <1>2 DEF ShutdownInv, ConnectionLeases
<1>5. \A d \in Conns : ConnInv(d)'
  BY <1>1 DEF ShutdownInv, TypeOK, ConnInv, ServingStates
<1>6. HTTPInv' /\ CheckersInv' /\ LookupsInv' /\ ExitInv'
  BY <1>1, <1>2, SameStage
  DEF procVars, supVars, ownedVars, ShutdownInv, HTTPInv, LookupsInv
<1>7. QED
  BY <1>3, <1>4, <1>5, <1>6 DEF ShutdownInv

(* A connection ends or Shutdown closes it: whichever is first gives the   *)
(* lease back.                                                             *)
LEMMA CloseConnInv ==
    ASSUME ShutdownInv, SupInv', NEW c \in Conns, ConnectionEnds(c) \/ CloseIdle(c)
    PROVE  ShutdownInv'
<1> USE ConnsAssumption
<1>1. /\ conn[c] \in {"idle", "finished", "severed"}
      /\ \E s \in {"closed", "severed"} : conn' = [conn EXCEPT ![c] = s]
      /\ released' = [released EXCEPT ![c] = TRUE]
      /\ connLeases' = IF released[c] THEN connLeases ELSE connLeases - 1
      /\ UNCHANGED <<supVars, ownedVars, accept, procVars>>
  BY DEF ConnectionEnds, CloseIdle, ReleaseLease
<1>2. IsFiniteSet(Serving) /\ connLeases = Cardinality(Serving) /\ connLeases \in Nat
      /\ connLeases <= MaxConnections
  BY FS_Subset DEF Serving, ShutdownInv, ConnectionLeases, TypeOK
<1>3. Serving' = Serving \ {c}
  BY <1>1 DEF Serving, ShutdownInv, TypeOK
<1>4. connLeases' = Cardinality(Serving') /\ connLeases' \in Nat /\ connLeases' <= MaxConnections
  <2>1. CASE conn[c] = "severed"
    <3>1. Serving' = Serving
      BY <1>3, <2>1 DEF Serving
    <3>2. connLeases' = connLeases
      BY <1>1, <2>1 DEF ShutdownInv, ConnInv
    <3>3. QED
      BY <1>2, <3>1, <3>2
  <2>2. CASE conn[c] # "severed"
    <3>1. c \in Serving
      BY <1>1, <2>2 DEF Serving
    <3>2. connLeases' = connLeases - 1
      BY <1>1, <2>2 DEF ShutdownInv, ConnInv
    <3>3. Cardinality(Serving') = Cardinality(Serving) - 1
      BY <1>2, <1>3, <3>1, FS_RemoveElement
    <3>4. Cardinality(Serving) # 0
      BY <1>2, <3>1, FS_EmptySet
    <3>5. QED
      BY <1>2, <3>2, <3>3, <3>4
  <2>3. QED
    BY <2>1, <2>2
<1>5. TypeOK'
  <2>1. conn' \in [Conns -> {"none", "refused", "idle", "gate", "working", "finished", "severed",
                           "closed"}]
    BY <1>1 DEF ShutdownInv, TypeOK
  <2>2. released' \in [Conns -> BOOLEAN]
    BY <1>1 DEF ShutdownInv, TypeOK
  <2>3. QED
    BY <1>1, <1>4, <2>1, <2>2 DEF ShutdownInv, TypeOK, SupInv, ownedVars, procVars
<1>6. \A d \in Conns : ConnInv(d)'
  BY <1>1 DEF ShutdownInv, TypeOK, ConnInv
<1>7. HTTPInv' /\ CheckersInv' /\ LookupsInv' /\ ExitInv'
  <2>1. Serving = {} => Serving' = {}
    BY <1>3
  <2>2. QED
    BY <1>1, <2>1, SameStage DEF procVars, supVars, ownedVars, ShutdownInv, HTTPInv, LookupsInv
<1>8. QED
  BY <1>4, <1>5, <1>6, <1>7 DEF ShutdownInv, ConnectionLeases

LEMMA BackoffEndsInv ==
    ASSUME ShutdownInv, SupInv', BackoffEnds
    PROVE  ShutdownInv'
<1>1. /\ accept = "backoff" /\ accept' = "open"
      /\ UNCHANGED <<supVars, ownedVars, conn, released, connLeases, procVars>>
  BY DEF BackoffEnds
<1>2. Serving' = Serving /\ ConnectionLeases' /\ \A c \in Conns : ConnInv(c)'
  BY <1>1, SameConnections
<1>3. TypeOK'
  BY <1>1 DEF ShutdownInv, TypeOK, SupInv, ownedVars, procVars
<1>4. HTTPInv' /\ CheckersInv' /\ LookupsInv' /\ ExitInv'
  BY <1>1, <1>2, SameStage DEF procVars, supVars, ownedVars, ShutdownInv, HTTPInv, LookupsInv
<1>5. QED
  BY <1>2, <1>3, <1>4 DEF ShutdownInv

(* Handlers and checkers use the supervisor, whose shutdown goes on only   *)
(* in its own stage.                                                       *)
LEMMA CheckerInv ==
    ASSUME ShutdownInv, SupInv', NEW c \in Conns,
           StartChecker(c) \/ AbandonChecker(c) \/ CheckerEnds(c)
    PROVE  ShutdownInv'
<1>1. UNCHANGED <<ownedVars, connVars, procVars, shutdown, snapshot>>
  BY DEF StartChecker, AbandonChecker, CheckerEnds, Acquire, MarkStuck, Release
<1>2. Serving' = Serving /\ ConnectionLeases' /\ \A d \in Conns : ConnInv(d)'
  BY <1>1, SameConnections DEF connVars
<1>3. TypeOK'
  BY <1>1 DEF ShutdownInv, TypeOK, SupInv, ownedVars, procVars, connVars
<1>4. HTTPInv' /\ CheckersInv' /\ LookupsInv' /\ ExitInv'
  BY <1>1, <1>2, SameStage
  DEF procVars, connVars, ownedVars, ShutdownInv, HTTPInv, LookupsInv
<1>5. QED
  BY <1>2, <1>3, <1>4 DEF ShutdownInv

(* Lookups start only while the service accepts, and end at any time. *)
LEMMA LookupInv ==
    ASSUME ShutdownInv, SupInv', LookupEnds \/ \E c \in Conns : StartLookup(c)
    PROVE  ShutdownInv'
<1>1. /\ UNCHANGED <<supVars, connVars, procVars, accepting, close>>
      /\ \/ accepting /\ work' = work + 1
         \/ work > 0 /\ work' = work - 1
  BY DEF LookupEnds, StartLookup, StartWork, EndWork
<1>2. work' \in Nat /\ (close = "closed" => work' = 0)
  BY <1>1 DEF ShutdownInv, TypeOK, LookupsInv
<1>3. Serving' = Serving /\ ConnectionLeases' /\ \A d \in Conns : ConnInv(d)'
  BY <1>1, SameConnections DEF connVars
<1>4. TypeOK'
  BY <1>1, <1>2 DEF ShutdownInv, TypeOK, SupInv, supVars, procVars, connVars
<1>5. HTTPInv' /\ CheckersInv' /\ LookupsInv' /\ ExitInv'
  BY <1>1, <1>2, <1>3, SameStage DEF procVars, connVars, supVars, ShutdownInv, HTTPInv
<1>6. QED
  BY <1>3, <1>4, <1>5 DEF ShutdownInv

(* main is told to stop, drains and waits for its connections. *)
LEMMA StopInv ==
    ASSUME ShutdownInv, SupInv',
           Signal \/ ServeFails \/ DrainPhase \/ DrainLookups \/ DeadlinePasses \/ ShutdownHTTP
           \/ ShutdownReturns
    PROVE  ShutdownInv'
<1>1. UNCHANGED <<supVars, conn, released, connLeases, work>>
  BY DEF Signal, ServeFails, DrainPhase, DrainLookups, DeadlinePasses, ShutdownHTTP,
     ShutdownReturns, DrainWork, connVars, ownedVars
<1>2. Serving' = Serving /\ ConnectionLeases' /\ \A d \in Conns : ConnInv(d)'
  BY <1>1, SameConnections
<1>3. TypeOK'
  BY <1>1 DEF ShutdownInv, TypeOK, SupInv, Signal, ServeFails, DrainPhase, DrainLookups,
     DeadlinePasses, ShutdownHTTP, ShutdownReturns, DrainWork, connVars, ownedVars, procVars
<1>4. HTTPInv'
  BY <1>1, <1>2 DEF ShutdownInv, HTTPInv, AfterHTTP, Signal, ServeFails, DrainPhase, DrainLookups,
     DeadlinePasses, ShutdownHTTP, ShutdownReturns, connVars
<1>5. CheckersInv'
  BY <1>1 DEF ShutdownInv, CheckersInv, Signal, ServeFails, DrainPhase, DrainLookups,
     DeadlinePasses, ShutdownHTTP, ShutdownReturns, supVars
<1>6. LookupsInv'
  BY <1>1 DEF ShutdownInv, LookupsInv, Signal, ServeFails, DrainPhase, DrainLookups,
     DeadlinePasses, ShutdownHTTP, ShutdownReturns, DrainWork, ownedVars
<1>7. ExitInv'
  <2>1. stage' # "exited"
    BY DEF Signal, ServeFails, DrainPhase, DrainLookups, DeadlinePasses, ShutdownHTTP,
       ShutdownReturns
  <2>2. QED
    BY <2>1 DEF ExitInv
<1>8. QED
  BY <1>2, <1>3, <1>4, <1>5, <1>6, <1>7 DEF ShutdownInv

LEMMA ShutdownCheckersInv ==
    ASSUME ShutdownInv, SupInv', ShutdownCheckers
    PROVE  ShutdownInv'
<1>1. /\ stage = "checkers"
      /\ stage' = IF shutdown = "woken" THEN "lookups" ELSE stage
      /\ UNCHANGED <<ownedVars, connVars, draining, expired, httpErr, exitCode>>
  BY DEF ShutdownCheckers
<1>2. shutdown = "woken" => shutdown' = "returned"
  BY DEF ShutdownCheckers, BeginShutdown, ShutdownDrained, ShutdownExpired, ShutdownCapture
<1>3. Serving' = Serving /\ ConnectionLeases' /\ \A d \in Conns : ConnInv(d)'
  BY <1>1, SameConnections DEF connVars
<1>4. TypeOK'
  BY <1>1 DEF ShutdownInv, TypeOK, SupInv, ownedVars, connVars
<1>5. HTTPInv'
  BY <1>1, <1>3 DEF ShutdownInv, HTTPInv, AfterHTTP, connVars
<1>6. CheckersInv' /\ LookupsInv' /\ ExitInv'
  BY <1>1, <1>2 DEF ShutdownInv, CheckersInv, LookupsInv, ExitInv, ownedVars
<1>7. QED
  BY <1>3, <1>4, <1>5, <1>6 DEF ShutdownInv

LEMMA CloseLookupsInv ==
    ASSUME ShutdownInv, SupInv', CloseLookups
    PROVE  ShutdownInv'
<1>1. /\ stage = "lookups" /\ stage' = "joining"
      /\ \/ close = "drained" /\ work = 0 /\ close' = "closed"
         \/ close = "drained" /\ close' = "failed"
      /\ UNCHANGED <<work, accepting, supVars, connVars, draining, expired, httpErr, exitCode>>
  BY DEF CloseLookups, CloseClean, CloseGaveUp
<1>2. Serving' = Serving /\ ConnectionLeases' /\ \A d \in Conns : ConnInv(d)'
  BY <1>1, SameConnections DEF connVars
<1>3. TypeOK'
  BY <1>1 DEF ShutdownInv, TypeOK, SupInv, connVars
<1>4. HTTPInv'
  BY <1>1, <1>2 DEF ShutdownInv, HTTPInv, AfterHTTP, connVars
<1>5. CheckersInv' /\ LookupsInv' /\ ExitInv'
  BY <1>1 DEF ShutdownInv, CheckersInv, LookupsInv, ExitInv, supVars
<1>6. QED
  BY <1>2, <1>3, <1>4, <1>5 DEF ShutdownInv

LEMMA ExitStepInv ==
    ASSUME ShutdownInv, SupInv', Exit \/ UNCHANGED vars
    PROVE  ShutdownInv'
<1>1. UNCHANGED <<supVars, ownedVars, connVars, draining, expired, httpErr>>
  BY DEF Exit, vars, procVars
<1>2. Serving' = Serving /\ ConnectionLeases' /\ \A d \in Conns : ConnInv(d)'
  BY <1>1, SameConnections DEF connVars
<1>3. ShutdownErr' <=> ShutdownErr
  BY <1>1 DEF ShutdownErr, supVars, ownedVars
<1>4. \/ /\ stage = "joining" /\ stage' = "exited"
         /\ exitCode' = IF ShutdownErr THEN 1 ELSE exitCode
      \/ stage' = stage /\ exitCode' = exitCode
  BY DEF Exit, vars, procVars
<1>5. TypeOK'
  BY <1>1, <1>4 DEF ShutdownInv, TypeOK, SupInv, connVars, ownedVars
<1>6. HTTPInv'
  BY <1>1, <1>2, <1>4 DEF ShutdownInv, HTTPInv, AfterHTTP, connVars
<1>7. CheckersInv' /\ LookupsInv'
  BY <1>1, <1>4 DEF ShutdownInv, CheckersInv, LookupsInv, supVars, ownedVars
<1>8. ExitInv'
  BY <1>3, <1>4 DEF ShutdownInv, ExitInv
<1>9. QED
  BY <1>2, <1>5, <1>6, <1>7, <1>8 DEF ShutdownInv

(* Every step preserves the invariant. *)
LEMMA ShutdownNextInv == ShutdownInv /\ [Next]_vars => ShutdownInv'
<1> SUFFICES ASSUME ShutdownInv, [Next]_vars
             PROVE  ShutdownInv'
  OBVIOUS
<1>1. SupInv'
  BY ProcessStepSup, SupNextInv DEF ShutdownInv
<1>2. ASSUME NEW c \in Conns,
             \/ Accept(c) \/ RequestArrives(c) \/ Gate(c) \/ StartChecker(c) \/ StartLookup(c)
             \/ AbandonChecker(c) \/ CheckerEnds(c) \/ HandlerReturns(c) \/ KeepAlive(c)
             \/ ConnectionEnds(c) \/ CloseIdle(c)
      PROVE  ShutdownInv'
  BY <1>1, <1>2, AcceptInv, MoveInv, CloseConnInv, CheckerInv, LookupInv
<1>3. QED
  BY <1>1, <1>2, BackoffEndsInv, LookupInv, StopInv, ShutdownCheckersInv, CloseLookupsInv,
     ExitStepInv DEF Next, MainStep

-----------------------------------------------------------------------------
(* The inductive invariant holds of every behaviour of the process. *)
THEOREM ShutdownInvariant == Spec => []ShutdownInv
<1>1. Init => ShutdownInv
  BY ShutdownInitInv
<1>2. ShutdownInv /\ [Next]_vars => ShutdownInv'
  BY ShutdownNextInv
<1>3. QED
  BY <1>1, <1>2, PTL DEF Spec

(* boundedListener's lease channel holds one lease for every open socket,  *)
(* however often and by whom leasedConn.Close is called.                   *)
THEOREM ConnectionLeasesHolds == Spec => []ConnectionLeases
<1>1. ShutdownInv => ConnectionLeases
  BY DEF ShutdownInv
<1>2. QED
  BY <1>1, ShutdownInvariant, PTL

(* If runMain returns 0 no request, checker or lookup is left or can start: *)
(* server.Shutdown, ShutdownSnapshot and Close each told the truth, and    *)
(* what each of them waited for was still true when the next one began.    *)
THEOREM ExitZeroIsQuietHolds == Spec => []ExitZeroIsQuiet
<1>1. ShutdownInv => ExitZeroIsQuiet
  <2> SUFFICES ASSUME ShutdownInv, stage = "exited", exitCode = 0
               PROVE  /\ \A c \in Conns : conn[c] \notin {"gate", "working", "finished"}
                      /\ leases = {} /\ work = 0
                      /\ ~admit /\ ~accepting
    BY DEF ExitZeroIsQuiet
  <2>1. ~httpErr /\ snapshot = NoSnapshot /\ close # "failed"
    BY DEF ShutdownInv, ExitInv, ShutdownErr
  <2>2. Serving = {}
    BY <2>1 DEF ShutdownInv, HTTPInv, AfterHTTP
  <2>3. \A c \in Conns : conn[c] \notin {"gate", "working", "finished"}
    BY <2>2 DEF Serving
  <2>4. shutdown = "returned" /\ leases = {} /\ ~admit
    BY <2>1 DEF ShutdownInv, CheckersInv, SupInv, CleanShutdownIsFinal, LeaseStates, NoSnapshot
  <2>5. close = "closed" /\ work = 0 /\ ~accepting
    BY <2>1 DEF ShutdownInv, LookupsInv
  <2>6. QED
    BY <2>3, <2>4, <2>5
<1>2. QED
  BY <1>1, ShutdownInvariant, PTL

=============================================================================
