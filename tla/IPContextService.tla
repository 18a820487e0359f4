-------------------------- MODULE IPContextService --------------------------
(***************************************************************************)
(* The single-address context service                                      *)
(* (backend/diagnostic/ip_context_owner.go and ip_context_cache.go).       *)
(* Lookups of one address share a flight of three component queries.  The  *)
(* flight publishes when the components have answered (its context has a   *)
(* six second deadline), but it stays active until every primitive call it *)
(* made has come back, which a provider may delay without limit.  BeginDrain*)
(* and Close are the service's part of the process shutdown.               *)
(*                                                                         *)
(* Every critical section of s.mu is an action.  A value is abstracted to  *)
(* the generation of the flight that acquired it.                          *)
(***************************************************************************)
EXTENDS Integers, FiniteSets

CONSTANTS
    Callers, Addresses,
    MaxActive,      \* flights at once (2 in the code)
    MaxWaiters,     \* callers on one flight (4 in the code)
    MaxEntries,     \* cache entries (256 in the code)
    MaxGenerations  \* bound on the flights ever started

ASSUME IPContextAssumption ==
    /\ IsFiniteSet(Callers) /\ IsFiniteSet(Addresses) /\ Addresses # {}
    /\ MaxActive \in Nat \ {0} /\ MaxWaiters \in Nat \ {0} /\ MaxEntries \in Nat \ {0}
    /\ MaxGenerations \in Nat

Gens == 1 .. MaxGenerations

VARIABLES
    pc, joined, ctxDone, got,       \* Lookup calls
    gen,                            \* flights started
    address, registered,            \* flight fields; registered = waiterContexts
    waiters, abandoned, published, valid, ready,
    fpc,                            \* where acquire is
    late,                           \* primitive calls of the flight are outstanding
    flights,                        \* s.flights, 0 for none
    active, draining,
    cache, expired, used, sequence, \* s.cache by address, 0 for none
    closing                         \* where Close is

callVars == <<pc, joined, ctxDone, got>>
flightVars == <<address, registered, waiters, abandoned, published, valid, ready>>
cacheVars == <<cache, expired, used, sequence>>
vars == <<callVars, gen, flightVars, fpc, late, flights, active, draining, cacheVars, closing>>

Init ==
    /\ pc = [c \in Callers |-> "idle"]
    /\ joined = [c \in Callers |-> 0]
    /\ ctxDone = [c \in Callers |-> FALSE]
    /\ got = [c \in Callers |-> "none"]
    /\ gen = 0
    /\ address = [g \in Gens |-> CHOOSE a \in Addresses : TRUE]
    /\ registered = [g \in Gens |-> {}]
    /\ waiters = [g \in Gens |-> 0]
    /\ abandoned = [g \in Gens |-> FALSE]
    /\ published = [g \in Gens |-> FALSE]
    /\ valid = [g \in Gens |-> FALSE]
    /\ ready = [g \in Gens |-> FALSE]
    /\ fpc = [g \in Gens |-> "none"]
    /\ late = [g \in Gens |-> FALSE]
    /\ flights = [a \in Addresses |-> 0]
    /\ active = 0 /\ draining = FALSE
    /\ cache = [a \in Addresses |-> 0]
    /\ expired = [a \in Addresses |-> FALSE]
    /\ used = [a \in Addresses |-> 0]
    /\ sequence = 0
    /\ closing = "none"

-----------------------------------------------------------------------------
(* Lookup. *)

Fresh(a) == cache[a] # 0 /\ ~expired[a]
HasLiveWaiter(g) == \E c \in registered[g] : ~ctxDone[c]

Return(c, r) ==
    /\ pc' = [pc EXCEPT ![c] = "returned"]
    /\ got' = [got EXCEPT ![c] = r]
    /\ UNCHANGED <<joined, ctxDone>>

(* Mutant: an expired entry is passed over and stays. *)
KeepExpired(a) == UNCHANGED <<cache, expired, used, sequence>>

DropExpired(a) ==
    /\ cache' = [cache EXCEPT ![a] = 0]
    /\ expired' = [expired EXCEPT ![a] = FALSE]
    /\ used' = [used EXCEPT ![a] = 0]
    /\ UNCHANGED sequence

(* The early returns: the caller has already left, or the service drains. *)
LookupRefused(c) ==
    /\ pc[c] = "idle"
    /\ \/ ctxDone[c] /\ Return(c, "cancelled")
       \/ ~ctxDone[c] /\ draining /\ Return(c, "busy")
    /\ UNCHANGED <<gen, flightVars, fpc, late, flights, active, draining, cacheVars, closing>>

LookupHit(c, a) ==
    /\ pc[c] = "idle" /\ ~ctxDone[c] /\ ~draining /\ Fresh(a)
    /\ Return(c, "value")
    /\ sequence' = sequence + 1
    /\ used' = [used EXCEPT ![a] = sequence + 1]
    /\ UNCHANGED <<gen, flightVars, fpc, late, flights, active, draining, cache, expired,
                   closing>>

(* A flight no live caller waits for is abandoned by the next lookup. *)
Orphaned(g) == ~published[g] /\ ~HasLiveWaiter(g)

(* Mutant: only the cache is closed to a draining service's callers. *)
MissWhileDraining(c, a) ==
    /\ pc[c] = "idle" /\ ~ctxDone[c] /\ ~Fresh(a)
    /\ DropExpired(a)
    /\ UNCHANGED <<draining, closing>>

Miss(c, a) ==
    /\ pc[c] = "idle" /\ ~ctxDone[c] /\ ~draining /\ ~Fresh(a)
    /\ DropExpired(a)
    /\ UNCHANGED <<draining, closing>>

Enter(c, g) ==
    /\ pc' = [pc EXCEPT ![c] = "waiting"]
    /\ joined' = [joined EXCEPT ![c] = g]
    /\ registered' = [registered EXCEPT ![g] = @ \cup {c}]
    /\ waiters' = [waiters EXCEPT ![g] = @ + 1]
    /\ UNCHANGED <<ctxDone, got>>

LookupJoin(c, a) ==
    LET g == flights[a] IN
    /\ Miss(c, a)
    /\ g # 0 /\ ~Orphaned(g) /\ ~abandoned[g] /\ waiters[g] < MaxWaiters
    /\ Enter(c, g)
    /\ UNCHANGED <<gen, address, abandoned, published, valid, ready, fpc, late, flights, active>>

LookupBusy(c, a) ==
    LET g == flights[a] IN
    /\ Miss(c, a)
    /\ \/ /\ g # 0
          /\ Orphaned(g) \/ abandoned[g] \/ waiters[g] >= MaxWaiters
          /\ abandoned' = [abandoned EXCEPT ![g] = @ \/ Orphaned(g)]
       \/ g = 0 /\ active >= MaxActive /\ UNCHANGED abandoned
    /\ Return(c, "busy")
    /\ UNCHANGED <<gen, address, registered, waiters, published, valid, ready, fpc, late,
                   flights, active>>

(* The request is older than the six seconds a flight may take. *)
LookupTooLate(c, a) ==
    /\ Miss(c, a)
    /\ flights[a] = 0 /\ active < MaxActive
    /\ Return(c, "error")
    /\ UNCHANGED <<gen, flightVars, fpc, late, flights, active>>

LookupStart(c, a) ==
    LET g == gen + 1 IN
    /\ Miss(c, a)
    /\ flights[a] = 0 /\ active < MaxActive /\ gen < MaxGenerations
    /\ Enter(c, g)
    /\ gen' = g
    /\ address' = [address EXCEPT ![g] = a]
    /\ fpc' = [fpc EXCEPT ![g] = "gathering"]
    /\ late' = [late EXCEPT ![g] = TRUE]
    /\ flights' = [flights EXCEPT ![a] = g]
    /\ active' = active + 1
    /\ UNCHANGED <<abandoned, published, valid, ready>>

CallerCancel(c) ==
    /\ pc[c] \in {"idle", "waiting"} /\ ~ctxDone[c]
    /\ ctxDone' = [ctxDone EXCEPT ![c] = TRUE]
    /\ UNCHANGED <<pc, joined, got, gen, flightVars, fpc, late, flights, active, draining,
                   cacheVars, closing>>

(* What a caller woken by f.ready with a live context returns. *)
Answer(g) ==
    IF abandoned[g] THEN "cancelled" ELSE IF published[g] /\ ~valid[g] THEN "error" ELSE "value"

(* The select of Lookup and what follows it ... *)
Wake(c) ==
    LET g == joined[c] IN
    /\ pc[c] = "waiting" /\ (ctxDone[c] \/ ready[g])
    /\ pc' = [pc EXCEPT ![c] = "leaving"]
    /\ got' = [got EXCEPT ![c] = IF ctxDone[c] THEN "cancelled" ELSE Answer(g)]
    /\ UNCHANGED <<joined, ctxDone, gen, flightVars, fpc, late, flights, active, draining,
                   cacheVars, closing>>

(* ... and its deferred critical section. *)
Leave(c) ==
    LET g == joined[c] IN
    /\ pc[c] = "leaving"
    /\ pc' = [pc EXCEPT ![c] = "returned"]
    /\ waiters' = [waiters EXCEPT ![g] = @ - 1]
    /\ registered' = [registered EXCEPT ![g] = @ \ {c}]
    /\ abandoned' = [abandoned EXCEPT ![g] = @ \/ (waiters[g] = 1 /\ ~published[g])]
    /\ UNCHANGED <<joined, ctxDone, got, gen, address, published, valid, ready, fpc, late,
                   flights, active, draining, cacheVars, closing>>

-----------------------------------------------------------------------------
(* acquire. *)

Cached == {a \in Addresses : cache[a] # 0}

(* cacheSnapshot: the least recently used entry makes room.  Expired       *)
(* entries count, and the address itself is not looked for.                *)
Evicted ==
    IF Cardinality(Cached) >= MaxEntries
    THEN {b \in Cached : \A d \in Cached : used[b] <= used[d]}
    ELSE {}

CacheSnapshot(a, g) ==
    /\ cache' = [b \in Addresses |-> IF b = a THEN g ELSE IF b \in Evicted THEN 0 ELSE cache[b]]
    /\ expired' = [b \in Addresses |-> IF b = a \/ b \in Evicted THEN FALSE ELSE expired[b]]
    /\ used' = [b \in Addresses |-> IF b = a THEN sequence + 1
                                    ELSE IF b \in Evicted THEN 0 ELSE used[b]]
    /\ sequence' = sequence + 1

(* Mutant: callers are woken only when a value was published. *)
PublishWakesOnSuccess(g) ==
    LET live == HasLiveWaiter(g)
        publishes == ~abandoned[g] /\ live /\ ~draining
        a == address[g]
    IN
    /\ fpc[g] = "gathering"
    /\ fpc' = [fpc EXCEPT ![g] = "joining"]
    /\ ready' = [ready EXCEPT ![g] = publishes]
    /\ abandoned' = [abandoned EXCEPT ![g] = @ \/ ~live]
    /\ published' = [published EXCEPT ![g] = publishes]
    /\ \E ok \in IF publishes THEN BOOLEAN ELSE {FALSE} :
          /\ valid' = [valid EXCEPT ![g] = ok]
          /\ IF ok THEN CacheSnapshot(a, g) ELSE UNCHANGED cacheVars
    /\ flights' = [flights EXCEPT ![a] = IF publishes /\ @ = g THEN 0 ELSE @]
    /\ UNCHANGED <<callVars, gen, address, registered, waiters, late, active, draining, closing>>

(* The three components have answered.  The value is published if a live   *)
(* caller is left and the service does not drain; a value that fails its   *)
(* own validation is published as an error and not cached.                 *)
Publish(g) ==
    LET live == HasLiveWaiter(g)
        publishes == ~abandoned[g] /\ live /\ ~draining
        a == address[g]
    IN
    /\ fpc[g] = "gathering"
    /\ fpc' = [fpc EXCEPT ![g] = "joining"]
    /\ ready' = [ready EXCEPT ![g] = TRUE]
    /\ abandoned' = [abandoned EXCEPT ![g] = @ \/ ~live]
    /\ published' = [published EXCEPT ![g] = publishes]
    /\ \E ok \in IF publishes THEN BOOLEAN ELSE {FALSE} :
          /\ valid' = [valid EXCEPT ![g] = ok]
          /\ IF ok THEN CacheSnapshot(a, g) ELSE UNCHANGED cacheVars
    /\ flights' = [flights EXCEPT ![a] = IF publishes /\ @ = g THEN 0 ELSE @]
    /\ UNCHANGED <<callVars, gen, address, registered, waiters, late, active, draining, closing>>

(* The last outstanding primitive call of the flight comes back. *)
PrimitivesReturn(g) ==
    /\ late[g]
    /\ late' = [late EXCEPT ![g] = FALSE]
    /\ UNCHANGED <<callVars, gen, flightVars, fpc, flights, active, draining, cacheVars, closing>>

(* Mutant: the flight ends without waiting for its primitive calls. *)
FinishEarly(g) ==
    /\ fpc[g] = "joining"
    /\ fpc' = [fpc EXCEPT ![g] = "ended"]
    /\ flights' = [flights EXCEPT ![address[g]] = IF @ = g THEN 0 ELSE @]
    /\ active' = active - 1
    /\ UNCHANGED <<callVars, gen, flightVars, late, draining, cacheVars, closing>>

(* Mutant: the address is deleted whichever flight the table names. *)
FinishDeletesAny(g) ==
    /\ fpc[g] = "joining" /\ ~late[g]
    /\ fpc' = [fpc EXCEPT ![g] = "ended"]
    /\ flights' = [flights EXCEPT ![address[g]] = 0]
    /\ active' = active - 1
    /\ UNCHANGED <<callVars, gen, flightVars, late, draining, cacheVars, closing>>

(* work.Wait is over: only now is the flight no longer active. *)
Finish(g) ==
    /\ fpc[g] = "joining" /\ ~late[g]
    /\ fpc' = [fpc EXCEPT ![g] = "ended"]
    /\ flights' = [flights EXCEPT ![address[g]] = IF @ = g THEN 0 ELSE @]
    /\ active' = active - 1
    /\ UNCHANGED <<callVars, gen, flightVars, late, draining, cacheVars, closing>>

Expire(a) ==
    /\ Fresh(a)
    /\ expired' = [expired EXCEPT ![a] = TRUE]
    /\ UNCHANGED <<callVars, gen, flightVars, fpc, late, flights, active, draining, cache, used,
                   sequence, closing>>

-----------------------------------------------------------------------------
(* Drain. *)

(* Mutant: the running flights are not abandoned. *)
BeginDrainOnly ==
    /\ draining' = TRUE
    /\ UNCHANGED abandoned

(* BeginDrain: no lookup is admitted and every flight in the table is      *)
(* abandoned.                                                              *)
BeginDrain ==
    /\ draining' = TRUE
    /\ abandoned' = [g \in Gens |-> abandoned[g] \/ \E a \in Addresses : flights[a] = g]

(* shutdownService drains first and calls Close, which drains again, later. *)
Drain ==
    /\ closing = "none"
    /\ BeginDrain
    /\ closing' = "drained"
    /\ UNCHANGED <<callVars, gen, address, registered, waiters, published, valid, ready, fpc,
                   late, flights, active, cacheVars>>

(* Close reads active; unless it is 0 it waits for a change or its deadline, *)
(* and when both are there either may win.                                   *)
CloseWaits ==
    /\ closing = "drained" /\ active # 0
    /\ closing' = "waiting"
    /\ UNCHANGED <<callVars, gen, flightVars, fpc, late, flights, active, draining, cacheVars>>

CloseDone ==
    /\ closing \in {"drained", "waiting"} /\ active = 0
    /\ closing' = "closed"
    /\ UNCHANGED <<callVars, gen, flightVars, fpc, late, flights, active, draining, cacheVars>>

CloseExpired ==
    /\ closing = "waiting"
    /\ closing' = "failed"
    /\ UNCHANGED <<callVars, gen, flightVars, fpc, late, flights, active, draining, cacheVars>>

LookupStep(c) ==
    \/ LookupRefused(c)
    \/ \E a \in Addresses : \/ LookupHit(c, a) \/ LookupJoin(c, a) \/ LookupBusy(c, a)
                            \/ LookupTooLate(c, a) \/ LookupStart(c, a)
WaitStep(c) == Wake(c) \/ Leave(c)

Next ==
    \/ \E c \in Callers : LookupStep(c) \/ WaitStep(c) \/ CallerCancel(c)
    \/ \E g \in Gens : Publish(g) \/ PrimitivesReturn(g) \/ Finish(g)
    \/ \E a \in Addresses : Expire(a)
    \/ Drain \/ CloseWaits \/ CloseDone \/ CloseExpired

Spec == Init /\ [][Next]_vars

(* The components answer within the flight's deadline and goroutines that  *)
(* can run do run.  A primitive call need not come back.                   *)
Fairness ==
    /\ \A c \in Callers : WF_vars(WaitStep(c))
    /\ \A g \in Gens : WF_vars(Publish(g)) /\ WF_vars(Finish(g))

FairSpec == Spec /\ Fairness

-----------------------------------------------------------------------------
(* Every variable has its type. *)
TypeOK ==
    /\ pc \in [Callers -> {"idle", "waiting", "leaving", "returned"}]
    /\ joined \in [Callers -> 0 .. MaxGenerations]
    /\ ctxDone \in [Callers -> BOOLEAN]
    /\ got \in [Callers -> {"none", "value", "error", "busy", "cancelled"}]
    /\ gen \in 0 .. MaxGenerations
    /\ address \in [Gens -> Addresses]
    /\ registered \in [Gens -> SUBSET Callers]
    /\ waiters \in [Gens -> Nat]
    /\ abandoned \in [Gens -> BOOLEAN] /\ published \in [Gens -> BOOLEAN]
    /\ valid \in [Gens -> BOOLEAN] /\ ready \in [Gens -> BOOLEAN]
    /\ fpc \in [Gens -> {"none", "gathering", "joining", "ended"}]
    /\ late \in [Gens -> BOOLEAN]
    /\ flights \in [Addresses -> 0 .. MaxGenerations]
    /\ active \in Nat /\ draining \in BOOLEAN
    /\ cache \in [Addresses -> 0 .. MaxGenerations]
    /\ expired \in [Addresses -> BOOLEAN]
    /\ used \in [Addresses -> Nat] /\ sequence \in Nat
    /\ closing \in {"none", "drained", "waiting", "closed", "failed"}

(* The active count is the number of flights whose goroutines or primitive *)
(* calls still run, within its limit; when Close has reported success no   *)
(* work of the service runs any more, and none ever starts again.          *)
ActiveIsWork ==
    /\ active = Cardinality({g \in Gens : fpc[g] \in {"gathering", "joining"}})
    /\ active <= MaxActive
    /\ \A g \in Gens : late[g] => fpc[g] \in {"gathering", "joining"}
    /\ closing = "closed" => \A g \in Gens : ~late[g]

(* A caller that is given a value is given one that was published and      *)
(* passed validation, never the empty value of a flight that ended without *)
(* publishing; and one that is told "cancelled" left itself or met the     *)
(* drain, never the departure of another caller.                           *)
AnswersAreReal ==
    \A c \in Callers :
        /\ got[c] = "value" /\ joined[c] # 0 => published[joined[c]] /\ valid[joined[c]]
        /\ got[c] = "cancelled" => ctxDone[c] \/ draining

(* A flight that still gathers is the one the table names for its address: *)
(* callers who ask for an address while it is being looked up meet that    *)
(* flight, however late an earlier flight for the address ends.            *)
GatheringIsShared ==
    \A g \in Gens : fpc[g] = "gathering" => flights[address[g]] = g

(* A published snapshot never finds an entry for its address in the cache: *)
(* cacheSnapshot, which does not look, neither evicts an entry needlessly  *)
(* nor lets the cache outgrow its limit.                                   *)
SnapshotIsNew ==
    [][\A a \in Addresses : cache[a] # 0 => cache'[a] \in {0, cache[a]}]_vars

(* Every waiting lookup returns, even when primitive calls never do. *)
LookupsReturn == \A c \in Callers : (pc[c] = "waiting") ~> (pc[c] = "returned")

(* The service implements OwnedWork: to its process it is a count of work, *)
(* an open or closed door, and a Close that tells the truth.               *)
Abstract ==
    INSTANCE OwnedWork WITH
        Limit <- MaxActive, work <- active, accepting <- ~draining,
        close <- IF closing = "waiting" THEN "drained" ELSE closing

ImplementsOwnedWork == Abstract!OwnedSpec

=============================================================================
