---------------------------- MODULE GeoIPLookup ----------------------------
(***************************************************************************)
(* Coalesced metadata lookups (backend/diagnostic/geoip.go, IPWhoIsLookup).*)
(* Callers that ask for the same address share one flight; a flight first  *)
(* needs one of MaxActive provider slots, and at most MaxQueued flights    *)
(* may wait for one.  The last caller to leave abandons its flight, which  *)
(* may still be running when a later caller starts the next generation for *)
(* the same address.                                                       *)
(*                                                                         *)
(* Each critical section of l.mu is one action, and so is each operation   *)
(* on the slot channel l.active.  Time is reduced to the event that a      *)
(* cached entry expires; metadata to the generation that fetched it.       *)
(***************************************************************************)
EXTENDS Integers, FiniteSets

CONSTANTS
    Callers,        \* concurrent Lookup calls
    Addresses,
    MaxActive, MaxQueued, MaxEntries,
    MaxGenerations  \* bound on nextGeneration

ASSUME GeoIPAssumption ==
    /\ IsFiniteSet(Callers) /\ IsFiniteSet(Addresses) /\ Addresses # {}
    /\ MaxActive \in Nat \ {0} /\ MaxQueued \in Nat \ {0} /\ MaxEntries \in Nat \ {0}
    /\ MaxGenerations \in Nat

Gens == 1 .. MaxGenerations

VARIABLES
    pc,          \* where each Lookup call is
    joined,      \* the flight it waits for
    ctxDone,     \* its context is done
    got,         \* what it returned
    gen,         \* nextGeneration
    address,     \* flight fields, by generation
    waiters, terminal, abandoned, cancelled, queueLease,
    result,      \* flight.metadata and flight.err
    fpc,         \* where runFlight is
    holds,       \* the flight's goroutine has a token in the channel l.active
    inflight,    \* generation in l.inflight, 0 for none
    active,      \* len(l.active)
    queued,      \* l.queued
    cache,       \* generation whose metadata is cached, 0 for none
    expired,     \* the entry's expiresAt has passed
    access, accessSequence

callVars == <<pc, joined, ctxDone, got>>
flightVars == <<address, waiters, terminal, abandoned, cancelled, queueLease, result>>
cacheVars == <<cache, expired, access, accessSequence>>
vars == <<callVars, gen, flightVars, fpc, holds, inflight, active, queued, cacheVars>>

ProviderResults == {"ok", "uncacheable", "error"}

Init ==
    /\ pc = [c \in Callers |-> "idle"]
    /\ joined = [c \in Callers |-> 0]
    /\ ctxDone = [c \in Callers |-> FALSE]
    /\ got = [c \in Callers |-> "none"]
    /\ gen = 0
    /\ address = [g \in Gens |-> CHOOSE a \in Addresses : TRUE]
    /\ waiters = [g \in Gens |-> 0]
    /\ terminal = [g \in Gens |-> FALSE]
    /\ abandoned = [g \in Gens |-> FALSE]
    /\ cancelled = [g \in Gens |-> FALSE]
    /\ queueLease = [g \in Gens |-> FALSE]
    /\ result = [g \in Gens |-> "none"]
    /\ fpc = [g \in Gens |-> "none"]
    /\ holds = [g \in Gens |-> FALSE]
    /\ inflight = [a \in Addresses |-> 0]
    /\ active = 0 /\ queued = 0
    /\ cache = [a \in Addresses |-> 0]
    /\ expired = [a \in Addresses |-> FALSE]
    /\ access = [a \in Addresses |-> 0]
    /\ accessSequence = 0

-----------------------------------------------------------------------------
(* Lookup, up to the unlock.  Its branches are actions of their own. *)

Fresh(a) == cache[a] # 0 /\ ~expired[a]

(* A flight another caller may still join. *)
Joinable(a) ==
    LET g == inflight[a] IN g # 0 /\ ~abandoned[g] /\ ~terminal[g]

(* On a miss an expired entry is deleted. *)
DropExpired(a) ==
    /\ cache' = [cache EXCEPT ![a] = 0]
    /\ expired' = [expired EXCEPT ![a] = FALSE]
    /\ access' = [access EXCEPT ![a] = 0]
    /\ UNCHANGED accessSequence

Return(c, r) ==
    /\ pc' = [pc EXCEPT ![c] = "returned"]
    /\ got' = [got EXCEPT ![c] = r]

LookupCancelled(c) ==
    /\ pc[c] = "idle" /\ ctxDone[c]
    /\ Return(c, "cancelled")
    /\ UNCHANGED <<joined, ctxDone, gen, flightVars, fpc, holds, inflight, active, queued,
                   cacheVars>>

LookupHit(c, a) ==
    /\ pc[c] = "idle" /\ ~ctxDone[c] /\ Fresh(a)
    /\ Return(c, "ok")
    /\ accessSequence' = accessSequence + 1
    /\ access' = [access EXCEPT ![a] = accessSequence + 1]
    /\ UNCHANGED <<joined, ctxDone, gen, flightVars, fpc, holds, inflight, active, queued,
                   cache, expired>>

Join(c, g) ==
    /\ pc' = [pc EXCEPT ![c] = "waiting"]
    /\ joined' = [joined EXCEPT ![c] = g]
    /\ UNCHANGED <<ctxDone, got>>

LookupJoin(c, a) ==
    /\ pc[c] = "idle" /\ ~ctxDone[c] /\ ~Fresh(a) /\ Joinable(a)
    /\ DropExpired(a)
    /\ Join(c, inflight[a])
    /\ waiters' = [waiters EXCEPT ![inflight[a]] = @ + 1]
    /\ UNCHANGED <<gen, address, terminal, abandoned, cancelled, queueLease, result, fpc,
                   holds, inflight, active, queued>>

CanQueue == queued < MaxQueued

(* A new generation starts, with a slot if one is free or else queued. *)
LookupStart(c, a) ==
    LET g == gen + 1
        hasActive == active < MaxActive
    IN
    /\ pc[c] = "idle" /\ ~ctxDone[c] /\ ~Fresh(a) /\ ~Joinable(a)
    /\ gen < MaxGenerations
    /\ hasActive \/ CanQueue
    /\ DropExpired(a)
    /\ Join(c, g)
    /\ gen' = g
    /\ address' = [address EXCEPT ![g] = a]
    /\ waiters' = [waiters EXCEPT ![g] = 1]
    /\ inflight' = [inflight EXCEPT ![a] = g]
    /\ queueLease' = [queueLease EXCEPT ![g] = ~hasActive]
    /\ holds' = [holds EXCEPT ![g] = hasActive]
    /\ active' = (IF hasActive THEN active + 1 ELSE active)
    /\ queued' = (IF hasActive THEN queued ELSE queued + 1)
    /\ fpc' = [fpc EXCEPT ![g] = IF hasActive THEN "starting" ELSE "acquiring"]
    /\ UNCHANGED <<terminal, abandoned, cancelled, result>>

LookupBusy(c, a) ==
    /\ pc[c] = "idle" /\ ~ctxDone[c] /\ ~Fresh(a) /\ ~Joinable(a)
    /\ active >= MaxActive /\ ~CanQueue
    /\ DropExpired(a)
    /\ Return(c, "busy")
    /\ UNCHANGED <<joined, ctxDone, gen, flightVars, fpc, holds, inflight, active, queued>>

-----------------------------------------------------------------------------
(* waitForFlight.  A caller woken with nothing to do waits again. *)

(* The caller's context ends. *)
CallerCancel(c) ==
    /\ pc[c] \in {"idle", "waiting"} /\ ~ctxDone[c]
    /\ ctxDone' = [ctxDone EXCEPT ![c] = TRUE]
    /\ UNCHANGED <<pc, joined, got, gen, flightVars, fpc, holds, inflight, active, queued,
                   cacheVars>>

(* A terminal flight answers, even a caller whose context is done. *)
WaitTerminal(c) ==
    LET g == joined[c] IN
    /\ pc[c] = "waiting" /\ terminal[g]
    /\ waiters' = [waiters EXCEPT ![g] = @ - 1]
    /\ Return(c, result[g])
    /\ UNCHANGED <<joined, ctxDone, gen, address, terminal, abandoned, cancelled, queueLease,
                   result, fpc, holds, inflight, active, queued, cacheVars>>

(* Mutant: a queue place is given back by everyone who ends. *)
ReleaseQueueAgain(g) ==
    queueLease' = [queueLease EXCEPT ![g] = FALSE] /\ queued' = queued - 1

ReleaseQueue(g) ==
    /\ queueLease' = [queueLease EXCEPT ![g] = FALSE]
    /\ queued' = (IF queueLease[g] THEN queued - 1 ELSE queued)

(* Mutant: any caller that leaves abandons the flight. *)
LastWaiterAlways(g) == TRUE
LastWaiter(g) == waiters[g] = 1

(* Mutant: an abandoned flight stays in the table. *)
WaitCancelledStaysInflight(c) ==
    LET g == joined[c] IN
    /\ pc[c] = "waiting" /\ ~terminal[g] /\ ctxDone[c]
    /\ waiters' = [waiters EXCEPT ![g] = @ - 1]
    /\ Return(c, "cancelled")
    /\ abandoned' = [abandoned EXCEPT ![g] = LastWaiter(g)]
    /\ cancelled' = [cancelled EXCEPT ![g] = LastWaiter(g)]
    /\ UNCHANGED <<inflight, queueLease, queued, joined, ctxDone, gen, address, terminal,
                   result, fpc, holds, active, cacheVars>>

(* A caller whose context is done leaves; the last one abandons the flight. *)
WaitCancelled(c) ==
    LET g == joined[c]
        a == address[g]
    IN
    /\ pc[c] = "waiting" /\ ~terminal[g] /\ ctxDone[c]
    /\ waiters' = [waiters EXCEPT ![g] = @ - 1]
    /\ Return(c, "cancelled")
    /\ IF LastWaiter(g)
       THEN /\ abandoned' = [abandoned EXCEPT ![g] = TRUE]
            /\ cancelled' = [cancelled EXCEPT ![g] = TRUE]
            /\ inflight' = [inflight EXCEPT ![a] = IF @ = g THEN 0 ELSE @]
            /\ ReleaseQueue(g)
       ELSE UNCHANGED <<abandoned, cancelled, inflight, queueLease, queued>>
    /\ UNCHANGED <<joined, ctxDone, gen, address, terminal, result, fpc, holds, active,
                   cacheVars>>

-----------------------------------------------------------------------------
(* runFlight. *)

(* A queued flight's select: a slot becomes free ... *)
FlightAcquire(g) ==
    /\ fpc[g] = "acquiring" /\ active < MaxActive
    /\ active' = active + 1
    /\ holds' = [holds EXCEPT ![g] = TRUE]
    /\ fpc' = [fpc EXCEPT ![g] = "starting"]
    /\ UNCHANGED <<callVars, gen, flightVars, inflight, queued, cacheVars>>

(* ... or the flight has been abandoned. *)
FlightAbort(g) ==
    /\ fpc[g] = "acquiring" /\ cancelled[g]
    /\ ReleaseQueue(g)
    /\ result' = [result EXCEPT ![g] = "cancelled"]
    /\ fpc' = [fpc EXCEPT ![g] = "completing"]
    /\ UNCHANGED <<callVars, gen, address, waiters, terminal, abandoned, cancelled, holds,
                   inflight, active, cacheVars>>

(* The start arbitration between the last caller leaving and the provider. *)
FlightStart(g) ==
    /\ fpc[g] = "starting"
    /\ ReleaseQueue(g)
    /\ IF abandoned[g] \/ cancelled[g]
       THEN /\ fpc' = [fpc EXCEPT ![g] = "releasing"]
            /\ result' = [result EXCEPT ![g] = "cancelled"]
       ELSE /\ fpc' = [fpc EXCEPT ![g] = "fetching"]
            /\ UNCHANGED result
    /\ UNCHANGED <<callVars, gen, address, waiters, terminal, abandoned, cancelled, holds,
                   inflight, active, cacheVars>>

(* callProvider returns: an answer, an answer not fit for the cache, or a  *)
(* failure (its timeout and a panic included).                             *)
ProviderReturn(g) ==
    /\ fpc[g] = "fetching"
    /\ \E r \in ProviderResults : result' = [result EXCEPT ![g] = r]
    /\ fpc' = [fpc EXCEPT ![g] = "releasing"]
    /\ UNCHANGED <<callVars, gen, address, waiters, terminal, abandoned, cancelled, queueLease,
                   holds, inflight, active, queued, cacheVars>>

(* Mutant: a cancelled flight keeps its provider slot. *)
FlightReleaseSlotLeaks(g) ==
    /\ fpc[g] = "releasing"
    /\ active' = (IF result[g] = "cancelled" THEN active ELSE active - 1)
    /\ holds' = [holds EXCEPT ![g] = FALSE]
    /\ fpc' = [fpc EXCEPT ![g] = "completing"]
    /\ UNCHANGED <<callVars, gen, flightVars, inflight, queued, cacheVars>>

FlightReleaseSlot(g) ==
    /\ fpc[g] = "releasing"
    /\ active' = active - 1
    /\ holds' = [holds EXCEPT ![g] = FALSE]
    /\ fpc' = [fpc EXCEPT ![g] = "completing"]
    /\ UNCHANGED <<callVars, gen, flightVars, inflight, queued, cacheVars>>

-----------------------------------------------------------------------------
(* completeFlight. *)

Live == {a \in Addresses : Fresh(a)}

(* The entries storeCacheLocked may evict: the least recently used one,    *)
(* when a new address finds the cache full.                                *)
Evicts(a) ==
    IF a \notin Live /\ Cardinality(Live) >= MaxEntries
    THEN {b \in Live : \A d \in Live : access[b] <= access[d]}
    ELSE {}

Store(a, g) ==
    \E evicted \in IF Evicts(a) = {} THEN {{}} ELSE {{b} : b \in Evicts(a)} :
        LET kept == (Live \ evicted) \cup {a} IN
        /\ cache' = [b \in Addresses |-> IF b = a THEN g ELSE IF b \in kept THEN cache[b] ELSE 0]
        /\ expired' = [b \in Addresses |-> FALSE]
        /\ access' = [b \in Addresses |-> IF b = a THEN accessSequence + 1
                                          ELSE IF b \in kept THEN access[b] ELSE 0]
        /\ accessSequence' = accessSequence + 1

(* Mutant: a flight caches whether or not it is current. *)
MayCacheAnyGeneration(g) == result[g] = "ok"
MayCache(g) ==
    /\ inflight[address[g]] = g
    /\ result[g] = "ok" /\ ~abandoned[g] /\ ~cancelled[g]

CompleteFlight(g) ==
    LET a == address[g] IN
    /\ fpc[g] = "completing"
    /\ fpc' = [fpc EXCEPT ![g] = "ended"]
    /\ ReleaseQueue(g)
    /\ terminal' = [terminal EXCEPT ![g] = TRUE]
    /\ cancelled' = [cancelled EXCEPT ![g] = TRUE]
    /\ inflight' = [inflight EXCEPT ![a] = IF @ = g THEN 0 ELSE @]
    /\ IF MayCache(g) THEN Store(a, g) ELSE UNCHANGED cacheVars
    /\ UNCHANGED <<callVars, gen, address, waiters, abandoned, result, holds, active>>

(* The clock passes an entry's expiry. *)
Expire(a) ==
    /\ Fresh(a)
    /\ expired' = [expired EXCEPT ![a] = TRUE]
    /\ UNCHANGED <<callVars, gen, flightVars, fpc, holds, inflight, active, queued, cache,
                   access, accessSequence>>

LookupStep(c) ==
    \/ LookupCancelled(c)
    \/ \E a \in Addresses :
          LookupHit(c, a) \/ LookupJoin(c, a) \/ LookupStart(c, a) \/ LookupBusy(c, a)
WaitStep(c) == WaitTerminal(c) \/ WaitCancelled(c)
FlightStep(g) ==
    \/ FlightAcquire(g) \/ FlightAbort(g) \/ FlightStart(g) \/ ProviderReturn(g)
    \/ FlightReleaseSlot(g) \/ CompleteFlight(g)

Next ==
    \/ \E c \in Callers : LookupStep(c) \/ WaitStep(c) \/ CallerCancel(c)
    \/ \E g \in Gens : FlightStep(g)
    \/ \E a \in Addresses : Expire(a)

Spec == Init /\ [][Next]_vars

(* Goroutines that can run do run and the provider call is bounded by its  *)
(* timeout.  No caller is obliged to give up, and no entry to expire.      *)
Fairness ==
    /\ \A c \in Callers : WF_vars(WaitStep(c))
    /\ \A g \in Gens : WF_vars(FlightStep(g))

FairSpec == Spec /\ Fairness

-----------------------------------------------------------------------------
FlightStates == {"none", "acquiring", "starting", "fetching", "releasing", "completing", "ended"}

(* Every variable has its type. *)
TypeOK ==
    /\ pc \in [Callers -> {"idle", "waiting", "returned"}]
    /\ joined \in [Callers -> 0 .. MaxGenerations]
    /\ ctxDone \in [Callers -> BOOLEAN]
    /\ got \in [Callers -> ProviderResults \cup {"none", "cancelled", "busy"}]
    /\ gen \in 0 .. MaxGenerations
    /\ address \in [Gens -> Addresses]
    /\ waiters \in [Gens -> Nat]
    /\ terminal \in [Gens -> BOOLEAN]
    /\ abandoned \in [Gens -> BOOLEAN]
    /\ cancelled \in [Gens -> BOOLEAN]
    /\ queueLease \in [Gens -> BOOLEAN]
    /\ result \in [Gens -> ProviderResults \cup {"none", "cancelled"}]
    /\ fpc \in [Gens -> FlightStates]
    /\ holds \in [Gens -> BOOLEAN]
    /\ inflight \in [Addresses -> 0 .. MaxGenerations]
    /\ active \in Nat /\ queued \in Nat
    /\ cache \in [Addresses -> 0 .. MaxGenerations]
    /\ expired \in [Addresses -> BOOLEAN]
    /\ access \in [Addresses -> Nat] /\ accessSequence \in Nat

(* The two limits hold and neither a provider slot nor a place in the      *)
(* queue is ever lost or given back twice, whoever of the leaving callers, *)
(* the flight and its completion gives it back.                            *)
SlotAccounting ==
    /\ active = Cardinality({g \in Gens : holds[g]}) /\ active <= MaxActive
    /\ queued = Cardinality({g \in Gens : queueLease[g]}) /\ queued <= MaxQueued

(* Callers of one address share one flight: a flight that is neither       *)
(* finished nor abandoned is the one in the inflight table, and it has     *)
(* waiters, all of whom it counts.  No provider work goes on uncancelled   *)
(* that nobody waits for.                                                  *)
FlightsAreShared ==
    \A g \in 1 .. gen :
        /\ waiters[g] = Cardinality({c \in Callers : pc[c] = "waiting" /\ joined[c] = g})
        /\ ~terminal[g] /\ ~abandoned[g] => inflight[address[g]] = g /\ waiters[g] > 0
        /\ abandoned[g] => waiters[g] = 0 /\ inflight[address[g]] # g

(* A caller is told "cancelled" only if its own context ended: another     *)
(* caller's departure never cancels a shared lookup.                       *)
CancelledMeansOwnContext ==
    \A c \in Callers : got[c] = "cancelled" => ctxDone[c]

(* What is cached for an address is a valid answer for it from a flight    *)
(* that was not abandoned, a late completion never puts the answer of an   *)
(* earlier generation back over a later one, and the least recently used   *)
(* entry is the one that goes when the cache is full.                      *)
CacheStep ==
    \A a \in Addresses :
        /\ cache'[a] # cache[a] /\ cache'[a] # 0 =>
              /\ cache'[a] > cache[a]
              /\ address[cache'[a]] = a /\ result[cache'[a]] = "ok" /\ ~abandoned[cache'[a]]
        /\ Fresh(a) /\ cache'[a] = 0 =>
              \A b \in Addresses : Fresh(b) /\ cache'[b] # 0 => access[a] <= access[b]
CacheIsCurrent == [][CacheStep]_vars

(* Every caller that waits is answered. *)
WaitersAreAnswered == \A c \in Callers : (pc[c] = "waiting") ~> (pc[c] = "returned")

=============================================================================
