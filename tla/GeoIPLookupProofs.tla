------------------------- MODULE GeoIPLookupProofs -------------------------
(***************************************************************************)
(* Proofs about GeoIPLookup for any callers, addresses and limits: the     *)
(* slot and queue accounting, the sharing of flights, what "cancelled"     *)
(* means and what the cache holds.                                         *)
(***************************************************************************)
EXTENDS GeoIPLookup, FiniteSetTheorems, TLAPS

(* The callers that wait for a flight. *)
Waiting(g) == {c \in Callers : pc[c] = "waiting" /\ joined[c] = g}

(* What the fields of one flight say of each other.  A queue place is held *)
(* only before the start arbitration and never by an abandoned flight, so  *)
(* that no two of its three release points give it back; an abandoned      *)
(* flight is the only one that ends as cancelled.                          *)
FlightInv(g) ==
    /\ fpc[g] = "none" <=> g > gen
    /\ g > gen => waiters[g] = 0 /\ ~queueLease[g] /\ ~abandoned[g] /\ result[g] = "none"
    /\ holds[g] <=> fpc[g] \in {"starting", "fetching", "releasing"}
    /\ terminal[g] <=> fpc[g] = "ended"
    /\ cancelled[g] <=> abandoned[g] \/ terminal[g]
    /\ queueLease[g] => fpc[g] \in {"acquiring", "starting"} /\ ~abandoned[g]
    /\ result[g] = "cancelled" => abandoned[g]

(* The tables.  A flight in the table is open and serves that address, and *)
(* whatever the cache holds for the address is of an earlier generation.   *)
TableInv(a) ==
    /\ inflight[a] # 0 =>
          /\ inflight[a] \in 1 .. gen /\ address[inflight[a]] = a
          /\ ~terminal[inflight[a]] /\ ~abandoned[inflight[a]]
          /\ cache[a] < inflight[a]
    /\ cache[a] <= gen

(* A flight's waiters are counted, and an open flight is in the table. *)
SharingInv(g) ==
    /\ waiters[g] = Cardinality(Waiting(g))
    /\ g <= gen /\ ~terminal[g] /\ ~abandoned[g] => inflight[address[g]] = g /\ waiters[g] > 0
    /\ abandoned[g] => waiters[g] = 0

CallerInv(c) == pc[c] = "waiting" => joined[c] \in 1 .. gen

(* The inductive invariant. *)
GeoInv ==
    /\ TypeOK
    /\ SlotAccounting
    /\ CancelledMeansOwnContext
    /\ \A g \in Gens : FlightInv(g) /\ SharingInv(g)
    /\ \A a \in Addresses : TableInv(a)
    /\ \A c \in Callers : CallerInv(c)

-----------------------------------------------------------------------------
(* Generations are finitely many, and so are the sets that are counted. *)
LEMMA Finiteness ==
    /\ IsFiniteSet(Gens)
    /\ \A g : IsFiniteSet(Waiting(g)) /\ Cardinality(Waiting(g)) \in Nat
<1>1. IsFiniteSet(Gens)
  BY GeoIPAssumption, FS_Interval DEF Gens
<1>2. ASSUME NEW g
      PROVE  IsFiniteSet(Waiting(g)) /\ Cardinality(Waiting(g)) \in Nat
  BY GeoIPAssumption, FS_Subset, FS_CardinalityType DEF Waiting
<1>3. QED
  BY <1>1, <1>2

(* Setting a flag of one element adds it to those that are counted. *)
LEMMA CountSet ==
    ASSUME NEW S, IsFiniteSet(S), NEW f \in [S -> BOOLEAN], NEW x \in S, ~f[x]
    PROVE  Cardinality({y \in S : [f EXCEPT ![x] = TRUE][y]}) = Cardinality({y \in S : f[y]}) + 1
<1> DEFINE T == {y \in S : f[y]}
<1>1. {y \in S : [f EXCEPT ![x] = TRUE][y]} = T \cup {x}
  OBVIOUS
<1>2. IsFiniteSet(T) /\ x \notin T
  BY FS_Subset
<1>3. QED
  BY <1>1, <1>2, FS_AddElement

(* Clearing it takes the element away. *)
LEMMA CountClear ==
    ASSUME NEW S, IsFiniteSet(S), NEW f \in [S -> BOOLEAN], NEW x \in S, f[x]
    PROVE  /\ Cardinality({y \in S : [f EXCEPT ![x] = FALSE][y]})
                = Cardinality({y \in S : f[y]}) - 1
           /\ Cardinality({y \in S : f[y]}) \in Nat \ {0}
<1> DEFINE T == {y \in S : f[y]}
<1>1. {y \in S : [f EXCEPT ![x] = FALSE][y]} = T \ {x}
  OBVIOUS
<1>2. IsFiniteSet(T) /\ x \in T
  BY FS_Subset
<1>3. Cardinality(T \ {x}) = Cardinality(T) - 1
  BY <1>2, FS_RemoveElement
<1>4. Cardinality(T) \in Nat /\ T # {}
  BY <1>2, FS_CardinalityType
<1>5. Cardinality(T) # 0
  BY <1>2, <1>4, FS_EmptySet
<1>6. QED
  BY <1>1, <1>3, <1>4, <1>5

(* Clearing a flag that is not set changes nothing. *)
LEMMA ClearNothing ==
    ASSUME NEW S, NEW f \in [S -> BOOLEAN], NEW x \in S, ~f[x]
    PROVE  [f EXCEPT ![x] = FALSE] = f
<1>1. f[x] = FALSE
  OBVIOUS
<1>2. QED
  BY <1>1

(* A waiting caller is counted by its flight, which was not abandoned. *)
LEMMA WaitingCaller ==
    ASSUME GeoInv, NEW c \in Callers, pc[c] = "waiting"
    PROVE  joined[c] \in Gens /\ joined[c] <= gen /\ ~abandoned[joined[c]]
           /\ waiters[joined[c]] > 0
<1>1. joined[c] \in Gens /\ joined[c] <= gen
  BY GeoIPAssumption DEF GeoInv, CallerInv, TypeOK, Gens
<1>2. c \in Waiting(joined[c])
  BY DEF Waiting
<1>3. Cardinality(Waiting(joined[c])) # 0 /\ Cardinality(Waiting(joined[c])) \in Nat
  BY <1>2, Finiteness, FS_EmptySet
<1>4. QED
  BY <1>1, <1>3 DEF GeoInv, SharingInv, TypeOK

(* The initial state satisfies the invariant. *)
LEMMA GeoInitInv == Init => GeoInv
<1> SUFFICES ASSUME Init
             PROVE  GeoInv
  OBVIOUS
<1> USE GeoIPAssumption
<1>1. TypeOK
  <2>1. (CHOOSE a \in Addresses : TRUE) \in Addresses
    OBVIOUS
  <2>2. QED
    BY <2>1 DEF Init, TypeOK, Gens, FlightStates, ProviderResults
<1>2. SlotAccounting
  <2>1. {g \in Gens : holds[g]} = {} /\ {g \in Gens : queueLease[g]} = {}
    BY DEF Init
  <2>2. Cardinality({g \in Gens : holds[g]}) = 0 /\ Cardinality({g \in Gens : queueLease[g]}) = 0
    BY <2>1, FS_EmptySet
  <2>3. QED
    BY <2>2 DEF Init, SlotAccounting
<1>3. ASSUME NEW g \in Gens
      PROVE  FlightInv(g) /\ SharingInv(g)
  <2>1. Waiting(g) = {}
    BY DEF Init, Waiting
  <2>2. QED
    BY <2>1, FS_EmptySet DEF Init, FlightInv, SharingInv, Gens
<1>4. CancelledMeansOwnContext
  BY DEF Init, CancelledMeansOwnContext
<1>5. \A a \in Addresses : TableInv(a)
  BY DEF Init, TableInv
<1>6. \A c \in Callers : CallerInv(c)
  BY DEF Init, CallerInv
<1>7. QED
  BY <1>1, <1>2, <1>3, <1>4, <1>5, <1>6 DEF GeoInv

-----------------------------------------------------------------------------
(* Steps that touch no flight: a lookup answered from the cache or refused, *)
(* a context that ends, an entry that expires.                             *)
LEMMA CallerStepInv ==
    ASSUME GeoInv, NEW c \in Callers,
           \/ LookupCancelled(c) \/ CallerCancel(c)
           \/ \E a \in Addresses : LookupHit(c, a) \/ LookupBusy(c, a)
    PROVE  GeoInv'
<1> USE GeoIPAssumption DEF GeoInv
<1> DEFINE Act == \/ LookupCancelled(c) \/ CallerCancel(c)
                  \/ \E a \in Addresses : LookupHit(c, a) \/ LookupBusy(c, a)
<1> USE DEF LookupCancelled, CallerCancel, LookupHit, LookupBusy, Return, DropExpired
<1>1. UNCHANGED <<gen, flightVars, fpc, holds, inflight, active, queued, joined>>
  BY DEF flightVars
<1>2. \A g : Waiting(g)' = Waiting(g)
  <2>1. \A d \in Callers : pc'[d] = "waiting" <=> pc[d] = "waiting"
    BY DEF TypeOK
  <2>2. QED
    BY <1>1, <2>1 DEF Waiting
<1>3. TypeOK'
  <2>1. pc' \in [Callers -> {"idle", "waiting", "returned"}] /\ ctxDone' \in [Callers -> BOOLEAN]
    BY DEF TypeOK
  <2>2. got' \in [Callers -> ProviderResults \cup {"none", "cancelled", "busy"}]
    BY DEF TypeOK, ProviderResults
  <2>3. cache' \in [Addresses -> 0 .. MaxGenerations] /\ expired' \in [Addresses -> BOOLEAN]
    <3>1. 0 \in 0 .. MaxGenerations
      OBVIOUS
    <3>2. cache' \in [Addresses -> 0 .. MaxGenerations]
      BY <3>1 DEF TypeOK, cacheVars
    <3>3. expired' \in [Addresses -> BOOLEAN]
      BY DEF TypeOK, cacheVars
    <3>4. QED
      BY <3>2, <3>3
  <2>4. access' \in [Addresses -> Nat] /\ accessSequence' \in Nat
    BY DEF TypeOK, cacheVars
  <2>5. QED
    BY <1>1, <2>1, <2>2, <2>3, <2>4 DEF TypeOK, flightVars
<1>4. SlotAccounting'
  BY <1>1 DEF SlotAccounting, flightVars
<1>5. CancelledMeansOwnContext'
  BY DEF CancelledMeansOwnContext, TypeOK
<1>6. ASSUME NEW g \in Gens
      PROVE  FlightInv(g)' /\ SharingInv(g)'
  BY <1>1, <1>2 DEF FlightInv, SharingInv, flightVars
<1>7. ASSUME NEW a \in Addresses
      PROVE  TableInv(a)'
  <2>1. cache'[a] \in {0, cache[a]}
    BY DEF TypeOK, cacheVars
  <2>2. QED
    BY <1>1, <2>1 DEF TableInv, flightVars, TypeOK
<1>8. \A d \in Callers : CallerInv(d)'
  BY <1>1 DEF CallerInv, TypeOK
<1>9. QED
  BY <1>3, <1>4, <1>5, <1>6, <1>7, <1>8

LEMMA ExpireInv ==
    ASSUME GeoInv, NEW a \in Addresses, Expire(a)
    PROVE  GeoInv'
<1> USE DEF GeoInv, Expire, callVars, flightVars
<1>1. \A g : Waiting(g)' = Waiting(g)
  BY DEF Waiting
<1>2. TypeOK'
  BY DEF TypeOK
<1>3. SlotAccounting' /\ CancelledMeansOwnContext'
  BY DEF SlotAccounting, CancelledMeansOwnContext
<1>4. \A g \in Gens : FlightInv(g)' /\ SharingInv(g)'
  BY <1>1 DEF FlightInv, SharingInv
<1>5. \A b \in Addresses : TableInv(b)'
  BY DEF TableInv
<1>6. \A d \in Callers : CallerInv(d)'
  BY DEF CallerInv
<1>7. QED
  BY <1>2, <1>3, <1>4, <1>5, <1>6

(* A caller joins the flight of its address, which is open. *)
LEMMA LookupJoinInv ==
    ASSUME GeoInv, NEW c \in Callers, NEW a \in Addresses, LookupJoin(c, a)
    PROVE  GeoInv'
<1> USE GeoIPAssumption DEF GeoInv
<1> DEFINE f == inflight[a]
<1>0. f \in Gens /\ f <= gen /\ ~terminal[f] /\ ~abandoned[f] /\ address[f] = a
  BY DEF LookupJoin, Joinable, TableInv, TypeOK, Gens
<1>1. Waiting(f)' = Waiting(f) \cup {c} /\ c \notin Waiting(f)
  BY DEF LookupJoin, Join, Waiting, TypeOK
<1>2. ASSUME NEW g, g # f
      PROVE  Waiting(g)' = Waiting(g)
  BY <1>2 DEF LookupJoin, Join, Waiting, TypeOK
<1>3. Cardinality(Waiting(f)') = Cardinality(Waiting(f)) + 1
  BY <1>1, Finiteness, FS_AddElement
<1>4. TypeOK'
  <2>1. waiters' \in [Gens -> Nat]
    BY <1>0 DEF LookupJoin, TypeOK
  <2>2. pc' \in [Callers -> {"idle", "waiting", "returned"}]
        /\ joined' \in [Callers -> 0 .. MaxGenerations] /\ UNCHANGED <<ctxDone, got>>
    BY DEF LookupJoin, Join, TypeOK
  <2>3. /\ cache' \in [Addresses -> 0 .. MaxGenerations] /\ expired' \in [Addresses -> BOOLEAN]
        /\ access' \in [Addresses -> Nat] /\ accessSequence' \in Nat
    BY DEF LookupJoin, DropExpired, TypeOK
  <2>4. QED
    BY <2>1, <2>2, <2>3 DEF LookupJoin, TypeOK
<1>5. SlotAccounting' /\ CancelledMeansOwnContext'
  BY DEF LookupJoin, Join, SlotAccounting, CancelledMeansOwnContext
<1>6. ASSUME NEW g \in Gens
      PROVE  FlightInv(g)' /\ SharingInv(g)'
  <2>1. FlightInv(g)'
    BY <1>0 DEF LookupJoin, FlightInv, TypeOK
  <2>2. CASE g = f
    <3>1. waiters'[g] = waiters[g] + 1 /\ Cardinality(Waiting(g)') = Cardinality(Waiting(g)) + 1
      BY <1>3, <2>2 DEF LookupJoin, TypeOK
    <3>2. QED
      BY <1>0, <2>1, <2>2, <3>1 DEF LookupJoin, SharingInv, TypeOK
  <2>3. CASE g # f
    BY <1>2, <2>1, <2>3 DEF LookupJoin, SharingInv, TypeOK
  <2>4. QED
    BY <2>2, <2>3
<1>7. ASSUME NEW b \in Addresses
      PROVE  TableInv(b)'
  <2>1. cache'[b] \in {0, cache[b]}
    BY DEF LookupJoin, DropExpired, TypeOK
  <2>2. QED
    BY <2>1 DEF LookupJoin, TableInv, TypeOK
<1>8. \A d \in Callers : CallerInv(d)'
  BY <1>0 DEF LookupJoin, Join, CallerInv, TypeOK, Gens
<1>9. QED
  BY <1>4, <1>5, <1>6, <1>7, <1>8

(* Giving back a queue place keeps the queue's accounts whether or not the *)
(* flight still had one.                                                   *)
LEMMA ReleaseQueueCounts ==
    ASSUME GeoInv, NEW g \in Gens, ReleaseQueue(g)
    PROVE  /\ queueLease' \in [Gens -> BOOLEAN] /\ queued' \in Nat
           /\ queued' = Cardinality({h \in Gens : queueLease'[h]}) /\ queued' <= MaxQueued
           /\ ~queueLease'[g]
           /\ \A h \in Gens : h # g => queueLease'[h] = queueLease[h]
<1> USE GeoIPAssumption, Finiteness DEF GeoInv, TypeOK, SlotAccounting, ReleaseQueue
<1>1. queueLease' \in [Gens -> BOOLEAN] /\ ~queueLease'[g]
      /\ \A h \in Gens : h # g => queueLease'[h] = queueLease[h]
  OBVIOUS
<1>2. queueLease' = [queueLease EXCEPT ![g] = FALSE]
  OBVIOUS
<1>3. CASE queueLease[g]
  <2>1. /\ Cardinality({h \in Gens : [queueLease EXCEPT ![g] = FALSE][h]})
              = Cardinality({h \in Gens : queueLease[h]}) - 1
        /\ Cardinality({h \in Gens : queueLease[h]}) \in Nat \ {0}
    <3> HIDE DEF SlotAccounting, ReleaseQueue
    <3>1. QED
      BY <1>3, CountClear
  <2>2. QED
    BY <1>1, <1>2, <1>3, <2>1
<1>4. CASE ~queueLease[g]
  <2>1. queueLease[g] = FALSE
    BY <1>4
  <2>2. queueLease' = queueLease
    BY <1>2, <2>1
  <2>3. queued' = queued
    BY <2>1
  <2>4. Cardinality({h \in Gens : queueLease'[h]}) = Cardinality({h \in Gens : queueLease[h]})
    <3> HIDE DEF GeoInv, TypeOK, SlotAccounting, ReleaseQueue
    <3>1. {h \in Gens : queueLease'[h]} = {h \in Gens : queueLease[h]}
      BY <2>2, Zenon
    <3>2. QED
      BY <3>1
  <2>5. QED
    BY <1>1, <2>3, <2>4
<1>5. QED
  BY <1>3, <1>4

(* A new generation: there was no flight of the address, and it takes a    *)
(* free slot or a free place in the queue.                                 *)
LEMMA LookupStartInv ==
    ASSUME GeoInv, NEW c \in Callers, NEW a \in Addresses, LookupStart(c, a)
    PROVE  GeoInv'
<1> USE GeoIPAssumption DEF GeoInv
<1> DEFINE hasActive == active < MaxActive
<1>n. PICK n \in Gens : n = gen + 1 /\ gen \in Nat
  BY DEF LookupStart, TypeOK, Gens
<1>0. n \in Gens /\ gen' = n /\ inflight[a] = 0 /\ n = gen + 1 /\ gen \in Nat
  BY <1>n DEF LookupStart, Joinable, TableInv, TypeOK, Gens
<1>b. /\ pc[c] = "idle" /\ pc' = [pc EXCEPT ![c] = "waiting"]
      /\ joined' = [joined EXCEPT ![c] = n] /\ UNCHANGED <<ctxDone, got>>
      /\ address' = [address EXCEPT ![n] = a] /\ waiters' = [waiters EXCEPT ![n] = 1]
      /\ inflight' = [inflight EXCEPT ![a] = n]
      /\ queueLease' = [queueLease EXCEPT ![n] = ~hasActive]
      /\ holds' = [holds EXCEPT ![n] = hasActive]
      /\ fpc' = [fpc EXCEPT ![n] = IF hasActive THEN "starting" ELSE "acquiring"]
      /\ UNCHANGED <<terminal, abandoned, cancelled, result>>
      /\ active' = (IF hasActive THEN active + 1 ELSE active)
      /\ queued' = (IF hasActive THEN queued ELSE queued + 1)
      /\ hasActive \/ CanQueue
  BY <1>n DEF LookupStart, Join
<1>a. /\ ~queueLease[n] /\ ~holds[n] /\ waiters[n] = 0 /\ fpc[n] = "none"
      /\ ~abandoned[n] /\ ~terminal[n] /\ ~cancelled[n] /\ result[n] = "none"
  <2>1. n > gen
    BY <1>0
  <2>2. QED
    BY <1>0, <2>1 DEF FlightInv
<1>1. Waiting(n)' = Waiting(n) \cup {c} /\ c \notin Waiting(n)
  BY <1>0, <1>b DEF Waiting, TypeOK
<1>2. ASSUME NEW g, g # n
      PROVE  Waiting(g)' = Waiting(g)
  BY <1>2, <1>b DEF Waiting, TypeOK
<1>3. Cardinality(Waiting(n)') = Cardinality(Waiting(n)) + 1
  BY <1>1, Finiteness, FS_AddElement
<1>4. TypeOK'
  <2>1. waiters' \in [Gens -> Nat] /\ address' \in [Gens -> Addresses]
        /\ fpc' \in [Gens -> FlightStates]
    BY <1>b, <1>0 DEF TypeOK, FlightStates
  <2>2. pc' \in [Callers -> {"idle", "waiting", "returned"}]
        /\ joined' \in [Callers -> 0 .. MaxGenerations] /\ UNCHANGED <<ctxDone, got>>
    <3>1. n \in 0 .. MaxGenerations
      BY <1>0 DEF Gens
    <3>2. QED
      BY <1>b, <3>1 DEF TypeOK
  <2>3. /\ cache' \in [Addresses -> 0 .. MaxGenerations] /\ expired' \in [Addresses -> BOOLEAN]
        /\ access' \in [Addresses -> Nat] /\ accessSequence' \in Nat
    BY DEF LookupStart, DropExpired, TypeOK
  <2>4. queueLease' \in [Gens -> BOOLEAN] /\ holds' \in [Gens -> BOOLEAN]
    BY <1>b, <1>0 DEF TypeOK
  <2>5. active' \in Nat /\ queued' \in Nat
    BY <1>b DEF TypeOK
  <2>6. inflight' \in [Addresses -> 0 .. MaxGenerations] /\ gen' \in 0 .. MaxGenerations
    BY <1>b, <1>0 DEF TypeOK, Gens
  <2>7. QED
    BY <1>b, <2>1, <2>2, <2>3, <2>4, <2>5, <2>6 DEF TypeOK
<1>5. SlotAccounting'
  <2>1. CASE hasActive
    <3>1. hasActive = TRUE /\ (~hasActive) = FALSE
      BY <2>1
    <3>2. queued' = queued /\ active' = active + 1 /\ active < MaxActive
      BY <1>b, <2>1
    <3>3. /\ queueLease' = [queueLease EXCEPT ![n] = FALSE]
          /\ holds' = [holds EXCEPT ![n] = TRUE]
      BY <1>b, <3>1, Zenon
    <3>4. queueLease' = queueLease
      BY <1>0, <1>a, <3>3, ClearNothing DEF TypeOK
    <3>5. Cardinality({h \in Gens : queueLease'[h]}) = Cardinality({h \in Gens : queueLease[h]})
      BY <3>4, Zenon
    <3>6. Cardinality({h \in Gens : [holds EXCEPT ![n] = TRUE][h]})
            = Cardinality({h \in Gens : holds[h]}) + 1
      <4>1. holds \in [Gens -> BOOLEAN] /\ n \in Gens /\ ~holds[n] /\ IsFiniteSet(Gens)
        BY <1>0, <1>a, Finiteness DEF TypeOK
      <4> HIDE DEF GeoInv
      <4>2. QED
        BY <4>1, CountSet
    <3>7. QED
      BY <3>2, <3>3, <3>5, <3>6 DEF SlotAccounting, TypeOK
  <2>2. CASE ~hasActive
    <3>1. hasActive = FALSE /\ (~hasActive) = TRUE
      BY <2>2
    <3>2. active' = active /\ queued' = queued + 1 /\ queued < MaxQueued
      BY <1>b, <2>2 DEF CanQueue
    <3>3. /\ queueLease' = [queueLease EXCEPT ![n] = TRUE]
          /\ holds' = [holds EXCEPT ![n] = FALSE]
      BY <1>b, <3>1, Zenon
    <3>4. holds' = holds
      BY <1>0, <1>a, <3>3, ClearNothing DEF TypeOK
    <3>5. Cardinality({h \in Gens : holds'[h]}) = Cardinality({h \in Gens : holds[h]})
      BY <3>4, Zenon
    <3>6. Cardinality({h \in Gens : [queueLease EXCEPT ![n] = TRUE][h]})
            = Cardinality({h \in Gens : queueLease[h]}) + 1
      <4>1. queueLease \in [Gens -> BOOLEAN] /\ n \in Gens /\ ~queueLease[n] /\ IsFiniteSet(Gens)
        BY <1>0, <1>a, Finiteness DEF TypeOK
      <4> HIDE DEF GeoInv
      <4>2. QED
        BY <4>1, CountSet
    <3>7. QED
      BY <3>2, <3>3, <3>5, <3>6 DEF SlotAccounting, TypeOK
  <2>3. QED
    BY <2>1, <2>2
<1>6. CancelledMeansOwnContext'
  BY DEF LookupStart, Join, CancelledMeansOwnContext
<1>7. ASSUME NEW g \in Gens
      PROVE  FlightInv(g)' /\ SharingInv(g)'
  <2>1. CASE g = n
    <3>0. /\ queueLease'[g] <=> ~hasActive
          /\ holds'[g] <=> hasActive
          /\ fpc'[g] = IF hasActive THEN "starting" ELSE "acquiring"
          /\ terminal'[g] = terminal[g] /\ abandoned'[g] = abandoned[g]
          /\ cancelled'[g] = cancelled[g] /\ result'[g] = result[g]
      BY <1>b, <2>1 DEF TypeOK
    <3>a. ~(g > gen')
      BY <1>0, <2>1
    <3>1. FlightInv(g)'
      BY <1>a, <2>1, <3>0, <3>a DEF FlightInv
    <3>2. Cardinality(Waiting(n)) = 0
      BY <1>0, <1>a DEF SharingInv
    <3>3. QED
      BY <1>b, <1>0, <1>a, <1>3, <2>1, <3>1, <3>2 DEF SharingInv, TypeOK
  <2>2. CASE g # n
    <3>1. /\ fpc'[g] = fpc[g] /\ holds'[g] = holds[g] /\ queueLease'[g] = queueLease[g]
          /\ waiters'[g] = waiters[g] /\ address'[g] = address[g]
          /\ UNCHANGED <<terminal, abandoned, cancelled, result>>
      BY <1>b, <1>0, <2>2 DEF TypeOK
    <3>2. g > gen' <=> g > gen
      BY <1>0, <2>2 DEF TypeOK, Gens
    <3>3. FlightInv(g)'
      BY <3>1, <3>2 DEF FlightInv
    <3>4. g <= gen' <=> g <= gen
      BY <1>0, <2>2 DEF TypeOK, Gens
    <3>5. inflight[address[g]] = g => inflight'[address[g]] = g
      BY <1>b, <1>0, <2>2 DEF TypeOK, Gens
    <3>6. QED
      BY <1>2, <2>2, <3>1, <3>3, <3>4, <3>5 DEF SharingInv
  <2>3. QED
    BY <2>1, <2>2
<1>8. ASSUME NEW b \in Addresses
      PROVE  TableInv(b)'
  <2>1. cache'[b] \in {0, cache[b]} /\ cache[b] <= gen /\ cache'[b] \in Nat /\ cache'[b] <= gen
    BY DEF LookupStart, DropExpired, TableInv, TypeOK
  <2>2. CASE b = a
    <3>1. inflight'[b] = n /\ address'[n] = b /\ n \in 1 .. gen'
      BY <1>b, <1>0, <2>2 DEF TypeOK, Gens
    <3>2. ~terminal'[n] /\ ~abandoned'[n]
      BY <1>a, <1>b
    <3>3. cache'[b] < n /\ cache'[b] <= gen'
      BY <1>0, <2>1
    <3>4. QED
      BY <3>1, <3>2, <3>3 DEF TableInv
  <2>3. CASE b # a
    <3>1. inflight'[b] = inflight[b] /\ inflight[b] # n
      BY <1>b, <1>0, <2>3 DEF TableInv, TypeOK
    <3>2. inflight[b] # 0 => address'[inflight[b]] = address[inflight[b]]
      BY <1>b, <1>0, <3>1 DEF TableInv, TypeOK, Gens
    <3>3. QED
      BY <1>b, <1>0, <2>1, <3>1, <3>2 DEF TableInv, TypeOK
  <2>4. QED
    BY <2>2, <2>3
<1>9. ASSUME NEW d \in Callers
      PROVE  CallerInv(d)'
  <2>1. d # c => pc'[d] = pc[d] /\ joined'[d] = joined[d]
    BY <1>b DEF TypeOK
  <2>2. d = c => joined'[d] = n
    BY <1>b DEF TypeOK
  <2>3. n \in 1 .. gen'
    BY <1>0 DEF Gens
  <2>4. pc[d] = "waiting" => joined[d] \in 1 .. gen'
    BY <1>0 DEF CallerInv
  <2>5. QED
    BY <2>1, <2>2, <2>3, <2>4 DEF CallerInv
<1>10. QED
  BY <1>4, <1>5, <1>6, <1>7, <1>8, <1>9

(* A waiting caller that returns takes itself off its flight. *)
LEMMA OneLeaves ==
    ASSUME GeoInv, NEW c \in Callers, pc[c] = "waiting",
           pc' = [pc EXCEPT ![c] = "returned"], joined' = joined,
           waiters' = [waiters EXCEPT ![joined[c]] = @ - 1]
    PROVE  /\ waiters' \in [Gens -> Nat]
           /\ \A g \in Gens : waiters'[g] = Cardinality(Waiting(g)')
           /\ \A g \in Gens : g # joined[c] => waiters'[g] = waiters[g]
           /\ waiters'[joined[c]] = waiters[joined[c]] - 1
<1> PICK f \in Gens : f = joined[c]
  BY WaitingCaller
<1>1. waiters[f] \in Nat /\ waiters[f] > 0
  BY WaitingCaller DEF GeoInv, TypeOK
<1>2. c \in Waiting(f) /\ Waiting(f)' = Waiting(f) \ {c}
  BY DEF Waiting, GeoInv, TypeOK
<1>3. Cardinality(Waiting(f)') = Cardinality(Waiting(f)) - 1
  BY <1>2, Finiteness, FS_RemoveElement
<1>4. ASSUME NEW g, g # f
      PROVE  Waiting(g)' = Waiting(g)
  BY <1>4 DEF Waiting, GeoInv, TypeOK
<1>5. \A g \in Gens : waiters[g] = Cardinality(Waiting(g))
  BY DEF GeoInv, SharingInv
<1>6. waiters'[f] = waiters[f] - 1 /\ \A g \in Gens : g # f => waiters'[g] = waiters[g]
  BY DEF GeoInv, TypeOK
<1>7. waiters' \in [Gens -> Nat]
  BY <1>1 DEF GeoInv, TypeOK
<1>8. ASSUME NEW g \in Gens
      PROVE  waiters'[g] = Cardinality(Waiting(g)')
  BY <1>3, <1>4, <1>5, <1>6
<1>9. QED
  BY <1>5, <1>6, <1>7, <1>8

(* A flight that has ended answers.  It can only answer "cancelled" if it  *)
(* was abandoned, and then nobody waits.                                   *)
LEMMA WaitTerminalInv ==
    ASSUME GeoInv, NEW c \in Callers, WaitTerminal(c)
    PROVE  GeoInv'
<1> USE GeoIPAssumption DEF GeoInv
<1> PICK f \in Gens : f = joined[c]
  BY WaitingCaller DEF WaitTerminal
<1>1. pc[c] = "waiting" /\ terminal[f] /\ ~abandoned[f] /\ result[f] # "cancelled"
  BY WaitingCaller DEF WaitTerminal, FlightInv
<1>2. /\ UNCHANGED <<joined, ctxDone, gen, address, terminal, abandoned, cancelled, queueLease,
                     result, fpc, holds, inflight, active, queued, cacheVars>>
      /\ pc' = [pc EXCEPT ![c] = "returned"] /\ got' = [got EXCEPT ![c] = result[f]]
      /\ waiters' = [waiters EXCEPT ![joined[c]] = @ - 1]
  BY DEF WaitTerminal, Return
<1>3. /\ waiters' \in [Gens -> Nat]
      /\ \A g \in Gens : waiters'[g] = Cardinality(Waiting(g)')
      /\ \A g \in Gens : g # f => waiters'[g] = waiters[g]
  BY <1>1, <1>2, OneLeaves
<1>4. TypeOK'
  <2>1. pc' \in [Callers -> {"idle", "waiting", "returned"}]
    BY <1>2 DEF TypeOK
  <2>2. result[f] \in ProviderResults \cup {"none", "cancelled", "busy"}
    BY DEF TypeOK
  <2>3. got' \in [Callers -> ProviderResults \cup {"none", "cancelled", "busy"}]
    BY <1>2, <2>2 DEF TypeOK
  <2>4. QED
    BY <1>2, <1>3, <2>1, <2>3 DEF TypeOK, cacheVars
<1>5. SlotAccounting'
  BY <1>2 DEF SlotAccounting
<1>6. CancelledMeansOwnContext'
  BY <1>1, <1>2 DEF CancelledMeansOwnContext, TypeOK
<1>7. ASSUME NEW g \in Gens
      PROVE  FlightInv(g)' /\ SharingInv(g)'
  <2>1. g > gen => waiters'[g] = 0
    <3>1. f <= gen
      BY <1>1, WaitingCaller
    <3>2. g > gen => g # f
      BY <3>1 DEF TypeOK, Gens
    <3>3. g > gen => waiters[g] = 0
      BY DEF FlightInv
    <3>4. g # f => waiters'[g] = waiters[g]
      BY <1>3
    <3>5. QED
      BY <3>2, <3>3, <3>4
  <2>2. FlightInv(g)'
    BY <1>2, <2>1 DEF FlightInv
  <2>3. SharingInv(g)'
    <3>1. waiters'[g] = Cardinality(Waiting(g)') /\ (g # f => waiters'[g] = waiters[g])
      BY <1>3
    <3>2. /\ g <= gen /\ ~terminal[g] /\ ~abandoned[g] => inflight[address[g]] = g /\ waiters[g] > 0
          /\ abandoned[g] => waiters[g] = 0
      BY DEF SharingInv
    <3>3. /\ g <= gen /\ ~terminal[g] /\ ~abandoned[g] => inflight[address[g]] = g /\ waiters'[g] > 0
          /\ abandoned[g] => waiters'[g] = 0
      BY <1>1, <3>1, <3>2
    <3>4. QED
      BY <1>2, <3>1, <3>3 DEF SharingInv
  <2>4. QED
    BY <2>2, <2>3
<1>8. \A a \in Addresses : TableInv(a)'
  BY <1>2 DEF TableInv, cacheVars
<1>9. \A d \in Callers : CallerInv(d)'
  BY <1>2 DEF CallerInv, TypeOK
<1>10. QED
  BY <1>4, <1>5, <1>6, <1>7, <1>8, <1>9

(* A caller leaves an open flight; the last one takes it out of the table  *)
(* and gives its queue place back.                                         *)
LEMMA WaitCancelledInv ==
    ASSUME GeoInv, NEW c \in Callers, WaitCancelled(c)
    PROVE  GeoInv'
<1> USE GeoIPAssumption DEF GeoInv
<1> PICK f \in Gens : f = joined[c]
  BY WaitingCaller DEF WaitCancelled
<1>1. pc[c] = "waiting" /\ ~terminal[f] /\ ~abandoned[f] /\ ctxDone[c] /\ f <= gen
  BY WaitingCaller DEF WaitCancelled
<1>2. /\ UNCHANGED <<joined, ctxDone, gen, address, terminal, result, fpc, holds, active,
                     cacheVars>>
      /\ pc' = [pc EXCEPT ![c] = "returned"] /\ got' = [got EXCEPT ![c] = "cancelled"]
      /\ waiters' = [waiters EXCEPT ![joined[c]] = @ - 1]
  BY DEF WaitCancelled, Return
<1>3. /\ waiters' \in [Gens -> Nat]
      /\ waiters'[f] = waiters[f] - 1
      /\ \A g \in Gens : waiters'[g] = Cardinality(Waiting(g)')
      /\ \A g \in Gens : g # f => waiters'[g] = waiters[g]
  BY <1>1, <1>2, OneLeaves
<1>4. inflight[address[f]] = f
  BY <1>1 DEF SharingInv
<1>5. \/ /\ waiters[f] = 1
         /\ abandoned' = [abandoned EXCEPT ![f] = TRUE]
         /\ cancelled' = [cancelled EXCEPT ![f] = TRUE]
         /\ inflight' = [inflight EXCEPT ![address[f]] = 0]
         /\ ReleaseQueue(f)
      \/ waiters[f] # 1 /\ UNCHANGED <<abandoned, cancelled, inflight, queueLease, queued>>
  BY <1>4 DEF WaitCancelled, LastWaiter, TypeOK
<1>6. /\ queueLease' \in [Gens -> BOOLEAN] /\ queued' \in Nat
      /\ queued' = Cardinality({h \in Gens : queueLease'[h]}) /\ queued' <= MaxQueued
      /\ \A h \in Gens : h # f => queueLease'[h] = queueLease[h]
      /\ abandoned'[f] => ~queueLease'[f]
      /\ queueLease'[f] => queueLease[f]
  <2>1. CASE ReleaseQueue(f)
    BY <2>1, ReleaseQueueCounts
  <2>2. CASE UNCHANGED <<abandoned, queueLease, queued>>
    BY <1>1, <2>2 DEF SlotAccounting, TypeOK
  <2>3. QED
    BY <1>5, <2>1, <2>2
<1>7. TypeOK'
  <2>1. pc' \in [Callers -> {"idle", "waiting", "returned"}]
        /\ got' \in [Callers -> ProviderResults \cup {"none", "cancelled", "busy"}]
    BY <1>2 DEF TypeOK
  <2>2. abandoned' \in [Gens -> BOOLEAN] /\ cancelled' \in [Gens -> BOOLEAN]
    BY <1>5 DEF TypeOK
  <2>3. inflight' \in [Addresses -> 0 .. MaxGenerations]
    BY <1>5 DEF TypeOK
  <2>4. QED
    BY <1>2, <1>3, <1>6, <2>1, <2>2, <2>3 DEF TypeOK, cacheVars
<1>8. SlotAccounting'
  BY <1>2, <1>6 DEF SlotAccounting
<1>9. CancelledMeansOwnContext'
  BY <1>1, <1>2 DEF CancelledMeansOwnContext, TypeOK
<1>10. \A g \in Gens : g # f => abandoned'[g] = abandoned[g] /\ cancelled'[g] = cancelled[g]
  BY <1>5 DEF TypeOK
<1>11. ASSUME NEW g \in Gens
       PROVE  FlightInv(g)' /\ SharingInv(g)'
  <2>1. CASE g = f
    <3>0. ~cancelled[g] /\ ~abandoned[g]
      BY <1>1, <2>1 DEF FlightInv
    <3>a. ASSUME waiters[f] = 1, abandoned' = [abandoned EXCEPT ![f] = TRUE],
                 cancelled' = [cancelled EXCEPT ![f] = TRUE]
          PROVE  abandoned'[g] /\ cancelled'[g] /\ waiters[g] = 1
      BY <2>1, <3>a DEF TypeOK
    <3>b. ASSUME waiters[f] # 1, UNCHANGED <<abandoned, cancelled>>
          PROVE  ~abandoned'[g] /\ ~cancelled'[g] /\ waiters[g] # 1
      BY <2>1, <3>0, <3>b DEF TypeOK
    <3>1. (abandoned'[g] <=> cancelled'[g]) /\ (abandoned'[g] <=> waiters[g] = 1)
      BY <1>5, <3>a, <3>b
    <3>2. ~(g > gen) /\ ~terminal'[g]
      BY <1>1, <1>2, <2>1 DEF TypeOK, Gens
    <3>3. FlightInv(g)'
      BY <1>1, <1>2, <1>6, <2>1, <3>1, <3>2 DEF FlightInv
    <3>4. waiters[g] \in Nat /\ waiters[g] > 0
      BY <1>1, <2>1, WaitingCaller DEF TypeOK
    <3>5. waiters[g] # 1 => inflight'[address[g]] = g
      BY <1>4, <1>5, <2>1
    <3>6. waiters'[g] = Cardinality(Waiting(g)') /\ waiters'[g] = waiters[g] - 1
      BY <1>3, <2>1
    <3>7. /\ g <= gen /\ ~terminal'[g] /\ ~abandoned'[g] => inflight'[address[g]] = g /\ waiters'[g] > 0
          /\ abandoned'[g] => waiters'[g] = 0
      BY <3>1, <3>4, <3>5, <3>6
    <3>8. QED
      BY <1>2, <3>3, <3>6, <3>7 DEF SharingInv
  <2>2. CASE g # f
    <3>1. FlightInv(g)'
      BY <1>2, <1>3, <1>6, <1>10, <2>2 DEF FlightInv
    <3>2. inflight[address[g]] = g => inflight'[address[g]] = g
      BY <1>4, <1>5, <2>2 DEF TypeOK
    <3>3. waiters'[g] = Cardinality(Waiting(g)') /\ waiters'[g] = waiters[g]
      BY <1>3, <2>2
    <3>4. (abandoned'[g] <=> abandoned[g]) /\ (terminal'[g] <=> terminal[g])
      BY <1>2, <1>10, <2>2
    <3>5. /\ g <= gen /\ ~terminal[g] /\ ~abandoned[g] => inflight[address[g]] = g /\ waiters[g] > 0
          /\ abandoned[g] => waiters[g] = 0
      BY DEF SharingInv
    <3>6. QED
      BY <1>2, <3>1, <3>2, <3>3, <3>4, <3>5 DEF SharingInv
  <2>3. QED
    BY <2>1, <2>2
<1>12. ASSUME NEW a \in Addresses
       PROVE  TableInv(a)'
  <2>1. inflight'[a] = inflight[a] \/ inflight'[a] = 0
    BY <1>5 DEF TypeOK
  <2>2. inflight'[a] # 0 => inflight'[a] # f \/ UNCHANGED abandoned
    BY <1>4, <1>5 DEF TableInv, TypeOK
  <2>3. inflight'[a] # 0 => ~abandoned'[inflight'[a]]
    <3>1. ASSUME inflight'[a] # 0
          PROVE  ~abandoned'[inflight'[a]]
      <4>0. inflight'[a] = inflight[a] /\ inflight[a] # 0
        BY <2>1, <3>1
      <4>1. inflight'[a] = inflight[a] /\ inflight[a] \in Gens /\ ~abandoned[inflight[a]]
        BY <4>0 DEF TableInv, TypeOK, Gens
      <4>2. CASE inflight'[a] # f
        BY <1>10, <4>1, <4>2
      <4>3. CASE UNCHANGED abandoned
        BY <4>1, <4>3
      <4>4. QED
        BY <2>2, <3>1, <4>2, <4>3
    <3>2. QED
      BY <3>1
  <2>4. QED
    BY <1>2, <2>1, <2>3 DEF TableInv, cacheVars
<1>13. \A d \in Callers : CallerInv(d)'
  BY <1>2 DEF CallerInv, TypeOK
<1>14. QED
  BY <1>7, <1>8, <1>9, <1>11, <1>12, <1>13

(* What is left to show of a step of runFlight before its completion. *)
LEMMA QuietFlightStep ==
    ASSUME GeoInv,
           UNCHANGED <<callVars, gen, address, waiters, terminal, abandoned, cancelled, inflight,
                       cacheVars>>,
           TypeOK', SlotAccounting', \A g \in Gens : FlightInv(g)'
    PROVE  GeoInv'
<1> USE DEF GeoInv, callVars, cacheVars
<1>1. \A g : Waiting(g)' = Waiting(g)
  BY DEF Waiting
<1>2. \A g \in Gens : SharingInv(g)'
  BY <1>1 DEF SharingInv
<1>3. CancelledMeansOwnContext'
  BY DEF CancelledMeansOwnContext
<1>4. \A a \in Addresses : TableInv(a)'
  BY DEF TableInv
<1>5. \A c \in Callers : CallerInv(c)'
  BY DEF CallerInv
<1>6. QED
  BY <1>2, <1>3, <1>4, <1>5

LEMMA FlightAcquireInv ==
    ASSUME GeoInv, NEW f \in Gens, FlightAcquire(f)
    PROVE  GeoInv'
<1> USE GeoIPAssumption
<1>1. ~holds[f] /\ holds \in [Gens -> BOOLEAN] /\ IsFiniteSet(Gens)
  BY Finiteness DEF GeoInv, FlightInv, FlightAcquire, TypeOK
<1>2. Cardinality({g \in Gens : [holds EXCEPT ![f] = TRUE][g]})
        = Cardinality({g \in Gens : holds[g]}) + 1
  BY <1>1, CountSet
<1>3. SlotAccounting'
  BY <1>2 DEF GeoInv, SlotAccounting, FlightAcquire, flightVars, TypeOK
<1>4. TypeOK'
  <2>1. fpc' \in [Gens -> FlightStates] /\ holds' \in [Gens -> BOOLEAN] /\ active' \in Nat
    BY DEF GeoInv, TypeOK, FlightAcquire, FlightStates
  <2>2. QED
    BY <2>1 DEF GeoInv, TypeOK, FlightAcquire, callVars, flightVars, cacheVars
<1>5. ASSUME NEW g \in Gens
      PROVE  FlightInv(g)'
  <2>1. g # f => fpc'[g] = fpc[g] /\ (holds'[g] <=> holds[g])
    BY DEF GeoInv, TypeOK, FlightAcquire
  <2>2. g = f => fpc[g] = "acquiring" /\ fpc'[g] = "starting" /\ holds'[g]
    BY DEF GeoInv, TypeOK, FlightAcquire
  <2>3. UNCHANGED <<gen, flightVars>>
    BY DEF FlightAcquire
  <2>4. QED
    BY <2>1, <2>2, <2>3 DEF GeoInv, FlightInv, flightVars
<1>6. QED
  BY <1>3, <1>4, <1>5, QuietFlightStep DEF FlightAcquire, flightVars

LEMMA FlightReleaseSlotInv ==
    ASSUME GeoInv, NEW f \in Gens, FlightReleaseSlot(f)
    PROVE  GeoInv'
<1> USE GeoIPAssumption
<1>1. holds[f] /\ holds \in [Gens -> BOOLEAN] /\ IsFiniteSet(Gens)
  BY Finiteness DEF GeoInv, FlightInv, FlightReleaseSlot, TypeOK
<1>2. /\ Cardinality({g \in Gens : [holds EXCEPT ![f] = FALSE][g]})
            = Cardinality({g \in Gens : holds[g]}) - 1
      /\ Cardinality({g \in Gens : holds[g]}) \in Nat \ {0}
  BY <1>1, CountClear
<1>3. SlotAccounting' /\ active' \in Nat
  BY <1>2 DEF GeoInv, SlotAccounting, FlightReleaseSlot, flightVars, TypeOK
<1>4. TypeOK'
  <2>1. fpc' \in [Gens -> FlightStates] /\ holds' \in [Gens -> BOOLEAN]
    BY DEF GeoInv, TypeOK, FlightReleaseSlot, FlightStates
  <2>2. QED
    BY <1>3, <2>1 DEF GeoInv, TypeOK, FlightReleaseSlot, callVars, flightVars, cacheVars
<1>5. ASSUME NEW g \in Gens
      PROVE  FlightInv(g)'
  <2>1. g # f => fpc'[g] = fpc[g] /\ (holds'[g] <=> holds[g])
    BY DEF GeoInv, TypeOK, FlightReleaseSlot
  <2>2. g = f => fpc[g] = "releasing" /\ fpc'[g] = "completing" /\ ~holds'[g]
    BY DEF GeoInv, TypeOK, FlightReleaseSlot
  <2>3. UNCHANGED <<gen, flightVars>>
    BY DEF FlightReleaseSlot
  <2>4. QED
    BY <2>1, <2>2, <2>3 DEF GeoInv, FlightInv, flightVars
<1>6. QED
  BY <1>3, <1>4, <1>5, QuietFlightStep DEF FlightReleaseSlot, flightVars

LEMMA ProviderReturnInv ==
    ASSUME GeoInv, NEW f \in Gens, ProviderReturn(f)
    PROVE  GeoInv'
<1>1. SlotAccounting'
  BY DEF GeoInv, SlotAccounting, ProviderReturn
<1>2. TypeOK'
  <2>1. fpc' \in [Gens -> FlightStates]
        /\ result' \in [Gens -> ProviderResults \cup {"none", "cancelled"}]
    BY DEF GeoInv, TypeOK, ProviderReturn, FlightStates
  <2>2. QED
    BY <2>1 DEF GeoInv, TypeOK, ProviderReturn, callVars, cacheVars
<1>3. ASSUME NEW g \in Gens
      PROVE  FlightInv(g)'
  <2>1. g # f => fpc'[g] = fpc[g] /\ result'[g] = result[g]
    BY DEF GeoInv, TypeOK, ProviderReturn
  <2>2. g = f => fpc[g] = "fetching" /\ fpc'[g] = "releasing" /\ result'[g] # "cancelled"
    BY DEF GeoInv, TypeOK, ProviderReturn, ProviderResults
  <2>3. UNCHANGED <<gen, waiters, queueLease, holds, terminal, abandoned, cancelled>>
    BY DEF ProviderReturn
  <2>4. QED
    BY <2>1, <2>2, <2>3 DEF GeoInv, FlightInv
<1>4. QED
  BY <1>1, <1>2, <1>3, QuietFlightStep DEF ProviderReturn

(* Leaving the queue and the start arbitration give a queue place back     *)
(* that only a flight nobody abandoned still has.                          *)
LEMMA FlightLeavesQueueInv ==
    ASSUME GeoInv, NEW f \in Gens, FlightAbort(f) \/ FlightStart(f)
    PROVE  GeoInv'
<1> USE GeoIPAssumption
<1>1. ReleaseQueue(f)
      /\ UNCHANGED <<callVars, gen, address, waiters, terminal, abandoned, cancelled, holds,
                     inflight, active, cacheVars>>
  BY DEF FlightAbort, FlightStart
<1>2. /\ queueLease' \in [Gens -> BOOLEAN] /\ queued' \in Nat
      /\ queued' = Cardinality({h \in Gens : queueLease'[h]}) /\ queued' <= MaxQueued
      /\ ~queueLease'[f]
      /\ \A h \in Gens : h # f => queueLease'[h] = queueLease[h]
  BY <1>1, ReleaseQueueCounts
<1>3. SlotAccounting'
  BY <1>1, <1>2 DEF GeoInv, SlotAccounting
<1>4. TypeOK'
  <2>1. fpc' \in [Gens -> FlightStates]
    BY DEF GeoInv, TypeOK, FlightAbort, FlightStart, FlightStates
  <2>2. result' \in [Gens -> ProviderResults \cup {"none", "cancelled"}]
    BY DEF GeoInv, TypeOK, FlightAbort, FlightStart
  <2>3. QED
    BY <1>1, <1>2, <2>1, <2>2 DEF GeoInv, TypeOK, callVars, cacheVars
<1>5. fpc[f] \in {"acquiring", "starting"} /\ ~terminal[f] /\ (cancelled[f] <=> abandoned[f])
  BY DEF GeoInv, FlightInv, FlightAbort, FlightStart
<1>6. ASSUME NEW g \in Gens
      PROVE  FlightInv(g)'
  <2>1. g # f => fpc'[g] = fpc[g] /\ result'[g] = result[g] /\ queueLease'[g] = queueLease[g]
    BY <1>2 DEF GeoInv, TypeOK, FlightAbort, FlightStart
  <2>2. g = f =>
          \/ fpc[g] = "acquiring" /\ fpc'[g] = "completing" /\ abandoned[g]
          \/ fpc[g] = "starting" /\ fpc'[g] = "releasing" /\ abandoned[g]
          \/ fpc[g] = "starting" /\ fpc'[g] = "fetching" /\ result'[g] = result[g]
    BY <1>5 DEF GeoInv, TypeOK, FlightAbort, FlightStart
  <2>3. g = f => ~queueLease'[g] /\ g <= gen /\ ~(g > gen)
    BY <1>2, <1>5 DEF GeoInv, FlightInv, TypeOK, Gens
  <2>4. QED
    BY <1>1, <2>1, <2>2, <2>3 DEF GeoInv, FlightInv
<1>7. QED
  BY <1>1, <1>3, <1>4, <1>6, QuietFlightStep

(* Storing keeps the types, replaces at most the entry of the address and  *)
(* otherwise only takes entries away.                                      *)
LEMMA StoreEffect ==
    ASSUME GeoInv, NEW a \in Addresses, NEW g \in Gens, Store(a, g)
    PROVE  /\ cache' \in [Addresses -> 0 .. MaxGenerations]
           /\ expired' \in [Addresses -> BOOLEAN]
           /\ access' \in [Addresses -> Nat] /\ accessSequence' \in Nat
           /\ cache'[a] = g
           /\ \A b \in Addresses : b # a => cache'[b] \in {0, cache[b]}
<1> USE GeoIPAssumption
<1>1. PICK evicted : LET kept == (Live \ evicted) \cup {a} IN
        /\ cache' = [b \in Addresses |-> IF b = a THEN g ELSE IF b \in kept THEN cache[b] ELSE 0]
        /\ expired' = [b \in Addresses |-> FALSE]
        /\ access' = [b \in Addresses |-> IF b = a THEN accessSequence + 1
                                          ELSE IF b \in kept THEN access[b] ELSE 0]
        /\ accessSequence' = accessSequence + 1
  BY Zenon DEF Store
<1>2. g \in 0 .. MaxGenerations /\ 0 \in 0 .. MaxGenerations
  BY DEF Gens
<1>3. cache' \in [Addresses -> 0 .. MaxGenerations]
  BY <1>1, <1>2 DEF GeoInv, TypeOK
<1>4. access' \in [Addresses -> Nat] /\ accessSequence' \in Nat
  BY <1>1 DEF GeoInv, TypeOK
<1>5. expired' \in [Addresses -> BOOLEAN]
  BY <1>1
<1>6. cache'[a] = g /\ \A b \in Addresses : b # a => cache'[b] \in {0, cache[b]}
  BY <1>1
<1>7. QED
  BY <1>3, <1>4, <1>5, <1>6

(* The flight ends: it leaves the table if it is still in it, and only     *)
(* then may its answer enter the cache.                                    *)
LEMMA CompleteFlightInv ==
    ASSUME GeoInv, NEW f \in Gens, CompleteFlight(f)
    PROVE  GeoInv'
<1> USE GeoIPAssumption
<1>1. /\ fpc[f] = "completing" /\ fpc' = [fpc EXCEPT ![f] = "ended"]
      /\ ReleaseQueue(f)
      /\ terminal' = [terminal EXCEPT ![f] = TRUE]
      /\ cancelled' = [cancelled EXCEPT ![f] = TRUE]
      /\ inflight' = [inflight EXCEPT ![address[f]] = IF @ = f THEN 0 ELSE @]
      /\ UNCHANGED <<callVars, gen, address, waiters, abandoned, result, holds, active>>
  BY DEF CompleteFlight
<1>2. /\ queueLease' \in [Gens -> BOOLEAN] /\ queued' \in Nat
      /\ queued' = Cardinality({h \in Gens : queueLease'[h]}) /\ queued' <= MaxQueued
      /\ ~queueLease'[f]
      /\ \A h \in Gens : h # f => queueLease'[h] = queueLease[h]
  BY <1>1, ReleaseQueueCounts
<1>3. /\ cache' \in [Addresses -> 0 .. MaxGenerations]
      /\ expired' \in [Addresses -> BOOLEAN]
      /\ access' \in [Addresses -> Nat] /\ accessSequence' \in Nat
      /\ \A b \in Addresses : b # address[f] => cache'[b] \in {0, cache[b]}
      /\ cache'[address[f]] = cache[address[f]]
         \/ (cache'[address[f]] = f /\ inflight[address[f]] = f)
  <2>0. address[f] \in Addresses
    BY DEF GeoInv, TypeOK
  <2>1. CASE Store(address[f], f) /\ MayCache(f)
    BY <2>0, <2>1, StoreEffect DEF MayCache
  <2>2. CASE UNCHANGED cacheVars
    <3>1. cache' = cache /\ expired' = expired /\ access' = access
          /\ accessSequence' = accessSequence
      BY <2>2 DEF cacheVars
    <3>2. cache'[address[f]] = cache[address[f]]
          /\ \A b \in Addresses : b # address[f] => cache'[b] \in {0, cache[b]}
      BY <3>1
    <3>3. /\ cache' \in [Addresses -> 0 .. MaxGenerations]
          /\ expired' \in [Addresses -> BOOLEAN]
          /\ access' \in [Addresses -> Nat] /\ accessSequence' \in Nat
      BY <3>1 DEF GeoInv, TypeOK
    <3>4. QED
      BY <3>2, <3>3
  <2>3. QED
    BY <2>1, <2>2 DEF CompleteFlight
<1>4. \A g : Waiting(g)' = Waiting(g)
  BY <1>1 DEF Waiting, callVars
<1>5. TypeOK'
  <2>1. fpc' \in [Gens -> FlightStates]
    BY <1>1 DEF GeoInv, TypeOK, FlightStates
  <2>2. terminal' \in [Gens -> BOOLEAN] /\ cancelled' \in [Gens -> BOOLEAN]
    BY <1>1 DEF GeoInv, TypeOK
  <2>3. inflight' \in [Addresses -> 0 .. MaxGenerations]
    BY <1>1 DEF GeoInv, TypeOK
  <2>4. QED
    BY <1>1, <1>2, <1>3, <2>1, <2>2, <2>3 DEF GeoInv, TypeOK, callVars
<1>6. SlotAccounting'
  BY <1>1, <1>2 DEF GeoInv, SlotAccounting
<1>7. f <= gen /\ ~(f > gen)
  BY <1>1 DEF GeoInv, FlightInv, TypeOK, Gens
<1>8. \A g \in Gens : g # f => /\ fpc'[g] = fpc[g] /\ terminal'[g] = terminal[g]
                              /\ cancelled'[g] = cancelled[g]
  BY <1>1 DEF GeoInv, TypeOK
<1>9. fpc'[f] = "ended" /\ terminal'[f] /\ cancelled'[f]
  BY <1>1 DEF GeoInv, TypeOK
<1>10. ASSUME NEW g \in Gens
       PROVE  FlightInv(g)' /\ SharingInv(g)'
  <2>1. CASE g = f
    <3>1. FlightInv(g)'
      BY <1>1, <1>2, <1>7, <1>9, <2>1 DEF GeoInv, FlightInv
    <3>2. SharingInv(g)'
      BY <1>1, <1>4, <1>9, <2>1 DEF GeoInv, SharingInv
    <3>3. QED
      BY <3>1, <3>2
  <2>2. CASE g # f
    <3>1. FlightInv(g)'
      BY <1>1, <1>2, <1>8, <2>2 DEF GeoInv, FlightInv
    <3>2. inflight[address[g]] = g => inflight'[address[g]] = g
      BY <1>1, <2>2 DEF GeoInv, TypeOK
    <3>3. SharingInv(g)'
      BY <1>1, <1>4, <1>8, <2>2, <3>2 DEF GeoInv, SharingInv
    <3>4. QED
      BY <3>1, <3>3
  <2>3. QED
    BY <2>1, <2>2
<1>11. ASSUME NEW a \in Addresses
       PROVE  TableInv(a)'
  <2>1. inflight'[a] = 0 \/ inflight'[a] = inflight[a]
    BY <1>1 DEF GeoInv, TypeOK
  <2>2. inflight'[a] # f
    <3>1. inflight[a] = f => address[f] = a
      BY DEF GeoInv, TableInv, Gens
    <3>2. f # 0
      BY DEF Gens
    <3>3. CASE a = address[f]
      BY <1>1, <3>2, <3>3 DEF GeoInv, TypeOK
    <3>4. CASE a # address[f]
      BY <1>1, <3>1, <3>4 DEF GeoInv, TypeOK
    <3>5. QED
      BY <3>3, <3>4
  <2>3. cache'[a] <= gen'
    BY <1>1, <1>3, <1>7 DEF GeoInv, TableInv, TypeOK
  <2>4. ASSUME inflight'[a] # 0
        PROVE  /\ inflight'[a] \in 1 .. gen' /\ address'[inflight'[a]] = a
               /\ ~terminal'[inflight'[a]] /\ ~abandoned'[inflight'[a]]
    <3>1. inflight'[a] = inflight[a] /\ inflight[a] # 0 /\ inflight[a] # f
      BY <2>1, <2>2, <2>4
    <3>2. /\ inflight[a] \in 1 .. gen /\ address[inflight[a]] = a /\ inflight[a] \in Gens
          /\ ~terminal[inflight[a]] /\ ~abandoned[inflight[a]]
      BY <3>1 DEF GeoInv, TableInv, TypeOK, Gens
    <3>3. QED
      BY <1>1, <1>8, <3>1, <3>2
  <2>5. ASSUME inflight'[a] # 0
        PROVE  cache'[a] < inflight'[a]
    <3>1. inflight'[a] = inflight[a] /\ inflight[a] # 0 /\ inflight[a] # f
      BY <2>1, <2>2, <2>5
    <3>2. cache'[a] \in {0, cache[a]}
      <4>1. CASE a = address[f]
        BY <1>3, <3>1, <4>1
      <4>2. CASE a # address[f]
        BY <1>3, <4>2
      <4>3. QED
        BY <4>1, <4>2
    <3>3. QED
      BY <3>1, <3>2 DEF GeoInv, TableInv, TypeOK
  <2>6. QED
    BY <2>3, <2>4, <2>5 DEF TableInv
<1>12. CancelledMeansOwnContext' /\ \A c \in Callers : CallerInv(c)'
  BY <1>1 DEF GeoInv, CancelledMeansOwnContext, CallerInv, callVars
<1>13. QED
  BY <1>5, <1>6, <1>10, <1>11, <1>12 DEF GeoInv

-----------------------------------------------------------------------------
(* Every step preserves the invariant. *)
LEMMA GeoNextInv == GeoInv /\ [Next]_vars => GeoInv'
<1> SUFFICES ASSUME GeoInv, [Next]_vars
             PROVE  GeoInv'
  OBVIOUS
<1>1. ASSUME NEW c \in Callers, LookupStep(c)
      PROVE  GeoInv'
  BY <1>1, CallerStepInv, LookupJoinInv, LookupStartInv DEF LookupStep
<1>2. ASSUME NEW c \in Callers, WaitStep(c) \/ CallerCancel(c)
      PROVE  GeoInv'
  BY <1>2, WaitTerminalInv, WaitCancelledInv, CallerStepInv DEF WaitStep
<1>3. ASSUME NEW g \in Gens, FlightStep(g)
      PROVE  GeoInv'
  BY <1>3, FlightAcquireInv, FlightLeavesQueueInv, ProviderReturnInv, FlightReleaseSlotInv,
     CompleteFlightInv DEF FlightStep
<1>4. ASSUME NEW a \in Addresses, Expire(a)
      PROVE  GeoInv'
  BY <1>4, ExpireInv
<1>5. CASE UNCHANGED vars
  <2>1. UNCHANGED <<callVars, gen, flightVars, fpc, holds, inflight, active, queued, cacheVars>>
    BY <1>5 DEF vars
  <2>2. TypeOK'
    BY <2>1 DEF GeoInv, TypeOK, callVars, flightVars, cacheVars
  <2>3. SlotAccounting' /\ \A g \in Gens : FlightInv(g)'
    BY <2>1 DEF GeoInv, SlotAccounting, FlightInv, flightVars
  <2>4. QED
    BY <2>1, <2>2, <2>3, QuietFlightStep DEF flightVars
<1>6. QED
  BY <1>1, <1>2, <1>3, <1>4, <1>5 DEF Next

(* Steps other than a completion leave the live cache entries as they are. *)
LEMMA OnlyCompletionStores ==
    ASSUME GeoInv, [Next]_vars, ~ \E g \in Gens : CompleteFlight(g), NEW a \in Addresses
    PROVE  /\ cache'[a] \in {0, cache[a]}
           /\ Fresh(a) => cache'[a] = cache[a]
<1> USE DEF GeoInv, TypeOK
<1>1. ASSUME NEW c \in Callers, LookupStep(c)
      PROVE  cache'[a] \in {0, cache[a]} /\ (Fresh(a) => cache'[a] = cache[a])
  BY <1>1 DEF LookupStep, LookupCancelled, LookupHit, LookupJoin, LookupStart, LookupBusy,
     DropExpired, Fresh, cacheVars
<1>2. ASSUME NEW c \in Callers, WaitStep(c) \/ CallerCancel(c)
      PROVE  cache' = cache
  BY <1>2 DEF WaitStep, CallerCancel, WaitTerminal, WaitCancelled, cacheVars
<1>3. ASSUME NEW g \in Gens, FlightStep(g)
      PROVE  cache' = cache
  BY <1>3 DEF FlightStep, FlightAcquire, FlightAbort, FlightStart, ProviderReturn,
     FlightReleaseSlot, cacheVars
<1>4. ASSUME NEW b \in Addresses, Expire(b)
      PROVE  cache' = cache
  BY <1>4 DEF Expire
<1>5. ASSUME UNCHANGED vars
      PROVE  cache' = cache
  BY <1>5 DEF vars, cacheVars
<1>6. QED
  BY <1>1, <1>2, <1>3, <1>4, <1>5 DEF Next

(* A completion that stores evicts a least recently used entry and no other. *)
LEMMA StoreEvictsLRU ==
    ASSUME GeoInv, NEW a \in Addresses, NEW g \in Gens, Store(a, g),
           NEW b \in Addresses, Fresh(b), cache'[b] = 0
    PROVE  \A d \in Addresses : Fresh(d) => access[b] <= access[d]
<1>1. PICK evicted \in IF Evicts(a) = {} THEN {{}} ELSE {{e} : e \in Evicts(a)} :
        cache' = [d \in Addresses |-> IF d = a THEN g
                                      ELSE IF d \in (Live \ evicted) \cup {a} THEN cache[d] ELSE 0]
  BY Zenon DEF Store
<1>2. b # a
  BY <1>1 DEF Gens
<1>3. b \in Live
  BY DEF Live
<1>4. cache[b] # 0
  BY DEF Fresh
<1>5. b \in evicted
  BY <1>1, <1>2, <1>3, <1>4
<1>6. b \in Evicts(a)
  BY <1>1, <1>5
<1>7. \A d \in Live : access[b] <= access[d]
  BY <1>6 DEF Evicts
<1>8. QED
  BY <1>7 DEF Live

(* Every step keeps the cache current. *)
LEMMA CacheStepHolds == GeoInv /\ [Next]_vars => CacheStep
<1> SUFFICES ASSUME GeoInv, [Next]_vars, NEW a \in Addresses
             PROVE  /\ cache'[a] # cache[a] /\ cache'[a] # 0 =>
                          /\ cache'[a] > cache[a]
                          /\ address[cache'[a]] = a /\ result[cache'[a]] = "ok"
                          /\ ~abandoned[cache'[a]]
                    /\ Fresh(a) /\ cache'[a] = 0 =>
                          \A b \in Addresses :
                             Fresh(b) /\ cache'[b] # 0 => access[a] <= access[b]
  BY Zenon DEF CacheStep
<1>1. CASE ~ \E g \in Gens : CompleteFlight(g)
  <2>1. cache'[a] \in {0, cache[a]} /\ (Fresh(a) => cache'[a] = cache[a])
    BY <1>1, OnlyCompletionStores
  <2>2. QED
    BY <2>1 DEF Fresh
<1>2. ASSUME NEW f \in Gens, CompleteFlight(f)
      PROVE  /\ cache'[a] # cache[a] /\ cache'[a] # 0 =>
                   /\ cache'[a] > cache[a]
                   /\ address[cache'[a]] = a /\ result[cache'[a]] = "ok"
                   /\ ~abandoned[cache'[a]]
             /\ Fresh(a) /\ cache'[a] = 0 =>
                   \A b \in Addresses :
                      Fresh(b) /\ cache'[b] # 0 => access[a] <= access[b]
  <2>1. CASE UNCHANGED cacheVars
    <3>1. cache' = cache
      BY <2>1 DEF cacheVars
    <3>2. QED
      BY <3>1 DEF Fresh
  <2>2. CASE MayCache(f) /\ Store(address[f], f)
    <3>1. address[f] \in Addresses /\ inflight[address[f]] = f /\ f # 0
          /\ result[f] = "ok" /\ ~abandoned[f]
      <4>1. address[f] \in Addresses /\ f # 0
        BY GeoIPAssumption DEF GeoInv, TypeOK, Gens
      <4>2. QED
        BY <2>2, <4>1 DEF MayCache
    <3>2. cache'[address[f]] = f
          /\ \A b \in Addresses : b # address[f] => cache'[b] \in {0, cache[b]}
      BY <2>2, <3>1, StoreEffect
    <3>3. cache[address[f]] < f
      BY <3>1 DEF GeoInv, TableInv
    <3>4. cache'[a] # cache[a] /\ cache'[a] # 0 => a = address[f] /\ cache'[a] = f
      BY <3>2
    <3>5. cache'[a] # cache[a] /\ cache'[a] # 0 => cache'[a] > cache[a]
      BY <3>3, <3>4 DEF GeoInv, TypeOK, Gens
    <3>6. Fresh(a) /\ cache'[a] = 0 =>
            \A b \in Addresses : Fresh(b) => access[a] <= access[b]
      BY <2>2, <3>1, StoreEvictsLRU
    <3>7. QED
      BY <3>1, <3>4, <3>5, <3>6
  <2>3. QED
    BY <1>2, <2>1, <2>2 DEF CompleteFlight
<1>3. QED
  BY <1>1, <1>2

-----------------------------------------------------------------------------
(* The inductive invariant holds of every behaviour. *)
THEOREM GeoInvariant == Spec => []GeoInv
<1>1. Init => GeoInv
  BY GeoInitInv
<1>2. GeoInv /\ [Next]_vars => GeoInv'
  BY GeoNextInv
<1>3. QED
  BY <1>1, <1>2, PTL DEF Spec

(* However many callers, addresses and flights there are, len(l.active)    *)
(* and l.queued count exactly the flights that hold a slot or a place and  *)
(* never pass their limits: acquiring, the start arbitration, completion   *)
(* and the last caller's departure neither lose a slot nor return it twice. *)
THEOREM SlotAccountingHolds == Spec => []SlotAccounting
<1>1. GeoInv => SlotAccounting
  BY DEF GeoInv
<1>2. QED
  BY <1>1, GeoInvariant, PTL

(* Callers of one address share the one open flight of l.inflight, whose   *)
(* waiters field counts them, and an abandoned flight has none and is out  *)
(* of the table even when a later generation of its address runs.          *)
THEOREM FlightsAreSharedHolds == Spec => []FlightsAreShared
<1>1. GeoInv => FlightsAreShared
  <2> SUFFICES ASSUME GeoInv, NEW g \in 1 .. gen
               PROVE  /\ waiters[g] = Cardinality({c \in Callers : pc[c] = "waiting" /\ joined[c] = g})
                      /\ ~terminal[g] /\ ~abandoned[g] =>
                            inflight[address[g]] = g /\ waiters[g] > 0
                      /\ abandoned[g] => waiters[g] = 0 /\ inflight[address[g]] # g
    BY DEF FlightsAreShared
  <2>1. g \in Gens /\ g <= gen /\ g # 0
    BY GeoIPAssumption DEF GeoInv, TypeOK, Gens
  <2>2. SharingInv(g) /\ address[g] \in Addresses /\ TableInv(address[g])
    BY <2>1 DEF GeoInv, TypeOK
  <2>3. abandoned[g] => inflight[address[g]] # g
    BY <2>1, <2>2 DEF TableInv
  <2>4. QED
    BY <2>1, <2>2, <2>3 DEF SharingInv, Waiting
<1>2. QED
  BY <1>1, GeoInvariant, PTL

(* waitForFlight returns a cancellation only to the caller whose own       *)
(* context ended, whoever else left the flight.                            *)
THEOREM CancelledMeansOwnContextHolds == Spec => []CancelledMeansOwnContext
<1>1. GeoInv => CancelledMeansOwnContext
  BY DEF GeoInv
<1>2. QED
  BY <1>1, GeoInvariant, PTL

(* completeFlight caches only an answer of the address's current flight, a *)
(* later generation than the one it replaces, and storeCacheLocked evicts  *)
(* the least recently used live entry.                                     *)
THEOREM CacheIsCurrentHolds == Spec => CacheIsCurrent
<1>1. GeoInv /\ [Next]_vars => [CacheStep]_vars
  BY CacheStepHolds
<1>2. QED
  BY <1>1, GeoInvariant, PTL DEF Spec, CacheIsCurrent

=============================================================================
