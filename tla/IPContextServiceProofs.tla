----------------------- MODULE IPContextServiceProofs -----------------------
(***************************************************************************)
(* Proofs about IPContextService for any callers, addresses and limits,    *)
(* and that it implements OwnedWork.                                       *)
(***************************************************************************)
EXTENDS IPContextService, FiniteSetTheorems, TLAPS

Working == {"gathering", "joining"}
WorkingFlights == {g \in Gens : fpc[g] \in Working}

(* What the fields of one flight say of each other.  Whoever abandoned it, *)
(* short of the drain, none of its callers is still interested; and it     *)
(* never wakes its callers without having published or been abandoned.     *)
FlightInv(g) ==
    /\ fpc[g] = "none" <=> g > gen
    /\ g > gen => /\ registered[g] = {} /\ waiters[g] = 0
                  /\ ~abandoned[g] /\ ~published[g] /\ ~valid[g]
    /\ late[g] => fpc[g] \in Working
    /\ ready[g] <=> fpc[g] \in {"joining", "ended"}
    /\ published[g] => ready[g]
    /\ ready[g] => published[g] \/ abandoned[g]
    /\ abandoned[g] /\ ~draining => \A c \in registered[g] : ctxDone[c]
    /\ fpc[g] = "gathering" =>
          /\ flights[address[g]] = g /\ cache[address[g]] = 0
          /\ draining => abandoned[g]

(* waiterContexts holds the calls that have entered and not left. *)
MembersInv(g) ==
    /\ registered[g] = {c \in Callers : pc[c] \in {"waiting", "leaving"} /\ joined[c] = g}
    /\ waiters[g] = Cardinality(registered[g])

TableInv(a) == flights[a] # 0 => flights[a] \in 1 .. gen /\ address[flights[a]] = a

CallerInv(c) ==
    /\ pc[c] = "idle" => joined[c] = 0 /\ got[c] = "none"
    /\ pc[c] \in {"waiting", "leaving"} => joined[c] \in 1 .. gen
    /\ pc[c] = "waiting" => got[c] = "none"

DrainInv == draining <=> closing # "none"

(* The inductive invariant. *)
ContextInv ==
    /\ TypeOK
    /\ ActiveIsWork
    /\ AnswersAreReal
    /\ DrainInv
    /\ \A g \in Gens : FlightInv(g) /\ MembersInv(g)
    /\ \A a \in Addresses : TableInv(a)
    /\ \A c \in Callers : CallerInv(c)

-----------------------------------------------------------------------------
LEMMA Finiteness == IsFiniteSet(Gens) /\ \A S \in SUBSET Gens : IsFiniteSet(S)
<1>1. IsFiniteSet(Gens)
  BY IPContextAssumption, FS_Interval DEF Gens
<1>2. QED
  BY <1>1, FS_Subset

(* The initial state satisfies the invariant. *)
LEMMA ContextInitInv == Init => ContextInv
<1> SUFFICES ASSUME Init
             PROVE  ContextInv
  OBVIOUS
<1> USE IPContextAssumption
<1>1. TypeOK
  <2>1. (CHOOSE a \in Addresses : TRUE) \in Addresses /\ 0 \in 0 .. MaxGenerations
    OBVIOUS
  <2>2. /\ pc \in [Callers -> {"idle", "waiting", "leaving", "returned"}]
        /\ joined \in [Callers -> 0 .. MaxGenerations] /\ ctxDone \in [Callers -> BOOLEAN]
        /\ got \in [Callers -> {"none", "value", "error", "busy", "cancelled"}]
    BY <2>1 DEF Init
  <2>3. /\ address \in [Gens -> Addresses]
        /\ registered \in [Gens -> SUBSET Callers]
        /\ waiters \in [Gens -> Nat]
        /\ abandoned \in [Gens -> BOOLEAN] /\ published \in [Gens -> BOOLEAN]
        /\ valid \in [Gens -> BOOLEAN] /\ ready \in [Gens -> BOOLEAN]
        /\ fpc \in [Gens -> {"none", "gathering", "joining", "ended"}]
        /\ late \in [Gens -> BOOLEAN]
    BY <2>1 DEF Init
  <2>4. QED
    BY <2>1, <2>2, <2>3 DEF Init, TypeOK
<1>2. ActiveIsWork
  <2>1. {g \in Gens : fpc[g] \in {"gathering", "joining"}} = {}
    BY DEF Init
  <2>2. Cardinality({g \in Gens : fpc[g] \in {"gathering", "joining"}}) = 0
    BY <2>1, FS_EmptySet
  <2>3. QED
    BY <2>2 DEF Init, ActiveIsWork
<1>3. ASSUME NEW g \in Gens
      PROVE  FlightInv(g) /\ MembersInv(g)
  <2>1. FlightInv(g)
    BY DEF Init, FlightInv, Gens, Working
  <2>2. registered[g] = {} /\ {c \in Callers : pc[c] \in {"waiting", "leaving"} /\ joined[c] = g} = {}
    BY DEF Init
  <2>3. QED
    BY <2>1, <2>2, FS_EmptySet DEF Init, MembersInv
<1>4. AnswersAreReal /\ DrainInv
  BY DEF Init, AnswersAreReal, DrainInv
<1>5. \A a \in Addresses : TableInv(a)
  BY DEF Init, TableInv
<1>6. \A c \in Callers : CallerInv(c)
  BY DEF Init, CallerInv
<1>7. QED
  BY <1>1, <1>2, <1>3, <1>4, <1>5, <1>6 DEF ContextInv

(* Steps that leave the counted flights alone. *)
LEMMA SameWork ==
    ASSUME ActiveIsWork, UNCHANGED <<fpc, active, late, closing>>
    PROVE  ActiveIsWork'
BY DEF ActiveIsWork

(* Steps in which no call enters or leaves a flight. *)
LEMMA SameMembers ==
    ASSUME ContextInv, UNCHANGED <<joined, registered, waiters>>,
           \A d \in Callers : pc'[d] \in {"waiting", "leaving"} <=> pc[d] \in {"waiting", "leaving"}
    PROVE  \A g \in Gens : MembersInv(g)'
<1> SUFFICES ASSUME NEW g \in Gens
             PROVE  MembersInv(g)'
  OBVIOUS
<1>1. {c \in Callers : pc'[c] \in {"waiting", "leaving"} /\ joined'[c] = g}
        = {c \in Callers : pc[c] \in {"waiting", "leaving"} /\ joined[c] = g}
  OBVIOUS
<1>2. QED
  BY <1>1 DEF ContextInv, MembersInv

(* What it takes for a step that answers an idle caller to preserve the    *)
(* invariant: it may drop cache entries, and abandon a flight none of      *)
(* whose callers is still interested.                                      *)
LEMMA AnsweredAtOnce ==
    ASSUME ContextInv, NEW c \in Callers, pc[c] = "idle",
           UNCHANGED <<joined, ctxDone, gen, address, registered, waiters, published, valid, ready,
                       fpc, late, flights, active, draining, closing>>,
           pc' = [pc EXCEPT ![c] = "returned"],
           NEW r \in {"value", "error", "busy", "cancelled"}, got' = [got EXCEPT ![c] = r],
           r = "cancelled" => ctxDone[c],
           abandoned' \in [Gens -> BOOLEAN],
           \A g \in Gens : abandoned[g] => abandoned'[g],
           \A g \in Gens : abandoned'[g] /\ ~abandoned[g] =>
                              g <= gen /\ \A d \in registered[g] : ctxDone[d],
           cache' \in [Addresses -> 0 .. MaxGenerations], expired' \in [Addresses -> BOOLEAN],
           used' \in [Addresses -> Nat], sequence' \in Nat,
           \A a \in Addresses : cache[a] = 0 => cache'[a] = 0
    PROVE  ContextInv'
<1> USE IPContextAssumption
<1>1. TypeOK'
  <2>1. pc' \in [Callers -> {"idle", "waiting", "leaving", "returned"}]
        /\ got' \in [Callers -> {"none", "value", "error", "busy", "cancelled"}]
    BY DEF ContextInv, TypeOK
  <2>2. QED
    BY <2>1 DEF ContextInv, TypeOK
<1>2. ActiveIsWork' /\ DrainInv'
  BY SameWork DEF ContextInv, DrainInv
<1>3. AnswersAreReal'
  BY DEF ContextInv, AnswersAreReal, CallerInv, TypeOK
<1>4. \A g \in Gens : MembersInv(g)'
  <2>1. \A d \in Callers : pc'[d] \in {"waiting", "leaving"} <=> pc[d] \in {"waiting", "leaving"}
    BY DEF ContextInv, TypeOK
  <2>2. QED
    BY <2>1, SameMembers
<1>5. ASSUME NEW g \in Gens
      PROVE  FlightInv(g)'
  <2>1. g > gen => ~abandoned'[g]
    BY DEF ContextInv, FlightInv, TypeOK, Gens
  <2>2. abandoned'[g] /\ ~draining => \A d \in registered[g] : ctxDone[d]
    BY DEF ContextInv, FlightInv
  <2>3. fpc[g] = "gathering" => cache'[address[g]] = 0
    BY DEF ContextInv, FlightInv, TypeOK
  <2>4. QED
    BY <2>1, <2>2, <2>3 DEF ContextInv, FlightInv
<1>6. \A a \in Addresses : TableInv(a)'
  BY DEF ContextInv, TableInv
<1>7. \A d \in Callers : CallerInv(d)'
  BY DEF ContextInv, CallerInv, TypeOK
<1>8. QED
  BY <1>1, <1>2, <1>3, <1>4, <1>5, <1>6, <1>7 DEF ContextInv

(* A miss keeps the cache's types and only takes an entry away. *)
LEMMA DropKeeps ==
    ASSUME ContextInv, NEW a \in Addresses, DropExpired(a)
    PROVE  /\ cache' \in [Addresses -> 0 .. MaxGenerations] /\ expired' \in [Addresses -> BOOLEAN]
           /\ used' \in [Addresses -> Nat] /\ sequence' \in Nat
           /\ cache'[a] = 0
           /\ \A b \in Addresses : cache[b] = 0 => cache'[b] = 0
<1>1. 0 \in 0 .. MaxGenerations
  BY IPContextAssumption
<1>2. cache' \in [Addresses -> 0 .. MaxGenerations] /\ sequence' \in Nat
  BY <1>1 DEF DropExpired, ContextInv, TypeOK
<1>3. expired' \in [Addresses -> BOOLEAN] /\ used' \in [Addresses -> Nat]
  BY DEF DropExpired, ContextInv, TypeOK
<1>4. cache'[a] = 0 /\ \A b \in Addresses : cache[b] = 0 => cache'[b] = 0
  BY DEF DropExpired, ContextInv, TypeOK
<1>5. QED
  BY <1>2, <1>3, <1>4

LEMMA LookupRefusedInv ==
    ASSUME ContextInv, NEW c \in Callers, LookupRefused(c)
    PROVE  ContextInv'
<1>1. /\ UNCHANGED <<joined, ctxDone, gen, address, registered, waiters, published, valid, ready,
                     fpc, late, flights, active, draining, closing, abandoned, cache, expired,
                     used, sequence>>
      /\ pc[c] = "idle" /\ pc' = [pc EXCEPT ![c] = "returned"]
  BY DEF LookupRefused, Return, flightVars, cacheVars
<1>2. PICK r \in {"busy", "cancelled"} :
         got' = [got EXCEPT ![c] = r] /\ (r = "cancelled" => ctxDone[c])
  BY DEF LookupRefused, Return
<1>3. /\ abandoned \in [Gens -> BOOLEAN]
      /\ cache \in [Addresses -> 0 .. MaxGenerations] /\ expired \in [Addresses -> BOOLEAN]
      /\ used \in [Addresses -> Nat] /\ sequence \in Nat
  BY DEF ContextInv, TypeOK
<1>4. QED
  BY <1>1, <1>2, <1>3, AnsweredAtOnce

LEMMA LookupHitInv ==
    ASSUME ContextInv, NEW c \in Callers, NEW a \in Addresses, LookupHit(c, a)
    PROVE  ContextInv'
<1>1. /\ UNCHANGED <<joined, ctxDone, gen, address, registered, waiters, published, valid, ready,
                     fpc, late, flights, active, draining, closing, abandoned, cache, expired>>
      /\ pc[c] = "idle" /\ pc' = [pc EXCEPT ![c] = "returned"]
      /\ got' = [got EXCEPT ![c] = "value"]
  BY DEF LookupHit, Return, flightVars
<1>2. /\ abandoned \in [Gens -> BOOLEAN]
      /\ cache \in [Addresses -> 0 .. MaxGenerations] /\ expired \in [Addresses -> BOOLEAN]
      /\ used' \in [Addresses -> Nat] /\ sequence' \in Nat
  BY DEF ContextInv, TypeOK, LookupHit
<1>3. QED
  BY <1>1, <1>2, AnsweredAtOnce

LEMMA LookupTooLateInv ==
    ASSUME ContextInv, NEW c \in Callers, NEW a \in Addresses, LookupTooLate(c, a)
    PROVE  ContextInv'
<1>1. /\ UNCHANGED <<joined, ctxDone, gen, address, registered, waiters, published, valid, ready,
                     fpc, late, flights, active, draining, closing, abandoned>>
      /\ pc[c] = "idle" /\ pc' = [pc EXCEPT ![c] = "returned"]
      /\ got' = [got EXCEPT ![c] = "error"] /\ DropExpired(a)
  BY DEF LookupTooLate, Miss, Return, flightVars
<1>2. abandoned \in [Gens -> BOOLEAN]
  BY DEF ContextInv, TypeOK
<1>3. QED
  BY <1>1, <1>2, DropKeeps, AnsweredAtOnce

(* Busy: the flight is orphaned, abandoned or full, or the service is. *)
LEMMA LookupBusyInv ==
    ASSUME ContextInv, NEW c \in Callers, NEW a \in Addresses, LookupBusy(c, a)
    PROVE  ContextInv'
<1>1. /\ UNCHANGED <<joined, ctxDone, gen, address, registered, waiters, published, valid, ready,
                     fpc, late, flights, active, draining, closing>>
      /\ pc[c] = "idle" /\ pc' = [pc EXCEPT ![c] = "returned"]
      /\ got' = [got EXCEPT ![c] = "busy"] /\ DropExpired(a)
  BY DEF LookupBusy, Miss, Return
<1>2. /\ abandoned' \in [Gens -> BOOLEAN]
      /\ \A g \in Gens : abandoned[g] => abandoned'[g]
      /\ \A g \in Gens : abandoned'[g] /\ ~abandoned[g] =>
                            g <= gen /\ \A d \in registered[g] : ctxDone[d]
  <2>1. CASE UNCHANGED abandoned
    BY <2>1 DEF ContextInv, TypeOK
  <2>2. CASE /\ flights[a] # 0
             /\ abandoned' = [abandoned EXCEPT ![flights[a]] = @ \/ Orphaned(flights[a])]
    <3> PICK f \in Gens : f = flights[a] /\ f <= gen
      BY <2>2, IPContextAssumption DEF ContextInv, TypeOK, TableInv, Gens
    <3>1. abandoned' = [abandoned EXCEPT ![f] = abandoned[f] \/ Orphaned(f)]
      BY <2>2
    <3>2. abandoned'[f] => abandoned[f] \/ Orphaned(f)
      BY <3>1 DEF ContextInv, TypeOK
    <3>3. Orphaned(f) => \A d \in registered[f] : ctxDone[d]
      BY DEF Orphaned, HasLiveWaiter
    <3>4. abandoned[f] => abandoned'[f]
      BY <3>1 DEF ContextInv, TypeOK
    <3>5. \A g \in Gens : g # f => abandoned'[g] = abandoned[g]
      BY <3>1 DEF ContextInv, TypeOK
    <3>6. (abandoned[f] \/ Orphaned(f)) \in BOOLEAN
      BY DEF ContextInv, TypeOK, Orphaned
    <3>7. abandoned' \in [Gens -> BOOLEAN]
      BY <3>1, <3>6 DEF ContextInv, TypeOK
    <3>8. QED
      BY <3>2, <3>3, <3>4, <3>5, <3>7
  <2>3. QED
    BY <2>1, <2>2 DEF LookupBusy
<1>3. QED
  BY <1>1, <1>2, DropKeeps, AnsweredAtOnce

(* A caller that enters a flight is counted by it and by no other. *)
LEMMA EnterMembers ==
    ASSUME ContextInv, NEW c \in Callers, pc[c] = "idle", NEW n \in Gens, Enter(c, n)
    PROVE  /\ \A g \in Gens : MembersInv(g)'
           /\ pc' \in [Callers -> {"idle", "waiting", "leaving", "returned"}]
           /\ joined' \in [Callers -> 0 .. MaxGenerations]
           /\ registered' \in [Gens -> SUBSET Callers] /\ waiters' \in [Gens -> Nat]
           /\ \A g \in Gens : g # n => registered'[g] = registered[g] /\ waiters'[g] = waiters[g]
           /\ registered'[n] = registered[n] \cup {c}
           /\ \A d \in Callers : d # c => pc'[d] = pc[d] /\ joined'[d] = joined[d]
           /\ pc'[c] = "waiting" /\ joined'[c] = n
<1> USE IPContextAssumption
<1>1. /\ \A d \in Callers : d # c => pc'[d] = pc[d] /\ joined'[d] = joined[d]
      /\ pc'[c] = "waiting" /\ joined'[c] = n
  BY DEF Enter, ContextInv, TypeOK
<1>2. /\ \A g \in Gens : g # n => registered'[g] = registered[g] /\ waiters'[g] = waiters[g]
      /\ registered'[n] = registered[n] \cup {c} /\ waiters'[n] = waiters[n] + 1
  BY DEF Enter, ContextInv, TypeOK
<1>3. /\ pc' \in [Callers -> {"idle", "waiting", "leaving", "returned"}]
      /\ joined' \in [Callers -> 0 .. MaxGenerations]
  <2>1. n \in 0 .. MaxGenerations
    BY DEF Gens
  <2>2. QED
    BY <2>1 DEF Enter, ContextInv, TypeOK
<1>4. registered' \in [Gens -> SUBSET Callers] /\ waiters' \in [Gens -> Nat]
  <2>1. waiters' \in [Gens -> Nat]
    BY DEF Enter, ContextInv, TypeOK
  <2>2. registered[n] \cup {c} \in SUBSET Callers
    BY DEF ContextInv, TypeOK
  <2>3. registered' \in [Gens -> SUBSET Callers]
    BY <2>2 DEF Enter, ContextInv, TypeOK
  <2>4. QED
    BY <2>1, <2>3
<1>5. ASSUME NEW g \in Gens
      PROVE  MembersInv(g)'
  <2>1. /\ registered[g] = {d \in Callers : pc[d] \in {"waiting", "leaving"} /\ joined[d] = g}
        /\ waiters[g] = Cardinality(registered[g])
    BY DEF ContextInv, MembersInv
  <2>2. CASE g = n
    <3>1. registered'[g] = {d \in Callers : pc'[d] \in {"waiting", "leaving"} /\ joined'[d] = g}
      BY <1>1, <1>2, <2>1, <2>2
    <3>2. c \notin registered[g] /\ IsFiniteSet(registered[g])
      BY <2>1, FS_Subset DEF ContextInv, TypeOK
    <3>3. Cardinality(registered[g] \cup {c}) = Cardinality(registered[g]) + 1
      BY <3>2, FS_AddElement
    <3>4. waiters'[g] = Cardinality(registered'[g])
      BY <1>2, <2>1, <2>2, <3>3
    <3>5. QED
      BY <3>1, <3>4 DEF MembersInv
  <2>3. CASE g # n
    <3>1. {d \in Callers : pc'[d] \in {"waiting", "leaving"} /\ joined'[d] = g}
            = {d \in Callers : pc[d] \in {"waiting", "leaving"} /\ joined[d] = g}
      BY <1>1, <2>3
    <3>2. QED
      BY <1>2, <2>1, <2>3, <3>1 DEF MembersInv
  <2>4. QED
    BY <2>2, <2>3
<1>6. QED
  BY <1>1, <1>2, <1>3, <1>4, <1>5

LEMMA LookupJoinInv ==
    ASSUME ContextInv, NEW c \in Callers, NEW a \in Addresses, LookupJoin(c, a)
    PROVE  ContextInv'
<1> USE IPContextAssumption
<1> PICK n \in Gens : n = flights[a] /\ n <= gen
  BY DEF LookupJoin, ContextInv, TypeOK, TableInv, Gens
<1>1. /\ UNCHANGED <<ctxDone, got, gen, address, published, valid, ready, fpc, late, flights, active,
                     draining, closing, abandoned>>
      /\ pc[c] = "idle" /\ ~abandoned[n] /\ DropExpired(a) /\ Enter(c, n)
  BY DEF LookupJoin, Miss, Enter
<1>2. /\ \A g \in Gens : MembersInv(g)'
      /\ pc' \in [Callers -> {"idle", "waiting", "leaving", "returned"}]
      /\ joined' \in [Callers -> 0 .. MaxGenerations]
      /\ registered' \in [Gens -> SUBSET Callers] /\ waiters' \in [Gens -> Nat]
      /\ \A g \in Gens : g # n => registered'[g] = registered[g] /\ waiters'[g] = waiters[g]
      /\ \A d \in Callers : d # c => pc'[d] = pc[d] /\ joined'[d] = joined[d]
      /\ pc'[c] = "waiting" /\ joined'[c] = n
  BY <1>1, EnterMembers
<1>3. TypeOK'
  BY <1>1, <1>2, DropKeeps DEF ContextInv, TypeOK
<1>4. ActiveIsWork' /\ DrainInv'
  BY <1>1, SameWork DEF ContextInv, DrainInv
<1>5. AnswersAreReal'
  BY <1>1, <1>2 DEF ContextInv, AnswersAreReal, CallerInv
<1>6. ASSUME NEW g \in Gens
      PROVE  FlightInv(g)'
  <2>1. fpc[g] = "gathering" => cache'[address[g]] = 0
    <3>1. address[g] \in Addresses
      BY DEF ContextInv, TypeOK
    <3>2. QED
      BY <1>1, <3>1, DropKeeps DEF ContextInv, FlightInv
  <2>2. CASE g = n
    <3>1. ~(g > gen) /\ ~abandoned[g]
      BY <1>1, <2>2 DEF ContextInv, TypeOK, Gens
    <3>2. QED
      BY <1>1, <2>1, <3>1 DEF ContextInv, FlightInv
  <2>3. CASE g # n
    BY <1>1, <1>2, <2>1, <2>3 DEF ContextInv, FlightInv
  <2>4. QED
    BY <2>2, <2>3
<1>7. \A b \in Addresses : TableInv(b)'
  BY <1>1 DEF ContextInv, TableInv
<1>8. ASSUME NEW d \in Callers
      PROVE  CallerInv(d)'
  <2>1. n \in 1 .. gen
    BY DEF Gens, ContextInv, TypeOK
  <2>2. QED
    BY <1>1, <1>2, <2>1 DEF ContextInv, CallerInv
<1>9. QED
  BY <1>2, <1>3, <1>4, <1>5, <1>6, <1>7, <1>8 DEF ContextInv

(* A new flight: there was none of the address, and nothing cached for it. *)
LEMMA LookupStartInv ==
    ASSUME ContextInv, NEW c \in Callers, NEW a \in Addresses, LookupStart(c, a)
    PROVE  ContextInv'
<1> USE IPContextAssumption
<1> PICK n \in Gens : n = gen + 1 /\ gen \in Nat
  BY DEF LookupStart, ContextInv, TypeOK, Gens
<1>1. /\ UNCHANGED <<ctxDone, got, published, valid, ready, draining, closing, abandoned>>
      /\ pc[c] = "idle" /\ ~draining /\ DropExpired(a) /\ Enter(c, n)
      /\ flights[a] = 0 /\ active < MaxActive /\ gen' = n
      /\ address' = [address EXCEPT ![n] = a]
      /\ fpc' = [fpc EXCEPT ![n] = "gathering"]
      /\ late' = [late EXCEPT ![n] = TRUE]
      /\ flights' = [flights EXCEPT ![a] = n]
      /\ active' = active + 1
  BY DEF LookupStart, Miss, Enter
<1>2. /\ \A g \in Gens : MembersInv(g)'
      /\ pc' \in [Callers -> {"idle", "waiting", "leaving", "returned"}]
      /\ joined' \in [Callers -> 0 .. MaxGenerations]
      /\ registered' \in [Gens -> SUBSET Callers] /\ waiters' \in [Gens -> Nat]
      /\ \A g \in Gens : g # n => registered'[g] = registered[g] /\ waiters'[g] = waiters[g]
      /\ \A d \in Callers : d # c => pc'[d] = pc[d] /\ joined'[d] = joined[d]
      /\ pc'[c] = "waiting" /\ joined'[c] = n
  BY <1>1, EnterMembers
<1>3. /\ cache' \in [Addresses -> 0 .. MaxGenerations] /\ expired' \in [Addresses -> BOOLEAN]
      /\ used' \in [Addresses -> Nat] /\ sequence' \in Nat
      /\ cache'[a] = 0
      /\ \A b \in Addresses : cache[b] = 0 => cache'[b] = 0
  BY <1>1, DropKeeps
<1>4. fpc[n] = "none" /\ ~abandoned[n] /\ ~published[n] /\ ~valid[n] /\ ~ready[n]
  <2>1. n > gen
    OBVIOUS
  <2>2. QED
    BY <2>1 DEF ContextInv, FlightInv
<1>5. /\ \A g \in Gens : g # n => fpc'[g] = fpc[g] /\ address'[g] = address[g]
                              /\ (late'[g] <=> late[g])
      /\ fpc'[n] = "gathering" /\ address'[n] = a
  BY <1>1 DEF ContextInv, TypeOK
<1>6. TypeOK'
  <2>1. address' \in [Gens -> Addresses] /\ late' \in [Gens -> BOOLEAN]
        /\ fpc' \in [Gens -> {"none", "gathering", "joining", "ended"}]
    BY <1>1 DEF ContextInv, TypeOK
  <2>2. n \in 0 .. MaxGenerations
    BY DEF Gens
  <2>3. flights' \in [Addresses -> 0 .. MaxGenerations] /\ gen' \in 0 .. MaxGenerations
    BY <1>1, <2>2 DEF ContextInv, TypeOK
  <2>4. active' \in Nat
    BY <1>1 DEF ContextInv, TypeOK
  <2>5. QED
    BY <1>1, <1>2, <1>3, <2>1, <2>3, <2>4 DEF ContextInv, TypeOK
<1>7. ActiveIsWork'
  <2>1. WorkingFlights' = WorkingFlights \cup {n} /\ n \notin WorkingFlights
    BY <1>4, <1>5 DEF WorkingFlights, Working
  <2>2. IsFiniteSet(WorkingFlights)
    BY Finiteness DEF WorkingFlights
  <2>3. Cardinality(WorkingFlights') = Cardinality(WorkingFlights) + 1
    BY <2>1, <2>2, FS_AddElement
  <2>4. active = Cardinality(WorkingFlights)
    BY DEF ContextInv, ActiveIsWork, WorkingFlights, Working
  <2>5. active' = Cardinality(WorkingFlights') /\ active' <= MaxActive
    BY <1>1, <2>3, <2>4 DEF ContextInv, TypeOK
  <2>6. \A g \in Gens : late'[g] => fpc'[g] \in {"gathering", "joining"}
    BY <1>5 DEF ContextInv, ActiveIsWork
  <2>7. closing' # "closed"
    BY <1>1 DEF ContextInv, DrainInv
  <2>8. QED
    BY <2>5, <2>6, <2>7 DEF ActiveIsWork, WorkingFlights, Working
<1>8. AnswersAreReal' /\ DrainInv'
  BY <1>1, <1>2 DEF ContextInv, AnswersAreReal, CallerInv, DrainInv
<1>9. ASSUME NEW g \in Gens
      PROVE  FlightInv(g)'
  <2>1. CASE g = n
    <3>1. flights'[a] = n
      BY <1>1 DEF ContextInv, TypeOK
    <3>2. ~(g > gen')
      BY <1>1, <2>1
    <3>3. QED
      BY <1>1, <1>3, <1>4, <1>5, <2>1, <3>1, <3>2 DEF FlightInv, Working
  <2>2. CASE g # n
    <3>1. g > gen' <=> g > gen
      BY <1>1, <2>2 DEF Gens
    <3>2. fpc[g] = "gathering" => flights'[address[g]] = g /\ cache'[address[g]] = 0
      <4>1. fpc[g] = "gathering" => flights[address[g]] = g /\ address[g] # a
        BY <1>1 DEF ContextInv, FlightInv, Gens
      <4>2. QED
        BY <1>1, <1>3, <4>1 DEF ContextInv, FlightInv, TypeOK
    <3>3. QED
      BY <1>1, <1>2, <1>5, <2>2, <3>1, <3>2 DEF ContextInv, FlightInv
  <2>3. QED
    BY <2>1, <2>2
<1>10. ASSUME NEW b \in Addresses
       PROVE  TableInv(b)'
  <2>1. CASE b = a
    <3>1. flights'[b] = n /\ address'[n] = b /\ n \in 1 .. gen'
      BY <1>1, <1>5, <2>1 DEF ContextInv, TypeOK, Gens
    <3>2. QED
      BY <3>1 DEF TableInv
  <2>2. CASE b # a
    <3>1. flights'[b] = flights[b]
      BY <1>1, <2>2 DEF ContextInv, TypeOK
    <3>2. flights[b] # 0 => flights[b] \in 1 .. gen' /\ flights[b] # n /\ flights[b] \in Gens
                            /\ address[flights[b]] = b
      <4>1. flights[b] # 0 => flights[b] \in 1 .. gen /\ address[flights[b]] = b
        BY DEF ContextInv, TableInv
      <4>2. gen \in Nat /\ gen + 1 = n /\ n <= MaxGenerations
        BY DEF Gens
      <4>3. QED
        BY <1>1, <4>1, <4>2 DEF Gens
    <3>3. QED
      BY <1>5, <3>1, <3>2 DEF TableInv
  <2>3. QED
    BY <2>1, <2>2
<1>11. ASSUME NEW d \in Callers
       PROVE  CallerInv(d)'
  <2>1. n \in 1 .. gen' /\ (joined[d] \in 1 .. gen => joined[d] \in 1 .. gen')
    BY <1>1 DEF Gens, ContextInv, TypeOK
  <2>2. QED
    BY <1>1, <1>2, <2>1 DEF ContextInv, CallerInv
<1>12. QED
  BY <1>2, <1>6, <1>7, <1>8, <1>9, <1>10, <1>11 DEF ContextInv

(* A caller's context ends: nothing the flight is held to gets harder. *)
LEMMA CallerCancelInv ==
    ASSUME ContextInv, NEW c \in Callers, CallerCancel(c)
    PROVE  ContextInv'
<1>1. /\ ctxDone' = [ctxDone EXCEPT ![c] = TRUE]
      /\ UNCHANGED <<pc, joined, got, gen, flightVars, fpc, late, flights, active, draining,
                     cacheVars, closing>>
  BY DEF CallerCancel
<1>2. ctxDone' \in [Callers -> BOOLEAN] /\ \A d \in Callers : ctxDone[d] => ctxDone'[d]
  BY <1>1 DEF ContextInv, TypeOK
<1>3. TypeOK'
  BY <1>1, <1>2 DEF ContextInv, TypeOK, flightVars, cacheVars
<1>4. ActiveIsWork' /\ DrainInv'
  BY <1>1, SameWork DEF ContextInv, DrainInv
<1>5. AnswersAreReal'
  BY <1>1, <1>2 DEF ContextInv, AnswersAreReal, flightVars
<1>6. ASSUME NEW g \in Gens
      PROVE  FlightInv(g)'
  <2>1. registered[g] \in SUBSET Callers
    BY DEF ContextInv, TypeOK
  <2>2. QED
    BY <1>1, <1>2, <2>1 DEF ContextInv, FlightInv, flightVars, cacheVars
<1>7. \A g \in Gens : MembersInv(g)'
  BY <1>1, SameMembers DEF flightVars
<1>8. (\A a \in Addresses : TableInv(a)') /\ (\A d \in Callers : CallerInv(d)')
  BY <1>1 DEF ContextInv, TableInv, CallerInv, flightVars
<1>9. QED
  BY <1>3, <1>4, <1>5, <1>6, <1>7, <1>8 DEF ContextInv

(* A caller wakes.  Its context is live: then the flight was abandoned only *)
(* by the drain, and otherwise it has published.                           *)
LEMMA WakeInv ==
    ASSUME ContextInv, NEW c \in Callers, Wake(c)
    PROVE  ContextInv'
<1> USE IPContextAssumption
<1> PICK f \in Gens : f = joined[c]
  BY DEF Wake, ContextInv, CallerInv, TypeOK, Gens
<1>1. /\ pc[c] = "waiting" /\ (ctxDone[c] \/ ready[f])
      /\ pc' = [pc EXCEPT ![c] = "leaving"]
      /\ got' = [got EXCEPT ![c] = IF ctxDone[c] THEN "cancelled" ELSE Answer(f)]
      /\ UNCHANGED <<joined, ctxDone, gen, flightVars, fpc, late, flights, active, draining,
                     cacheVars, closing>>
  BY DEF Wake
<1>2. c \in registered[f]
  BY <1>1 DEF ContextInv, MembersInv
<1>3. ~ctxDone[c] /\ Answer(f) = "cancelled" => draining
  BY <1>2 DEF Answer, ContextInv, FlightInv
<1>4. ~ctxDone[c] /\ Answer(f) = "value" => published[f] /\ valid[f]
  BY <1>1 DEF Answer, ContextInv, FlightInv
<1>5. Answer(f) \in {"value", "error", "cancelled"}
  BY DEF Answer
<1>6. TypeOK'
  <2>1. got' \in [Callers -> {"none", "value", "error", "busy", "cancelled"}]
    BY <1>1, <1>5 DEF ContextInv, TypeOK
  <2>2. pc' \in [Callers -> {"idle", "waiting", "leaving", "returned"}]
    BY <1>1 DEF ContextInv, TypeOK
  <2>3. QED
    BY <1>1, <2>1, <2>2 DEF ContextInv, TypeOK, flightVars, cacheVars
<1>7. ActiveIsWork' /\ DrainInv'
  BY <1>1, SameWork DEF ContextInv, DrainInv
<1>8. AnswersAreReal'
  <2>1. got'[c] = IF ctxDone[c] THEN "cancelled" ELSE Answer(f)
    BY <1>1 DEF ContextInv, TypeOK
  <2>2. \A d \in Callers : d # c => got'[d] = got[d]
    BY <1>1 DEF ContextInv, TypeOK
  <2>3. QED
    BY <1>1, <1>3, <1>4, <2>1, <2>2 DEF ContextInv, AnswersAreReal, flightVars
<1>9. \A g \in Gens : MembersInv(g)'
  <2>1. \A d \in Callers : pc'[d] \in {"waiting", "leaving"} <=> pc[d] \in {"waiting", "leaving"}
    BY <1>1 DEF ContextInv, TypeOK
  <2>2. QED
    BY <1>1, <2>1, SameMembers DEF flightVars
<1>10. ASSUME NEW g \in Gens
       PROVE  FlightInv(g)'
  BY <1>1 DEF ContextInv, FlightInv, flightVars, cacheVars
<1>11. \A a \in Addresses : TableInv(a)'
  BY <1>1 DEF ContextInv, TableInv, flightVars
<1>12. \A d \in Callers : CallerInv(d)'
  BY <1>1 DEF ContextInv, CallerInv, TypeOK
<1>13. QED
  BY <1>6, <1>7, <1>8, <1>9, <1>10, <1>11, <1>12 DEF ContextInv

(* A caller leaves; if it was the last one it abandons an unpublished      *)
(* flight, which no caller is left in to notice.                           *)
LEMMA LeaveInv ==
    ASSUME ContextInv, NEW c \in Callers, Leave(c)
    PROVE  ContextInv'
<1> USE IPContextAssumption
<1> PICK f \in Gens : f = joined[c] /\ f <= gen
  BY DEF Leave, ContextInv, CallerInv, TypeOK, Gens
<1>1. /\ pc[c] = "leaving" /\ pc' = [pc EXCEPT ![c] = "returned"]
      /\ waiters' = [waiters EXCEPT ![f] = waiters[f] - 1]
      /\ registered' = [registered EXCEPT ![f] = registered[f] \ {c}]
      /\ abandoned' = [abandoned EXCEPT ![f] = abandoned[f] \/ (waiters[f] = 1 /\ ~published[f])]
      /\ UNCHANGED <<joined, ctxDone, got, gen, address, published, valid, ready, fpc, late,
                     flights, active, draining, cacheVars, closing>>
  BY DEF Leave
<1>2. c \in registered[f] /\ IsFiniteSet(registered[f]) /\ waiters[f] = Cardinality(registered[f])
  BY <1>1, FS_Subset DEF ContextInv, MembersInv, TypeOK
<1>3. Cardinality(registered[f] \ {c}) = waiters[f] - 1
  BY <1>2, FS_RemoveElement
<1>4. waiters[f] - 1 \in Nat
  BY <1>2, <1>3, FS_Subset, FS_CardinalityType
<1>5. waiters[f] = 1 => registered[f] \ {c} = {}
  <2>1. IsFiniteSet(registered[f] \ {c})
    BY <1>2, FS_Subset
  <2>2. QED
    BY <1>3, <2>1, FS_EmptySet
<1>6. /\ registered'[f] = registered[f] \ {c} /\ waiters'[f] = waiters[f] - 1
      /\ \A g \in Gens : g # f => registered'[g] = registered[g] /\ waiters'[g] = waiters[g]
  BY <1>1 DEF ContextInv, TypeOK
<1>7. abandoned' \in [Gens -> BOOLEAN]
  <2>1. (abandoned[f] \/ (waiters[f] = 1 /\ ~published[f])) \in BOOLEAN
    OBVIOUS
  <2>2. QED
    BY <1>1, <2>1 DEF ContextInv, TypeOK
<1>8. /\ \A g \in Gens : g # f => abandoned'[g] = abandoned[g]
      /\ abandoned[f] => abandoned'[f]
      /\ abandoned'[f] => abandoned[f] \/ waiters[f] = 1
  BY <1>1 DEF ContextInv, TypeOK
<1>9. TypeOK'
  <2>1. registered' \in [Gens -> SUBSET Callers] /\ waiters' \in [Gens -> Nat]
    <3>1. registered[f] \ {c} \in SUBSET Callers
      BY DEF ContextInv, TypeOK
    <3>2. QED
      BY <1>1, <1>4, <3>1 DEF ContextInv, TypeOK
  <2>2. pc' \in [Callers -> {"idle", "waiting", "leaving", "returned"}]
    BY <1>1 DEF ContextInv, TypeOK
  <2>3. QED
    BY <1>1, <1>7, <2>1, <2>2 DEF ContextInv, TypeOK, cacheVars
<1>10. ActiveIsWork' /\ DrainInv' /\ AnswersAreReal'
  BY <1>1, SameWork DEF ContextInv, DrainInv, AnswersAreReal
<1>11. ASSUME NEW g \in Gens
       PROVE  MembersInv(g)'
  <2>1. /\ \A d \in Callers : d # c => pc'[d] = pc[d]
        /\ pc'[c] = "returned"
    BY <1>1 DEF ContextInv, TypeOK
  <2>2. registered'[g] = {d \in Callers : pc'[d] \in {"waiting", "leaving"} /\ joined'[d] = g}
    BY <1>1, <1>6, <2>1 DEF ContextInv, MembersInv
  <2>3. waiters'[g] = Cardinality(registered'[g])
    BY <1>3, <1>6 DEF ContextInv, MembersInv
  <2>4. QED
    BY <2>2, <2>3 DEF MembersInv
<1>12. ASSUME NEW g \in Gens
       PROVE  FlightInv(g)'
  <2>1. CASE g = f
    <3>1. ~(g > gen)
      BY <2>1 DEF ContextInv, TypeOK, Gens
    <3>2. abandoned'[g] /\ ~draining => \A d \in registered'[g] : ctxDone[d]
      BY <1>5, <1>6, <1>8, <2>1 DEF ContextInv, FlightInv
    <3>3. QED
      BY <1>1, <1>8, <2>1, <3>1, <3>2 DEF ContextInv, FlightInv, cacheVars
  <2>2. CASE g # f
    BY <1>1, <1>6, <1>8, <2>2 DEF ContextInv, FlightInv, cacheVars
  <2>3. QED
    BY <2>1, <2>2
<1>13. \A a \in Addresses : TableInv(a)'
  BY <1>1 DEF ContextInv, TableInv
<1>14. \A d \in Callers : CallerInv(d)'
  BY <1>1 DEF ContextInv, CallerInv, TypeOK
<1>15. QED
  BY <1>9, <1>10, <1>11, <1>12, <1>13, <1>14 DEF ContextInv

(* A snapshot puts in the entry of the address and otherwise only takes    *)
(* entries away.                                                           *)
LEMMA SnapshotEffect ==
    ASSUME ContextInv, NEW a \in Addresses, NEW g \in Gens, CacheSnapshot(a, g)
    PROVE  /\ cache' \in [Addresses -> 0 .. MaxGenerations] /\ expired' \in [Addresses -> BOOLEAN]
           /\ used' \in [Addresses -> Nat] /\ sequence' \in Nat
           /\ cache'[a] = g
           /\ \A b \in Addresses : b # a => cache'[b] \in {0, cache[b]}
<1>1. g \in 0 .. MaxGenerations /\ 0 \in 0 .. MaxGenerations
  BY IPContextAssumption DEF Gens
<1>2. cache' \in [Addresses -> 0 .. MaxGenerations] /\ sequence' \in Nat
  BY <1>1 DEF CacheSnapshot, ContextInv, TypeOK
<1>3. expired' \in [Addresses -> BOOLEAN]
  BY DEF CacheSnapshot, ContextInv, TypeOK
<1>4. used' \in [Addresses -> Nat]
  BY DEF CacheSnapshot, ContextInv, TypeOK
<1>5. cache'[a] = g /\ \A b \in Addresses : b # a => cache'[b] \in {0, cache[b]}
  BY DEF CacheSnapshot
<1>6. QED
  BY <1>2, <1>3, <1>4, <1>5

(* The cache after a publication: only the flight's own address, for which *)
(* nothing was cached, gets an entry.                                      *)
LEMMA PublishEffect ==
    ASSUME ContextInv, NEW f \in Gens, Publish(f)
    PROVE  /\ cache' \in [Addresses -> 0 .. MaxGenerations] /\ expired' \in [Addresses -> BOOLEAN]
           /\ used' \in [Addresses -> Nat] /\ sequence' \in Nat
           /\ cache[address[f]] = 0
           /\ \A b \in Addresses : b # address[f] => cache'[b] \in {0, cache[b]}
<1> USE DEF ContextInv, TypeOK
<1>1. address[f] \in Addresses /\ cache[address[f]] = 0
  BY DEF Publish, FlightInv
<1>2. CASE CacheSnapshot(address[f], f)
  BY <1>1, <1>2, SnapshotEffect
<1>3. CASE UNCHANGED cacheVars
  BY <1>1, <1>3 DEF cacheVars
<1>4. QED
  BY <1>2, <1>3 DEF Publish

(* The flight publishes, or is abandoned. *)
LEMMA PublishInv ==
    ASSUME ContextInv, NEW f \in Gens, Publish(f)
    PROVE  ContextInv'
<1> USE IPContextAssumption
<1> DEFINE live == HasLiveWaiter(f)
           publishes == ~abandoned[f] /\ live /\ ~draining
<1>1. PICK ok \in BOOLEAN :
      /\ ok => publishes
      /\ fpc[f] = "gathering" /\ fpc' = [fpc EXCEPT ![f] = "joining"]
      /\ ready' = [ready EXCEPT ![f] = TRUE]
      /\ abandoned' = [abandoned EXCEPT ![f] = @ \/ ~live]
      /\ published' = [published EXCEPT ![f] = publishes]
      /\ valid' = [valid EXCEPT ![f] = ok]
      /\ flights' = [flights EXCEPT ![address[f]] = IF publishes /\ @ = f THEN 0 ELSE @]
      /\ UNCHANGED <<callVars, gen, address, registered, waiters, late, active, draining, closing>>
  BY DEF Publish
<1>2. live \in BOOLEAN /\ publishes \in BOOLEAN /\ (~live => \A d \in registered[f] : ctxDone[d])
  BY DEF HasLiveWaiter, ContextInv, TypeOK
<1> HIDE DEF live, publishes
<1>3. /\ \A g \in Gens : g # f => /\ fpc'[g] = fpc[g] /\ (ready'[g] <=> ready[g])
                               /\ (abandoned'[g] <=> abandoned[g])
                               /\ (published'[g] <=> published[g]) /\ (valid'[g] <=> valid[g])
      /\ fpc'[f] = "joining" /\ ready'[f] /\ (published'[f] <=> publishes) /\ (valid'[f] <=> ok)
      /\ abandoned'[f] <=> abandoned[f] \/ ~live
  BY <1>1 DEF ContextInv, TypeOK
<1>4. /\ cache' \in [Addresses -> 0 .. MaxGenerations] /\ expired' \in [Addresses -> BOOLEAN]
      /\ used' \in [Addresses -> Nat] /\ sequence' \in Nat
      /\ \A b \in Addresses : b # address[f] => cache'[b] \in {0, cache[b]}
  BY PublishEffect
<1>5. ~published[f] /\ ~ready[f] /\ ~(f > gen) /\ flights[address[f]] = f
      /\ (draining => abandoned[f])
  BY <1>1 DEF ContextInv, FlightInv
<1>6. TypeOK'
  <2>1. fpc' \in [Gens -> {"none", "gathering", "joining", "ended"}]
        /\ flights' \in [Addresses -> 0 .. MaxGenerations]
    BY <1>1 DEF ContextInv, TypeOK
  <2>2. ready' \in [Gens -> BOOLEAN] /\ published' \in [Gens -> BOOLEAN]
        /\ valid' \in [Gens -> BOOLEAN]
    BY <1>1, <1>2 DEF ContextInv, TypeOK
  <2>3. abandoned' \in [Gens -> BOOLEAN]
    <3>1. (abandoned[f] \/ ~live) \in BOOLEAN
      OBVIOUS
    <3>2. abandoned' = [abandoned EXCEPT ![f] = abandoned[f] \/ ~live]
      BY <1>1
    <3>3. QED
      BY <3>1, <3>2 DEF ContextInv, TypeOK
  <2>4. QED
    BY <1>1, <1>4, <2>1, <2>2, <2>3 DEF ContextInv, TypeOK, callVars
<1>7. ActiveIsWork'
  <2>1. {g \in Gens : fpc'[g] \in {"gathering", "joining"}}
          = {g \in Gens : fpc[g] \in {"gathering", "joining"}}
    BY <1>1, <1>3
  <2>2. \A g \in Gens : late'[g] => fpc'[g] \in {"gathering", "joining"}
    BY <1>1, <1>3 DEF ContextInv, ActiveIsWork
  <2>3. QED
    BY <1>1, <2>1, <2>2 DEF ContextInv, ActiveIsWork
<1>8. AnswersAreReal'
  <2>1. \A g \in Gens : published[g] => g # f
    BY <1>5
  <2>2. \A c \in Callers : joined[c] # 0 => joined[c] \in Gens
    BY DEF ContextInv, TypeOK, Gens
  <2>3. QED
    BY <1>1, <1>3, <2>1, <2>2 DEF ContextInv, AnswersAreReal, callVars
<1>9. DrainInv'
  BY <1>1 DEF ContextInv, DrainInv
<1>10. \A g \in Gens : MembersInv(g)'
  BY <1>1, SameMembers DEF callVars
<1>11. ASSUME NEW g \in Gens
       PROVE  FlightInv(g)'
  <2>1. CASE g = f
    <3>1. abandoned'[g] /\ ~draining => \A d \in registered[g] : ctxDone[d]
      BY <1>2, <1>3, <2>1 DEF ContextInv, FlightInv
    <3>2. publishes \/ abandoned'[g]
      BY <1>3, <1>5, <2>1 DEF publishes
    <3>3. late'[g] => fpc'[g] \in Working
      BY <1>3, <2>1 DEF Working
    <3>4. QED
      BY <1>1, <1>3, <1>5, <2>1, <3>1, <3>2, <3>3 DEF FlightInv, callVars
  <2>2. CASE g # f
    <3>1. fpc[g] = "gathering" => /\ flights[address[g]] = g /\ address[g] # address[f]
                                  /\ cache[address[g]] = 0
      BY <1>5, <2>2 DEF ContextInv, FlightInv
    <3>2. fpc[g] = "gathering" => flights'[address[g]] = g /\ cache'[address[g]] = 0
      BY <1>1, <1>4, <3>1 DEF ContextInv, TypeOK
    <3>3. QED
      BY <1>1, <1>3, <2>2, <3>2 DEF ContextInv, FlightInv, callVars
  <2>3. QED
    BY <2>1, <2>2
<1>12. ASSUME NEW a \in Addresses
       PROVE  TableInv(a)'
  <2>1. flights'[a] \in {0, flights[a]}
    BY <1>1 DEF ContextInv, TypeOK
  <2>2. QED
    BY <1>1, <2>1 DEF ContextInv, TableInv
<1>13. \A c \in Callers : CallerInv(c)'
  BY <1>1 DEF ContextInv, CallerInv, callVars
<1>14. QED
  BY <1>6, <1>7, <1>8, <1>9, <1>10, <1>11, <1>12, <1>13 DEF ContextInv

LEMMA PrimitivesReturnInv ==
    ASSUME ContextInv, NEW f \in Gens, PrimitivesReturn(f)
    PROVE  ContextInv'
<1>1. /\ late' = [late EXCEPT ![f] = FALSE]
      /\ UNCHANGED <<callVars, gen, flightVars, fpc, flights, active, draining, cacheVars, closing>>
  BY DEF PrimitivesReturn
<1>2. late' \in [Gens -> BOOLEAN] /\ \A g \in Gens : late'[g] => late[g]
  BY <1>1 DEF ContextInv, TypeOK
<1>3. TypeOK'
  BY <1>1, <1>2 DEF ContextInv, TypeOK, callVars, flightVars, cacheVars
<1>4. ActiveIsWork'
  <2>1. {g \in Gens : fpc'[g] \in {"gathering", "joining"}}
          = {g \in Gens : fpc[g] \in {"gathering", "joining"}}
    BY <1>1
  <2>2. QED
    BY <1>1, <1>2, <2>1 DEF ContextInv, ActiveIsWork
<1>5. AnswersAreReal' /\ DrainInv'
  BY <1>1 DEF ContextInv, AnswersAreReal, DrainInv, callVars, flightVars
<1>6. \A g \in Gens : MembersInv(g)'
  BY <1>1, SameMembers DEF callVars, flightVars
<1>7. \A g \in Gens : FlightInv(g)'
  BY <1>1, <1>2 DEF ContextInv, FlightInv, callVars, flightVars, cacheVars
<1>8. (\A a \in Addresses : TableInv(a)') /\ (\A c \in Callers : CallerInv(c)')
  BY <1>1 DEF ContextInv, TableInv, CallerInv, callVars, flightVars
<1>9. QED
  BY <1>3, <1>4, <1>5, <1>6, <1>7, <1>8 DEF ContextInv

(* The flight ends and is no longer counted. *)
LEMMA FinishWork ==
    ASSUME ContextInv, NEW f \in Gens, Finish(f)
    PROVE  ActiveIsWork' /\ active > 0 /\ active' \in Nat
<1>1. /\ fpc[f] = "joining" /\ ~late[f] /\ fpc' = [fpc EXCEPT ![f] = "ended"]
      /\ active' = active - 1 /\ UNCHANGED <<late, closing>>
  BY DEF Finish
<1>2. fpc'[f] = "ended" /\ \A g \in Gens : g # f => fpc'[g] = fpc[g]
  BY <1>1 DEF ContextInv, TypeOK
<1>3. WorkingFlights' = WorkingFlights \ {f} /\ f \in WorkingFlights
  BY <1>1, <1>2 DEF WorkingFlights, Working
<1>4. IsFiniteSet(WorkingFlights)
  BY Finiteness DEF WorkingFlights
<1>5. Cardinality(WorkingFlights') = Cardinality(WorkingFlights) - 1
  BY <1>3, <1>4, FS_RemoveElement
<1>6. Cardinality(WorkingFlights) # 0
  BY <1>3, <1>4, FS_EmptySet
<1>7. active = Cardinality(WorkingFlights) /\ active <= MaxActive /\ active \in Nat
  BY DEF ContextInv, TypeOK, ActiveIsWork, WorkingFlights, Working
<1>8. active' = Cardinality(WorkingFlights') /\ active' <= MaxActive /\ active > 0 /\ active' \in Nat
  BY <1>1, <1>5, <1>6, <1>7, IPContextAssumption
<1>9. \A g \in Gens : late'[g] => fpc'[g] \in {"gathering", "joining"}
  BY <1>1, <1>2 DEF ContextInv, ActiveIsWork
<1>10. closing' = "closed" => \A g \in Gens : ~late'[g]
  BY <1>1 DEF ContextInv, ActiveIsWork
<1>11. QED
  BY <1>8, <1>9, <1>10 DEF ActiveIsWork, WorkingFlights, Working

LEMMA FinishInv ==
    ASSUME ContextInv, NEW f \in Gens, Finish(f)
    PROVE  ContextInv'
<1> USE IPContextAssumption
<1>1. /\ fpc[f] = "joining" /\ ~late[f] /\ fpc' = [fpc EXCEPT ![f] = "ended"]
      /\ flights' = [flights EXCEPT ![address[f]] = IF @ = f THEN 0 ELSE @]
      /\ UNCHANGED <<callVars, gen, flightVars, late, draining, cacheVars, closing>>
  BY DEF Finish
<1>2. fpc'[f] = "ended" /\ \A g \in Gens : g # f => fpc'[g] = fpc[g]
  BY <1>1 DEF ContextInv, TypeOK
<1>3. ActiveIsWork' /\ active' \in Nat
  BY FinishWork
<1>4. TypeOK'
  <2>1. fpc' \in [Gens -> {"none", "gathering", "joining", "ended"}]
        /\ flights' \in [Addresses -> 0 .. MaxGenerations]
    BY <1>1 DEF ContextInv, TypeOK
  <2>2. QED
    BY <1>1, <1>3, <2>1 DEF ContextInv, TypeOK, callVars, flightVars, cacheVars
<1>5. AnswersAreReal' /\ DrainInv'
  BY <1>1 DEF ContextInv, AnswersAreReal, DrainInv, callVars, flightVars
<1>6. \A g \in Gens : MembersInv(g)'
  BY <1>1, SameMembers DEF callVars, flightVars
<1>7. ASSUME NEW g \in Gens
      PROVE  FlightInv(g)'
  <2>1. CASE g = f
    BY <1>1, <1>2, <2>1 DEF ContextInv, FlightInv, callVars, flightVars, cacheVars
  <2>2. CASE g # f
    <3>1. fpc[g] = "gathering" => flights'[address[g]] = g
      BY <1>1, <2>2 DEF ContextInv, FlightInv, TypeOK
    <3>2. QED
      BY <1>1, <1>2, <2>2, <3>1 DEF ContextInv, FlightInv, callVars, flightVars, cacheVars
  <2>3. QED
    BY <2>1, <2>2
<1>8. ASSUME NEW a \in Addresses
      PROVE  TableInv(a)'
  <2>1. flights'[a] \in {0, flights[a]}
    BY <1>1 DEF ContextInv, TypeOK
  <2>2. QED
    BY <1>1, <2>1 DEF ContextInv, TableInv, flightVars
<1>9. \A c \in Callers : CallerInv(c)'
  BY <1>1 DEF ContextInv, CallerInv, callVars
<1>10. QED
  BY <1>3, <1>4, <1>5, <1>6, <1>7, <1>8, <1>9 DEF ContextInv

LEMMA ExpireInv ==
    ASSUME ContextInv, NEW a \in Addresses, Expire(a)
    PROVE  ContextInv'
<1>1. /\ expired' = [expired EXCEPT ![a] = TRUE]
      /\ UNCHANGED <<callVars, gen, flightVars, fpc, late, flights, active, draining, cache, used,
                     sequence, closing>>
  BY DEF Expire
<1>2. TypeOK'
  BY <1>1 DEF ContextInv, TypeOK, callVars, flightVars
<1>3. ActiveIsWork' /\ DrainInv' /\ AnswersAreReal'
  BY <1>1, SameWork DEF ContextInv, DrainInv, AnswersAreReal, callVars, flightVars
<1>4. \A g \in Gens : MembersInv(g)'
  BY <1>1, SameMembers DEF callVars, flightVars
<1>5. \A g \in Gens : FlightInv(g)'
  BY <1>1 DEF ContextInv, FlightInv, callVars, flightVars
<1>6. (\A b \in Addresses : TableInv(b)') /\ (\A c \in Callers : CallerInv(c)')
  BY <1>1 DEF ContextInv, TableInv, CallerInv, callVars, flightVars
<1>7. QED
  BY <1>2, <1>3, <1>4, <1>5, <1>6 DEF ContextInv

(* The drain abandons every flight the table names, all that still gather  *)
(* among them.                                                             *)
LEMMA DrainStepInv ==
    ASSUME ContextInv, Drain
    PROVE  ContextInv'
<1> USE IPContextAssumption
<1>1. /\ closing = "none" /\ draining' = TRUE /\ closing' = "drained"
      /\ abandoned' = [g \in Gens |-> abandoned[g] \/ \E a \in Addresses : flights[a] = g]
      /\ UNCHANGED <<callVars, gen, address, registered, waiters, published, valid, ready, fpc,
                     late, flights, active, cacheVars>>
  BY DEF Drain, BeginDrain
<1>2. abandoned' \in [Gens -> BOOLEAN]
  <2>1. \A g \in Gens : (abandoned[g] \/ \E a \in Addresses : flights[a] = g) \in BOOLEAN
    OBVIOUS
  <2>2. QED
    BY <1>1, <2>1
<1>3. \A g \in Gens : abandoned'[g] <=> abandoned[g] \/ \E a \in Addresses : flights[a] = g
  BY <1>1
<1>4. TypeOK'
  BY <1>1, <1>2 DEF ContextInv, TypeOK, callVars, cacheVars
<1>5. ActiveIsWork' /\ DrainInv'
  BY <1>1 DEF ContextInv, ActiveIsWork, DrainInv
<1>6. AnswersAreReal'
  BY <1>1 DEF ContextInv, AnswersAreReal, callVars
<1>7. \A g \in Gens : MembersInv(g)'
  BY <1>1, SameMembers DEF callVars
<1>8. ASSUME NEW g \in Gens
      PROVE  FlightInv(g)'
  <2>1. g > gen => ~abandoned'[g]
    <3>1. g \in Nat \ {0} /\ gen \in Nat
      BY DEF ContextInv, TypeOK, Gens
    <3>2. \A a \in Addresses : flights[a] # 0 => flights[a] \in 1 .. gen
      BY DEF ContextInv, TableInv
    <3>3. \A a \in Addresses : g > gen => flights[a] # g
      BY <3>1, <3>2
    <3>4. g > gen => ~abandoned[g]
      BY DEF ContextInv, FlightInv
    <3>5. QED
      BY <1>3, <3>3, <3>4
  <2>2. fpc[g] = "gathering" => abandoned'[g]
    BY <1>3 DEF ContextInv, FlightInv, TypeOK
  <2>3. abandoned[g] => abandoned'[g]
    BY <1>3
  <2>4. QED
    BY <1>1, <2>1, <2>2, <2>3 DEF ContextInv, FlightInv, callVars, cacheVars
<1>9. (\A a \in Addresses : TableInv(a)') /\ (\A c \in Callers : CallerInv(c)')
  BY <1>1 DEF ContextInv, TableInv, CallerInv, callVars
<1>10. QED
  BY <1>4, <1>5, <1>6, <1>7, <1>8, <1>9 DEF ContextInv

(* With nothing active, no primitive call is outstanding. *)
LEMMA QuietWhenInactive ==
    ASSUME ContextInv, active = 0
    PROVE  \A g \in Gens : ~late[g]
<1>1. Cardinality(WorkingFlights) = 0 /\ IsFiniteSet(WorkingFlights)
  BY Finiteness DEF ContextInv, ActiveIsWork, WorkingFlights, Working
<1>2. WorkingFlights = {}
  BY <1>1, FS_EmptySet
<1>3. QED
  BY <1>2 DEF ContextInv, ActiveIsWork, WorkingFlights, Working

(* Close waits, succeeds or gives up; or nothing changes. *)
LEMMA CloseInv ==
    ASSUME ContextInv, CloseWaits \/ CloseDone \/ CloseExpired \/ UNCHANGED vars
    PROVE  ContextInv'
<1>1. UNCHANGED <<callVars, gen, flightVars, fpc, late, flights, active, draining, cacheVars>>
  BY DEF CloseWaits, CloseDone, CloseExpired, vars
<1>2. closing' = closing \/ (closing # "none" /\ closing' \in {"waiting", "closed", "failed"})
  BY DEF CloseWaits, CloseDone, CloseExpired, vars
<1>3. closing' = "closed" => closing = "closed" \/ active = 0
  BY DEF CloseWaits, CloseDone, CloseExpired, vars
<1>4. TypeOK'
  BY <1>1, <1>2 DEF ContextInv, TypeOK, callVars, flightVars, cacheVars
<1>5. ActiveIsWork'
  BY <1>1, <1>3, QuietWhenInactive DEF ContextInv, ActiveIsWork
<1>6. AnswersAreReal' /\ DrainInv'
  BY <1>1, <1>2 DEF ContextInv, AnswersAreReal, DrainInv, callVars, flightVars
<1>7. \A g \in Gens : MembersInv(g)'
  BY <1>1, SameMembers DEF callVars, flightVars
<1>8. \A g \in Gens : FlightInv(g)'
  BY <1>1 DEF ContextInv, FlightInv, callVars, flightVars, cacheVars
<1>9. (\A a \in Addresses : TableInv(a)') /\ (\A c \in Callers : CallerInv(c)')
  BY <1>1 DEF ContextInv, TableInv, CallerInv, callVars, flightVars
<1>10. QED
  BY <1>4, <1>5, <1>6, <1>7, <1>8, <1>9 DEF ContextInv

(* Every step preserves the invariant. *)
LEMMA ContextNextInv == ContextInv /\ [Next]_vars => ContextInv'
<1> SUFFICES ASSUME ContextInv, [Next]_vars
             PROVE  ContextInv'
  OBVIOUS
<1>1. ASSUME NEW c \in Callers, LookupStep(c)
      PROVE  ContextInv'
  BY <1>1, LookupRefusedInv, LookupHitInv, LookupJoinInv, LookupBusyInv, LookupTooLateInv,
     LookupStartInv DEF LookupStep
<1>2. ASSUME NEW c \in Callers, WaitStep(c) \/ CallerCancel(c)
      PROVE  ContextInv'
  BY <1>2, WakeInv, LeaveInv, CallerCancelInv DEF WaitStep
<1>3. ASSUME NEW g \in Gens, Publish(g) \/ PrimitivesReturn(g) \/ Finish(g)
      PROVE  ContextInv'
  BY <1>3, PublishInv, PrimitivesReturnInv, FinishInv
<1>4. QED
  BY <1>1, <1>2, <1>3, ExpireInv, DrainStepInv, CloseInv DEF Next

-----------------------------------------------------------------------------
(* The inductive invariant holds of every behaviour. *)
THEOREM ContextInvariant == Spec => []ContextInv
<1>1. Init => ContextInv
  BY ContextInitInv
<1>2. ContextInv /\ [Next]_vars => ContextInv'
  BY ContextNextInv
<1>3. QED
  BY <1>1, <1>2, PTL DEF Spec

(* s.active counts the flights whose goroutines or primitive calls still   *)
(* run and stays within its limit, and once Close has returned nil none of *)
(* them runs, whatever the providers do.                                   *)
THEOREM ActiveIsWorkHolds == Spec => []ActiveIsWork
<1>1. ContextInv => ActiveIsWork
  BY DEF ContextInv
<1>2. QED
  BY <1>1, ContextInvariant, PTL

(* Lookup hands out only published, validated values, and reports a        *)
(* cancellation only to a caller that left itself or met the drain.        *)
THEOREM AnswersAreRealHolds == Spec => []AnswersAreReal
<1>1. ContextInv => AnswersAreReal
  BY DEF ContextInv
<1>2. QED
  BY <1>1, ContextInvariant, PTL

(* s.flights names the one flight that gathers for an address, however     *)
(* late earlier flights of the address finish.                             *)
THEOREM GatheringIsSharedHolds == Spec => []GatheringIsShared
<1>1. ContextInv => GatheringIsShared
  BY DEF ContextInv, FlightInv, GatheringIsShared
<1>2. QED
  BY <1>1, ContextInvariant, PTL

(* cacheSnapshot, which does not look for an entry of its address, never   *)
(* meets one.                                                              *)
THEOREM SnapshotIsNewHolds == Spec => SnapshotIsNew
<1>1. ASSUME ContextInv, [Next]_vars, NEW a \in Addresses, cache[a] # 0
      PROVE  cache'[a] \in {0, cache[a]}
  <2>1. ASSUME NEW c \in Callers, LookupStep(c)
        PROVE  cache'[a] \in {0, cache[a]}
    <3>1. cache' = cache \/ \E b \in Addresses : DropExpired(b)
      BY <2>1 DEF LookupStep, LookupRefused, LookupHit, LookupJoin, LookupBusy, LookupTooLate,
         LookupStart, Miss, cacheVars
    <3>2. ASSUME NEW b \in Addresses, DropExpired(b)
          PROVE  cache'[a] \in {0, cache[a]}
      BY <1>1, <3>2 DEF DropExpired, ContextInv, TypeOK
    <3>3. QED
      BY <3>1, <3>2
  <2>2. ASSUME NEW c \in Callers, WaitStep(c) \/ CallerCancel(c)
        PROVE  cache' = cache
    BY <2>2 DEF WaitStep, CallerCancel, Wake, Leave, cacheVars
  <2>3. ASSUME NEW g \in Gens, Publish(g)
        PROVE  cache'[a] \in {0, cache[a]}
    BY <1>1, <2>3, PublishEffect
  <2>4. ASSUME NEW g \in Gens, PrimitivesReturn(g) \/ Finish(g)
        PROVE  cache' = cache
    BY <2>4 DEF PrimitivesReturn, Finish, cacheVars
  <2>5. CASE (\E b \in Addresses : Expire(b)) \/ Drain \/ CloseWaits \/ CloseDone \/ CloseExpired
             \/ UNCHANGED vars
    <3>1. cache' = cache
      BY <2>5 DEF Expire, Drain, CloseWaits, CloseDone, CloseExpired, vars, cacheVars
    <3>2. QED
      BY <3>1
  <2>6. QED
    BY <1>1, <2>1, <2>2, <2>3, <2>4, <2>5 DEF Next
<1>2. ContextInv /\ [Next]_vars
        => [\A a \in Addresses : cache[a] # 0 => cache'[a] \in {0, cache[a]}]_vars
  BY <1>1
<1>3. QED
  BY <1>2, ContextInvariant, PTL DEF Spec, SnapshotIsNew

(* Every step of the service is a step of the abstract specification or    *)
(* leaves what its process can see alone.                                  *)
LEMMA StepImplements == ContextInv /\ [Next]_vars => [Abstract!OwnedNext]_Abstract!ownedVars
<1> SUFFICES ASSUME ContextInv, [Next]_vars
             PROVE  [Abstract!OwnedNext]_Abstract!ownedVars
  OBVIOUS
<1>a. active \in Nat
  BY DEF ContextInv, TypeOK
<1>1. ASSUME UNCHANGED <<active, draining, closing>>
      PROVE  UNCHANGED Abstract!ownedVars
  BY <1>1 DEF Abstract!ownedVars
<1>2. ASSUME NEW c \in Callers, LookupStep(c)
      PROVE  [Abstract!OwnedNext]_Abstract!ownedVars
  <2>1. ASSUME NEW a \in Addresses, LookupStart(c, a)
        PROVE  Abstract!StartWork
    BY <2>1 DEF LookupStart, Miss, Abstract!StartWork
  <2>2. CASE ~ \E a \in Addresses : LookupStart(c, a)
    <3>1. UNCHANGED <<active, draining, closing>>
      BY <1>2, <2>2 DEF LookupStep, LookupRefused, LookupHit, LookupJoin, LookupBusy,
         LookupTooLate, Miss
    <3>2. QED
      BY <1>1, <3>1
  <2>3. QED
    BY <2>1, <2>2 DEF Abstract!OwnedNext
<1>3. ASSUME NEW c \in Callers, WaitStep(c) \/ CallerCancel(c)
      PROVE  UNCHANGED <<active, draining, closing>>
  BY <1>3 DEF WaitStep, CallerCancel, Wake, Leave
<1>4. ASSUME NEW g \in Gens, Finish(g)
      PROVE  Abstract!EndWork
  BY <1>4, FinishWork DEF Finish, Abstract!EndWork
<1>5. ASSUME NEW g \in Gens, Publish(g) \/ PrimitivesReturn(g)
      PROVE  UNCHANGED <<active, draining, closing>>
  BY <1>5 DEF Publish, PrimitivesReturn
<1>6. ASSUME NEW a \in Addresses, Expire(a)
      PROVE  UNCHANGED <<active, draining, closing>>
  BY <1>6 DEF Expire
<1>7. ASSUME Drain
      PROVE  Abstract!DrainWork
  BY <1>7 DEF Drain, BeginDrain, Abstract!DrainWork
<1>8. ASSUME CloseWaits
      PROVE  UNCHANGED Abstract!ownedVars
  BY <1>8 DEF CloseWaits, Abstract!ownedVars
<1>9. ASSUME CloseDone
      PROVE  Abstract!CloseClean
  BY <1>9 DEF CloseDone, Abstract!CloseClean
<1>10. ASSUME CloseExpired
       PROVE  Abstract!CloseGaveUp
  BY <1>10 DEF CloseExpired, Abstract!CloseGaveUp
<1>11. ASSUME UNCHANGED vars
       PROVE  UNCHANGED <<active, draining, closing>>
  BY <1>11 DEF vars
<1>12. QED
  BY <1>1, <1>2, <1>3, <1>4, <1>5, <1>6, <1>7, <1>8, <1>9, <1>10, <1>11
  DEF Next, Abstract!OwnedNext

(* The service keeps the promises of OwnedWork: what is active is counted  *)
(* until it has ended, nothing starts once it drains, and Close reports    *)
(* success only when nothing is left.                                      *)
THEOREM ServiceImplementsOwnedWork == Spec => ImplementsOwnedWork
<1>1. Init => Abstract!OwnedInit
  BY DEF Init, Abstract!OwnedInit
<1>2. ContextInv /\ [Next]_vars => [Abstract!OwnedNext]_Abstract!ownedVars
  BY StepImplements
<1>3. QED
  BY <1>1, <1>2, ContextInvariant, PTL DEF Spec, ImplementsOwnedWork, Abstract!OwnedSpec

=============================================================================
