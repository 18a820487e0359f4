-------------------------- MODULE WebClientProofs --------------------------
(***************************************************************************)
(* Proofs about WebClient for any inputs, bases, tokens, addresses, views  *)
(* and bounds: what the page shows answers what it asks for now, requests  *)
(* and lookups carry the credential of the store, and the context panel    *)
(* has one lookup, for the scope of the page.                              *)
(***************************************************************************)
EXTENDS WebClient, SequenceTheorems, TLAPS

-----------------------------------------------------------------------------
(* The context controller.                                                 *)

Phases ==
    {"idle", "cancelled", "loading", "ready", "timeout", "insecure-auth", "unavailable",
     "invalid-response"} \cup ErrorPhases

Operations ==
    [stage : {"none", "fetch", "read", "cleanup", "done"}, owner : Scopes \cup {NoScope},
     current : BOOLEAN, aborted : BOOLEAN, settled : BOOLEAN, late : BOOLEAN, timer : BOOLEAN,
     body : {"none", "open", "cancelled"}]

Entries == [value : Scopes, fresh : BOOLEAN]

Controllers ==
    [owner : Scopes \cup {NoScope}, alive : BOOLEAN, flight : Flights \cup {NoFlight},
     phase : Phases, value : Scopes \cup {NoValue}, cache : Seq(Entries),
     started : 0 .. MaxFlights, ops : [Flights -> Operations]]

(* What SameScope means of two scopes. *)
Peers(a, b) ==
    /\ a.report = b.report /\ a.base = b.base /\ a.revision = b.revision
    /\ a.auth = b.auth /\ a.token = b.token

(* A flight that is under way is the charged one, and unless it was        *)
(* aborted it was started for the scope the controller still has.          *)
OperationInv(c, f) ==
    /\ c.ops[f].stage \in {"fetch", "read", "cleanup"} => c.flight = f
    /\ c.ops[f].stage \in {"fetch", "read"} /\ ~c.ops[f].aborted =>
          c.owner # NoScope /\ c.ops[f].owner = c.owner

(* The cache holds snapshots of the controller's report, server and        *)
(* credential only, and a snapshot is shown for the scope it is of.        *)
ControllerInv(c) ==
    /\ c \in Controllers
    /\ c.owner # NoScope => c.alive
    /\ c.phase = "ready" => c.owner # NoScope /\ c.value = c.owner
    /\ \A i \in DOMAIN c.cache : c.owner # NoScope /\ Peers(c.cache[i].value, c.owner)
    /\ \A f \in Flights : OperationInv(c, f)

(* The effect on the controller's scope of the steps that do not change it. *)
SameOwner(d, c) == d.owner = c.owner /\ d.alive = c.alive

LEMMA ScopeOfPeer ==
    ASSUME NEW a \in Scopes, NEW b \in Scopes
    PROVE  /\ SameScope(a, b) <=> Peers(a, b)
           /\ Peers(a, b) /\ a.address = b.address => a = b
<1>1. a # NoScope /\ b # NoScope
  BY WebClientAssumption
<1>2. a = [report |-> a.report, address |-> a.address, base |-> a.base,
           revision |-> a.revision, auth |-> a.auth, token |-> a.token]
  BY DEF Scopes
<1>3. [b EXCEPT !.address = a.address]
          = [report |-> b.report, address |-> a.address, base |-> b.base,
             revision |-> b.revision, auth |-> b.auth, token |-> b.token]
  BY DEF Scopes
<1>4. b = [report |-> b.report, address |-> b.address, base |-> b.base,
           revision |-> b.revision, auth |-> b.auth, token |-> b.token]
  BY DEF Scopes
<1>5. SameScope(a, b) => Peers(a, b)
  BY <1>3 DEF SameScope, Peers
<1>6. Peers(a, b) => SameScope(a, b)
  BY <1>1, <1>2, <1>3 DEF SameScope, Peers
<1>7. Peers(a, b) /\ a.address = b.address => a = b
  BY <1>2, <1>4 DEF Peers
<1>8. QED
  BY <1>5, <1>6, <1>7

(* Every element of a concatenation is one of its parts', and removing an  *)
(* element of a sequence leaves the others.                                *)
LEMMA Concatenation ==
    ASSUME NEW S, NEW h \in Seq(S), NEW t \in Seq(S), NEW i \in DOMAIN (h \o t)
    PROVE  \/ i \in 1 .. Len(h) /\ (h \o t)[i] = h[i]
           \/ i - Len(h) \in 1 .. Len(t) /\ (h \o t)[i] = t[i - Len(h)]
<1>1. i \in 1 .. Len(h) + Len(t)
  BY ConcatProperties
<1>2. CASE i <= Len(h)
  BY <1>1, <1>2
<1>3. CASE i > Len(h)
  BY <1>1, <1>3
<1>4. QED
  BY <1>1, <1>2, <1>3

LEMMA Removal ==
    ASSUME NEW S, NEW s \in Seq(S), NEW n \in 1 .. Len(s)
    PROVE  LET r == SubSeq(s, 1, n - 1) \o SubSeq(s, n + 1, Len(s))
           IN  r \in Seq(S) /\ \A i \in DOMAIN r : \E j \in DOMAIN s : r[i] = s[j]
<1> DEFINE h == SubSeq(s, 1, n - 1)
           t == SubSeq(s, n + 1, Len(s))
<1>1. h \in Seq(S) /\ Len(h) = n - 1
  OBVIOUS
<1>2. \A i \in 1 .. n - 1 : h[i] = s[i]
  OBVIOUS
<1>3. t \in Seq(S) /\ Len(t) = Len(s) - n
  OBVIOUS
<1>4. \A i \in 1 .. Len(s) - n : t[i] = s[n + i]
  OBVIOUS
<1>5. DOMAIN s = 1 .. Len(s) /\ Len(s) \in Nat
  OBVIOUS
<1> HIDE DEF h, t
<1>6. h \o t \in Seq(S)
  BY <1>1, <1>3
<1>7. ASSUME NEW i \in DOMAIN (h \o t)
      PROVE  \E j \in DOMAIN s : (h \o t)[i] = s[j]
  <2>1. CASE i \in 1 .. Len(h) /\ (h \o t)[i] = h[i]
    BY <1>1, <1>2, <1>5, <2>1
  <2>2. CASE i - Len(h) \in 1 .. Len(t) /\ (h \o t)[i] = t[i - Len(h)]
    <3>1. (h \o t)[i] = s[n + (i - Len(h))]
      BY <1>3, <1>4, <2>2
    <3>2. n + (i - Len(h)) \in 1 .. Len(s)
      BY <1>1, <1>3, <1>5, <2>2
    <3>3. QED
      BY <1>5, <3>1, <3>2
  <2>3. QED
    BY <1>1, <1>3, <2>1, <2>2, Concatenation
<1>8. QED
  BY <1>6, <1>7 DEF h, t

(* Deleting an address from the cache invents no entry, and neither does   *)
(* looking one up.                                                         *)
LEMMA WithoutIsPart ==
    ASSUME NEW cache \in Seq(Entries), NEW address
    PROVE  /\ Without(cache, address) \in Seq(Entries)
           /\ \A i \in DOMAIN Without(cache, address) :
                 \E j \in DOMAIN cache : Without(cache, address)[i] = cache[j]
<1> DEFINE at == {i \in DOMAIN cache : cache[i].value.address = address}
           k == CHOOSE i \in at : TRUE
<1>1. CASE at = {}
  BY <1>1 DEF Without
<1>2. CASE at # {}
  <2>1. k \in 1 .. Len(cache)
    BY <1>2
  <2> DEFINE r == SubSeq(cache, 1, k - 1) \o SubSeq(cache, k + 1, Len(cache))
  <2>2. Without(cache, address) = r
    BY <1>2 DEF Without
  <2> HIDE DEF k
  <2>3. r \in Seq(Entries) /\ \A i \in DOMAIN r : \E j \in DOMAIN cache : r[i] = cache[j]
    BY ONLY <2>1, Removal, cache \in Seq(Entries)
  <2> HIDE DEF r
  <2>4. QED
    BY <2>2, <2>3
<1>3. QED
  BY <1>1, <1>2

LEMMA TouchIsPart ==
    ASSUME NEW c \in Controllers, NEW address
    PROVE  /\ Touch(c, address) \in Controllers
           /\ Touch(c, address) = [c EXCEPT !.cache = Touch(c, address).cache]
           /\ \A i \in DOMAIN Touch(c, address).cache :
                 \E j \in DOMAIN c.cache :
                    Touch(c, address).cache[i].value = c.cache[j].value
           /\ Unexpired(c, address) # {} =>
                 /\ Cached(c, address) \in Scopes /\ Cached(c, address).address = address
                 /\ \E j \in DOMAIN c.cache : Cached(c, address) = c.cache[j].value
<1> DEFINE others == Without(c.cache, address)
           entry == [value |-> Cached(c, address), fresh |-> TRUE]
<1>1. c.cache \in Seq(Entries)
  BY DEF Controllers
<1>2. others \in Seq(Entries)
      /\ \A i \in DOMAIN others : \E j \in DOMAIN c.cache : others[i] = c.cache[j]
  BY <1>1, WithoutIsPart
<1> HIDE DEF others
<1>3. ASSUME Unexpired(c, address) # {}
      PROVE  /\ Cached(c, address) \in Scopes /\ Cached(c, address).address = address
             /\ \E j \in DOMAIN c.cache : Cached(c, address) = c.cache[j].value
  <2>1. PICK j \in DOMAIN c.cache :
            j = (CHOOSE i \in Unexpired(c, address) : TRUE) /\ c.cache[j].value.address = address
    BY <1>3 DEF Unexpired
  <2>2. c.cache[j] \in Entries
    BY <1>1, <2>1
  <2>3. QED
    BY <2>1, <2>2 DEF Cached, Entries
<1>4. CASE Unexpired(c, address) = {}
  <2>1. Touch(c, address) = [c EXCEPT !.cache = others]
    BY <1>4 DEF Touch, others
  <2>2. QED
    BY <1>2, <1>4, <2>1 DEF Controllers
<1>5. CASE Unexpired(c, address) # {}
  <2>1. Touch(c, address) = [c EXCEPT !.cache = Append(others, entry)]
    BY <1>5 DEF Touch, others
  <2>2. entry \in Entries
    BY <1>3, <1>5 DEF Entries
  <2>3. entry.value = Cached(c, address)
    OBVIOUS
  <2> HIDE DEF entry
  <2>4. Append(others, entry) \in Seq(Entries)
    BY <1>2, <2>2
  <2>5. ASSUME NEW i \in DOMAIN Append(others, entry)
        PROVE  \E j \in DOMAIN c.cache : Append(others, entry)[i].value = c.cache[j].value
    <3>1. CASE i = Len(others) + 1
      BY <1>2, <1>3, <1>5, <2>2, <2>3, <3>1
    <3>2. CASE i # Len(others) + 1
      <4>1. i \in DOMAIN others /\ Append(others, entry)[i] = others[i]
        BY <1>2, <2>2, <3>2
      <4>2. QED
        BY <1>2, <4>1
    <3>3. QED
      BY <3>1, <3>2
  <2>6. Touch(c, address).cache = Append(others, entry)
    BY <2>1 DEF Controllers
  <2>7. Touch(c, address) \in Controllers
    BY <2>1, <2>4 DEF Controllers
  <2>8. QED
    BY <1>3, <1>5, <2>1, <2>5, <2>6, <2>7
<1>6. QED
  BY <1>4, <1>5

-----------------------------------------------------------------------------
(* Each step of the controller keeps its invariant, whatever scope the     *)
(* application is in.                                                      *)
LEMMA PublishInv ==
    ASSUME NEW c, ControllerInv(c), NEW phase \in Phases, phase # "ready"
    PROVE  /\ ControllerInv(Publish(c, phase)) /\ SameOwner(Publish(c, phase), c)
           /\ Publish(c, phase).flight = c.flight /\ Publish(c, phase).ops = c.ops
<1> DEFINE d == Publish(c, phase)
<1>1. /\ d \in Controllers /\ d.owner = c.owner /\ d.alive = c.alive /\ d.flight = c.flight
      /\ d.ops = c.ops /\ d.cache = c.cache /\ d.phase = phase
  BY DEF ControllerInv, Controllers, Publish
<1> HIDE DEF d
<1>2. QED
  BY <1>1 DEF ControllerInv, SameOwner, OperationInv, d

LEMMA PublishReadyInv ==
    ASSUME NEW c, ControllerInv(c), c.owner # NoScope
    PROVE  /\ ControllerInv(PublishReady(c, c.owner)) /\ SameOwner(PublishReady(c, c.owner), c)
<1> DEFINE d == PublishReady(c, c.owner)
<1>1. c.owner \in Scopes
  BY DEF ControllerInv, Controllers
<1>2. /\ d \in Controllers /\ d.owner = c.owner /\ d.alive = c.alive /\ d.flight = c.flight
      /\ d.ops = c.ops /\ d.cache = c.cache /\ d.value = c.owner
  BY <1>1 DEF ControllerInv, Controllers, PublishReady, Phases
<1> HIDE DEF d
<1>3. QED
  BY <1>2 DEF ControllerInv, SameOwner, OperationInv, d

LEMMA TouchInv ==
    ASSUME NEW c, ControllerInv(c), NEW address
    PROVE  /\ ControllerInv(Touch(c, address)) /\ SameOwner(Touch(c, address), c)
           /\ Touch(c, address).flight = c.flight /\ Touch(c, address).ops = c.ops
<1> DEFINE d == Touch(c, address)
<1>1. c \in Controllers
  BY DEF ControllerInv
<1>2. /\ d \in Controllers /\ d = [c EXCEPT !.cache = d.cache]
      /\ \A i \in DOMAIN d.cache : \E j \in DOMAIN c.cache : d.cache[i].value = c.cache[j].value
  BY <1>1, TouchIsPart
<1> HIDE DEF d
<1>3. /\ d.owner = c.owner /\ d.alive = c.alive /\ d.flight = c.flight
      /\ d.ops = c.ops /\ d.value = c.value /\ d.phase = c.phase
  BY <1>1, <1>2 DEF Controllers
<1>4. QED
  BY <1>2, <1>3 DEF ControllerInv, SameOwner, OperationInv, d

(* A cached snapshot for the address of the scope is of that scope. *)
LEMMA CachedIsOwn ==
    ASSUME NEW c, ControllerInv(c), NEW scope \in Scopes,
           c.owner # NoScope, SameScope(c.owner, scope) \/ c.owner = scope,
           Unexpired(c, scope.address) # {}
    PROVE  Cached(c, scope.address) = scope
<1>1. c \in Controllers /\ c.owner \in Scopes
  BY DEF ControllerInv, Controllers
<1>2. PICK j \in DOMAIN c.cache : Cached(c, scope.address) = c.cache[j].value
  BY <1>1, TouchIsPart
<1>3. Cached(c, scope.address) \in Scopes /\ Cached(c, scope.address).address = scope.address
  BY <1>1, TouchIsPart
<1>4. Peers(Cached(c, scope.address), c.owner)
  BY <1>2 DEF ControllerInv
<1>5. Peers(c.owner, scope)
  BY <1>1, ScopeOfPeer DEF Peers
<1>6. Peers(Cached(c, scope.address), scope)
  BY <1>4, <1>5 DEF Peers
<1>7. QED
  BY <1>3, <1>6, ScopeOfPeer

LEMMA RevokeInv ==
    ASSUME NEW c, ControllerInv(c)
    PROVE  /\ ControllerInv(Revoke(c)) /\ SameOwner(Revoke(c), c)
           /\ Revoke(c).cache = c.cache /\ Revoke(c).flight = c.flight
           /\ \A f \in Flights :
                 Revoke(c).ops[f].stage \in {"fetch", "read"} => Revoke(c).ops[f].aborted
<1> DEFINE d == Revoke(c)
<1>1. c \in Controllers
  BY DEF ControllerInv
<1>2. /\ d.owner = c.owner /\ d.alive = c.alive /\ d.flight = c.flight
      /\ d.cache = c.cache /\ d.value = c.value /\ d.phase = c.phase
  BY <1>1 DEF Controllers, Revoke
<1>3. ASSUME NEW f \in Flights
      PROVE  /\ d.ops[f] \in Operations /\ d.ops[f].stage = c.ops[f].stage
             /\ f = c.flight => d.ops[f].aborted
  <2>1. c.ops[f] \in Operations
    BY <1>1 DEF Controllers
  <2> DEFINE o == [c.ops[f] EXCEPT !.current = FALSE]
             u == [ClearDeadline(o) EXCEPT !.aborted = TRUE, !.settled = TRUE]
  <2>2. d.ops[f] = IF f = c.flight THEN StopBody(u) ELSE o
    BY <1>1 DEF Controllers, Revoke
  <2>3. o \in Operations /\ o.stage = c.ops[f].stage
    BY <2>1 DEF Operations
  <2> HIDE DEF o
  <2>4. u \in Operations /\ u.stage = o.stage /\ u.aborted
    BY <2>3, ContextAssumption DEF Operations, ClearDeadline
  <2> HIDE DEF u
  <2>5. StopBody(u) \in Operations /\ StopBody(u).stage = u.stage /\ StopBody(u).aborted
    BY <2>4 DEF Operations, StopBody
  <2>6. QED
    BY <2>2, <2>3, <2>4, <2>5
<1>4. d.ops \in [Flights -> Operations]
  <2>1. d.ops = [f \in Flights |-> d.ops[f]]
    BY <1>1 DEF Controllers, Revoke
  <2> HIDE DEF d
  <2>2. QED
    BY <1>3, <2>1
<1>5. d \in Controllers
  <2>1. d = [c EXCEPT !.ops = d.ops]
    BY <1>1 DEF Controllers, Revoke
  <2> HIDE DEF d
  <2>2. QED
    BY <1>1, <1>4, <2>1 DEF Controllers
<1> HIDE DEF d
<1>6. \A f \in Flights : d.ops[f].stage \in {"fetch", "read"} => d.ops[f].aborted
  BY <1>3 DEF ControllerInv, OperationInv
<1>7. \A f \in Flights : OperationInv(d, f)
  BY <1>2, <1>3, <1>6 DEF ControllerInv, OperationInv
<1>8. ControllerInv(d)
  BY <1>2, <1>5, <1>7 DEF ControllerInv
<1>9. QED
  BY <1>2, <1>6, <1>8 DEF SameOwner, d

(* setOwner: a new scope revokes the lookup, and clears the cache unless   *)
(* only the address changed.                                               *)
LEMMA SetOwnerInv ==
    ASSUME NEW c, ControllerInv(c), c.alive, NEW next \in Scopes \cup {NoScope}
    PROVE  /\ ControllerInv(SetOwner(c, next))
           /\ SetOwner(c, next).owner = next /\ SetOwner(c, next).alive
<1>1. CASE c.owner = next /\ next # NoScope
  BY <1>1 DEF SetOwner
<1>2. CASE ~(c.owner = next /\ next # NoScope)
  <2> DEFINE scoped == IF SameScope(c.owner, next) THEN c ELSE [c EXCEPT !.cache = <<>>]
             c1 == [Revoke(scoped) EXCEPT !.owner = next]
  <2>0. c \in Controllers
    BY DEF ControllerInv
  <2>1. /\ ControllerInv(scoped) /\ scoped.owner = c.owner /\ scoped.alive
        /\ SameScope(c.owner, next) \/ DOMAIN scoped.cache = {}
    <3>1. CASE SameScope(c.owner, next)
      BY <3>1
    <3>2. CASE ~SameScope(c.owner, next)
      <4>1. scoped = [c EXCEPT !.cache = <<>>]
        BY <3>2
      <4>10. <<>> \in Seq(Entries)
        OBVIOUS
      <4> HIDE DEF scoped
      <4>2. /\ scoped \in Controllers /\ scoped.owner = c.owner /\ scoped.alive = c.alive
            /\ scoped.flight = c.flight /\ scoped.ops = c.ops /\ scoped.value = c.value
            /\ scoped.phase = c.phase /\ scoped.cache = <<>>
        BY <2>0, <4>1, <4>10 DEF Controllers
      <4>3. QED
        BY <4>2 DEF ControllerInv, OperationInv
    <3>3. QED
      BY <3>1, <3>2
  <2>2. SetOwner(c, next) = IF next = NoScope THEN Publish(c1, "idle")
                            ELSE IF Unexpired(c1, next.address) # {}
                            THEN PublishReady(Touch(c1, next.address), Cached(c1, next.address))
                            ELSE Publish(Touch(c1, next.address), "idle")
    BY <1>2 DEF SetOwner
  <2> HIDE DEF scoped
  <2> DEFINE r == Revoke(scoped)
  <2>3. /\ ControllerInv(r) /\ r.owner = c.owner /\ r.alive /\ r.cache = scoped.cache
        /\ \A f \in Flights : r.ops[f].stage \in {"fetch", "read"} => r.ops[f].aborted
    BY <2>1, RevokeInv DEF SameOwner
  <2> HIDE DEF r
  <2>4. /\ c1 = [r EXCEPT !.owner = next] /\ r \in Controllers
    BY <2>3 DEF r, ControllerInv
  <2> HIDE DEF c1
  <2>5. /\ c1 \in Controllers /\ c1.owner = next /\ c1.alive /\ c1.cache = r.cache
        /\ c1.ops = r.ops /\ c1.flight = r.flight
    BY <2>3, <2>4 DEF Controllers
  <2> DEFINE quiet == [c1 EXCEPT !.phase = "idle"]
  <2>6. \A i \in DOMAIN c1.cache : next # NoScope /\ Peers(c1.cache[i].value, next)
    <3>1. CASE DOMAIN scoped.cache = {}
      BY <2>3, <2>5, <3>1
    <3>2. CASE SameScope(c.owner, next)
      <4>1. next # NoScope /\ c.owner # NoScope
        BY <3>2 DEF SameScope
      <4>2. c.owner \in Scopes /\ next \in Scopes
        BY <2>0, <4>1 DEF Controllers
      <4>3. Peers(c.owner, next)
        BY <3>2, <4>2, ScopeOfPeer
      <4>4. \A i \in DOMAIN c1.cache : Peers(c1.cache[i].value, c.owner)
        BY <2>3, <2>5 DEF ControllerInv
      <4>5. QED
        BY <4>1, <4>3, <4>4 DEF Peers
    <3>3. QED
      BY <2>1, <3>1, <3>2
  <2>7. ControllerInv(quiet) /\ quiet.owner = next /\ quiet.alive
    <3>1. /\ quiet \in Controllers /\ quiet.owner = c1.owner /\ quiet.alive = c1.alive
          /\ quiet.cache = c1.cache /\ quiet.ops = c1.ops /\ quiet.flight = c1.flight
          /\ quiet.phase = "idle"
      BY <2>5 DEF Controllers, Phases
    <3> HIDE DEF quiet
    <3>2. \A f \in Flights : OperationInv(quiet, f)
      BY <2>3, <2>5, <3>1 DEF ControllerInv, OperationInv
    <3>3. QED
      BY <2>5, <2>6, <3>1, <3>2 DEF ControllerInv
  <2>8. Publish(c1, "idle") = Publish(quiet, "idle")
    BY <2>5 DEF Controllers, Publish
  <2>9. CASE next = NoScope
    <3>1. SetOwner(c, next) = Publish(quiet, "idle")
      BY <2>2, <2>8, <2>9
    <3> HIDE DEF quiet
    <3>2. QED
      BY <2>7, <3>1, PublishInv DEF SameOwner, Phases
  <2>10. CASE next # NoScope
    <3>1. next \in Scopes
      BY <2>10
    <3>2. Touch(quiet, next.address) = [Touch(c1, next.address) EXCEPT !.phase = "idle"]
          /\ Unexpired(quiet, next.address) = Unexpired(c1, next.address)
          /\ Cached(quiet, next.address) = Cached(c1, next.address)
      <4>1. quiet.cache = c1.cache
        BY <2>5 DEF Controllers
      <4>2. Unexpired(quiet, next.address) = Unexpired(c1, next.address)
        BY <4>1 DEF Unexpired
      <4>3. Cached(quiet, next.address) = Cached(c1, next.address)
        BY <4>1, <4>2 DEF Cached
      <4> DEFINE k == Touch(c1, next.address).cache
      <4>4. Touch(c1, next.address) = [c1 EXCEPT !.cache = k]
        BY <2>5, TouchIsPart
      <4>5. Touch(quiet, next.address).cache = k
        BY <2>5, <4>1, <4>2, <4>3 DEF Touch, Controllers
      <4>6. Touch(quiet, next.address) = [quiet EXCEPT !.cache = k]
        <5>1. quiet \in Controllers
          BY <2>7 DEF ControllerInv
        <5> HIDE DEF quiet, k
        <5>2. Touch(quiet, next.address) = [quiet EXCEPT !.cache = Touch(quiet, next.address).cache]
          BY <5>1, TouchIsPart
        <5>3. QED
          BY <4>5, <5>2
      <4> HIDE DEF k
      <4>7. QED
        BY <2>5, <4>2, <4>3, <4>4, <4>6 DEF Controllers
    <3>3. Touch(c1, next.address) \in Controllers
      BY <2>5, TouchIsPart
    <3> DEFINE t == Touch(quiet, next.address)
    <3>4. /\ ControllerInv(t) /\ t.owner = next /\ t.alive
      <4> HIDE DEF quiet
      <4>1. QED
        BY <2>7, TouchInv DEF SameOwner
    <3>5. CASE Unexpired(c1, next.address) # {}
      <4>1. Cached(c1, next.address) = next
        <5>1. Unexpired(quiet, next.address) # {}
          BY <3>2, <3>5
        <5> HIDE DEF quiet
        <5>2. Cached(quiet, next.address) = next
          BY <2>7, <2>10, <3>1, <5>1, CachedIsOwn
        <5>3. QED
          BY <3>2, <5>2
      <4>2. PublishReady(Touch(c1, next.address), next) = PublishReady(t, next)
        BY <3>2, <3>3 DEF Controllers, PublishReady
      <4>3. SetOwner(c, next) = PublishReady(t, t.owner)
        BY <2>2, <2>10, <3>4, <3>5, <4>1, <4>2
      <4> HIDE DEF t
      <4>4. QED
        BY <2>10, <3>4, <4>3, PublishReadyInv DEF SameOwner
    <3>6. CASE Unexpired(c1, next.address) = {}
      <4>1. Publish(Touch(c1, next.address), "idle") = Publish(t, "idle")
        BY <3>2, <3>3 DEF Controllers, Publish
      <4>2. SetOwner(c, next) = Publish(t, "idle")
        BY <2>2, <2>10, <3>6, <4>1
      <4> HIDE DEF t
      <4>3. QED
        BY <3>4, <4>2, PublishInv DEF SameOwner, Phases
    <3>7. QED
      BY <3>5, <3>6
  <2>11. QED
    BY <2>9, <2>10
<1>3. QED
  BY <1>1, <1>2

LEMMA CancelInv ==
    ASSUME NEW c, ControllerInv(c)
    PROVE  ControllerInv(ContextCancel(c)) /\ SameOwner(ContextCancel(c), c)
<1>1. ControllerInv(Revoke(c)) /\ SameOwner(Revoke(c), c)
  BY RevokeInv
<1>2. "cancelled" \in Phases
  BY DEF Phases
<1>3. /\ ControllerInv(Publish(Revoke(c), "cancelled"))
      /\ SameOwner(Publish(Revoke(c), "cancelled"), Revoke(c))
  BY <1>1, <1>2, PublishInv
<1>4. QED
  BY <1>1, <1>3 DEF ContextCancel, SameOwner

LEMMA DestroyInv ==
    ASSUME NEW c, ControllerInv(c)
    PROVE  /\ ControllerInv(ContextDestroy(c)) /\ ContextDestroy(c).owner = NoScope
           /\ ~ContextDestroy(c).alive
<1>1. CASE ~c.alive
  BY <1>1 DEF ContextDestroy, ControllerInv
<1>2. CASE c.alive
  <2> DEFINE p == Publish(Revoke(c), "idle")
             d == ContextDestroy(c)
  <2>1. ControllerInv(Revoke(c))
        /\ \A f \in Flights : Revoke(c).ops[f].stage \in {"fetch", "read"} => Revoke(c).ops[f].aborted
    BY RevokeInv
  <2>2. "idle" \in Phases
    BY DEF Phases
  <2>3. ControllerInv(p) /\ p.ops = Revoke(c).ops
    BY <2>1, <2>2, PublishInv
  <2>4. d = [p EXCEPT !.alive = FALSE, !.owner = NoScope, !.cache = <<>>]
    BY <1>2 DEF ContextDestroy
  <2>5. p.phase = "idle" /\ p \in Controllers
    BY <2>1, <2>3 DEF Publish, ControllerInv, Controllers
  <2>20. <<>> \in Seq(Entries)
    OBVIOUS
  <2> HIDE DEF p, d
  <2>6. /\ d \in Controllers /\ d.owner = NoScope /\ d.alive = FALSE /\ d.flight = p.flight
        /\ d.ops = p.ops /\ d.cache = <<>> /\ d.phase = "idle"
    BY <2>4, <2>5, <2>20 DEF Controllers
  <2>7. \A f \in Flights : OperationInv(d, f)
    BY <2>1, <2>3, <2>6 DEF ControllerInv, OperationInv
  <2>8. QED
    BY <2>6, <2>7 DEF ControllerInv, d
<1>3. QED
  BY <1>1, <1>2

-----------------------------------------------------------------------------
(* query(), and the steps of a flight. *)
LEMMA QueryInv ==
    ASSUME NEW c, ControllerInv(c), NEW now, MayQuery(c, now), NEW d,
           \/ CacheHit(c) /\ d = QueryCached(c)
           \/ d = QueryInsecure(c) \/ d = QueryUnarmed(c)
           \/ c.started < MaxFlights /\ d = QueryStarts(c)
    PROVE  ControllerInv(d) /\ SameOwner(d, c)
<1> DEFINE t == Touch(c, c.owner.address)
<1>1. c \in Controllers /\ c.owner # NoScope /\ c.owner \in Scopes /\ c.flight = NoFlight
  BY DEF ControllerInv, Controllers, MayQuery
<1>2. ControllerInv(t) /\ SameOwner(t, c) /\ t.flight = c.flight /\ t.ops = c.ops
  BY TouchInv
<1>3. CASE CacheHit(c) /\ d = QueryCached(c)
  <2>1. Cached(c, c.owner.address) = c.owner
    BY <1>1, <1>3, CachedIsOwn DEF CacheHit
  <2>2. d = PublishReady(t, t.owner)
    BY <1>2, <1>3, <2>1 DEF QueryCached, SameOwner
  <2> HIDE DEF t
  <2>3. QED
    BY <1>1, <1>2, <2>2, PublishReadyInv DEF SameOwner
<1>4. \A phase \in {"insecure-auth", "unavailable", "loading"} :
          /\ ControllerInv(Publish(t, phase)) /\ SameOwner(Publish(t, phase), c)
          /\ Publish(t, phase).flight = c.flight /\ Publish(t, phase).ops = c.ops
  <2> HIDE DEF t
  <2>1. {"insecure-auth", "unavailable", "loading"} \subseteq Phases
    BY DEF Phases
  <2>2. QED
    BY <1>2, <2>1, PublishInv DEF SameOwner
<1>5. CASE d = QueryInsecure(c) \/ d = QueryUnarmed(c)
  BY <1>4, <1>5 DEF QueryInsecure, QueryUnarmed
<1>6. CASE c.started < MaxFlights /\ d = QueryStarts(c)
  <2> DEFINE p == Publish(t, "loading")
             f == c.started + 1
             o == [Unstarted EXCEPT !.stage = "fetch", !.owner = c.owner,
                                    !.current = TRUE, !.timer = TRUE]
  <2>1. d = [p EXCEPT !.flight = f, !.started = f, !.ops[f] = o]
    BY <1>6 DEF QueryStarts
  <2>2. o \in Operations /\ o.stage = "fetch" /\ o.owner = c.owner
    BY <1>1 DEF Operations, Unstarted
  <2>3. f \in Flights /\ f \in 0 .. MaxFlights
    BY <1>1, <1>6, ContextAssumption DEF Controllers, Flights
  <2>4. ControllerInv(p) /\ SameOwner(p, c) /\ p.flight = NoFlight /\ p.phase = "loading"
        /\ p.ops = c.ops
    <3>1. p.phase = "loading"
      BY <1>2 DEF Publish, ControllerInv, Controllers
    <3>2. QED
      BY <1>1, <1>4, <3>1
  <2> HIDE DEF p, f, o
  <2>5. p \in Controllers
    BY <2>4 DEF ControllerInv
  <2>6. /\ d \in Controllers /\ d.owner = p.owner /\ d.alive = p.alive /\ d.flight = f
        /\ d.cache = p.cache /\ d.phase = p.phase /\ d.ops = [p.ops EXCEPT ![f] = o]
    BY <2>1, <2>2, <2>3, <2>5 DEF Controllers
  <2>7. ASSUME NEW g \in Flights
        PROVE  OperationInv(d, g)
    <3>1. CASE g = f
      BY <1>1, <2>2, <2>4, <2>5, <2>6, <3>1 DEF OperationInv, Controllers, SameOwner
    <3>2. CASE g # f
      <4>1. d.ops[g] = p.ops[g]
        BY <2>5, <2>6, <3>2 DEF Controllers
      <4>2. p.ops[g].stage \notin {"fetch", "read", "cleanup"}
        BY <2>4, ContextAssumption DEF ControllerInv, OperationInv, Flights
      <4>3. QED
        BY <4>1, <4>2 DEF OperationInv
    <3>3. QED
      BY <3>1, <3>2
  <2>8. QED
    BY <2>4, <2>6, <2>7 DEF ControllerInv, SameOwner
<1>7. QED
  BY <1>3, <1>5, <1>6

(* A change of one operation. *)
LEMMA OperationStep ==
    ASSUME NEW c, ControllerInv(c), NEW f \in Flights, NEW o \in Operations,
           o.stage \in {"fetch", "read", "cleanup"} => c.flight = f,
           o.stage \in {"fetch", "read"} /\ ~o.aborted =>
               c.owner # NoScope /\ o.owner = c.owner
    PROVE  /\ ControllerInv([c EXCEPT !.ops[f] = o]) /\ SameOwner([c EXCEPT !.ops[f] = o], c)
           /\ [c EXCEPT !.ops[f] = o].ops[f] = o
           /\ [c EXCEPT !.ops[f] = o].flight = c.flight
<1> DEFINE d == [c EXCEPT !.ops[f] = o]
<1>1. c \in Controllers
  BY DEF ControllerInv
<1>2. /\ d \in Controllers /\ d.owner = c.owner /\ d.alive = c.alive /\ d.flight = c.flight
      /\ d.cache = c.cache /\ d.phase = c.phase /\ d.value = c.value
      /\ d.ops = [c.ops EXCEPT ![f] = o]
  BY <1>1 DEF Controllers
<1> HIDE DEF d
<1>3. /\ d.ops[f] = o
      /\ \A g \in Flights \ {f} : d.ops[g] = c.ops[g]
  BY <1>1, <1>2 DEF Controllers
<1>4. \A g \in Flights : OperationInv(d, g)
  BY <1>2, <1>3 DEF ControllerInv, OperationInv
<1>5. QED
  BY <1>2, <1>3, <1>4 DEF ControllerInv, SameOwner, d

(* A flight that is no longer charged. *)
LEMMA ReleaseStep ==
    ASSUME NEW c, ControllerInv(c), NEW f \in Flights, NEW o \in Operations,
           o.stage \notin {"fetch", "read", "cleanup"}
    PROVE  LET d == [c EXCEPT !.ops[f] = o, !.flight = IF @ = f THEN NoFlight ELSE @]
           IN  ControllerInv(d) /\ SameOwner(d, c)
<1> DEFINE d == [c EXCEPT !.ops[f] = o, !.flight = IF @ = f THEN NoFlight ELSE @]
<1>1. c \in Controllers
  BY DEF ControllerInv
<1>2. /\ d \in Controllers /\ d.owner = c.owner /\ d.alive = c.alive
      /\ d.flight = IF c.flight = f THEN NoFlight ELSE c.flight
      /\ d.cache = c.cache /\ d.phase = c.phase /\ d.value = c.value
      /\ d.ops = [c.ops EXCEPT ![f] = o]
  BY <1>1 DEF Controllers
<1> HIDE DEF d
<1>3. /\ d.ops[f] = o
      /\ \A g \in Flights \ {f} : d.ops[g] = c.ops[g]
  BY <1>1, <1>2 DEF Controllers
<1>4. \A g \in Flights : OperationInv(d, g)
  BY <1>2, <1>3 DEF ControllerInv, OperationInv
<1>5. QED
  BY <1>2, <1>4 DEF ControllerInv, SameOwner, d

(* The helpers that change one operation. *)
LEMMA OperationHelpers ==
    ASSUME NEW o \in Operations
    PROVE  /\ StopBody(o) \in Operations /\ StopBody(o).stage = o.stage
           /\ StopBody(o).owner = o.owner /\ (StopBody(o).aborted <=> o.aborted)
           /\ LET u == [ClearDeadline(o) EXCEPT !.settled = TRUE]
              IN  /\ u \in Operations /\ u.stage = o.stage
                  /\ Ended(u) \in Operations /\ Ended(u).stage = "done"
                  /\ [Ended(u) EXCEPT !.stage = "cleanup"] \in Operations
                  /\ [Ended(u) EXCEPT !.stage = "cleanup"].stage = "cleanup"
           /\ LET u == StopBody([ClearDeadline(o) EXCEPT !.aborted = TRUE, !.settled = TRUE])
              IN  u \in Operations /\ u.stage = o.stage /\ u.aborted
<1>1. /\ StopBody(o) \in Operations /\ StopBody(o).stage = o.stage
      /\ StopBody(o).owner = o.owner /\ (StopBody(o).aborted <=> o.aborted)
  BY DEF StopBody, Operations
<1>2. ClearDeadline(o) \in Operations /\ ClearDeadline(o).stage = o.stage
  BY ContextAssumption DEF ClearDeadline, Operations
<1> DEFINE u == [ClearDeadline(o) EXCEPT !.settled = TRUE]
           v == [ClearDeadline(o) EXCEPT !.aborted = TRUE, !.settled = TRUE]
<1>3. u \in Operations /\ u.stage = o.stage
  BY <1>2 DEF Operations
<1>4. v \in Operations /\ v.stage = o.stage /\ v.aborted
  BY <1>2 DEF Operations
<1> HIDE DEF u, v
<1>5. Ended(u) \in Operations /\ Ended(u).stage = "done"
  BY <1>3 DEF Ended, Operations, Unstarted
<1>6. /\ [Ended(u) EXCEPT !.stage = "cleanup"] \in Operations
      /\ [Ended(u) EXCEPT !.stage = "cleanup"].stage = "cleanup"
  BY <1>5 DEF Operations
<1>7. StopBody(v) \in Operations /\ StopBody(v).stage = v.stage /\ StopBody(v).aborted
  BY <1>4 DEF StopBody, Operations
<1>8. QED
  BY <1>1, <1>3, <1>4, <1>5, <1>6, <1>7 DEF u, v

LEMMA TimeoutInv ==
    ASSUME NEW c, ControllerInv(c), NEW f \in Flights, NEW now
    PROVE  /\ ControllerInv(Timeout(c, f, now)) /\ SameOwner(Timeout(c, f, now), c)
           /\ Timeout(c, f, now).flight = c.flight
<1>1. CASE c.flight # f \/ c.ops[f].settled
  BY <1>1 DEF Timeout, SameOwner
<1>2. CASE ~(c.flight # f \/ c.ops[f].settled)
  <2> DEFINE shown == IF Owns(c, f, now) /\ ~c.ops[f].aborted THEN Publish(c, "timeout") ELSE c
             o == StopBody([ClearDeadline(shown.ops[f]) EXCEPT !.aborted = TRUE, !.settled = TRUE])
  <2>1. "timeout" \in Phases
    BY DEF Phases
  <2>2. /\ ControllerInv(shown) /\ SameOwner(shown, c) /\ shown.flight = f
    BY <1>2, <2>1, PublishInv DEF SameOwner
  <2>3. Timeout(c, f, now) = [shown EXCEPT !.ops[f] = o]
    <3>1. c.flight = f /\ ~c.ops[f].settled
      BY <1>2
    <3>2. shown \in Controllers
      BY <2>2 DEF ControllerInv
    <3>3. QED
      BY <3>1, <3>2 DEF Timeout, Controllers
  <2> HIDE DEF shown
  <2>4. shown.ops[f] \in Operations
    BY <2>2 DEF ControllerInv, Controllers
  <2>5. o \in Operations /\ o.aborted
    BY <2>4, OperationHelpers
  <2> HIDE DEF o
  <2>6. /\ ControllerInv([shown EXCEPT !.ops[f] = o]) /\ SameOwner([shown EXCEPT !.ops[f] = o], shown)
        /\ [shown EXCEPT !.ops[f] = o].flight = shown.flight
    BY <2>2, <2>5, OperationStep
  <2>7. QED
    BY <1>2, <2>2, <2>3, <2>6 DEF SameOwner
<1>3. QED
  BY <1>1, <1>2

LEMMA FinallyInv ==
    ASSUME NEW c, ControllerInv(c), NEW f \in Flights, c.flight = f, NEW now
    PROVE  ControllerInv(Finally(c, f, now)) /\ SameOwner(Finally(c, f, now), c)
<1> DEFINE noticed == IF Owns(c, f, now) /\ ~c.ops[f].aborted /\ c.ops[f].late
                      THEN Timeout(c, f, now) ELSE c
           o == [ClearDeadline(noticed.ops[f]) EXCEPT !.settled = TRUE]
           kept == [Ended(o) EXCEPT !.stage = "cleanup"]
<1>1. ControllerInv(noticed) /\ SameOwner(noticed, c) /\ noticed.flight = f
  BY TimeoutInv DEF SameOwner
<1>2. Finally(c, f, now) =
          IF o.body = "cancelled" THEN [noticed EXCEPT !.ops[f] = kept]
          ELSE [noticed EXCEPT !.ops[f] = Ended(o), !.flight = IF @ = f THEN NoFlight ELSE @]
  BY DEF Finally
<1> HIDE DEF noticed
<1>3. noticed.ops[f] \in Operations
  BY <1>1 DEF ControllerInv, Controllers
<1>4. /\ Ended(o) \in Operations /\ Ended(o).stage = "done"
      /\ kept \in Operations /\ kept.stage = "cleanup"
  BY <1>3, OperationHelpers
<1> HIDE DEF kept, o
<1>5. CASE o.body = "cancelled"
  <2>1. /\ ControllerInv([noticed EXCEPT !.ops[f] = kept])
        /\ SameOwner([noticed EXCEPT !.ops[f] = kept], noticed)
    BY <1>1, <1>4, OperationStep
  <2>2. QED
    BY <1>1, <1>2, <1>5, <2>1 DEF SameOwner
<1>6. CASE o.body # "cancelled"
  <2> DEFINE d == [noticed EXCEPT !.ops[f] = Ended(o), !.flight = IF @ = f THEN NoFlight ELSE @]
  <2>1. ControllerInv(d) /\ SameOwner(d, noticed)
    BY <1>1, <1>4, ReleaseStep
  <2>2. Finally(c, f, now) = d
    BY <1>2, <1>6
  <2> HIDE DEF d
  <2>3. QED
    BY <1>1, <2>1, <2>2 DEF SameOwner
<1>7. QED
  BY <1>5, <1>6

LEMMA EndFlightInv ==
    ASSUME NEW c, ControllerInv(c), NEW f \in Flights, c.ops[f].stage \in {"fetch", "read"},
           NEW now, NEW phase, Live(c, f, now) => phase \in Phases \ {"ready"}
    PROVE  ControllerInv(EndFlight(c, f, now, phase)) /\ SameOwner(EndFlight(c, f, now, phase), c)
<1> DEFINE o == StopBody(c.ops[f])
           stopped == [c EXCEPT !.ops[f] = o]
           shown == IF Live(c, f, now) THEN Publish(stopped, phase) ELSE stopped
<1>1. c \in Controllers /\ c.ops[f] \in Operations /\ c.flight = f
  BY DEF ControllerInv, Controllers, OperationInv
<1>2. EndFlight(c, f, now, phase) = Finally(shown, f, now)
  BY <1>1 DEF EndFlight, Controllers
<1>3. o \in Operations /\ o.stage = c.ops[f].stage /\ o.owner = c.ops[f].owner
      /\ (o.aborted <=> c.ops[f].aborted)
  BY <1>1, OperationHelpers
<1>4. ~c.ops[f].aborted => c.owner # NoScope /\ c.ops[f].owner = c.owner
  <2>1. OperationInv(c, f)
    BY DEF ControllerInv
  <2>2. QED
    BY <2>1 DEF OperationInv
<1> HIDE DEF o
<1>5. ControllerInv(stopped) /\ SameOwner(stopped, c) /\ stopped.flight = f
  BY <1>1, <1>3, <1>4, OperationStep
<1> HIDE DEF stopped
<1>6. ControllerInv(shown) /\ SameOwner(shown, c) /\ shown.flight = f
  BY <1>5, PublishInv DEF SameOwner
<1> HIDE DEF shown
<1>7. QED
  BY <1>2, <1>6, FinallyInv DEF SameOwner

LEMMA FetchResolvesInv ==
    ASSUME NEW c, ControllerInv(c), NEW f \in Flights, c.ops[f].stage = "fetch",
           NEW now, NEW answer \in {"ok"} \cup ErrorPhases
    PROVE  /\ ControllerInv(FetchResolves(c, f, now, answer))
           /\ SameOwner(FetchResolves(c, f, now, answer), c)
<1> DEFINE o == [c.ops[f] EXCEPT !.body = "open"]
           r == [o EXCEPT !.stage = "read"]
           opened == [c EXCEPT !.ops[f] = o]
           reading == [opened EXCEPT !.ops[f] = r]
<1>1. c \in Controllers /\ c.ops[f] \in Operations /\ OperationInv(c, f)
  BY DEF ControllerInv, Controllers
<1>2. FetchResolves(c, f, now, answer) =
          IF Live(c, f, now) /\ answer = "ok" THEN reading ELSE EndFlight(opened, f, now, answer)
  BY <1>1 DEF FetchResolves, Controllers
<1>3. /\ o \in Operations /\ o.stage = "fetch" /\ o.owner = c.ops[f].owner
      /\ o.aborted = c.ops[f].aborted /\ o.current = c.ops[f].current /\ o.late = c.ops[f].late
  BY <1>1 DEF Operations
<1>4. r \in Operations /\ r.stage = "read" /\ r.owner = o.owner /\ r.aborted = o.aborted
  BY <1>3 DEF Operations
<1> HIDE DEF r, o
<1>5. /\ ControllerInv(opened) /\ SameOwner(opened, c) /\ opened.ops[f] = o /\ opened.flight = f
  BY <1>1, <1>3, OperationStep DEF OperationInv
<1>6. Live(opened, f, now) => Live(c, f, now)
  BY <1>3, <1>5 DEF Live, Owns, SameOwner
<1> HIDE DEF opened
<1>7. ControllerInv(reading) /\ SameOwner(reading, opened)
  BY <1>1, <1>3, <1>4, <1>5, OperationStep DEF OperationInv, SameOwner
<1> HIDE DEF reading
<1>8. CASE Live(c, f, now) /\ answer = "ok"
  BY <1>2, <1>5, <1>7, <1>8 DEF SameOwner
<1>9. CASE ~(Live(c, f, now) /\ answer = "ok")
  <2>1. Live(opened, f, now) => answer \in Phases \ {"ready"}
    BY <1>6, <1>9, ContextAssumption DEF Phases
  <2>2. /\ ControllerInv(EndFlight(opened, f, now, answer))
        /\ SameOwner(EndFlight(opened, f, now, answer), opened)
    BY <1>3, <1>5, <2>1, EndFlightInv
  <2>3. QED
    BY <1>2, <1>5, <1>9, <2>2 DEF SameOwner
<1>10. QED
  BY <1>8, <1>9

(* A snapshot is kept and shown only by a live flight, whose scope the     *)
(* controller then still has.                                              *)
LEMMA ReadDoneInv ==
    ASSUME NEW c, ControllerInv(c), NEW f \in Flights, c.ops[f].stage = "read",
           NEW now, NEW fresh \in BOOLEAN
    PROVE  ControllerInv(ReadDone(c, f, now, fresh)) /\ SameOwner(ReadDone(c, f, now, fresh), c)
<1> DEFINE value == c.ops[f].owner
           entry == [value |-> value, fresh |-> TRUE]
           others == Without(c.cache, value.address)
           kept == Append(others, entry)
           first == IF Len(kept) > MaxCached THEN Len(kept) - MaxCached + 1 ELSE 1
           cut == SubSeq(kept, first, Len(kept))
           stored == IF fresh THEN [c EXCEPT !.cache = cut] ELSE c
           shown == PublishReady(stored, value)
           settled == [shown EXCEPT !.ops[f].settled = TRUE]
<1>1. c \in Controllers /\ c.ops[f] \in Operations /\ OperationInv(c, f) /\ c.flight = f
  BY DEF ControllerInv, Controllers, OperationInv
<1>2. ReadDone(c, f, now, fresh) =
          IF Live(c, f, now) THEN Finally(settled, f, now)
          ELSE EndFlight(c, f, now, "invalid-response")
  BY DEF ReadDone
<1>3. CASE ~Live(c, f, now)
  BY <1>2, <1>3, EndFlightInv
<1>4. CASE Live(c, f, now)
  <2>1. ~c.ops[f].aborted /\ c.owner # NoScope /\ value = c.owner /\ value \in Scopes
    BY <1>1, <1>4 DEF Live, OperationInv, Controllers
  <2>2. ControllerInv(stored) /\ SameOwner(stored, c) /\ stored.flight = f /\ stored.ops = c.ops
    <3>1. entry \in Entries /\ entry.value = c.owner
      BY <2>1 DEF Entries
    <3>2. others \in Seq(Entries)
          /\ \A i \in DOMAIN others : \E j \in DOMAIN c.cache : others[i] = c.cache[j]
      BY <1>1, WithoutIsPart DEF Controllers
    <3> HIDE DEF others, entry
    <3>3. kept \in Seq(Entries) /\ Len(kept) = Len(others) + 1
      BY <3>1, <3>2
    <3>4. ASSUME NEW i \in DOMAIN kept
          PROVE  Peers(kept[i].value, c.owner)
      <4>1. CASE i = Len(others) + 1
        BY <3>1, <3>2, <4>1 DEF Peers
      <4>2. CASE i # Len(others) + 1
        <5>1. i \in DOMAIN others /\ kept[i] = others[i]
          BY <3>1, <3>2, <4>2
        <5>2. QED
          BY <3>2, <5>1 DEF ControllerInv
      <4>3. QED
        BY <4>1, <4>2
    <3>5. first \in 1 .. Len(kept)
      BY <3>2, <3>3, ContextAssumption
    <3> HIDE DEF kept, first
    <3>6. cut \in Seq(Entries) /\ Len(cut) = Len(kept) - first + 1
      BY <3>3, <3>5
    <3>7. \A i \in 1 .. Len(kept) - first + 1 :
              cut[i] = kept[first + i - 1] /\ first + i - 1 \in DOMAIN kept
      BY <3>3, <3>5
    <3> HIDE DEF cut
    <3>8. \A i \in DOMAIN cut : Peers(cut[i].value, c.owner)
      BY <3>4, <3>6, <3>7
    <3>9. CASE fresh
      <4>1. stored = [c EXCEPT !.cache = cut]
        BY <3>9
      <4> HIDE DEF stored
      <4>2. /\ stored \in Controllers /\ stored.owner = c.owner /\ stored.alive = c.alive
            /\ stored.flight = c.flight /\ stored.ops = c.ops /\ stored.value = c.value
            /\ stored.phase = c.phase /\ stored.cache = cut
        BY <1>1, <3>6, <4>1 DEF Controllers
      <4>3. QED
        BY <1>1, <2>1, <3>8, <4>2 DEF ControllerInv, OperationInv, SameOwner
    <3>10. CASE ~fresh
      BY <1>1, <3>10 DEF SameOwner
    <3>11. QED
      BY <3>9, <3>10
  <2> HIDE DEF stored
  <2>3. shown = PublishReady(stored, stored.owner)
    BY <2>1, <2>2 DEF SameOwner
  <2>4. ControllerInv(shown) /\ SameOwner(shown, c) /\ shown.flight = f /\ shown.ops = c.ops
    <3>1. ControllerInv(shown) /\ SameOwner(shown, stored)
      BY <2>1, <2>2, <2>3, PublishReadyInv DEF SameOwner
    <3>2. shown.flight = stored.flight /\ shown.ops = stored.ops
      BY <2>2 DEF PublishReady, ControllerInv, Controllers
    <3>3. QED
      BY <2>2, <3>1, <3>2 DEF SameOwner
  <2> HIDE DEF shown
  <2> DEFINE o == [c.ops[f] EXCEPT !.settled = TRUE]
  <2>5. o \in Operations /\ o.stage = "read" /\ o.owner = c.owner
    BY <1>1, <2>1 DEF Operations
  <2>6. settled = [shown EXCEPT !.ops[f] = o]
    BY <2>4 DEF ControllerInv, Controllers
  <2> HIDE DEF o
  <2>7. ControllerInv(settled) /\ SameOwner(settled, shown) /\ settled.flight = f
    BY <2>1, <2>4, <2>5, <2>6, OperationStep DEF SameOwner
  <2> HIDE DEF settled
  <2>8. ControllerInv(Finally(settled, f, now)) /\ SameOwner(Finally(settled, f, now), settled)
    BY <2>7, FinallyInv
  <2>9. QED
    BY <1>2, <1>4, <2>4, <2>7, <2>8 DEF SameOwner
<1>5. QED
  BY <1>3, <1>4

(* Time, and what becomes of a flight that is over. *)
LEMMA ClockInv ==
    ASSUME NEW c, ControllerInv(c), NEW f \in Flights
    PROVE  /\ LET d == [c EXCEPT !.ops[f].late = TRUE]
              IN  ControllerInv(d) /\ SameOwner(d, c)
           /\ LET d == [c EXCEPT !.ops[f].timer = FALSE]
              IN  ControllerInv(d) /\ SameOwner(d, c)
<1> DEFINE o == [c.ops[f] EXCEPT !.late = TRUE]
           u == [c.ops[f] EXCEPT !.timer = FALSE]
<1>1. c \in Controllers /\ c.ops[f] \in Operations /\ OperationInv(c, f)
  BY DEF ControllerInv, Controllers
<1>2. /\ o \in Operations /\ o.stage = c.ops[f].stage /\ o.owner = c.ops[f].owner
      /\ o.aborted = c.ops[f].aborted
  BY <1>1 DEF Operations
<1>3. /\ u \in Operations /\ u.stage = c.ops[f].stage /\ u.owner = c.ops[f].owner
      /\ u.aborted = c.ops[f].aborted
  BY <1>1 DEF Operations
<1>4. /\ [c EXCEPT !.ops[f].late = TRUE] = [c EXCEPT !.ops[f] = o]
      /\ [c EXCEPT !.ops[f].timer = FALSE] = [c EXCEPT !.ops[f] = u]
  BY <1>1 DEF Controllers
<1> HIDE DEF o, u
<1>5. ControllerInv([c EXCEPT !.ops[f] = o]) /\ SameOwner([c EXCEPT !.ops[f] = o], c)
  BY <1>1, <1>2, OperationStep DEF OperationInv
<1>6. ControllerInv([c EXCEPT !.ops[f] = u]) /\ SameOwner([c EXCEPT !.ops[f] = u], c)
  BY <1>1, <1>3, OperationStep DEF OperationInv
<1>7. QED
  BY <1>4, <1>5, <1>6

LEMMA CleanupDoneInv ==
    ASSUME NEW c, ControllerInv(c), NEW f \in Flights
    PROVE  ControllerInv(CleanupDone(c, f)) /\ SameOwner(CleanupDone(c, f), c)
<1> DEFINE o == [c.ops[f] EXCEPT !.stage = "done"]
           d == [c EXCEPT !.ops[f] = o, !.flight = IF @ = f THEN NoFlight ELSE @]
<1>1. c \in Controllers /\ c.ops[f] \in Operations
  BY DEF ControllerInv, Controllers
<1>2. o \in Operations /\ o.stage = "done"
  BY <1>1 DEF Operations
<1>3. CleanupDone(c, f) = d
  BY <1>1 DEF CleanupDone, Controllers
<1> HIDE DEF o
<1>4. ControllerInv(d) /\ SameOwner(d, c)
  BY <1>2, ReleaseStep
<1>5. QED
  BY <1>3, <1>4

LEMMA ExpiryInv ==
    ASSUME NEW c, ControllerInv(c), NEW i \in DOMAIN c.cache
    PROVE  LET d == [c EXCEPT !.cache[i].fresh = FALSE]
           IN  ControllerInv(d) /\ SameOwner(d, c)
<1> DEFINE d == [c EXCEPT !.cache[i].fresh = FALSE]
           k == [c.cache EXCEPT ![i] = [c.cache[i] EXCEPT !.fresh = FALSE]]
<1>1. c \in Controllers /\ c.cache \in Seq(Entries)
  BY DEF ControllerInv, Controllers
<1>2. c.cache[i] \in Entries
  BY <1>1
<1>3. /\ [c.cache[i] EXCEPT !.fresh = FALSE] \in Entries
      /\ [c.cache[i] EXCEPT !.fresh = FALSE].value = c.cache[i].value
  BY <1>2 DEF Entries
<1>4. k \in Seq(Entries) /\ DOMAIN k = DOMAIN c.cache
  BY <1>1, <1>3
<1>5. \A j \in DOMAIN c.cache : k[j].value = c.cache[j].value
  BY <1>1, <1>3
<1>6. d = [c EXCEPT !.cache = k]
  BY <1>1 DEF Controllers
<1> HIDE DEF d, k
<1>7. /\ d \in Controllers /\ d.owner = c.owner /\ d.alive = c.alive /\ d.flight = c.flight
      /\ d.ops = c.ops /\ d.value = c.value /\ d.phase = c.phase /\ d.cache = k
  BY <1>1, <1>4, <1>6 DEF Controllers
<1>8. ControllerInv(d) /\ SameOwner(d, c)
  BY <1>4, <1>5, <1>7 DEF ControllerInv, OperationInv, SameOwner
<1>9. QED
  BY <1>8 DEF d

-----------------------------------------------------------------------------
(* The application. *)

Results == [owner : Owners, sig : Signatures, report : Owners]

LaneStates ==
    [phase : {"idle", "loading", "ready", "error", "cancelled"}, sig : Signatures \cup {NoSig},
     active : [owner : Owners \cup {NoOwner}, sig : Signatures \cup {NoSig}],
     result : Results \cup {NoResult},
     error : {"none", "timeout", "cancelled", "network", "http", "invalid-response"},
     cancellation : {"none", "user", "navigation"}]

RequestStates ==
    [stage : {"none", "fetch", "body", "done"}, sig : Signatures \cup {NoSig},
     base : Bases \cup {NoBase}, token : Tokens \cup {NoToken},
     reason : {"none", "timeout", "user", "navigation", "replaced", "input-change",
               "beforeunload", "destroy"},
     aborted : BOOLEAN, timer : BOOLEAN]

FormTypes ==
    /\ activeInstance \in BOOLEAN
    /\ input \in [Purposes -> Inputs] /\ base \in Bases /\ authEnabled \in BOOLEAN
    /\ storage \in [Bases -> Tokens \cup {NoToken}] /\ storageReads \in BOOLEAN
    /\ revisions \in [Bases -> 0 .. MaxRevision]
    /\ credentialIndeterminate \subseteq Bases

LaneTypes ==
    /\ lanes \in [Purposes -> LaneStates]
    /\ active \in [Purposes -> Owners \cup {NoOwner}]
    /\ laneBases \in [Purposes -> Bases \cup {NoBase}]
    /\ requests \in [Owners -> RequestStates]
    /\ ownerSequence \in 0 .. MaxOwners
    /\ report \in [Purposes -> Owners \cup {NoReport}]

(* A lane that loads or is ready was started for the input of the page,    *)
(* and a purpose's request, aborted or not, is for the base the lane has.  *)
LaneInv(p) ==
    /\ lanes[p].phase = "ready" =>
          /\ report[p] # NoReport /\ lanes[p].result \in Results
          /\ lanes[p].result.report = report[p] /\ lanes[p].result.sig = lanes[p].sig
    /\ lanes[p].phase # "ready" => report[p] = NoReport
    /\ lanes[p].phase \in {"loading", "ready"} =>
          /\ lanes[p].sig = Signature(p, input, base, authEnabled, revisions)
          /\ lanes[p].sig # NoSig /\ laneBases[p] = base

ActiveInv(p) ==
    active[p] # NoOwner =>
        /\ requests[active[p]].stage \in {"fetch", "body"}
        /\ requests[active[p]].sig.purpose = p
        /\ laneBases[p] = requests[active[p]].base

(* A request that is under way is its purpose's, unless it was aborted, so *)
(* that whatever changes its credential finds it.                          *)
RequestInv(o) ==
    requests[o].stage \in {"fetch", "body"} =>
        /\ o <= ownerSequence /\ requests[o].sig \in Signatures /\ requests[o].base \in Bases
        /\ ~requests[o].aborted =>
              /\ active[requests[o].sig.purpose] = o
              /\ requests[o].token # NoToken =>
                    /\ storage[requests[o].base] = requests[o].token
                    /\ requests[o].base \notin credentialIndeterminate

LanesInv ==
    /\ FormTypes /\ LaneTypes
    /\ activeInstance => \A p \in Purposes : LaneInv(p)
    /\ ~activeInstance => \A p \in Purposes : active[p] = NoOwner
    /\ \A p \in Purposes : ActiveInv(p)
    /\ \A o \in Owners : RequestInv(o)

(* The scope of the controller is the page's, whatever the controller is   *)
(* doing; its token may be one the store no longer gives out.              *)
ScopeInv ==
    context.owner # NoScope =>
        /\ lanes["topology"].phase = "ready" /\ input["topology"] # Invalid
        /\ context.owner.report = report["topology"]
        /\ context.owner.address = selectedContextIP
        /\ context.owner.base = base /\ context.owner.revision = revisions[base]
        /\ context.owner.auth = authEnabled
        /\ authEnabled => base \notin credentialIndeterminate
        /\ context.owner.token # NoToken => authEnabled /\ context.owner.token = storage[base]
        /\ storageReads /\ authEnabled => context.owner.token = storage[base]

ContextInv ==
    /\ ControllerInv(context) /\ (context.alive <=> activeInstance)
    /\ selectedContextIP \in Addresses \cup {NoAddress}
    /\ ScopeInv

(* The inductive invariant. *)
ClientInv == LanesInv /\ ContextInv

-----------------------------------------------------------------------------
(* The context half of a step. *)

(* What contextOwner() gives is a scope of the page. *)
LEMMA OwnerIsScope ==
    ASSUME FormTypes, NEW lane, NEW rep \in Owners \cup {NoReport},
           NEW address \in Addresses \cup {NoAddress},
           NEW scope, scope = ContextOwner(lane, rep, address)
    PROVE  /\ scope \in Scopes \cup {NoScope}
           /\ scope # NoScope =>
                 /\ lane.phase = "ready" /\ input["topology"] # Invalid
                 /\ scope.report = rep /\ scope.address = address
                 /\ scope.base = base /\ scope.revision = revisions[base]
                 /\ scope.auth = authEnabled
                 /\ authEnabled => base \notin credentialIndeterminate
                 /\ scope.token # NoToken => authEnabled /\ scope.token = storage[base]
                 /\ storageReads /\ authEnabled => scope.token = storage[base]
<1> DEFINE token == IF authEnabled THEN TokenFor(base) ELSE NoToken
<1>1. /\ token \in Tokens \cup {NoToken}
      /\ token # NoToken => authEnabled /\ token = storage[base]
      /\ storageReads /\ authEnabled => token = storage[base]
  BY DEF FormTypes, TokenFor
<1>2. revisions[base] \in 0 .. MaxRevision /\ base \in Bases
  BY DEF FormTypes
<1> HIDE DEF token
<1>3. CASE scope = NoScope
  BY <1>3
<1>4. CASE scope # NoScope
  <2>1. /\ rep # NoReport /\ address # NoAddress /\ lane.phase = "ready"
        /\ input["topology"] # Invalid /\ ~(authEnabled /\ base \in credentialIndeterminate)
        /\ scope = [report |-> rep, address |-> address, base |-> base,
                    revision |-> revisions[base], auth |-> authEnabled, token |-> token]
    BY <1>4 DEF ContextOwner, token
  <2>2. scope \in Scopes
    BY <1>1, <1>2, <2>1 DEF Scopes, FormTypes
  <2>3. QED
    BY <1>1, <2>1, <2>2
<1>5. QED
  BY <1>3, <1>4

(* A step of the controller in an unchanged page. *)
LEMMA ContextKeeps ==
    ASSUME ContextInv, ControllerInv(context'), SameOwner(context', context),
           UNCHANGED activeInstance, selectedContextIP' \in Addresses \cup {NoAddress},
           \/ context.owner = NoScope
           \/ /\ UNCHANGED <<formVars, credentialVars, selectedContextIP>>
              /\ lanes'["topology"].phase = lanes["topology"].phase
              /\ report'["topology"] = report["topology"]
    PROVE  ContextInv'
<1>1. ControllerInv(context)' /\ (context.alive <=> activeInstance)'
  BY DEF ContextInv, SameOwner
<1>2. ScopeInv'
  BY DEF ContextInv, ScopeInv, SameOwner, formVars, credentialVars
<1>3. QED
  BY <1>1, <1>2 DEF ContextInv

LEMMA ContextClears ==
    ASSUME ContextInv, activeInstance, UNCHANGED activeInstance, UnmountContextClear
    PROVE  ContextInv'
<1>1. ControllerInv(ContextCancel(context)) /\ ContextCancel(context).alive
  BY CancelInv DEF ContextInv, SameOwner
<1>2. ControllerInv(context') /\ context'.owner = NoScope /\ context'.alive
  BY <1>1, SetOwnerInv DEF UnmountContextClear
<1>3. QED
  BY <1>2 DEF ContextInv, ScopeInv, UnmountContextClear

LEMMA ContextCancels ==
    ASSUME ContextInv, UNCHANGED activeInstance, context' = ContextCancel(context),
           UNCHANGED selectedContextIP,
           \/ context.owner = NoScope
           \/ /\ UNCHANGED <<formVars, credentialVars>>
              /\ lanes'["topology"].phase = lanes["topology"].phase
              /\ report'["topology"] = report["topology"]
    PROVE  ContextInv'
<1>1. ControllerInv(context') /\ SameOwner(context', context)
  BY CancelInv DEF ContextInv
<1>2. QED
  BY <1>1, ContextKeeps DEF ContextInv

LEMMA ContextRemounts ==
    ASSUME ContextInv, FormTypes, NEW v, activeInstance,
           UNCHANGED <<activeInstance, formVars, credentialVars>>,
           report'["topology"] \in Owners \cup {NoReport},
           RemountContext(v, lanes'["topology"], report'["topology"]),
           \/ context.owner = NoScope
           \/ /\ lanes'["topology"].phase = lanes["topology"].phase
              /\ report'["topology"] = report["topology"]
    PROVE  ContextInv'
<1> DEFINE cancelled == ContextCancel(context)
<1>1. CASE context' = cancelled /\ UNCHANGED selectedContextIP
  BY <1>1, ContextCancels
<1>2. ASSUME NEW address \in Addresses \cup {NoAddress}, selectedContextIP' = address,
             context' = SetOwner(cancelled,
                                 ContextOwner(lanes'["topology"], report'["topology"], address))
      PROVE  ContextInv'
  <2>1. PICK scope : scope = ContextOwner(lanes'["topology"], report'["topology"], address)
    OBVIOUS
  <2>2. /\ scope \in Scopes \cup {NoScope}
        /\ scope # NoScope =>
              /\ lanes'["topology"].phase = "ready" /\ input["topology"] # Invalid
              /\ scope.report = report'["topology"] /\ scope.address = address
              /\ scope.base = base /\ scope.revision = revisions[base]
              /\ scope.auth = authEnabled
              /\ authEnabled => base \notin credentialIndeterminate
              /\ scope.token # NoToken => authEnabled /\ scope.token = storage[base]
              /\ storageReads /\ authEnabled => scope.token = storage[base]
    BY <2>1, OwnerIsScope
  <2>3. ControllerInv(cancelled) /\ cancelled.alive
    BY CancelInv DEF ContextInv, SameOwner
  <2> HIDE DEF cancelled
  <2>4. ControllerInv(context') /\ context'.owner = scope /\ context'.alive
    BY <1>2, <2>1, <2>2, <2>3, SetOwnerInv
  <2>5. ScopeInv'
    BY <1>2, <2>2, <2>4 DEF ScopeInv, formVars, credentialVars
  <2>6. QED
    BY <1>2, <2>4, <2>5 DEF ContextInv
<1>3. QED
  BY <1>1, <1>2 DEF RemountContext

LEMMA LanesStay ==
    ASSUME LanesInv, UNCHANGED <<activeInstance, formVars, credentialVars, laneVars>>
    PROVE  LanesInv'
<1>1. FormTypes' /\ LaneTypes'
  BY DEF LanesInv, FormTypes, LaneTypes, formVars, credentialVars, laneVars
<1>2. activeInstance' => \A p \in Purposes : LaneInv(p)'
  BY DEF LanesInv, LaneInv, formVars, credentialVars, laneVars
<1>3. ~activeInstance' => \A p \in Purposes : active'[p] = NoOwner
  BY DEF LanesInv, laneVars
<1>4. \A o \in Owners : RequestInv(o)'
  BY DEF LanesInv, RequestInv, credentialVars, laneVars
<1>5. \A p \in Purposes : ActiveInv(p)'
  BY DEF LanesInv, ActiveInv, laneVars
<1>6. QED
  BY <1>1, <1>2, <1>3, <1>4, <1>5 DEF LanesInv

(* A step of the controller that keeps its scope. *)
LEMMA ControllerStep ==
    ASSUME ClientInv, ControllerInv(context'), SameOwner(context', context),
           UNCHANGED <<unchangedByContext, contextView, selectedContextIP>>
    PROVE  ClientInv'
<1>1. LanesInv'
  BY LanesStay DEF ClientInv, unchangedByContext
<1>2. ContextInv'
  BY ContextKeeps DEF ClientInv, ContextInv, unchangedByContext, laneVars
<1>3. QED
  BY <1>1, <1>2 DEF ClientInv

(* The panel's controls. *)
LEMMA PanelSteps ==
    ASSUME ClientInv,
           \/ Rerender \/ QueryContext \/ CancelContext
           \/ \E address \in Addresses \cup {NoAddress} : SelectContextIP(address)
    PROVE  ClientInv'
<1>0. FormTypes /\ LaneTypes /\ ControllerInv(context) /\ (context.alive <=> activeInstance)
  BY DEF ClientInv, LanesInv, ContextInv
<1>1. CASE Rerender
  <2>1. LanesInv'
    BY <1>1, LanesStay DEF ClientInv, Rerender, unchangedByContext
  <2>2. lanes' = lanes /\ report' = report
    BY <1>1 DEF Rerender, unchangedByContext, laneVars
  <2>3. report'["topology"] \in Owners \cup {NoReport}
    BY <1>0, <2>2, WebClientAssumption DEF LaneTypes
  <2>4. ContextInv'
    BY <1>0, <1>1, <2>2, <2>3, ContextRemounts DEF ClientInv, Rerender, unchangedByContext
  <2>5. QED
    BY <2>1, <2>4 DEF ClientInv
<1>2. CASE QueryContext
  <2> DEFINE owned == SetOwner(context, ScopeNow)
  <2>0. UNCHANGED <<unchangedByContext, contextView, selectedContextIP>>
    BY <1>2 DEF QueryContext
  <2>1. PanelActive /\ context.alive
    BY <1>0, <1>2 DEF QueryContext, QueryEnabled, PanelActive
  <2>2. PICK scope : scope = ContextOwner(lanes["topology"], report["topology"], selectedContextIP)
    OBVIOUS
  <2>3. ScopeNow = scope
    BY <2>1, <2>2 DEF ScopeNow
  <2>4. report["topology"] \in Owners \cup {NoReport}
        /\ selectedContextIP \in Addresses \cup {NoAddress}
    BY <1>0, WebClientAssumption DEF LaneTypes, ClientInv, ContextInv
  <2>5. /\ scope \in Scopes \cup {NoScope}
        /\ scope # NoScope =>
              /\ lanes["topology"].phase = "ready" /\ input["topology"] # Invalid
              /\ scope.report = report["topology"] /\ scope.address = selectedContextIP
              /\ scope.base = base /\ scope.revision = revisions[base]
              /\ scope.auth = authEnabled
              /\ authEnabled => base \notin credentialIndeterminate
              /\ scope.token # NoToken => authEnabled /\ scope.token = storage[base]
              /\ storageReads /\ authEnabled => scope.token = storage[base]
    BY <1>0, <2>2, <2>4, OwnerIsScope
  <2>6. ControllerInv(owned) /\ owned.owner = scope /\ owned.alive
    BY <1>0, <2>1, <2>3, <2>5, SetOwnerInv
  <2>7. /\ MayQuery(owned, ScopeNow)
        /\ \/ CacheHit(owned) /\ context' = QueryCached(owned)
           \/ context' = QueryInsecure(owned) \/ context' = QueryUnarmed(owned)
           \/ owned.started < MaxFlights /\ context' = QueryStarts(owned)
    BY <1>2 DEF QueryContext
  <2> HIDE DEF owned
  <2>8. ControllerInv(context') /\ context'.owner = scope /\ context'.alive
    BY <2>6, <2>7, QueryInv DEF SameOwner
  <2>9. LanesInv'
    BY <2>0, LanesStay DEF ClientInv, unchangedByContext
  <2>10. ScopeInv'
    BY <2>0, <2>5, <2>8 DEF ScopeInv, unchangedByContext, formVars, credentialVars, laneVars
  <2>11. ContextInv'
    BY <1>0, <2>0, <2>1, <2>4, <2>8, <2>10 DEF ContextInv, unchangedByContext
  <2>12. QED
    BY <2>9, <2>11 DEF ClientInv
<1>3. CASE CancelContext
  <2>1. ControllerInv(context') /\ SameOwner(context', context)
    BY <1>0, <1>3, CancelInv DEF CancelContext
  <2>2. QED
    BY <1>3, <2>1, ControllerStep DEF CancelContext
<1>4. ASSUME NEW address \in Addresses \cup {NoAddress}, SelectContextIP(address)
      PROVE  ClientInv'
  <2>0. /\ UNCHANGED <<unchangedByContext, contextView>> /\ PanelActive
        /\ selectedContextIP' = address
    BY <1>4 DEF SelectContextIP
  <2>1. PICK scope : scope = ContextOwner(lanes["topology"], report["topology"], address)
    OBVIOUS
  <2>2. report["topology"] \in Owners \cup {NoReport}
    BY <1>0, WebClientAssumption DEF LaneTypes
  <2>3. /\ scope \in Scopes \cup {NoScope}
        /\ scope # NoScope =>
              /\ lanes["topology"].phase = "ready" /\ input["topology"] # Invalid
              /\ scope.report = report["topology"] /\ scope.address = address
              /\ scope.base = base /\ scope.revision = revisions[base]
              /\ scope.auth = authEnabled
              /\ authEnabled => base \notin credentialIndeterminate
              /\ scope.token # NoToken => authEnabled /\ scope.token = storage[base]
              /\ storageReads /\ authEnabled => scope.token = storage[base]
    BY <1>0, <2>1, <2>2, OwnerIsScope
  <2>4. context.alive /\ activeInstance
    BY <1>0, <2>0 DEF PanelActive
  <2>5. ControllerInv(context') /\ context'.owner = scope /\ context'.alive
    BY <1>0, <1>4, <2>1, <2>3, <2>4, SetOwnerInv DEF SelectContextIP
  <2>6. LanesInv'
    BY <2>0, LanesStay DEF ClientInv, unchangedByContext
  <2>7. ScopeInv'
    BY <2>0, <2>3, <2>5 DEF ScopeInv, unchangedByContext, formVars, credentialVars, laneVars
  <2>8. QED
    BY <2>0, <2>4, <2>5, <2>6, <2>7 DEF ClientInv, ContextInv, unchangedByContext
<1>5. QED
  BY <1>1, <1>2, <1>3, <1>4

(* The steps of a lookup. *)
LEMMA LookupSteps ==
    ASSUME ClientInv, NEW f \in Flights,
           \/ ContextFetch(f) \/ ContextRead(f) \/ ContextAbortSettles(f)
           \/ ContextDeadline(f) \/ ContextTimerFires(f) \/ ContextCleanup(f)
    PROVE  ClientInv'
<1>0. ControllerInv(context)
  BY DEF ClientInv, ContextInv
<1>8. /\ {"invalid-response", "unavailable"} \cup ErrorPhases \subseteq Phases
       /\ "ready" \notin {"invalid-response", "unavailable"} \cup ErrorPhases
  BY ContextAssumption DEF Phases
<1>1. CASE ContextFetch(f)
  <2>1. CASE \E answer \in {"ok"} \cup ErrorPhases :
                 context' = FetchResolves(context, f, ScopeNow, answer)
    BY <1>0, <1>1, <2>1, FetchResolvesInv, ControllerStep DEF ContextFetch
  <2>2. CASE \E phase \in ErrorPhases : context' = FetchRejects(context, f, ScopeNow, phase)
    BY <1>0, <1>8, <1>1, <2>2, EndFlightInv, ControllerStep DEF ContextFetch, FetchRejects
  <2>3. QED
    BY <1>1, <2>1, <2>2 DEF ContextFetch
<1>2. CASE ContextRead(f)
  <2>1. CASE \E fresh \in BOOLEAN : context' = ReadDone(context, f, ScopeNow, fresh)
    BY <1>0, <1>2, <2>1, ReadDoneInv, ControllerStep DEF ContextRead
  <2>2. CASE \E phase \in ErrorPhases : context' = ReadFails(context, f, ScopeNow, phase)
    BY <1>0, <1>8, <1>2, <2>2, EndFlightInv, ControllerStep DEF ContextRead, ReadFails
  <2>3. QED
    BY <1>2, <2>1, <2>2 DEF ContextRead
<1>3. CASE ContextAbortSettles(f)
  BY <1>0, <1>8, <1>3, EndFlightInv, ControllerStep DEF ContextAbortSettles, InFlight
<1>4. CASE ContextDeadline(f)
  BY <1>0, <1>4, ClockInv, ControllerStep DEF ContextDeadline
<1>5. CASE ContextTimerFires(f)
  <2> DEFINE t == Timeout(context, f, ScopeNow)
  <2>1. ControllerInv(t) /\ SameOwner(t, context)
    BY <1>0, TimeoutInv
  <2>2. context' = [t EXCEPT !.ops[f].timer = FALSE]
    BY <1>5 DEF ContextTimerFires
  <2> HIDE DEF t
  <2>3. ControllerInv(context') /\ SameOwner(context', t)
    BY <2>1, <2>2, ClockInv
  <2>4. QED
    BY <1>5, <2>1, <2>3, ControllerStep DEF ContextTimerFires, SameOwner
<1>6. CASE ContextCleanup(f)
  BY <1>0, <1>6, CleanupDoneInv, ControllerStep DEF ContextCleanup
<1>7. QED
  BY <1>1, <1>2, <1>3, <1>4, <1>5, <1>6

LEMMA SnapshotExpiresInv ==
    ASSUME ClientInv, SnapshotExpires
    PROVE  ClientInv'
<1>1. ControllerInv(context)
  BY DEF ClientInv, ContextInv
<1>2. PICK i \in DOMAIN context.cache : context' = [context EXCEPT !.cache[i].fresh = FALSE]
  BY DEF SnapshotExpires
<1>3. ControllerInv(context') /\ SameOwner(context', context)
  BY <1>1, <1>2, ExpiryInv
<1>4. QED
  BY <1>3, ControllerStep DEF SnapshotExpires

-----------------------------------------------------------------------------
(* The lane half of a step. *)

(* What the transitions make of a lane. *)
LEMMA LaneTransitions ==
    ASSUME NEW lane \in LaneStates, NEW o \in Owners, NEW sig \in Signatures \cup {NoSig}
    PROVE  /\ InputChanged(lane, sig) \in LaneStates /\ InputChanged(lane, sig).phase = "idle"
           /\ RequestStarted(lane, o, sig) \in LaneStates
           /\ RequestStarted(lane, o, sig).phase = "loading"
           /\ RequestStarted(lane, o, sig).sig = sig
           /\ RequestFinalized(lane, o, sig) \in LaneStates
           /\ RequestFinalized(lane, o, sig).phase = lane.phase
           /\ RequestFinalized(lane, o, sig).sig = lane.sig
           /\ RequestFinalized(lane, o, sig).result = lane.result
<1>1. CreateRequestLane \in LaneStates /\ CreateRequestLane.phase = "idle"
  BY DEF CreateRequestLane, LaneStates, NoActive
<1>2. /\ InputChanged(lane, sig) \in LaneStates /\ InputChanged(lane, sig).phase = "idle"
      /\ RequestStarted(lane, o, sig) \in LaneStates
      /\ RequestStarted(lane, o, sig).phase = "loading"
      /\ RequestStarted(lane, o, sig).sig = sig
  BY <1>1 DEF InputChanged, RequestStarted, LaneStates
<1>3. NoActive \in [owner : Owners \cup {NoOwner}, sig : Signatures \cup {NoSig}]
  BY DEF NoActive
<1>4. /\ RequestFinalized(lane, o, sig) \in LaneStates
      /\ RequestFinalized(lane, o, sig).phase = lane.phase
      /\ RequestFinalized(lane, o, sig).sig = lane.sig
      /\ RequestFinalized(lane, o, sig).result = lane.result
  BY <1>3 DEF RequestFinalized, LaneStates
<1>5. QED
  BY <1>2, <1>4

LEMMA LaneSucceeds ==
    ASSUME NEW lane \in LaneStates, NEW o \in Owners, NEW sig \in Signatures,
           OwnsRequest(lane, o, sig)
    PROVE  /\ RequestSucceeded(lane, o, sig, o) \in LaneStates
           /\ RequestSucceeded(lane, o, sig, o).phase = "ready"
           /\ RequestSucceeded(lane, o, sig, o).sig = sig
           /\ RequestSucceeded(lane, o, sig, o).result \in Results
           /\ RequestSucceeded(lane, o, sig, o).result.sig = sig
           /\ RequestSucceeded(lane, o, sig, o).result.report = o
<1> DEFINE r == [owner |-> o, sig |-> sig, report |-> o]
<1>1. lane.sig = sig
  BY DEF OwnsRequest
<1>2. r \in Results /\ r.sig = sig /\ r.report = o
  BY DEF Results
<1>3. RequestSucceeded(lane, o, sig, o) =
          [lane EXCEPT !.phase = "ready", !.error = "none", !.cancellation = "none", !.result = r]
  BY DEF RequestSucceeded
<1> HIDE DEF r
<1>4. QED
  BY <1>1, <1>2, <1>3 DEF LaneStates

LEMMA LaneFails ==
    ASSUME NEW lane \in LaneStates, NEW o, NEW sig, OwnsRequest(lane, o, sig),
           NEW error \in {"none", "timeout", "cancelled", "network", "http", "invalid-response"}
    PROVE  /\ RequestFailed(lane, o, sig, error) \in LaneStates
           /\ RequestFailed(lane, o, sig, error).phase = "error"
BY DEF RequestFailed, LaneStates

LEMMA LaneCancels ==
    ASSUME NEW lane \in LaneStates, NEW o, NEW sig, OwnsRequest(lane, o, sig),
           NEW reason \in {"user", "navigation"}
    PROVE  /\ RequestCancelled(lane, o, sig, reason) \in LaneStates
           /\ RequestCancelled(lane, o, sig, reason).phase = "cancelled"
BY DEF RequestCancelled, LaneStates

LEMMA RefusedLaneFails ==
    ASSUME NEW p \in Purposes, lanes[p] \in LaneStates, NEW o \in Owners, NEW sig \in Signatures,
           NEW error \in {"http", "timeout"}
    PROVE  RefusedLane(p, o, sig, error) \in LaneStates /\ RefusedLane(p, o, sig, error).phase = "error"
<1> DEFINE started == RequestStarted(lanes[p], o, sig)
           failed == RequestFailed(started, o, sig, error)
<1>1. started \in LaneStates
  BY LaneTransitions
<1>2. OwnsRequest(started, o, sig)
  BY DEF OwnsRequest, RequestStarted, CreateRequestLane
<1> HIDE DEF started
<1>3. failed \in LaneStates /\ failed.phase = "error"
  BY <1>1, <1>2, LaneFails
<1>4. RefusedLane(p, o, sig, error) = RequestFinalized(failed, o, sig)
  BY DEF RefusedLane, started
<1> HIDE DEF failed
<1>5. QED
  BY <1>3, <1>4, LaneTransitions

LEMMA AbortedRequest ==
    ASSUME NEW r \in RequestStates,
           NEW reason \in {"timeout", "user", "navigation", "replaced", "input-change",
                           "beforeunload", "destroy"}
    PROVE  /\ Aborted(r, reason) \in RequestStates /\ Aborted(r, reason).aborted
           /\ Aborted(r, reason).stage = r.stage /\ Aborted(r, reason).sig = r.sig
           /\ Aborted(r, reason).base = r.base /\ Aborted(r, reason).token = r.token
BY ContextAssumption DEF Aborted, RequestStates

LEMMA SignatureType ==
    ASSUME NEW p \in Purposes, NEW in \in [Purposes -> Inputs], NEW b \in Bases,
           NEW auth \in BOOLEAN, NEW revs \in [Bases -> 0 .. MaxRevision]
    PROVE  /\ Signature(p, in, b, auth, revs) \in Signatures \cup {NoSig}
           /\ in[p] # Invalid =>
                 /\ Signature(p, in, b, auth, revs) \in Signatures
                 /\ Signature(p, in, b, auth, revs) # NoSig
                 /\ Signature(p, in, b, auth, revs).purpose = p
           /\ in[p] = Invalid => Signature(p, in, b, auth, revs) = NoSig
<1>1. CASE in[p] = Invalid
  BY <1>1 DEF Signature
<1>2. CASE in[p] # Invalid
  <2>1. Signature(p, in, b, auth, revs) = [purpose |-> p, input |-> in[p], base |-> b,
                                          auth |-> auth, revision |-> revs[b]]
    BY <1>2 DEF Signature
  <2>2. [purpose |-> p, input |-> in[p], base |-> b, auth |-> auth, revision |-> revs[b]]
            \in Signatures
    BY DEF Signatures
  <2>3. QED
    BY <1>2, <2>1, <2>2, WebClientAssumption
<1>3. QED
  BY <1>1, <1>2

(* What a step may do to a request: end it, abort it, or let it go on, in  *)
(* which case it stays its purpose's.                                      *)
Continues(o) ==
    requests'[o].stage \in {"fetch", "body"} =>
        /\ requests[o].stage \in {"fetch", "body"} /\ requests'[o].sig = requests[o].sig
        /\ requests'[o].base = requests[o].base /\ requests'[o].token = requests[o].token
        /\ requests[o].aborted => requests'[o].aborted

StaysActive(o) ==
    requests'[o].stage \in {"fetch", "body"} /\ ~requests'[o].aborted =>
        active'[requests[o].sig.purpose] = active[requests[o].sig.purpose]

LEMMA RequestHolds ==
    ASSUME LanesInv, NEW o \in Owners, Continues(o), StaysActive(o), UNCHANGED ownerSequence,
           requests'[o].stage \in {"fetch", "body"} /\ ~requests'[o].aborted
             /\ requests[o].token # NoToken =>
               /\ storage'[requests[o].base] = storage[requests[o].base]
               /\ requests[o].base \in credentialIndeterminate'
                      => requests[o].base \in credentialIndeterminate
    PROVE  RequestInv(o)'
<1>1. RequestInv(o)
  BY DEF LanesInv
<1>2. LaneTypes
  BY DEF LanesInv
<1>3. SUFFICES ASSUME requests'[o].stage \in {"fetch", "body"}
               PROVE  RequestInv(o)'
  BY DEF RequestInv
<1>4. /\ requests[o].stage \in {"fetch", "body"} /\ requests'[o].sig = requests[o].sig
      /\ requests'[o].base = requests[o].base /\ requests'[o].token = requests[o].token
      /\ requests[o].aborted => requests'[o].aborted
  BY <1>3 DEF Continues
<1>5. o <= ownerSequence' /\ requests'[o].sig \in Signatures /\ requests'[o].base \in Bases
  BY <1>1, <1>4 DEF RequestInv
<1>6. ASSUME ~requests'[o].aborted
      PROVE  /\ active'[requests'[o].sig.purpose] = o
             /\ requests'[o].token # NoToken =>
                  /\ storage'[requests'[o].base] = requests'[o].token
                  /\ requests'[o].base \notin credentialIndeterminate'
  <2>1. ~requests[o].aborted
    BY <1>4, <1>6
  <2>2. active[requests[o].sig.purpose] = o
    BY <1>1, <1>4, <2>1 DEF RequestInv
  <2>3. active'[requests[o].sig.purpose] = active[requests[o].sig.purpose]
    BY <1>3, <1>6 DEF StaysActive
  <2>4. requests[o].token # NoToken =>
            /\ storage[requests[o].base] = requests[o].token
            /\ requests[o].base \notin credentialIndeterminate
    BY <1>1, <1>4, <2>1 DEF RequestInv
  <2>5. QED
    BY <1>3, <1>4, <1>6, <2>2, <2>3, <2>4
<1>7. QED
  BY <1>5, <1>6 DEF RequestInv

LEMMA ActiveHolds ==
    ASSUME LanesInv, NEW q \in Purposes, laneBases'[q] = laneBases[q],
           \/ active'[q] = NoOwner
           \/ /\ active'[q] = active[q]
              /\ active[q] # NoOwner =>
                   /\ requests'[active[q]].stage \in {"fetch", "body"}
                   /\ requests'[active[q]].sig = requests[active[q]].sig
                   /\ requests'[active[q]].base = requests[active[q]].base
    PROVE  ActiveInv(q)'
<1>1. ActiveInv(q)
  BY DEF LanesInv
<1>2. QED
  BY <1>1 DEF ActiveInv

(* A lane that a step leaves in its phase shows what it showed. *)
LEMMA LaneHolds ==
    ASSUME LanesInv, activeInstance, NEW q \in Purposes,
           laneBases'[q] = laneBases[q], report'[q] = report[q],
           lanes'[q].phase = lanes[q].phase, lanes'[q].sig = lanes[q].sig,
           lanes'[q].result = lanes[q].result,
           lanes[q].phase \in {"loading", "ready"} =>
             /\ Signature(q, input', base', authEnabled', revisions')
                    = Signature(q, input, base, authEnabled, revisions)
             /\ base' = base
    PROVE  LaneInv(q)'
<1>1. LaneInv(q)
  BY DEF LanesInv
<1>2. QED
  BY <1>1 DEF LaneInv, Signature

(* A lane that is neither loading nor ready shows nothing. *)
LEMMA LaneRests ==
    ASSUME NEW q \in Purposes, lanes'[q].phase \notin {"loading", "ready"},
           report'[q] = NoReport
    PROVE  LaneInv(q)'
BY DEF LaneInv

LEMMA Inflight ==
    ASSUME LanesInv, NEW p \in Purposes, active[p] # NoOwner
    PROVE  /\ active[p] \in Owners /\ requests[active[p]] \in RequestStates
           /\ requests[active[p]].stage \in {"fetch", "body"}
           /\ requests[active[p]].sig \in Signatures /\ requests[active[p]].sig.purpose = p
           /\ requests[active[p]].base \in Bases /\ laneBases[p] = requests[active[p]].base
           /\ active[p] <= ownerSequence
<1>1. active[p] \in Owners /\ requests[active[p]] \in RequestStates
  BY DEF LanesInv, LaneTypes
<1>2. ActiveInv(p) /\ RequestInv(active[p])
  BY <1>1 DEF LanesInv
<1>3. QED
  BY <1>1, <1>2 DEF ActiveInv, RequestInv

LEMMA PurposeIsOne ==
    ASSUME LanesInv, NEW o \in Owners, requests[o].stage \in {"fetch", "body"}
    PROVE  /\ requests[o].sig \in Signatures /\ requests[o].sig.purpose \in Purposes
           /\ requests[o] \in RequestStates /\ o <= ownerSequence
           /\ ~requests[o].aborted => active[requests[o].sig.purpose] = o
<1>1. RequestInv(o) /\ requests[o] \in RequestStates
  BY DEF LanesInv, LaneTypes
<1>2. QED
  BY <1>1 DEF RequestInv, Signatures

(* Aborting requests and taking some of their purposes' off. *)
LEMMA AbortsHold ==
    ASSUME LanesInv, LaneTypes', NEW reason, NEW hit \in SUBSET Purposes,
           reason \in {"timeout", "user", "navigation", "replaced", "input-change",
                       "beforeunload", "destroy"},
           \A o \in Owners :
               requests'[o] = IF \E p \in hit : active[p] = o THEN Aborted(requests[o], reason)
                              ELSE requests[o],
           \A p \in Purposes : active'[p] = active[p] \/ (active'[p] = NoOwner /\ p \in hit),
           UNCHANGED ownerSequence,
           \A o \in Owners :
               requests[o].stage \in {"fetch", "body"} /\ ~requests[o].aborted
                 /\ requests[o].token # NoToken /\ requests[o].sig.purpose \notin hit =>
                   /\ storage'[requests[o].base] = storage[requests[o].base]
                   /\ requests[o].base \in credentialIndeterminate'
                          => requests[o].base \in credentialIndeterminate
    PROVE  /\ \A o \in Owners : RequestInv(o)'
           /\ \A q \in Purposes : laneBases'[q] = laneBases[q] \/ active'[q] = NoOwner
                                     => ActiveInv(q)'
<1>1. ASSUME NEW o \in Owners
      PROVE  /\ requests'[o].stage = requests[o].stage /\ requests'[o].sig = requests[o].sig
             /\ requests'[o].base = requests[o].base /\ requests'[o].token = requests[o].token
             /\ requests[o].aborted => requests'[o].aborted
             /\ (\E p \in hit : active[p] = o) => requests'[o].aborted
  <2>1. requests[o] \in RequestStates
    BY DEF LanesInv, LaneTypes
  <2>2. QED
    BY <2>1, AbortedRequest
<1>2. ASSUME NEW o \in Owners
      PROVE  RequestInv(o)'
  <2>1. Continues(o)
    BY <1>1 DEF Continues
  <2>2. ASSUME requests'[o].stage \in {"fetch", "body"}, ~requests'[o].aborted
        PROVE  requests[o].sig.purpose \in Purposes \ hit
    BY <1>1, <2>2, PurposeIsOne
  <2>3. StaysActive(o)
    BY <2>2 DEF StaysActive
  <2>4. QED
    BY <1>1, <2>1, <2>2, <2>3, RequestHolds
<1>3. ASSUME NEW q \in Purposes, laneBases'[q] = laneBases[q] \/ active'[q] = NoOwner
      PROVE  ActiveInv(q)'
  <2>1. CASE active'[q] = NoOwner
    BY <2>1 DEF ActiveInv
  <2>2. CASE active'[q] = active[q] /\ active[q] # NoOwner
    <3>1. active[q] \in Owners /\ requests[active[q]].stage \in {"fetch", "body"}
      BY <2>2, Inflight
    <3>2. laneBases'[q] = laneBases[q]
      BY <1>3, <2>2
    <3>3. QED
      BY <1>1, <2>2, <3>1, <3>2, ActiveHolds
  <2>3. QED
    BY <2>1, <2>2
<1>4. QED
  BY <1>2, <1>3

(* Invalidating the lanes that a change of a field reaches. *)
LEMMA InvalidateInv ==
    ASSUME LanesInv, activeInstance, UNCHANGED activeInstance, FormTypes',
           NEW ps \in SUBSET Purposes,
           Invalidate(ps, input', base', authEnabled', revisions'),
           \A q \in Purposes \ ps :
               lanes[q].phase \in {"loading", "ready"} =>
                 /\ Signature(q, input', base', authEnabled', revisions')
                        = Signature(q, input, base, authEnabled, revisions)
                 /\ base' = base,
           \A o \in Owners :
               requests[o].stage \in {"fetch", "body"} /\ ~requests[o].aborted
                 /\ requests[o].token # NoToken /\ requests[o].sig.purpose \notin ps =>
                   /\ storage'[requests[o].base] = storage[requests[o].base]
                   /\ requests[o].base \in credentialIndeterminate'
                          => requests[o].base \in credentialIndeterminate
    PROVE  LanesInv'
<1>0. LaneTypes
  BY DEF LanesInv
<1>1. /\ requests' = [o \in Owners |-> IF \E p \in ps : active[p] = o
                                      THEN Aborted(requests[o], "input-change") ELSE requests[o]]
      /\ active' = [p \in Purposes |-> IF p \in ps THEN NoOwner ELSE active[p]]
      /\ laneBases' = [p \in Purposes |-> IF p \in ps THEN NoBase ELSE laneBases[p]]
      /\ report' = [p \in Purposes |-> IF p \in ps THEN NoReport ELSE report[p]]
      /\ lanes' = [p \in Purposes |->
              IF p \in ps
              THEN InputChanged(lanes[p], Signature(p, input', base', authEnabled', revisions'))
              ELSE lanes[p]]
      /\ UNCHANGED ownerSequence
  BY DEF Invalidate
<1>2. ASSUME NEW p \in ps
      PROVE  /\ lanes'[p] \in LaneStates /\ lanes'[p].phase = "idle"
             /\ report'[p] = NoReport /\ active'[p] = NoOwner
  <2>1. Signature(p, input', base', authEnabled', revisions') \in Signatures \cup {NoSig}
    BY SignatureType DEF FormTypes
  <2>2. InputChanged(lanes[p], Signature(p, input', base', authEnabled', revisions')) \in LaneStates
    BY <2>1 DEF InputChanged, CreateRequestLane, NoActive, LaneStates
  <2>3. InputChanged(lanes[p], Signature(p, input', base', authEnabled', revisions')).phase = "idle"
    BY DEF InputChanged, CreateRequestLane
  <2>4. QED
    BY <1>1, <2>2, <2>3
<1>3. ASSUME NEW p \in Purposes \ ps
      PROVE  /\ lanes'[p] = lanes[p] /\ report'[p] = report[p] /\ active'[p] = active[p]
             /\ laneBases'[p] = laneBases[p]
  BY <1>1
<1>4. \A o \in Owners : requests'[o] \in RequestStates
  BY <1>0, <1>1, AbortedRequest DEF LaneTypes
<1>5. LaneTypes'
  <2>1. lanes' \in [Purposes -> LaneStates]
    BY <1>0, <1>1, <1>2, <1>3 DEF LaneTypes
  <2>2. requests' \in [Owners -> RequestStates]
    BY <1>1, <1>4
  <2>3. QED
    BY <1>0, <1>1, <2>1, <2>2 DEF LaneTypes
<1>6. /\ \A o \in Owners : RequestInv(o)'
      /\ \A q \in Purposes : laneBases'[q] = laneBases[q] \/ active'[q] = NoOwner => ActiveInv(q)'
  <2>1. \A o \in Owners :
            requests'[o] = IF \E p \in ps : active[p] = o
                           THEN Aborted(requests[o], "input-change") ELSE requests[o]
    BY <1>1
  <2>2. \A p \in Purposes : active'[p] = active[p] \/ (active'[p] = NoOwner /\ p \in ps)
    BY <1>1
  <2>3. QED
    BY <1>1, <1>5, <2>1, <2>2, AbortsHold
<1>7. \A q \in Purposes : ActiveInv(q)'
  BY <1>2, <1>3, <1>6
<1>8. ASSUME NEW q \in Purposes
      PROVE  LaneInv(q)'
  <2>1. CASE q \in ps
    BY <1>2, <2>1, LaneRests
  <2>2. CASE q \notin ps
    BY <1>3, <2>2, LaneHolds
  <2>3. QED
    BY <2>1, <2>2
<1>9. QED
  BY <1>5, <1>6, <1>7, <1>8 DEF LanesInv

(* Its effect on the context panel. *)
LEMMA InvalidateContextInv ==
    ASSUME LanesInv, ContextInv, activeInstance, UNCHANGED activeInstance,
           NEW ps \in SUBSET Purposes,
           Invalidate(ps, input', base', authEnabled', revisions'),
           "topology" \notin ps =>
             \/ context.owner = NoScope
             \/ /\ input'["topology"] = input["topology"]
                /\ UNCHANGED <<base, authEnabled, credentialVars>>
    PROVE  ContextInv'
<1>1. CASE "topology" \in ps
  BY <1>1, ContextClears DEF Invalidate
<1>2. CASE "topology" \notin ps
  <2>1. UNCHANGED contextVars
    BY <1>2 DEF Invalidate
  <2>2. lanes'["topology"] = lanes["topology"] /\ report'["topology"] = report["topology"]
    BY <1>2, WebClientAssumption DEF Invalidate
  <2>3. ScopeInv'
    BY <1>2, <2>1, <2>2 DEF ContextInv, ScopeInv, contextVars, credentialVars
  <2>4. ControllerInv(context)'
    BY <2>1 DEF ContextInv, contextVars
  <2>5. QED
    BY <2>1, <2>3, <2>4 DEF ContextInv, contextVars
<1>3. QED
  BY <1>1, <1>2

LEMMA FormEdits ==
    ASSUME ClientInv,
           \/ \E p \in Purposes, value \in Inputs : EditInput(p, value)
           \/ \E b \in Bases : EditBase(b)
           \/ ToggleAuth
    PROVE  ClientInv'
<1>0. LanesInv /\ ContextInv /\ FormTypes
  BY DEF ClientInv, LanesInv
<1>1. ASSUME NEW p \in Purposes, NEW value \in Inputs, EditInput(p, value)
      PROVE  ClientInv'
  <2>1. /\ activeInstance /\ input' = [input EXCEPT ![p] = value]
        /\ UNCHANGED <<activeInstance, base, authEnabled, credentialVars>>
        /\ Invalidate({p}, input', base, authEnabled, revisions)
    BY <1>1 DEF EditInput
  <2>2. Invalidate({p}, input', base', authEnabled', revisions')
    BY <2>1 DEF credentialVars
  <2>3. FormTypes'
    BY <1>0, <2>1 DEF FormTypes, credentialVars
  <2>4. \A q \in Purposes \ {p} : input'[q] = input[q]
    BY <1>0, <2>1 DEF FormTypes
  <2>5. \A q \in Purposes \ {p} :
            Signature(q, input', base', authEnabled', revisions')
                = Signature(q, input, base, authEnabled, revisions)
    BY <2>1, <2>4 DEF Signature, credentialVars
  <2>6. LanesInv'
    BY <1>0, <2>1, <2>2, <2>3, <2>5, InvalidateInv DEF credentialVars
  <2>7. ContextInv'
    BY <1>0, <2>1, <2>2, <2>4, WebClientAssumption, InvalidateContextInv
  <2>8. QED
    BY <2>6, <2>7 DEF ClientInv
<1>2. ASSUME NEW b \in Bases, EditBase(b)
      PROVE  ClientInv'
  <2>1. /\ activeInstance /\ base' = b
        /\ UNCHANGED <<activeInstance, input, authEnabled, credentialVars>>
        /\ Invalidate(Purposes, input', base', authEnabled', revisions')
    BY <1>2 DEF EditBase, credentialVars
  <2>2. FormTypes'
    BY <1>0, <2>1 DEF FormTypes, credentialVars
  <2>3. LanesInv'
    BY <1>0, <2>1, <2>2, InvalidateInv DEF credentialVars
  <2>4. ContextInv'
    BY <1>0, <2>1, WebClientAssumption, InvalidateContextInv
  <2>5. QED
    BY <2>3, <2>4 DEF ClientInv
<1>3. CASE ToggleAuth
  <2>1. /\ activeInstance /\ authEnabled' = ~authEnabled
        /\ UNCHANGED <<activeInstance, input, base, credentialVars>>
        /\ Invalidate(Purposes, input', base', authEnabled', revisions')
    BY <1>3 DEF ToggleAuth, credentialVars
  <2>2. FormTypes'
    BY <1>0, <2>1 DEF FormTypes, credentialVars
  <2>3. LanesInv'
    BY <1>0, <2>1, <2>2, InvalidateInv DEF credentialVars
  <2>4. ContextInv'
    BY <1>0, <2>1, WebClientAssumption, InvalidateContextInv
  <2>5. QED
    BY <2>3, <2>4 DEF ClientInv
<1>4. QED
  BY <1>1, <1>2, <1>3

(* A change of the credential of the page's base reaches every request and *)
(* lookup that may carry it: a lane that is loading or ready is on the     *)
(* page's base, and a request that was not aborted is its lane's.          *)
LEMMA CredentialEdits ==
    ASSUME ClientInv, NEW token \in Tokens \cup {NoToken},
           CredentialCommits(token) \/ CredentialIndeterminate(token)
    PROVE  ClientInv'
<1> DEFINE ps == {p \in Purposes : OnBase(p, base)}
<1>0. LanesInv /\ ContextInv /\ FormTypes /\ LaneTypes
  BY DEF ClientInv, LanesInv
<1>1. PICK indeterminate \in {credentialIndeterminate \ {base}, credentialIndeterminate \cup {base}} :
          activeInstance /\ CredentialChanged(base, token, indeterminate)
  BY DEF CredentialCommits, CredentialIndeterminate
<1>2. /\ revisions[base] < MaxRevision
      /\ storage' = [storage EXCEPT ![base] = token]
      /\ revisions' = [revisions EXCEPT ![base] = revisions[base] + 1]
      /\ credentialIndeterminate' = indeterminate
      /\ UNCHANGED <<activeInstance, activeView, formVars, storageReads>>
      /\ Invalidate(ps, input, base, authEnabled, revisions')
  BY <1>1 DEF CredentialChanged
<1>3. ps \in SUBSET Purposes
  OBVIOUS
<1>4. ASSUME NEW q \in Purposes \ ps
      PROVE  /\ lanes[q].phase \notin {"loading", "ready"}
             /\ active[q] # NoOwner => requests[active[q]].base # base
  <2>1. ~OnBase(q, base)
    BY <1>4
  <2>2. active[q] # NoOwner => requests[active[q]].base # base /\ laneBases[q] # base
    BY <1>0, <2>1, Inflight DEF OnBase
  <2>3. laneBases[q] # base
    BY <1>0, <2>1, <2>2, WebClientAssumption DEF OnBase, FormTypes
  <2>4. LaneInv(q)
    BY <1>0, <1>1 DEF LanesInv
  <2>5. QED
    BY <2>2, <2>3, <2>4 DEF LaneInv
<1>5. ASSUME NEW o \in Owners, requests[o].stage \in {"fetch", "body"}, ~requests[o].aborted,
             requests[o].sig.purpose \notin ps
      PROVE  requests[o].base # base
  <2>1. requests[o].sig.purpose \in Purposes /\ active[requests[o].sig.purpose] = o
    BY <1>0, <1>5, PurposeIsOne
  <2>2. o # NoOwner
    BY WebClientAssumption
  <2>3. QED
    BY <1>4, <1>5, <2>1, <2>2
<1> HIDE DEF ps
<1>6. Invalidate(ps, input', base', authEnabled', revisions')
  BY <1>2 DEF formVars
<1>7. FormTypes'
  <2>1. revisions[base] + 1 \in 0 .. MaxRevision
    BY <1>0, <1>2, WebClientAssumption DEF FormTypes
  <2>2. revisions' \in [Bases -> 0 .. MaxRevision]
    BY <1>0, <1>2, <2>1 DEF FormTypes
  <2>3. storage' \in [Bases -> Tokens \cup {NoToken}]
    BY <1>0, <1>2 DEF FormTypes
  <2>4. credentialIndeterminate' \subseteq Bases
    BY <1>0, <1>1, <1>2 DEF FormTypes
  <2>5. QED
    BY <1>0, <1>2, <2>2, <2>3, <2>4 DEF FormTypes, formVars
<1>8. ASSUME NEW o \in Owners, requests[o].stage \in {"fetch", "body"}, ~requests[o].aborted,
             requests[o].sig.purpose \notin ps
      PROVE  /\ storage'[requests[o].base] = storage[requests[o].base]
             /\ requests[o].base \in credentialIndeterminate'
                    => requests[o].base \in credentialIndeterminate
  <2>1. requests[o].base # base
    BY <1>5, <1>8
  <2>2. storage'[requests[o].base] = storage[requests[o].base]
    BY <1>0, <1>2, <2>1 DEF FormTypes
  <2>3. QED
    BY <1>1, <1>2, <2>1, <2>2
<1>9. LanesInv'
  BY <1>0, <1>1, <1>2, <1>3, <1>4, <1>6, <1>7, <1>8, InvalidateInv
<1>10. "topology" \notin ps => context.owner = NoScope
  BY <1>0, <1>4, WebClientAssumption DEF ContextInv, ScopeInv
<1>11. ContextInv'
  BY <1>0, <1>1, <1>2, <1>3, <1>6, <1>10, InvalidateContextInv
<1>12. QED
  BY <1>9, <1>11 DEF ClientInv

LEMMA StorageBreaksInv ==
    ASSUME ClientInv, StorageBreaks
    PROVE  ClientInv'
<1>0. LanesInv /\ ContextInv
  BY DEF ClientInv
<1>1. /\ UNCHANGED <<activeInstance, formVars, storage, revisions, credentialIndeterminate>>
      /\ UNCHANGED laneVars /\ UNCHANGED contextVars /\ storageReads' = FALSE
  BY DEF StorageBreaks
<1>2. FormTypes' /\ LaneTypes'
  BY <1>0, <1>1 DEF LanesInv, FormTypes, LaneTypes, formVars, laneVars
<1>3. activeInstance' => \A p \in Purposes : LaneInv(p)'
  BY <1>0, <1>1 DEF LanesInv, LaneInv, formVars, laneVars
<1>4. \A p \in Purposes : ActiveInv(p)'
  BY <1>0, <1>1 DEF LanesInv, ActiveInv, laneVars
<1>5. \A o \in Owners : RequestInv(o)'
  BY <1>0, <1>1 DEF LanesInv, RequestInv, laneVars
<1>6. ~activeInstance' => \A p \in Purposes : active'[p] = NoOwner
  BY <1>0, <1>1 DEF LanesInv, laneVars
<1>7. LanesInv'
  BY <1>2, <1>3, <1>4, <1>5, <1>6 DEF LanesInv
<1>8. ControllerInv(context)' /\ ScopeInv'
  BY <1>0, <1>1 DEF ContextInv, ScopeInv, formVars, laneVars, contextVars
<1>9. ContextInv'
  BY <1>0, <1>1, <1>8 DEF ContextInv, contextVars
<1>10. QED
  BY <1>7, <1>9 DEF ClientInv

-----------------------------------------------------------------------------
(* start(p), and the ways a request ends. *)

LEMMA ContextStays ==
    ASSUME ContextInv, UNCHANGED <<activeInstance, formVars, credentialVars, contextVars>>,
           lanes'["topology"].phase = lanes["topology"].phase,
           report'["topology"] = report["topology"]
    PROVE  ContextInv'
<1>1. ControllerInv(context)' /\ ScopeInv'
  BY DEF ContextInv, ScopeInv, formVars, credentialVars, contextVars
<1>2. QED
  BY <1>1 DEF ContextInv, contextVars

LEMMA ClearPurposeInv ==
    ASSUME ContextInv, LaneTypes, activeInstance,
           UNCHANGED <<activeInstance, formVars, credentialVars>>,
           NEW p \in Purposes, ClearPurpose(p),
           \A q \in Purposes \ {p} : lanes'[q] = lanes[q]
    PROVE  ContextInv'
<1>1. CASE p = "topology"
  BY <1>1, ContextClears DEF ClearPurpose
<1>2. CASE p # "topology"
  <2>1. UNCHANGED contextVars /\ report'["topology"] = report["topology"]
    BY <1>2, WebClientAssumption DEF ClearPurpose, LaneTypes
  <2>2. QED
    BY <1>2, <2>1, ContextStays, WebClientAssumption
<1>3. QED
  BY <1>1, <1>2

LEMMA StartInvalidInv ==
    ASSUME ClientInv, NEW p \in Purposes, StartInvalid(p)
    PROVE  ClientInv'
<1>0. LanesInv /\ ContextInv /\ FormTypes /\ LaneTypes
  BY DEF ClientInv, LanesInv
<1>1. /\ activeInstance /\ requests' = AbortActive(p, "replaced")
      /\ lanes' = [lanes EXCEPT ![p] = InputChanged(lanes[p], NoSig)]
      /\ report' = [report EXCEPT ![p] = NoReport] /\ ClearPurpose(p)
      /\ UNCHANGED <<activeInstance, formVars, credentialVars>>
      /\ UNCHANGED <<active, laneBases, ownerSequence>>
  BY DEF StartInvalid, ClearPurpose
<1>2. \A o \in Owners :
          requests'[o] = IF \E q \in {p} : active[q] = o THEN Aborted(requests[o], "replaced")
                         ELSE requests[o]
  BY <1>1 DEF AbortActive
<1>3. /\ InputChanged(lanes[p], NoSig) \in LaneStates
      /\ InputChanged(lanes[p], NoSig).phase = "idle"
  BY DEF InputChanged, CreateRequestLane, NoActive, LaneStates
<1>4. LaneTypes'
  <2>1. requests' \in [Owners -> RequestStates]
    BY <1>0, <1>1, AbortedRequest DEF LaneTypes, AbortActive
  <2>2. QED
    BY <1>0, <1>1, <1>3, <2>1 DEF LaneTypes
<1>5. (\A o \in Owners : RequestInv(o)') /\ \A q \in Purposes : ActiveInv(q)'
  <2>1. \A q \in Purposes : active'[q] = active[q] \/ (active'[q] = NoOwner /\ q \in {p})
    BY <1>1
  <2>2. {p} \in SUBSET Purposes
    OBVIOUS
  <2>3. UNCHANGED <<ownerSequence, storage, credentialIndeterminate, laneBases>>
    BY <1>1 DEF credentialVars
  <2>4. QED
    BY <1>0, <1>2, <1>4, <2>1, <2>2, <2>3, AbortsHold
<1>6. ASSUME NEW q \in Purposes
      PROVE  LaneInv(q)'
  <2>1. CASE q = p
    <3>1. lanes'[q].phase = "idle" /\ report'[q] = NoReport
      BY <1>0, <1>1, <1>3, <2>1 DEF LaneTypes
    <3>2. QED
      BY <3>1, LaneRests
  <2>2. CASE q # p
    <3>1. lanes'[q] = lanes[q] /\ report'[q] = report[q]
      BY <1>0, <1>1, <2>2 DEF LaneTypes
    <3>2. QED
      BY <1>0, <1>1, <3>1, LaneHolds DEF formVars, credentialVars
  <2>3. QED
    BY <2>1, <2>2
<1>7. FormTypes'
  BY <1>0, <1>1 DEF FormTypes, formVars, credentialVars
<1>8. LanesInv'
  BY <1>1, <1>4, <1>5, <1>6, <1>7 DEF LanesInv
<1>9. ContextInv'
  <2>1. \A q \in Purposes \ {p} : lanes'[q] = lanes[q]
    BY <1>0, <1>1 DEF LaneTypes
  <2>2. QED
    BY <1>0, <1>1, <2>1, ClearPurposeInv
<1>10. QED
  BY <1>8, <1>9 DEF ClientInv

(* A request that start() sends: it has the credential of the store, which *)
(* is not in doubt, and the lane of its purpose.                           *)
LEMMA StartInv ==
    ASSUME ClientInv, NEW p \in Purposes, Start(p)
    PROVE  ClientInv'
<1>1. PICK o : o = ownerSequence + 1
  OBVIOUS
<1> DEFINE sig == Signature(p, input, base, authEnabled, revisions)
           r == [Unasked EXCEPT !.stage = "fetch", !.sig = sig, !.base = base,
                                !.token = StartToken, !.timer = TRUE]
           sent == /\ MaySend
                   /\ lanes' = [lanes EXCEPT ![p] = RequestStarted(lanes[p], o, sig)]
                   /\ active' = [active EXCEPT ![p] = o]
                   /\ requests' = [AbortActive(p, "replaced") EXCEPT ![o] = r]
           refused == \E error \in StartRefusals :
                         /\ lanes' = [lanes EXCEPT ![p] = RefusedLane(p, o, sig, error)]
                         /\ active' = [active EXCEPT ![p] = NoOwner]
                         /\ requests' = AbortActive(p, "replaced")
<1>0. LanesInv /\ ContextInv /\ FormTypes /\ LaneTypes
  BY DEF ClientInv, LanesInv
<1>2. /\ activeInstance /\ input[p] # Invalid /\ o \in Owners
      /\ ownerSequence' = o /\ laneBases' = [laneBases EXCEPT ![p] = base]
      /\ report' = [report EXCEPT ![p] = NoReport] /\ ClearPurpose(p)
      /\ UNCHANGED <<activeInstance, formVars, credentialVars>>
      /\ sent \/ refused
  BY <1>1 DEF Start, ClearPurpose
<1>3. sig \in Signatures /\ sig # NoSig /\ sig.purpose = p
  BY <1>0, <1>2, SignatureType DEF FormTypes
<1>4. FormTypes'
  BY <1>0, <1>2 DEF FormTypes, formVars, credentialVars
<1>5. AbortActive(p, "replaced") \in [Owners -> RequestStates]
  BY <1>0, AbortedRequest DEF LaneTypes, AbortActive
<1>6. ASSUME NEW x \in Owners
      PROVE  LET a == AbortActive(p, "replaced")[x]
             IN  /\ a.stage = requests[x].stage /\ a.sig = requests[x].sig
                 /\ a.base = requests[x].base /\ a.token = requests[x].token
                 /\ requests[x].aborted => a.aborted
                 /\ x = active[p] => a.aborted
  BY <1>0, AbortedRequest DEF LaneTypes, AbortActive
<1>7. ASSUME NEW x \in Owners, requests[x].stage \in {"fetch", "body"}
      PROVE  x # o
  BY <1>0, <1>7, <1>1, PurposeIsOne DEF LaneTypes
<1>8. /\ ownerSequence' \in 0 .. MaxOwners
      /\ laneBases' \in [Purposes -> Bases \cup {NoBase}] /\ laneBases'[p] = base
      /\ report' \in [Purposes -> Owners \cup {NoReport}] /\ report'[p] = NoReport
  <2>1. ownerSequence' \in 0 .. MaxOwners
    BY <1>2 DEF Owners
  <2>2. QED
    BY <1>0, <1>2, <2>1 DEF LaneTypes, FormTypes
<1>9. ASSUME NEW q \in Purposes \ {p}
      PROVE  laneBases'[q] = laneBases[q] /\ report'[q] = report[q]
  BY <1>0, <1>2 DEF LaneTypes
<1>10. /\ UNCHANGED <<input, base, authEnabled, revisions, storage, credentialIndeterminate>>
  BY <1>2 DEF formVars, credentialVars
<1> HIDE DEF sig
(* The requests that were there before. *)
<1>11. ASSUME NEW x \in Owners, x # o,
              requests'[x] = AbortActive(p, "replaced")[x],
              \A q \in Purposes \ {p} : active'[q] = active[q]
       PROVE  RequestInv(x)'
  <2>1. SUFFICES ASSUME requests'[x].stage \in {"fetch", "body"}
                 PROVE  RequestInv(x)'
    BY DEF RequestInv
  <2>2. RequestInv(x) /\ requests[x].stage \in {"fetch", "body"}
    BY <1>0, <1>6, <1>11, <2>1 DEF LanesInv
  <2>3. x <= ownerSequence'
    BY <1>0, <1>2, <1>1, <2>2, WebClientAssumption DEF RequestInv, LaneTypes, Owners
  <2>4. ASSUME ~requests'[x].aborted
        PROVE  active'[requests[x].sig.purpose] = x
    <3>1. ~requests[x].aborted /\ x # active[p]
      BY <1>6, <1>11, <2>4
    <3>2. requests[x].sig.purpose \in Purposes /\ active[requests[x].sig.purpose] = x
      BY <1>0, <2>2, <3>1, PurposeIsOne
    <3>3. QED
      BY <1>11, <3>1, <3>2
  <2>5. QED
    BY <1>6, <1>10, <1>11, <2>2, <2>3, <2>4 DEF RequestInv
<1>12. ASSUME NEW q \in Purposes \ {p}, active'[q] = active[q],
              \A x \in Owners \ {o} : requests'[x] = AbortActive(p, "replaced")[x]
       PROVE  ActiveInv(q)'
  <2>1. CASE active[q] = NoOwner
    BY <1>12, <2>1 DEF ActiveInv
  <2>2. CASE active[q] # NoOwner
    <3>1. active[q] \in Owners /\ requests[active[q]].stage \in {"fetch", "body"}
      BY <1>0, <2>2, Inflight
    <3>2. requests'[active[q]] = AbortActive(p, "replaced")[active[q]]
      BY <1>7, <1>12, <3>1
    <3>3. QED
      BY <1>0, <1>6, <1>9, <1>12, <3>1, <3>2, ActiveHolds
  <2>3. QED
    BY <2>1, <2>2
<1>13. ASSUME NEW q \in Purposes \ {p}, lanes'[q] = lanes[q]
       PROVE  LaneInv(q)'
  BY <1>0, <1>2, <1>9, <1>10, <1>13, LaneHolds
<1>14. CASE sent
  <2>1. /\ MaySend /\ lanes' = [lanes EXCEPT ![p] = RequestStarted(lanes[p], o, sig)]
        /\ active' = [active EXCEPT ![p] = o]
        /\ requests' = [AbortActive(p, "replaced") EXCEPT ![o] = r]
    BY <1>14
  <2>2. /\ StartToken \in Tokens \cup {NoToken}
        /\ StartToken # NoToken =>
              storage[base] = StartToken /\ base \notin credentialIndeterminate
    BY <1>0, <2>1 DEF StartToken, TokenFor, MaySend, FormTypes
  <2>3. /\ r \in RequestStates /\ r.stage = "fetch" /\ r.sig = sig /\ r.base = base
        /\ r.token = StartToken
    BY <1>0, <1>3, <2>2 DEF RequestStates, Unasked, FormTypes
  <2> HIDE DEF r
  <2>4. requests' \in [Owners -> RequestStates] /\ requests'[o] = r
        /\ \A x \in Owners \ {o} : requests'[x] = AbortActive(p, "replaced")[x]
    BY <1>2, <1>5, <2>1, <2>3
  <2>5. /\ RequestStarted(lanes[p], o, sig) \in LaneStates
        /\ RequestStarted(lanes[p], o, sig).phase = "loading"
        /\ RequestStarted(lanes[p], o, sig).sig = sig
    BY <1>0, <1>2, <1>3, LaneTransitions DEF LaneTypes
  <2>6. /\ lanes' \in [Purposes -> LaneStates]
        /\ lanes'[p].phase = "loading" /\ lanes'[p].sig = sig
        /\ \A q \in Purposes \ {p} : lanes'[q] = lanes[q]
    BY <1>0, <2>1, <2>5 DEF LaneTypes
  <2>7. /\ active' \in [Purposes -> Owners \cup {NoOwner}] /\ active'[p] = o
        /\ \A q \in Purposes \ {p} : active'[q] = active[q]
    BY <1>0, <1>2, <2>1 DEF LaneTypes
  <2>8. LaneTypes'
    BY <1>8, <2>4, <2>6, <2>7 DEF LaneTypes
  <2>9. LaneInv(p)'
    BY <1>3, <1>8, <1>10, <2>6 DEF LaneInv, sig
  <2>10. ActiveInv(p)'
    BY <1>3, <1>8, <2>3, <2>4, <2>7 DEF ActiveInv
  <2>11. RequestInv(o)'
    <3>1. o <= ownerSequence'
      BY <1>2, WebClientAssumption DEF Owners
    <3>2. QED
      BY <1>0, <1>3, <1>10, <2>2, <2>3, <2>4, <2>7, <3>1 DEF RequestInv, FormTypes
  <2>12. LanesInv'
    BY <1>2, <1>4, <1>11, <1>12, <1>13, <2>4, <2>6, <2>7, <2>8, <2>9, <2>10, <2>11 DEF LanesInv
  <2>13. ContextInv'
    BY <1>0, <1>2, <2>6, ClearPurposeInv
  <2>14. QED
    BY <2>12, <2>13 DEF ClientInv
<1>15. CASE refused
  <2>1. PICK error \in StartRefusals :
            /\ lanes' = [lanes EXCEPT ![p] = RefusedLane(p, o, sig, error)]
            /\ active' = [active EXCEPT ![p] = NoOwner]
            /\ requests' = AbortActive(p, "replaced")
    BY <1>15
  <2>2. error \in {"http", "timeout"}
    BY DEF StartRefusals
  <2>3. /\ RefusedLane(p, o, sig, error) \in LaneStates
        /\ RefusedLane(p, o, sig, error).phase = "error"
    BY <1>0, <1>2, <1>3, <2>2, RefusedLaneFails DEF LaneTypes
  <2>4. /\ lanes' \in [Purposes -> LaneStates] /\ lanes'[p].phase = "error"
        /\ \A q \in Purposes \ {p} : lanes'[q] = lanes[q]
    BY <1>0, <2>1, <2>3 DEF LaneTypes
  <2>5. /\ active' \in [Purposes -> Owners \cup {NoOwner}] /\ active'[p] = NoOwner
        /\ \A q \in Purposes \ {p} : active'[q] = active[q]
    BY <1>0, <2>1 DEF LaneTypes
  <2>6. LaneTypes'
    BY <1>5, <1>8, <2>1, <2>4, <2>5 DEF LaneTypes
  <2>7. LaneInv(p)' /\ ActiveInv(p)'
    BY <1>8, <2>4, <2>5, LaneRests DEF ActiveInv
  <2>8. RequestInv(o)'
    BY <1>2, <1>6, <1>7, <2>1 DEF RequestInv
  <2>9. LanesInv'
    BY <1>2, <1>4, <1>11, <1>12, <1>13, <2>1, <2>4, <2>5, <2>6, <2>7, <2>8 DEF LanesInv
  <2>10. ContextInv'
    BY <1>0, <1>2, <2>4, ClearPurposeInv
  <2>11. QED
    BY <2>9, <2>10 DEF ClientInv
<1>16. QED
  BY <1>2, <1>14, <1>15

(* A request that is over is nobody's. *)
LEMMA EndRequestInv ==
    ASSUME LanesInv, NEW o \in Owners, requests[o].stage \in {"fetch", "body"}, EndRequest(o)
    PROVE  /\ FormTypes' /\ UNCHANGED <<activeInstance, formVars, credentialVars>>
           /\ UNCHANGED <<laneBases, ownerSequence>>
           /\ requests' \in [Owners -> RequestStates]
           /\ active' \in [Purposes -> Owners \cup {NoOwner}]
           /\ \A x \in Owners : RequestInv(x)'
           /\ \A q \in Purposes : ActiveInv(q)'
           /\ ~activeInstance' => \A q \in Purposes : active'[q] = NoOwner
<1> DEFINE r == [Unasked EXCEPT !.stage = "done", !.timer = requests[o].timer /\ ~ClearTimerWorks]
<1>0. FormTypes /\ LaneTypes
  BY DEF LanesInv
<1>1. /\ requests' = [requests EXCEPT ![o] = r]
      /\ active' = [p \in Purposes |-> IF activeInstance /\ active[p] = o THEN NoOwner ELSE active[p]]
      /\ UNCHANGED <<activeInstance, formVars, credentialVars>>
      /\ UNCHANGED <<laneBases, ownerSequence>>
  BY DEF EndRequest
<1>2. r \in RequestStates /\ r.stage = "done"
  BY <1>0, ContextAssumption DEF RequestStates, Unasked, LaneTypes
<1> HIDE DEF r
<1>3. /\ requests' \in [Owners -> RequestStates] /\ requests'[o].stage = "done"
      /\ \A x \in Owners \ {o} : requests'[x] = requests[x]
  BY <1>0, <1>1, <1>2 DEF LaneTypes
<1>4. active' \in [Purposes -> Owners \cup {NoOwner}]
  BY <1>0, <1>1 DEF LaneTypes
<1>5. ASSUME NEW x \in Owners
      PROVE  RequestInv(x)'
  <2>1. CASE x = o
    BY <1>3, <2>1 DEF RequestInv
  <2>2. CASE x # o
    <3>1. Continues(x)
      BY <1>3, <2>2 DEF Continues
    <3>2. ASSUME requests'[x].stage \in {"fetch", "body"}, ~requests'[x].aborted
          PROVE  active'[requests[x].sig.purpose] = active[requests[x].sig.purpose]
      <4>1. requests[x].sig.purpose \in Purposes /\ active[requests[x].sig.purpose] = x
        BY <1>3, <2>2, <3>2, PurposeIsOne
      <4>2. QED
        BY <1>1, <2>2, <4>1
    <3>3. StaysActive(x)
      BY <3>2 DEF StaysActive
    <3>4. QED
      BY <1>1, <3>1, <3>3, RequestHolds DEF credentialVars
  <2>3. QED
    BY <2>1, <2>2
<1>6. ASSUME NEW q \in Purposes
      PROVE  ActiveInv(q)'
  <2>1. CASE active'[q] = NoOwner
    BY <2>1 DEF ActiveInv
  <2>2. CASE active'[q] # NoOwner
    <3>1. activeInstance
      BY <1>1, <2>2 DEF LanesInv
    <3>2. active'[q] = active[q] /\ active[q] # o /\ active[q] # NoOwner
      BY <1>1, <2>2, <3>1
    <3>3. active[q] \in Owners /\ requests[active[q]].stage \in {"fetch", "body"}
      BY <3>2, Inflight
    <3>4. QED
      BY <1>1, <1>3, <3>2, <3>3, ActiveHolds
  <2>3. QED
    BY <2>1, <2>2
<1>7. ~activeInstance' => \A q \in Purposes : active'[q] = NoOwner
  BY <1>1 DEF LanesInv
<1>8. FormTypes'
  BY <1>0, <1>1 DEF FormTypes, formVars, credentialVars
<1>9. QED
  BY <1>1, <1>3, <1>4, <1>5, <1>6, <1>7, <1>8

(* A request that owns no lane, or fails without a word, ends unnoticed. *)
LEMMA EndsUnnoticed ==
    ASSUME ClientInv, NEW o \in Owners, requests[o].stage \in {"fetch", "body"}, EndRequest(o),
           NEW p, p = PurposeOf(o),
           lanes' = [lanes EXCEPT ![p] = FinalLane(o, lanes[p])],
           UNCHANGED report, UNCHANGED contextVars
    PROVE  ClientInv'
<1>0. LanesInv /\ ContextInv /\ LaneTypes
  BY DEF ClientInv, LanesInv
<1>1. /\ FormTypes' /\ UNCHANGED <<activeInstance, formVars, credentialVars>>
      /\ UNCHANGED <<laneBases, ownerSequence>>
      /\ requests' \in [Owners -> RequestStates]
      /\ active' \in [Purposes -> Owners \cup {NoOwner}]
      /\ \A x \in Owners : RequestInv(x)'
      /\ \A q \in Purposes : ActiveInv(q)'
      /\ ~activeInstance' => \A q \in Purposes : active'[q] = NoOwner
  BY <1>0, EndRequestInv
<1>2. requests[o].sig \in Signatures /\ p \in Purposes
  BY <1>0, PurposeIsOne DEF PurposeOf
<1>3. /\ FinalLane(o, lanes[p]) \in LaneStates /\ FinalLane(o, lanes[p]).phase = lanes[p].phase
      /\ FinalLane(o, lanes[p]).sig = lanes[p].sig
      /\ FinalLane(o, lanes[p]).result = lanes[p].result
  BY <1>0, <1>2, LaneTransitions DEF FinalLane, LaneTypes
<1>4. /\ lanes' \in [Purposes -> LaneStates]
      /\ \A q \in Purposes : /\ lanes'[q].phase = lanes[q].phase /\ lanes'[q].sig = lanes[q].sig
                             /\ lanes'[q].result = lanes[q].result
  BY <1>0, <1>2, <1>3 DEF LaneTypes
<1>5. LaneTypes'
  BY <1>0, <1>1, <1>4 DEF LaneTypes
<1>6. ASSUME activeInstance', NEW q \in Purposes
      PROVE  LaneInv(q)'
  BY <1>0, <1>1, <1>4, <1>6, LaneHolds DEF formVars, credentialVars
<1>7. LanesInv'
  BY <1>1, <1>5, <1>6 DEF LanesInv
<1>8. ContextInv'
  BY <1>0, <1>1, <1>4, WebClientAssumption, ContextStays
<1>9. QED
  BY <1>7, <1>8 DEF ClientInv

(* An answer is shown by the lane it was asked for, for the input that is  *)
(* still the page's; before it the topology lane was loading, so that the  *)
(* context panel had no scope.                                             *)
LEMMA AnswerArrivesInv ==
    ASSUME ClientInv, NEW o \in Owners, AnswerArrives(o)
    PROVE  ClientInv'
<1>0. LanesInv /\ ContextInv /\ FormTypes /\ LaneTypes
  BY DEF ClientInv, LanesInv
<1>1. PICK p : p = PurposeOf(o)
  OBVIOUS
<1>2. PICK sig : sig = requests[o].sig
  OBVIOUS
<1>3. PICK ready : ready = RequestSucceeded(lanes[p], o, sig, o)
  OBVIOUS
<1>4. requests[o].stage = "body" /\ EndRequest(o)
  BY DEF AnswerArrives
<1>5. CASE ~OwnsLane(o)
  <2>1. lanes' = [lanes EXCEPT ![p] = FinalLane(o, lanes[p])] /\ UNCHANGED <<report, contextVars>>
    BY <1>1, <1>5 DEF AnswerArrives, Commits
  <2>2. QED
    BY <1>1, <1>4, <2>1, EndsUnnoticed
<1>6. CASE OwnsLane(o)
  <2>1. /\ FormTypes' /\ UNCHANGED <<activeInstance, formVars, credentialVars>>
        /\ UNCHANGED <<laneBases, ownerSequence>>
        /\ requests' \in [Owners -> RequestStates]
        /\ active' \in [Purposes -> Owners \cup {NoOwner}]
        /\ \A x \in Owners : RequestInv(x)'
        /\ \A q \in Purposes : ActiveInv(q)'
        /\ ~activeInstance' => \A q \in Purposes : active'[q] = NoOwner
    BY <1>0, <1>4, EndRequestInv
  <2>2. sig \in Signatures /\ p \in Purposes
    BY <1>0, <1>1, <1>2, <1>4, PurposeIsOne DEF PurposeOf
  <2>3. activeInstance /\ OwnsRequest(lanes[p], o, sig)
    BY <1>1, <1>2, <1>6 DEF OwnsLane
  <2>4. lanes[p].phase = "loading" /\ lanes[p].sig = sig
    BY <2>3 DEF OwnsRequest
  <2>5. LaneInv(p)
    BY <1>0, <2>2, <2>3 DEF LanesInv
  <2>6. /\ sig = Signature(p, input, base, authEnabled, revisions) /\ sig # NoSig
        /\ laneBases[p] = base
    BY <2>4, <2>5 DEF LaneInv
  <2>7. /\ ready \in LaneStates /\ ready.phase = "ready" /\ ready.sig = sig
        /\ ready.result \in Results /\ ready.result.sig = sig /\ ready.result.report = o
    <3>1. lanes[p] \in LaneStates
      BY <1>0, <2>2 DEF LaneTypes
    <3>2. QED
      BY <1>3, <2>2, <2>3, <3>1, LaneSucceeds
  <2>8. PICK final : final = FinalLane(o, ready)
    OBVIOUS
  <2>9. /\ final \in LaneStates /\ final.phase = "ready" /\ final.sig = sig
        /\ final.result \in Results /\ final.result.sig = sig /\ final.result.report = o
    <3>1. final = ready \/ final = RequestFinalized(ready, o, sig)
      BY <1>2, <2>8 DEF FinalLane
    <3>2. QED
      BY <2>2, <2>7, <3>1, LaneTransitions
  <2>10. lanes' = [lanes EXCEPT ![p] = final] /\ report' = [report EXCEPT ![p] = o]
    BY <1>1, <1>2, <1>3, <1>6, <2>8 DEF AnswerArrives, Commits
  <2>11. /\ lanes' \in [Purposes -> LaneStates] /\ lanes'[p] = final
         /\ report' \in [Purposes -> Owners \cup {NoReport}] /\ report'[p] = o
         /\ \A q \in Purposes \ {p} : lanes'[q] = lanes[q] /\ report'[q] = report[q]
    BY <1>0, <2>2, <2>9, <2>10 DEF LaneTypes
  <2>12. LaneTypes'
    BY <1>0, <2>1, <2>11 DEF LaneTypes
  <2>13. ASSUME NEW q \in Purposes
         PROVE  LaneInv(q)'
    <3>1. CASE q = p
      <4>1. o # NoReport
        BY WebClientAssumption
      <4>2. /\ Signature(p, input', base', authEnabled', revisions')
                   = Signature(p, input, base, authEnabled, revisions)
            /\ laneBases'[p] = base'
        BY <2>1, <2>6 DEF formVars, credentialVars
      <4>3. QED
        BY <2>6, <2>9, <2>11, <3>1, <4>1, <4>2 DEF LaneInv
    <3>2. CASE q # p
      BY <1>0, <2>1, <2>3, <2>11, <3>2, LaneHolds DEF formVars, credentialVars
    <3>3. QED
      BY <3>1, <3>2
  <2>14. LanesInv'
    BY <2>1, <2>12, <2>13 DEF LanesInv
  <2>15. CASE p # "topology"
    <3>1. UNCHANGED contextVars
      BY <1>1, <1>6, <2>15 DEF AnswerArrives, Commits
    <3>2. lanes'["topology"] = lanes["topology"] /\ report'["topology"] = report["topology"]
      BY <2>11, <2>15, WebClientAssumption
    <3>3. ContextInv'
      BY <1>0, <2>1, <3>1, <3>2, ContextStays
    <3>4. QED
      BY <2>14, <3>3 DEF ClientInv
  <2>16. CASE p = "topology"
    <3>1. context.owner = NoScope
      BY <1>0, <2>4, <2>16 DEF ContextInv, ScopeInv
    <3>2. RemountContext(activeView, lanes'["topology"], o) \/ UnmountContext
      BY <1>1, <1>6, <2>16 DEF AnswerArrives, Commits
    <3>3. report'["topology"] = o
      BY <2>11, <2>16
    <3>4. CASE RemountContext(activeView, lanes'["topology"], o)
      <4>1. RemountContext(activeView, lanes'["topology"], report'["topology"])
        BY <3>3, <3>4
      <4>2. report'["topology"] \in Owners \cup {NoReport}
        BY <3>3
      <4>3. ContextInv /\ FormTypes /\ activeInstance
        BY <1>0, <2>3
      <4>4. UNCHANGED <<activeInstance, formVars, credentialVars>>
        BY <2>1
      <4>5. ContextInv'
        BY <3>1, <4>1, <4>2, <4>3, <4>4, ContextRemounts
      <4>6. QED
        BY <2>14, <4>5 DEF ClientInv
    <3>5. CASE UnmountContext
      <4>1. context' = ContextCancel(context) /\ UNCHANGED selectedContextIP
        BY <3>5 DEF UnmountContext
      <4>2. UNCHANGED activeInstance
        BY <2>1
      <4>3. ContextInv'
        BY <1>0, <3>1, <4>1, <4>2, ContextCancels
      <4>4. QED
        BY <2>14, <4>3 DEF ClientInv
    <3>6. QED
      BY <3>2, <3>4, <3>5
  <2>17. QED
    BY <2>15, <2>16
<1>7. QED
  BY <1>5, <1>6

LEMMA RequestThrowsInv ==
    ASSUME ClientInv, NEW o \in Owners, NEW thrown, RequestThrows(o, thrown)
    PROVE  ClientInv'
<1>0. LanesInv /\ ContextInv /\ FormTypes /\ LaneTypes
  BY DEF ClientInv, LanesInv
<1>1. PICK p : p = PurposeOf(o)
  OBVIOUS
<1>2. PICK sig : sig = requests[o].sig
  OBVIOUS
<1>3. PICK error : error = NormalizeRequestError(thrown, requests[o].reason)
  OBVIOUS
<1>4. requests[o].stage \in {"fetch", "body"} /\ EndRequest(o)
  BY DEF RequestThrows, MayThrow
<1>5. \/ /\ OwnsLane(o)
         /\ lanes' = [lanes EXCEPT ![p] = FinalLane(o, RequestFailed(lanes[p], o, sig, error))]
         /\ ClearPurpose(p)
      \/ /\ lanes' = [lanes EXCEPT ![p] = FinalLane(o, lanes[p])]
         /\ UNCHANGED <<report, contextVars>>
  BY <1>1, <1>2, <1>3 DEF RequestThrows
<1>6. CASE /\ lanes' = [lanes EXCEPT ![p] = FinalLane(o, lanes[p])]
           /\ UNCHANGED <<report, contextVars>>
  BY <1>1, <1>4, <1>6, EndsUnnoticed
<1>7. CASE /\ OwnsLane(o)
           /\ lanes' = [lanes EXCEPT ![p] = FinalLane(o, RequestFailed(lanes[p], o, sig, error))]
           /\ ClearPurpose(p)
  <2>1. /\ FormTypes' /\ UNCHANGED <<activeInstance, formVars, credentialVars>>
        /\ UNCHANGED <<laneBases, ownerSequence>>
        /\ requests' \in [Owners -> RequestStates]
        /\ active' \in [Purposes -> Owners \cup {NoOwner}]
        /\ \A x \in Owners : RequestInv(x)'
        /\ \A q \in Purposes : ActiveInv(q)'
        /\ ~activeInstance' => \A q \in Purposes : active'[q] = NoOwner
    BY <1>0, <1>4, EndRequestInv
  <2>2. sig \in Signatures /\ p \in Purposes
    BY <1>0, <1>1, <1>2, <1>4, PurposeIsOne DEF PurposeOf
  <2>3. activeInstance /\ OwnsRequest(lanes[p], o, sig)
    BY <1>1, <1>2, <1>7 DEF OwnsLane
  <2>4. error \in {"none", "timeout", "cancelled", "network", "http", "invalid-response"}
    BY <1>3 DEF NormalizeRequestError
  <2>5. PICK failed : failed = RequestFailed(lanes[p], o, sig, error)
    OBVIOUS
  <2>6. failed \in LaneStates /\ failed.phase = "error"
    BY <1>0, <2>2, <2>3, <2>4, <2>5, LaneFails DEF LaneTypes
  <2>7. PICK final : final = FinalLane(o, failed)
    OBVIOUS
  <2>8. final \in LaneStates /\ final.phase = "error"
    <3>1. final = failed \/ final = RequestFinalized(failed, o, sig)
      BY <1>2, <2>7 DEF FinalLane
    <3>2. QED
      BY <2>2, <2>6, <3>1, LaneTransitions
  <2>9. lanes' = [lanes EXCEPT ![p] = final] /\ report' = [report EXCEPT ![p] = NoReport]
    BY <1>7, <2>5, <2>7 DEF ClearPurpose
  <2>10. /\ lanes' \in [Purposes -> LaneStates] /\ lanes'[p] = final
         /\ report' \in [Purposes -> Owners \cup {NoReport}] /\ report'[p] = NoReport
         /\ \A q \in Purposes \ {p} : lanes'[q] = lanes[q] /\ report'[q] = report[q]
    BY <1>0, <2>2, <2>8, <2>9 DEF LaneTypes
  <2>11. LaneTypes'
    BY <1>0, <2>1, <2>10 DEF LaneTypes
  <2>12. ASSUME NEW q \in Purposes
         PROVE  LaneInv(q)'
    <3>1. CASE q = p
      BY <2>8, <2>10, <3>1, LaneRests
    <3>2. CASE q # p
      BY <1>0, <2>1, <2>3, <2>10, <3>2, LaneHolds DEF formVars, credentialVars
    <3>3. QED
      BY <3>1, <3>2
  <2>13. LanesInv'
    BY <2>1, <2>11, <2>12 DEF LanesInv
  <2>14. ContextInv'
    BY <1>0, <1>7, <2>1, <2>2, <2>3, <2>10, ClearPurposeInv
  <2>15. QED
    BY <2>13, <2>14 DEF ClientInv
<1>8. QED
  BY <1>5, <1>6, <1>7

(* The steps that touch one request and nothing else. *)
LEMMA RequestSteps ==
    ASSUME ClientInv, NEW o \in Owners, FetchResponds(o) \/ TimerFires(o)
    PROVE  ClientInv'
<1>0. LanesInv /\ ContextInv /\ FormTypes /\ LaneTypes
  BY DEF ClientInv, LanesInv
<1>1. /\ UNCHANGED <<activeInstance, formVars, credentialVars, contextVars>>
      /\ UNCHANGED <<lanes, active, laneBases, ownerSequence, report>>
  BY DEF FetchResponds, TimerFires
<1>2. requests[o] \in RequestStates
  BY <1>0 DEF LaneTypes
<1>3. PICK r \in RequestStates :
          /\ requests' = [requests EXCEPT ![o] = r]
          /\ r.stage \in {"fetch", "body"} <=> requests[o].stage \in {"fetch", "body"}
          /\ r.sig = requests[o].sig /\ r.base = requests[o].base /\ r.token = requests[o].token
          /\ requests[o].aborted => r.aborted
  <2>1. CASE FetchResponds(o)
    <3> DEFINE r == [requests[o] EXCEPT !.stage = "body"]
    <3>1. requests[o].stage = "fetch" /\ requests' = [requests EXCEPT ![o] = r]
      BY <1>0, <2>1 DEF FetchResponds, LaneTypes
    <3>2. /\ r \in RequestStates /\ r.stage = "body" /\ r.sig = requests[o].sig
          /\ r.base = requests[o].base /\ r.token = requests[o].token
          /\ requests[o].aborted => r.aborted
      BY <1>2 DEF RequestStates
    <3> HIDE DEF r
    <3>3. QED
      BY <3>1, <3>2
  <2>2. CASE TimerFires(o)
    <3> DEFINE r == IF \E p \in Purposes : active[p] = o
                    THEN [requests[o] EXCEPT !.timer = FALSE, !.reason = "timeout",
                                             !.aborted = TRUE]
                    ELSE [requests[o] EXCEPT !.timer = FALSE]
    <3>1. requests' = [requests EXCEPT ![o] = r]
      BY <1>0, <2>2 DEF TimerFires, LaneTypes
    <3>2. /\ r \in RequestStates /\ r.stage = requests[o].stage /\ r.sig = requests[o].sig
          /\ r.base = requests[o].base /\ r.token = requests[o].token
          /\ requests[o].aborted => r.aborted
      BY <1>2 DEF RequestStates
    <3> HIDE DEF r
    <3>3. QED
      BY <3>1, <3>2
  <2>3. QED
    BY <2>1, <2>2
<1>4. /\ requests' \in [Owners -> RequestStates] /\ requests'[o] = r
      /\ \A x \in Owners \ {o} : requests'[x] = requests[x]
  BY <1>0, <1>3 DEF LaneTypes
<1>5. ASSUME NEW x \in Owners
      PROVE  /\ requests'[x].stage \in {"fetch", "body"} <=> requests[x].stage \in {"fetch", "body"}
             /\ requests'[x].sig = requests[x].sig /\ requests'[x].base = requests[x].base
             /\ requests'[x].token = requests[x].token
             /\ requests[x].aborted => requests'[x].aborted
  BY <1>3, <1>4
<1>6. LaneTypes' /\ FormTypes'
  BY <1>0, <1>1, <1>4 DEF LaneTypes, FormTypes, formVars, credentialVars
<1>7. ASSUME NEW x \in Owners
      PROVE  RequestInv(x)'
  <2>1. Continues(x) /\ StaysActive(x)
    BY <1>1, <1>5 DEF Continues, StaysActive
  <2>2. QED
    BY <1>0, <1>1, <2>1, RequestHolds DEF credentialVars
<1>8. ASSUME NEW q \in Purposes
      PROVE  ActiveInv(q)'
  <2>1. active[q] # NoOwner =>
            active[q] \in Owners /\ requests[active[q]].stage \in {"fetch", "body"}
    BY <1>0, Inflight
  <2>2. QED
    BY <1>0, <1>1, <1>5, <2>1, ActiveHolds
<1>9. ASSUME activeInstance', NEW q \in Purposes
      PROVE  LaneInv(q)'
  BY <1>0, <1>1, <1>9, LaneHolds DEF formVars, credentialVars
<1>10. LanesInv'
  BY <1>0, <1>1, <1>6, <1>7, <1>8, <1>9 DEF LanesInv
<1>11. ContextInv'
  BY <1>0, <1>1, ContextStays
<1>12. QED
  BY <1>10, <1>11 DEF ClientInv

-----------------------------------------------------------------------------
(* Cancellation, and leaving. *)

(* The lane's part of a cancellation.  A lane that its request owns was    *)
(* loading, so that no report is lost.                                     *)
LEMMA CancelLaneInv ==
    ASSUME LanesInv, activeInstance, NEW p \in Purposes, active[p] # NoOwner,
           NEW reason \in {"user", "navigation"}, CancelLane(p, reason),
           UNCHANGED <<activeInstance, formVars, credentialVars>>,
           UNCHANGED <<laneBases, ownerSequence>>
    PROVE  /\ LanesInv'
           /\ \A q \in Purposes :
                 q # p \/ ~CancelOwned(p) => lanes'[q] = lanes[q] /\ report'[q] = report[q]
<1>0. FormTypes /\ LaneTypes
  BY DEF LanesInv
<1>1. requests' = AbortActive(p, reason)
  BY DEF CancelLane
<1>2. /\ active[p] \in Owners /\ requests[active[p]].sig \in Signatures
  BY Inflight
<1>3. PICK o \in Owners : o = active[p]
  BY <1>2
<1>4. PICK sig \in Signatures : sig = requests[o].sig
  BY <1>2, <1>3
<1>5. lanes[p] \in LaneStates
  BY <1>0 DEF LaneTypes
<1>6. FormTypes'
  BY <1>0 DEF FormTypes, formVars, credentialVars
<1>7. requests' \in [Owners -> RequestStates]
  BY <1>0, <1>1, AbortedRequest DEF LaneTypes, AbortActive
<1>8. \A x \in Owners :
          requests'[x] = IF \E q \in {p} : active[q] = x THEN Aborted(requests[x], reason)
                         ELSE requests[x]
  BY <1>1 DEF AbortActive
<1>9. /\ active' \in [Purposes -> Owners \cup {NoOwner}]
      /\ \A q \in Purposes : active'[q] = active[q] \/ (active'[q] = NoOwner /\ q \in {p})
  BY <1>0 DEF CancelLane, LaneTypes
<1>10. CASE ~CancelOwned(p)
  <2>1. UNCHANGED <<lanes, active, report>>
    BY <1>10 DEF CancelLane
  <2>2. LaneTypes'
    BY <1>0, <1>7, <2>1 DEF LaneTypes
  <2>3. (\A x \in Owners : RequestInv(x)') /\ \A q \in Purposes : ActiveInv(q)'
    <3>1. {p} \in SUBSET Purposes
      OBVIOUS
    <3>2. UNCHANGED <<storage, credentialIndeterminate>>
      BY DEF credentialVars
    <3>3. QED
      BY <1>8, <1>9, <2>2, <3>1, <3>2, AbortsHold
  <2>4. \A q \in Purposes : LaneInv(q)'
    BY <2>1, LaneHolds DEF formVars, credentialVars
  <2>5. QED
    BY <1>6, <2>1, <2>2, <2>3, <2>4 DEF LanesInv
<1>11. CASE CancelOwned(p)
  <2>1. OwnsRequest(lanes[p], o, sig)
    BY <1>3, <1>4, <1>11 DEF CancelOwned
  <2>2. PICK cancelled : cancelled = RequestCancelled(lanes[p], o, sig, reason)
    OBVIOUS
  <2>3. cancelled \in LaneStates /\ cancelled.phase = "cancelled"
    BY <1>5, <2>1, <2>2, LaneCancels
  <2>4. PICK final : final = RequestFinalized(cancelled, o, sig)
    OBVIOUS
  <2>5. final \in LaneStates /\ final.phase = "cancelled"
    BY <2>3, <2>4, LaneTransitions
  <2>6. /\ lanes' = [lanes EXCEPT ![p] = final] /\ active' = [active EXCEPT ![p] = NoOwner]
        /\ report' = [report EXCEPT ![p] = NoReport]
    BY <1>3, <1>4, <1>11, <2>2, <2>4 DEF CancelLane
  <2>7. /\ lanes' \in [Purposes -> LaneStates] /\ lanes'[p] = final
        /\ report' \in [Purposes -> Owners \cup {NoReport}] /\ report'[p] = NoReport
        /\ \A q \in Purposes \ {p} : lanes'[q] = lanes[q] /\ report'[q] = report[q]
    BY <1>0, <2>5, <2>6 DEF LaneTypes
  <2>8. LaneTypes'
    BY <1>0, <1>7, <1>9, <2>7 DEF LaneTypes
  <2>9. (\A x \in Owners : RequestInv(x)') /\ \A q \in Purposes : ActiveInv(q)'
    <3>1. {p} \in SUBSET Purposes
      OBVIOUS
    <3>2. UNCHANGED <<storage, credentialIndeterminate>>
      BY DEF credentialVars
    <3>3. QED
      BY <1>8, <1>9, <2>8, <3>1, <3>2, AbortsHold
  <2>10. ASSUME NEW q \in Purposes
         PROVE  LaneInv(q)'
    <3>1. CASE q = p
      BY <2>5, <2>7, <3>1, LaneRests
    <3>2. CASE q # p
      BY <2>7, <3>2, LaneHolds DEF formVars, credentialVars
    <3>3. QED
      BY <3>1, <3>2
  <2>11. LanesInv'
    BY <1>6, <2>8, <2>9, <2>10 DEF LanesInv
  <2>12. QED
    BY <1>11, <2>7, <2>11
<1>12. QED
  BY <1>10, <1>11

LEMMA CancelPurposeInv ==
    ASSUME ClientInv, NEW p \in Purposes, Cancel(p)
    PROVE  ClientInv'
<1>0. LanesInv /\ ContextInv
  BY DEF ClientInv
<1>1. /\ activeInstance /\ active[p] # NoOwner /\ CancelLane(p, "user")
      /\ UNCHANGED <<activeInstance, formVars, credentialVars>>
      /\ UNCHANGED <<laneBases, ownerSequence>>
  BY DEF Cancel
<1>2. /\ LanesInv'
      /\ \A q \in Purposes :
            q # p \/ ~CancelOwned(p) => lanes'[q] = lanes[q] /\ report'[q] = report[q]
  BY <1>0, <1>1, CancelLaneInv
<1>3. CASE p # "topology"
  <2>1. UNCHANGED contextVars
    BY <1>3 DEF Cancel
  <2>2. lanes'["topology"] = lanes["topology"] /\ report'["topology"] = report["topology"]
    BY <1>2, <1>3, WebClientAssumption
  <2>3. ContextInv'
    BY <1>0, <1>1, <2>1, <2>2, ContextStays
  <2>4. QED
    BY <1>2, <2>3 DEF ClientInv
<1>4. CASE p = "topology" /\ CancelOwned(p)
  <2>1. ContextInv'
    BY <1>0, <1>1, <1>4, ContextClears DEF Cancel
  <2>2. QED
    BY <1>2, <2>1 DEF ClientInv
<1>5. CASE p = "topology" /\ ~CancelOwned(p)
  <2>1. context' = ContextCancel(context) /\ UNCHANGED selectedContextIP
    BY <1>5 DEF Cancel
  <2>2. lanes'["topology"] = lanes["topology"] /\ report'["topology"] = report["topology"]
    BY <1>2, <1>5
  <2>3. ContextInv'
    BY <1>0, <1>1, <2>1, <2>2, ContextCancels
  <2>4. QED
    BY <1>2, <2>3 DEF ClientInv
<1>6. QED
  BY <1>3, <1>4, <1>5

LEMMA SwitchViewInv ==
    ASSUME ClientInv, NEW v \in Views, SwitchView(v)
    PROVE  ClientInv'
<1> DEFINE leaves == activeView \in Purposes /\ active[activeView] # NoOwner
           left == leaves /\ activeView = "topology" /\ CancelOwned("topology")
<1>0. LanesInv /\ ContextInv /\ FormTypes /\ LaneTypes
  BY DEF ClientInv, LanesInv
<1>1. /\ activeInstance
      /\ UNCHANGED <<activeInstance, formVars, credentialVars>>
      /\ UNCHANGED <<laneBases, ownerSequence>>
      /\ IF leaves THEN CancelLane(activeView, "navigation")
         ELSE UNCHANGED <<requests, lanes, active, report>>
  BY DEF SwitchView
<1>2. LanesInv' /\ (~left => /\ lanes'["topology"] = lanes["topology"]
                             /\ report'["topology"] = report["topology"])
  <2>1. CASE leaves
    <3>1. /\ LanesInv'
          /\ \A q \in Purposes :
                q # activeView \/ ~CancelOwned(activeView) =>
                    lanes'[q] = lanes[q] /\ report'[q] = report[q]
      BY <1>0, <1>1, <2>1, CancelLaneInv
    <3>2. QED
      BY <2>1, <3>1, WebClientAssumption
  <2>2. CASE ~leaves
    <3>1. UNCHANGED laneVars
      BY <1>1, <2>2 DEF laneVars
    <3>2. QED
      BY <1>0, <1>1, <3>1, LanesStay DEF laneVars
  <2>3. QED
    BY <2>1, <2>2
<1>3. left => lanes["topology"].phase = "loading"
  BY DEF CancelOwned, OwnsRequest
<1>4. \/ /\ report["topology"] # NoReport /\ lanes["topology"].phase = "ready"
         /\ RemountContext(v, lanes["topology"], report["topology"])
      \/ left /\ UnmountContextClear
      \/ ~left /\ UnmountContext
  BY DEF SwitchView
<1> HIDE DEF left
<1>5. CASE /\ report["topology"] # NoReport /\ lanes["topology"].phase = "ready"
           /\ RemountContext(v, lanes["topology"], report["topology"])
  <2>1. lanes'["topology"] = lanes["topology"] /\ report'["topology"] = report["topology"]
    BY <1>2, <1>3, <1>5
  <2>2. report'["topology"] \in Owners \cup {NoReport}
    BY <1>0, <2>1, WebClientAssumption DEF LaneTypes
  <2>3. RemountContext(v, lanes'["topology"], report'["topology"])
    BY <1>5, <2>1
  <2>4. ContextInv'
    BY <1>0, <1>1, <2>1, <2>2, <2>3, ContextRemounts
  <2>5. QED
    BY <1>2, <2>4 DEF ClientInv
<1>6. CASE left /\ UnmountContextClear
  BY <1>0, <1>1, <1>2, <1>6, ContextClears DEF ClientInv
<1>7. CASE ~left /\ UnmountContext
  <2>1. context' = ContextCancel(context) /\ UNCHANGED selectedContextIP
    BY <1>7 DEF UnmountContext
  <2>2. lanes'["topology"] = lanes["topology"] /\ report'["topology"] = report["topology"]
    BY <1>2, <1>7
  <2>3. ContextInv'
    BY <1>0, <1>1, <2>1, <2>2, ContextCancels
  <2>4. QED
    BY <1>2, <2>3 DEF ClientInv
<1>8. QED
  BY <1>4, <1>5, <1>6, <1>7

LEMMA LeavingInv ==
    ASSUME ClientInv, BeforeUnload \/ Destroy
    PROVE  ClientInv'
<1>0. LanesInv /\ ContextInv /\ FormTypes /\ LaneTypes
  BY DEF ClientInv, LanesInv
<1>1. PICK reason \in {"beforeunload", "destroy"} :
          requests' = [o \in Owners |-> IF \E p \in Purposes : active[p] = o
                                        THEN Aborted(requests[o], reason) ELSE requests[o]]
  BY DEF BeforeUnload, Destroy
<1>2. /\ activeInstance /\ active' = [p \in Purposes |-> NoOwner]
      /\ UNCHANGED <<formVars, credentialVars>> /\ UNCHANGED <<lanes, laneBases, ownerSequence>>
      /\ report' = report \/ report' = [p \in Purposes |-> NoReport]
  BY DEF BeforeUnload, Destroy
<1>3. requests' \in [Owners -> RequestStates]
  BY <1>0, <1>1, AbortedRequest DEF LaneTypes
<1>4. LaneTypes'
  BY <1>0, <1>2, <1>3 DEF LaneTypes
<1>5. (\A o \in Owners : RequestInv(o)') /\ \A q \in Purposes : ActiveInv(q)'
  <2>1. Purposes \in SUBSET Purposes
    OBVIOUS
  <2>2. \A o \in Owners :
            requests'[o] = IF \E p \in Purposes : active[p] = o
                           THEN Aborted(requests[o], reason) ELSE requests[o]
    BY <1>1
  <2>3. \A p \in Purposes : active'[p] = active[p] \/ (active'[p] = NoOwner /\ p \in Purposes)
    BY <1>2
  <2>4. UNCHANGED <<ownerSequence, storage, credentialIndeterminate>>
    BY <1>2 DEF credentialVars
  <2>5. \A q \in Purposes : laneBases'[q] = laneBases[q]
    BY <1>2
  <2>6. QED
    BY <1>0, <1>4, <2>1, <2>2, <2>3, <2>4, <2>5, AbortsHold
<1>6. activeInstance' \in BOOLEAN
  BY <1>0 DEF BeforeUnload, Destroy, FormTypes
<1>7. FormTypes'
  BY <1>0, <1>2, <1>6 DEF FormTypes, formVars, credentialVars
<1>8. CASE BeforeUnload
  <2>1. UNCHANGED <<activeInstance, report>> /\ UnmountContextClear
    BY <1>8 DEF BeforeUnload
  <2>2. \A q \in Purposes : LaneInv(q)'
    BY <1>0, <1>2, <2>1, LaneHolds DEF formVars, credentialVars
  <2>3. LanesInv'
    BY <1>2, <1>4, <1>5, <1>7, <2>1, <2>2 DEF LanesInv
  <2>4. ContextInv'
    BY <1>0, <1>2, <2>1, ContextClears
  <2>5. QED
    BY <2>3, <2>4 DEF ClientInv
<1>9. CASE Destroy
  <2>1. activeInstance' = FALSE /\ context' = ContextDestroy(context) /\ UNCHANGED selectedContextIP
    BY <1>9 DEF Destroy
  <2>2. LanesInv'
    BY <1>2, <1>4, <1>5, <1>7, <2>1 DEF LanesInv
  <2>3. ControllerInv(context') /\ context'.owner = NoScope /\ ~context'.alive
    BY <1>0, <2>1, DestroyInv DEF ContextInv
  <2>4. ContextInv'
    BY <1>0, <2>1, <2>3 DEF ContextInv, ScopeInv
  <2>5. QED
    BY <2>2, <2>4 DEF ClientInv
<1>10. QED
  BY <1>8, <1>9

-----------------------------------------------------------------------------
(* The specification. *)

LEMMA ClientInitInv == Init => ClientInv
<1> SUFFICES ASSUME Init PROVE ClientInv
  OBVIOUS
<1>1. FormTypes
  BY WebClientAssumption DEF Init, FormTypes
<1>2. CreateRequestLane \in LaneStates /\ CreateRequestLane.phase = "idle"
  BY DEF CreateRequestLane, LaneStates, NoActive
<1>3. Unasked \in RequestStates /\ Unasked.stage = "none"
  BY DEF Unasked, RequestStates
<1>4. LaneTypes
  BY <1>2, <1>3, WebClientAssumption DEF Init, LaneTypes
<1>5. \A p \in Purposes : LaneInv(p) /\ ActiveInv(p)
  BY <1>2 DEF Init, LaneInv, ActiveInv
<1>6. \A o \in Owners : RequestInv(o)
  BY <1>3 DEF Init, RequestInv
<1>7. LanesInv
  BY <1>1, <1>4, <1>5, <1>6 DEF LanesInv, Init
<1>8. Unstarted \in Operations /\ Unstarted.stage = "none"
  BY DEF Unstarted, Operations
<1>9. CreateIPContextController \in Controllers
  <2>1. <<>> \in Seq(Entries) /\ 0 \in 0 .. MaxFlights /\ "idle" \in Phases
    BY ContextAssumption DEF Phases
  <2>2. [f \in Flights |-> Unstarted] \in [Flights -> Operations]
    BY <1>8
  <2>3. QED
    BY <2>1, <2>2 DEF CreateIPContextController, Controllers
<1>10. ControllerInv(CreateIPContextController)
  BY <1>8, <1>9 DEF ControllerInv, OperationInv, CreateIPContextController
<1>11. ContextInv
  BY <1>10 DEF Init, ContextInv, ScopeInv, CreateIPContextController
<1>12. QED
  BY <1>7, <1>11 DEF ClientInv

LEMMA ClientNextInv == ClientInv /\ [Next]_vars => ClientInv'
<1> SUFFICES ASSUME ClientInv, [Next]_vars PROVE ClientInv'
  OBVIOUS
<1>1. CASE Edits
  BY <1>1, FormEdits, CredentialEdits, SwitchViewInv DEF Edits
<1>2. CASE UserActs
  BY <1>2, StartInvalidInv, StartInv, CancelPurposeInv, PanelSteps, LeavingInv DEF UserActs
<1>3. CASE BrowserActs
  <2>1. CASE StorageBreaks \/ SnapshotExpires
    BY <2>1, StorageBreaksInv, SnapshotExpiresInv
  <2>2. CASE \E o \in Owners : FetchResponds(o) \/ AnswerArrives(o) \/ TimerFires(o)
    BY <2>2, RequestSteps, AnswerArrivesInv
  <2>3. CASE \E o \in Owners, thrown \in Throws \cup {"AbortError"} : RequestThrows(o, thrown)
    BY <2>3, RequestThrowsInv
  <2>4. CASE \E f \in Flights :
                \/ ContextFetch(f) \/ ContextRead(f) \/ ContextAbortSettles(f)
                \/ ContextDeadline(f) \/ ContextTimerFires(f) \/ ContextCleanup(f)
    BY <2>4, LookupSteps
  <2>5. QED
    BY <1>3, <2>1, <2>2, <2>3, <2>4 DEF BrowserActs
<1>4. CASE UNCHANGED vars
  <2>1. LanesInv'
    BY <1>4, LanesStay DEF vars, ClientInv
  <2>2. ContextInv'
    BY <1>4, ContextStays DEF vars, ClientInv, laneVars
  <2>3. QED
    BY <2>1, <2>2 DEF ClientInv
<1>5. QED
  BY <1>1, <1>2, <1>3, <1>4 DEF Next

(* The inductive invariant of createApp (frontend/app.js): its lanes, its  *)
(* requests and its context panel agree with its forms and credentials.    *)
THEOREM ClientInvariant == Spec => []ClientInv
<1>1. Init => ClientInv
  BY ClientInitInv
<1>2. ClientInv /\ [Next]_vars => ClientInv'
  BY ClientNextInv
<1>3. QED
  BY <1>1, <1>2, PTL DEF Spec

(* start and downloadOwned: the report a purpose shows and offers for      *)
(* download is its lane's, and answers the page's present input and        *)
(* credential, whatever answered late.                                     *)
THEOREM ShownIsCurrentHolds == Spec => []ShownIsCurrent
<1>1. ClientInv => ShownIsCurrent
  <2> SUFFICES ASSUME ClientInv, activeInstance, NEW p \in Purposes
               PROVE  /\ DownloadOwned(p) = report[p]
                      /\ lanes[p].phase = "ready" =>
                           /\ report[p] # NoReport
                           /\ lanes[p].result.sig = Signature(p, input, base, authEnabled, revisions)
    BY DEF ShownIsCurrent
  <2>1. LaneInv(p)
    BY DEF ClientInv, LanesInv
  <2>2. QED
    BY <2>1 DEF LaneInv, DownloadOwned
<1>2. QED
  BY <1>1, ClientInvariant, PTL

(* applyCredential and invalidateCredentialBase: nothing under way carries *)
(* a credential that the store no longer holds, or that it may have lost.  *)
THEOREM CredentialsAreCurrentHolds == Spec => []CredentialsAreCurrent
<1>1. ClientInv => CredentialsAreCurrent
  <2> SUFFICES ASSUME ClientInv
               PROVE  CredentialsAreCurrent
    OBVIOUS
  <2>1. ASSUME NEW o \in Owners, requests[o].stage \in {"fetch", "body"}, ~requests[o].aborted,
               requests[o].token # NoToken
        PROVE  /\ storage[requests[o].base] = requests[o].token
               /\ requests[o].base \notin credentialIndeterminate
    BY <2>1 DEF ClientInv, LanesInv, RequestInv
  <2>2. ASSUME NEW f \in Flights, InFlight(f), ~context.ops[f].aborted,
               context.ops[f].owner.token # NoToken
        PROVE  /\ storage[context.ops[f].owner.base] = context.ops[f].owner.token
               /\ context.ops[f].owner.base \notin credentialIndeterminate
    <3>1. context.owner # NoScope /\ context.ops[f].owner = context.owner
      BY <2>2 DEF ClientInv, ContextInv, ControllerInv, OperationInv, InFlight
    <3>2. /\ context.owner.base = base
          /\ authEnabled => base \notin credentialIndeterminate
          /\ context.owner.token # NoToken => authEnabled /\ context.owner.token = storage[base]
      BY <3>1 DEF ClientInv, ContextInv, ScopeInv
    <3>3. QED
      BY <2>2, <3>1, <3>2
  <2>3. QED
    BY <2>1, <2>2 DEF CredentialsAreCurrent
<1>2. QED
  BY <1>1, ClientInvariant, PTL

(* createIPContextController behind contextOwner: a snapshot is shown for  *)
(* the report, address, server and credential of the page as it is.        *)
THEOREM ContextIsScopedHolds == Spec => []ContextIsScoped
<1>1. ClientInv => ContextIsScoped
  <2> SUFFICES ASSUME ClientInv, context.phase = "ready"
               PROVE  /\ context.value = context.owner
                      /\ storageReads => context.owner =
                           ContextOwner(lanes["topology"], report["topology"], selectedContextIP)
    BY DEF ContextIsScoped
  <2>1. context.owner # NoScope /\ context.value = context.owner /\ context.owner \in Scopes
    BY DEF ClientInv, ContextInv, ControllerInv, Controllers
  <2>2. PICK c : c = context.owner
    OBVIOUS
  <2>3. /\ c.report \in Owners /\ c.address \in Addresses
        /\ c = [report |-> c.report, address |-> c.address, base |-> c.base,
                revision |-> c.revision, auth |-> c.auth, token |-> c.token]
    BY <2>1, <2>2 DEF Scopes
  <2>4. /\ lanes["topology"].phase = "ready" /\ input["topology"] # Invalid
        /\ c.report = report["topology"] /\ c.address = selectedContextIP
        /\ c.base = base /\ c.revision = revisions[base] /\ c.auth = authEnabled
        /\ authEnabled => base \notin credentialIndeterminate
        /\ c.token # NoToken => authEnabled
        /\ storageReads /\ authEnabled => c.token = storage[base]
    BY <2>1, <2>2 DEF ClientInv, ContextInv, ScopeInv
  <2>5. report["topology"] # NoReport /\ selectedContextIP # NoAddress
    BY <2>3, <2>4, WebClientAssumption
  <2>6. ASSUME storageReads
        PROVE  c.token = IF authEnabled THEN TokenFor(base) ELSE NoToken
    BY <2>4, <2>6 DEF TokenFor
  <2>7. ASSUME storageReads
        PROVE  c = ContextOwner(lanes["topology"], report["topology"], selectedContextIP)
    BY <2>3, <2>4, <2>5, <2>6, <2>7 DEF ContextOwner
  <2>8. QED
    BY <2>1, <2>2, <2>7
<1>2. QED
  BY <1>1, ClientInvariant, PTL

(* createIPContextController's query and finally: the flight that is       *)
(* running or cleaning up is the one that is charged, so there is one.     *)
THEOREM OneContextLookupHolds == Spec => []OneContextLookup
<1>1. ClientInv => OneContextLookup
  <2> SUFFICES ASSUME ClientInv, NEW f \in Flights, NEW g \in Flights,
                      InFlight(f) \/ context.ops[f].stage = "cleanup",
                      InFlight(g) \/ context.ops[g].stage = "cleanup"
               PROVE  f = g
    BY DEF OneContextLookup
  <2>1. context.flight = f /\ context.flight = g
    BY DEF ClientInv, ContextInv, ControllerInv, OperationInv, InFlight
  <2>2. QED
    BY <2>1
<1>2. QED
  BY <1>1, ClientInvariant, PTL
=============================================================================
