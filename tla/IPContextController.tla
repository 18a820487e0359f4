------------------------ MODULE IPContextController ------------------------
(***************************************************************************)
(* createIPContextController (frontend/state.js): the web client's lookup  *)
(* of one address of the shown report.  The controller has an owner (the   *)
(* scope a lookup is made for), at most one flight, a small cache and a    *)
(* published state.  A flight is an async function: it runs without        *)
(* interruption between its awaits (the fetch, each read of the body, the  *)
(* cleanup of a cancelled body), and anything may happen at an await.      *)
(*                                                                         *)
(* The controller is one record; its methods are operators from the record *)
(* to the record, so that a handler of the application can call several.   *)
(* "now" is what isCurrentOwner compares with: the scope the application   *)
(* is in, or NoScope.  generation is abstracted to the flag "current" of   *)
(* an operation: it is only compared with the value captured at its start. *)
(* A snapshot is the scope it was fetched for; a cache entry also says     *)
(* whether its expires_at has passed.                                      *)
(***************************************************************************)
EXTENDS Integers, Sequences

CONSTANTS
    NoScope, NoFlight, NoValue,
    MaxFlights,         \* bound on the lookups ever started
    MaxCached,          \* snapshots kept (64 in the code)
    ErrorPhases,        \* what a lookup that fails is shown as
    ClearTimerWorks     \* FALSE: clearTimer throws and the timer stays armed

ASSUME ContextAssumption ==
    /\ MaxFlights \in Nat /\ MaxCached \in Nat \ {0}
    /\ ClearTimerWorks \in BOOLEAN
    /\ NoFlight \notin 1 .. MaxFlights /\ "ready" \notin ErrorPhases

Flights == 1 .. MaxFlights

Unstarted ==
    [stage |-> "none", owner |-> NoScope, current |-> FALSE, aborted |-> FALSE,
     settled |-> FALSE, late |-> FALSE, timer |-> FALSE, body |-> "none"]

CreateIPContextController ==
    [owner |-> NoScope, alive |-> TRUE, flight |-> NoFlight, phase |-> "idle",
     value |-> NoValue, cache |-> <<>>, started |-> 0,
     ops |-> [f \in Flights |-> Unstarted]]

Publish(c, phase) == [c EXCEPT !.phase = phase, !.value = NoValue]

PublishReady(c, value) == [c EXCEPT !.phase = "ready", !.value = value]

StopBody(o) == IF o.body = "open" THEN [o EXCEPT !.body = "cancelled"] ELSE o

ClearDeadline(o) == [o EXCEPT !.timer = @ /\ ~ClearTimerWorks]

(* Mutant: revoking forgets the flight instead of leaving it charged. *)
RevokeUncharged(c) ==
    [c EXCEPT !.flight = NoFlight,
              !.ops = [f \in Flights |-> [c.ops[f] EXCEPT !.current = FALSE, !.aborted = TRUE]]]

Revoke(c) ==
    [c EXCEPT !.ops = [f \in Flights |->
        LET o == [c.ops[f] EXCEPT !.current = FALSE]
        IN  IF f = c.flight
            THEN StopBody([ClearDeadline(o) EXCEPT !.aborted = TRUE, !.settled = TRUE])
            ELSE o]]

SameScope(a, b) ==
    /\ a # NoScope /\ b # NoScope
    /\ a = [b EXCEPT !.address = a.address]

(* The cache is a Map: an address has one entry at most, and deleting it    *)
(* keeps the order of the others.                                           *)
Without(cache, address) ==
    LET at == {i \in DOMAIN cache : cache[i].value.address = address}
        i == CHOOSE i \in at : TRUE
    IN  IF at = {} THEN cache ELSE SubSeq(cache, 1, i - 1) \o SubSeq(cache, i + 1, Len(cache))

Unexpired(c, address) ==
    {i \in DOMAIN c.cache : c.cache[i].value.address = address /\ c.cache[i].fresh}

Cached(c, address) == c.cache[CHOOSE i \in Unexpired(c, address) : TRUE].value

(* cached: a hit becomes the most recent entry, an expired entry is dropped. *)
Touch(c, address) ==
    LET others == Without(c.cache, address)
    IN  [c EXCEPT !.cache =
            IF Unexpired(c, address) = {} THEN others
            ELSE Append(others, [value |-> Cached(c, address), fresh |-> TRUE])]

Owns(c, f, now) ==
    /\ c.alive /\ c.ops[f].current
    /\ c.owner = c.ops[f].owner
    /\ now = c.ops[f].owner

Live(c, f, now) == Owns(c, f, now) /\ ~c.ops[f].aborted /\ ~c.ops[f].late

(* Mutant: the cache outlives a change of report, credential or server. *)
SetOwnerKeepsCache(c, next) ==
    IF ~c.alive \/ (c.owner = next /\ next # NoScope) THEN c
    ELSE LET c1 == [Revoke(c) EXCEPT !.owner = next]
         IN  IF next # NoScope /\ Unexpired(c1, next.address) # {}
             THEN PublishReady(Touch(c1, next.address), Cached(c1, next.address))
             ELSE Publish(c1, "idle")

SetOwner(c, next) ==
    IF ~c.alive \/ (c.owner = next /\ next # NoScope) THEN c
    ELSE LET scoped == IF SameScope(c.owner, next) THEN c ELSE [c EXCEPT !.cache = <<>>]
             c1 == [Revoke(scoped) EXCEPT !.owner = next]
         IN  IF next = NoScope THEN Publish(c1, "idle")
             ELSE IF Unexpired(c1, next.address) # {}
             THEN PublishReady(Touch(c1, next.address), Cached(c1, next.address))
             ELSE Publish(Touch(c1, next.address), "idle")

ContextCancel(c) == IF c.alive THEN Publish(Revoke(c), "cancelled") ELSE c

ContextDestroy(c) ==
    IF ~c.alive THEN c
    ELSE [Publish(Revoke(c), "idle") EXCEPT !.alive = FALSE, !.owner = NoScope, !.cache = <<>>]

-----------------------------------------------------------------------------
(* query().  The catalog offers canonical public addresses and the base is *)
(* canonical, so the answers "ineligible" and "unavailable" for them do    *)
(* not arise.                                                              *)

MayQuery(c, now) ==
    /\ c.alive /\ c.owner # NoScope /\ now = c.owner
    /\ c.flight = NoFlight

CacheHit(c) == Unexpired(c, c.owner.address) # {}

QueryCached(c) ==
    PublishReady(Touch(c, c.owner.address), Cached(c, c.owner.address))

(* A Bearer credential is sent over HTTPS or to this machine only. *)
QueryInsecure(c) == Publish(Touch(c, c.owner.address), "insecure-auth")

(* setTimer threw: the flight is given up before anything is sent. *)
QueryUnarmed(c) == Publish(Touch(c, c.owner.address), "unavailable")

QueryStarts(c) ==
    LET f == c.started + 1
    IN  [Publish(Touch(c, c.owner.address), "loading") EXCEPT
            !.flight = f, !.started = f,
            !.ops[f] = [Unstarted EXCEPT !.stage = "fetch", !.owner = c.owner,
                                         !.current = TRUE, !.timer = TRUE]]

-----------------------------------------------------------------------------
(* The timer, and the steps of a flight. *)

Timeout(c, f, now) ==
    IF c.flight # f \/ c.ops[f].settled THEN c
    ELSE LET shown == IF Owns(c, f, now) /\ ~c.ops[f].aborted THEN Publish(c, "timeout") ELSE c
         IN  [shown EXCEPT !.ops[f] =
                StopBody([ClearDeadline(@) EXCEPT !.aborted = TRUE, !.settled = TRUE])]

(* An operation that has settled: nothing asks for its fields again. *)
Ended(o) == [Unstarted EXCEPT !.stage = "done", !.settled = TRUE, !.timer = o.timer]

(* Mutant: the flight ends without looking at its deadline. *)
FinallyUnnoticed(c, f, now) ==
    LET o == [ClearDeadline(c.ops[f]) EXCEPT !.settled = TRUE]
    IN  [c EXCEPT !.ops[f] = Ended(o),
                  !.flight = IF @ = f THEN NoFlight ELSE @]

(* The finally block up to its await: a suspended page may only notice here *)
(* that the deadline has passed.                                            *)
Finally(c, f, now) ==
    LET noticed == IF Owns(c, f, now) /\ ~c.ops[f].aborted /\ c.ops[f].late
                   THEN Timeout(c, f, now) ELSE c
        o == [ClearDeadline(noticed.ops[f]) EXCEPT !.settled = TRUE]
    IN  IF o.body = "cancelled"
        THEN [noticed EXCEPT !.ops[f] = [Ended(o) EXCEPT !.stage = "cleanup"]]
        ELSE [noticed EXCEPT !.ops[f] = Ended(o),
                             !.flight = IF @ = f THEN NoFlight ELSE @]

(* The body is discarded, the phase is shown to a live owner, the flight ends. *)
EndFlight(c, f, now, phase) ==
    LET stopped == [c EXCEPT !.ops[f] = StopBody(@)]
    IN  Finally(IF Live(c, f, now) THEN Publish(stopped, phase) ELSE stopped, f, now)

FetchResolves(c, f, now, answer) ==
    LET opened == [c EXCEPT !.ops[f].body = "open"]
    IN  IF Live(c, f, now) /\ answer = "ok"
        THEN [opened EXCEPT !.ops[f].stage = "read"]
        ELSE EndFlight(opened, f, now, answer)

FetchRejects(c, f, now, phase) == EndFlight(c, f, now, phase)

ReadFails(c, f, now, phase) == EndFlight(c, f, now, phase)

ReadDone(c, f, now, fresh) ==
    LET value == c.ops[f].owner
        kept == Append(Without(c.cache, value.address), [value |-> value, fresh |-> TRUE])
        first == IF Len(kept) > MaxCached THEN Len(kept) - MaxCached + 1 ELSE 1
        stored == IF fresh THEN [c EXCEPT !.cache = SubSeq(kept, first, Len(kept))] ELSE c
    IN  IF Live(c, f, now)
        THEN Finally([PublishReady(stored, value) EXCEPT !.ops[f].settled = TRUE], f, now)
        ELSE EndFlight(c, f, now, "invalid-response")

CleanupDone(c, f) ==
    [c EXCEPT !.ops[f].stage = "done", !.flight = IF @ = f THEN NoFlight ELSE @]
=============================================================================
