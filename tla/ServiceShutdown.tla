-------------------------- MODULE ServiceShutdown --------------------------
(***************************************************************************)
(* The process around the API handler (cmd/checknetwork-api): the bounded  *)
(* listener, the connections it leases, the requests they carry, and       *)
(* runMain from accepting to its exit code.  Checkers are leases of        *)
(* CheckerSupervisor and context lookups are units of OwnedWork; both may  *)
(* outlive the request that started them.                                  *)
(*                                                                         *)
(* net/http is external: Serve accepts and runs a goroutine per connection,*)
(* Shutdown closes the listener and idle connections and returns when no   *)
(* connection is left or its context is done.                              *)
(***************************************************************************)
EXTENDS CheckerSupervisor, OwnedWork

CONSTANTS
    Conns,          \* sockets that clients open
    MaxConnections  \* cap(listener.leases)

ASSUME ConnsAssumption == IsFiniteSet(Conns) /\ MaxConnections \in Nat \ {0}
(* A request runs at most one checker here, named after its connection. *)
ASSUME ConnLeasesAssumption == Leases = Conns

VARIABLES
    conn,           \* each socket: its connection's or its request's state
    released,       \* leasedConn.releaseOnce has been done
    connLeases,     \* len(listener.leases)
    accept,         \* where the accept loop is
    draining,       \* the operational phase is draining
    stage,          \* where runMain is
    expired,        \* drainCtx is done
    httpErr,        \* server.Shutdown failed
    exitCode

connVars == <<conn, released, connLeases, accept>>
procVars == <<draining, stage, expired, httpErr, exitCode>>
vars == <<supVars, ownedVars, connVars, procVars>>

Init ==
    /\ SupInit /\ OwnedInit
    /\ conn = [c \in Conns |-> "none"]
    /\ released = [c \in Conns |-> FALSE]
    /\ connLeases = 0
    /\ accept = "open"
    /\ draining = FALSE /\ stage = "serving" /\ expired = FALSE
    /\ httpErr = FALSE /\ exitCode = 0

-----------------------------------------------------------------------------
(* The listener and its connections. *)

(* boundedListener.Accept: over the limit the socket is closed at once and *)
(* the loop backs off.                                                     *)
Accept(c) ==
    /\ accept = "open" /\ conn[c] = "none"
    /\ IF connLeases < MaxConnections
       THEN /\ connLeases' = connLeases + 1
            /\ conn' = [conn EXCEPT ![c] = "idle"]
            /\ UNCHANGED accept
       ELSE /\ conn' = [conn EXCEPT ![c] = "refused"]
            /\ accept' = "backoff"
            /\ UNCHANGED connLeases
    /\ UNCHANGED <<supVars, ownedVars, released, procVars>>

BackoffEnds ==
    /\ accept = "backoff"
    /\ accept' = "open"
    /\ UNCHANGED <<supVars, ownedVars, conn, released, connLeases, procVars>>

(* Mutant: every Close gives back a lease. *)
ReleaseEveryClose(c) ==
    /\ released' = [released EXCEPT ![c] = TRUE]
    /\ connLeases' = connLeases - 1

(* leasedConn.Close: the connection's goroutine and Shutdown may both call it. *)
ReleaseLease(c) ==
    /\ released' = [released EXCEPT ![c] = TRUE]
    /\ connLeases' = IF released[c] THEN connLeases ELSE connLeases - 1

RequestArrives(c) ==
    /\ conn[c] = "idle"
    /\ conn' = [conn EXCEPT ![c] = "gate"]
    /\ UNCHANGED <<supVars, ownedVars, released, connLeases, accept, procVars>>

(* serveHTTP's draining check. *)
Gate(c) ==
    /\ conn[c] = "gate"
    /\ conn' = [conn EXCEPT ![c] = IF draining THEN "finished" ELSE "working"]
    /\ UNCHANGED <<supVars, ownedVars, released, connLeases, accept, procVars>>

StartChecker(c) ==
    /\ conn[c] = "working"
    /\ Acquire(c)
    /\ UNCHANGED <<ownedVars, connVars, procVars>>

StartLookup(c) ==
    /\ conn[c] = "working"
    /\ StartWork
    /\ UNCHANGED <<supVars, connVars, procVars>>

(* A cutoff abandons a checker that has not returned. *)
AbandonChecker(c) ==
    /\ conn[c] = "working" /\ c \in leases \ flagged
    /\ MarkStuck(c)
    /\ UNCHANGED <<ownedVars, connVars, procVars>>

CheckerEnds(c) ==
    /\ Release(c)
    /\ UNCHANGED <<ownedVars, connVars, procVars>>

LookupEnds ==
    /\ EndWork
    /\ UNCHANGED <<supVars, connVars, procVars>>

(* A run returns only when its checkers have ended or are stuck. *)
HandlerReturns(c) ==
    /\ conn[c] = "working"
    /\ c \in leases => c \in flagged
    /\ conn' = [conn EXCEPT ![c] = "finished"]
    /\ UNCHANGED <<supVars, ownedVars, released, connLeases, accept, procVars>>

(* The connection is kept for another request unless the server shuts down. *)
KeepAlive(c) ==
    /\ conn[c] = "finished" /\ stage \in {"serving", "stopping", "draining", "http"}
    /\ conn' = [conn EXCEPT ![c] = "idle"]
    /\ UNCHANGED <<supVars, ownedVars, released, connLeases, accept, procVars>>

(* The connection's goroutine ends: after a request, when the client has   *)
(* left, or because Shutdown closed the socket under it.                   *)
ConnectionEnds(c) ==
    /\ conn[c] \in {"idle", "finished", "severed"}
    /\ conn' = [conn EXCEPT ![c] = "closed"]
    /\ ReleaseLease(c)
    /\ UNCHANGED <<supVars, ownedVars, accept, procVars>>

-----------------------------------------------------------------------------
(* runMain and shutdownService. *)

Signal ==
    /\ stage = "serving"
    /\ stage' = "stopping"
    /\ UNCHANGED <<supVars, ownedVars, connVars, draining, expired, httpErr, exitCode>>

(* Serve ended with an error of the listener. *)
ServeFails ==
    /\ stage = "serving"
    /\ accept' = "closed"
    /\ exitCode' = 1
    /\ stage' = "stopping"
    /\ UNCHANGED <<supVars, ownedVars, conn, released, connLeases, draining, expired, httpErr>>

DrainPhase ==
    /\ stage = "stopping"
    /\ draining' = TRUE
    /\ stage' = "draining"
    /\ UNCHANGED <<supVars, ownedVars, connVars, expired, httpErr, exitCode>>

DrainLookups ==
    /\ stage = "draining"
    /\ DrainWork
    /\ stage' = "http"
    /\ UNCHANGED <<supVars, connVars, draining, expired, httpErr, exitCode>>

(* drainCtx's timer; it starts when the drain has begun. *)
DeadlinePasses ==
    /\ stage \in {"http", "polling", "checkers", "lookups"} /\ ~expired
    /\ expired' = TRUE
    /\ UNCHANGED <<supVars, ownedVars, connVars, draining, stage, httpErr, exitCode>>

ShutdownHTTP ==
    /\ stage = "http"
    /\ accept' = "closed"
    /\ stage' = "polling"
    /\ UNCHANGED <<supVars, ownedVars, conn, released, connLeases, draining, expired, httpErr,
                   exitCode>>

CloseIdle(c) ==
    /\ stage = "polling" /\ conn[c] = "idle"
    /\ conn' = [conn EXCEPT ![c] = "severed"]
    /\ ReleaseLease(c)
    /\ UNCHANGED <<supVars, ownedVars, accept, procVars>>

(* Serving counts the connections Shutdown waits for. *)
Serving == {c \in Conns : conn[c] \in {"idle", "gate", "working", "finished"}}

ShutdownReturns ==
    /\ stage = "polling"
    /\ \/ Serving = {} /\ httpErr' = FALSE
       \/ expired /\ httpErr' = TRUE
    /\ stage' = "checkers"
    /\ UNCHANGED <<supVars, ownedVars, connVars, draining, expired, exitCode>>

(* supervisor.ShutdownSnapshot(drainCtx). *)
ShutdownCheckers ==
    /\ stage = "checkers"
    /\ BeginShutdown \/ ShutdownDrained \/ (expired /\ ShutdownExpired) \/ ShutdownCapture
    /\ stage' = IF shutdown = "woken" THEN "lookups" ELSE stage
    /\ UNCHANGED <<ownedVars, connVars, draining, expired, httpErr, exitCode>>

(* Mutant: Close waits without the drain deadline. *)
CloseLookupsForever ==
    /\ stage = "lookups"
    /\ CloseClean
    /\ stage' = "joining"
    /\ UNCHANGED <<supVars, connVars, draining, expired, httpErr, exitCode>>

CloseLookups ==
    /\ stage = "lookups"
    /\ CloseClean \/ (expired /\ CloseGaveUp)
    /\ stage' = "joining"
    /\ UNCHANGED <<supVars, connVars, draining, expired, httpErr, exitCode>>

(* Mutant: the result of server.Shutdown is dropped. *)
ShutdownErrIgnoresHTTP == snapshot # NoSnapshot \/ close = "failed"

ShutdownErr == httpErr \/ snapshot # NoSnapshot \/ close = "failed"

(* finishRun. *)
Exit ==
    /\ stage = "joining"
    /\ exitCode' = IF ShutdownErr THEN 1 ELSE exitCode
    /\ stage' = "exited"
    /\ UNCHANGED <<supVars, ownedVars, connVars, draining, expired, httpErr>>

MainStep ==
    \/ DrainPhase \/ DrainLookups \/ ShutdownHTTP \/ ShutdownReturns
    \/ ShutdownCheckers \/ CloseLookups \/ Exit

(* Goroutines run on until the process is gone, so nothing stops at Exit. *)
Next ==
    \/ \E c \in Conns :
          \/ Accept(c) \/ RequestArrives(c) \/ Gate(c) \/ StartChecker(c) \/ StartLookup(c)
          \/ AbandonChecker(c) \/ CheckerEnds(c) \/ HandlerReturns(c) \/ KeepAlive(c)
          \/ ConnectionEnds(c) \/ CloseIdle(c)
    \/ BackoffEnds \/ LookupEnds
    \/ Signal \/ ServeFails \/ MainStep \/ DeadlinePasses

Spec == Init /\ [][Next]_vars

(* Main runs and its drain timer fires; requests, checkers and lookups may *)
(* hang for ever.                                                          *)
FairSpec == Spec /\ WF_vars(MainStep) /\ WF_vars(DeadlinePasses)

-----------------------------------------------------------------------------
(* Every variable has its type. *)
TypeOK ==
    /\ SupTypeOK
    /\ work \in Nat /\ accepting \in BOOLEAN /\ close \in {"none", "drained", "closed", "failed"}
    /\ conn \in [Conns -> {"none", "refused", "idle", "gate", "working", "finished", "severed",
                           "closed"}]
    /\ released \in [Conns -> BOOLEAN] /\ connLeases \in Nat
    /\ accept \in {"open", "backoff", "closed"}
    /\ draining \in BOOLEAN /\ expired \in BOOLEAN /\ httpErr \in BOOLEAN
    /\ stage \in {"serving", "stopping", "draining", "http", "polling", "checkers", "lookups",
                  "joining", "exited"}
    /\ exitCode \in {0, 1}

(* The listener's leases are the connections whose socket is open: closing *)
(* twice gives back one lease, and the limit holds.                        *)
ConnectionLeases ==
    /\ connLeases = Cardinality(Serving)
    /\ connLeases <= MaxConnections

(* A process that exits with success leaves no request, no checker and no  *)
(* lookup running, and none of them can start any more.                    *)
ExitZeroIsQuiet ==
    stage = "exited" /\ exitCode = 0 =>
        /\ \A c \in Conns : conn[c] \notin {"gate", "working", "finished"}
        /\ leases = {} /\ work = 0
        /\ ~admit /\ ~accepting

(* Once it is told to stop the process exits within the drain deadline,    *)
(* however many requests, checkers and lookups hang.                       *)
StopLeadsToExit == (stage = "stopping") ~> (stage = "exited")

=============================================================================
