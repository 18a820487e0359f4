---------------------------- MODULE ReportServer ----------------------------
(***************************************************************************)
(* The API handler (backend/api/server.go, ip_context.go and               *)
(* response_writer.go): what one request does from serveHTTP's entry to    *)
(* its deferred terminal event, over the four slot channels all requests   *)
(* share.  A slot is taken with a select that never blocks and given back  *)
(* on every way out, a panic included.                                     *)
(*                                                                         *)
(* The routes with no state are "options", and "plain" for health, checks  *)
(* and whatever matches no route.  Of the telemetry only the terminal      *)
(* events of a report and of a request are kept.  The runner and the       *)
(* context service are modules Runner and IPContextService; here they      *)
(* return some time after they were called.                                *)
(* Authentication and the rate limit are one free refusal in public mode.  *)
(***************************************************************************)
EXTENDS Integers, FiniteSets

CONSTANTS
    Requests,
    PublicMode,         \* s.mode = ModePublic
    MaxReports,         \* cap(s.admission)
    MaxDecodes,         \* cap(s.bodyDecodes)
    MaxWrites,          \* cap(s.responseWrites)
    MaxContexts         \* cap(s.contextHandlers), 4 in the code

ASSUME ReportServerAssumption ==
    /\ IsFiniteSet(Requests) /\ PublicMode \in BOOLEAN
    /\ {MaxReports, MaxDecodes, MaxWrites, MaxContexts} \subseteq Nat \ {0}

VARIABLES
    draining,           \* the operational phase is draining
    pc, route,
    ctxDone,            \* request.Context().Err() # nil
    admission, bodyDecodes, responseWrites, contextHandlers,
    admitted,           \* observation.contextAdmitted
    terminals,          \* report_finish, report_reject and report_cancel events
    reportTerminal,     \* observation.reportTerminal
    reply,              \* the status the response writer first attempted
    status, outcome,    \* observation.status and .outcome
    lateArrival         \* the request arrived after the drain began

slots == <<admission, bodyDecodes, responseWrites, contextHandlers, admitted>>
reportEvents == <<terminals, reportTerminal>>
answer == <<reply, status, outcome>>
arrival == <<route, lateArrival>>
vars == <<draining, pc, ctxDone, slots, reportEvents, answer, arrival>>

Init ==
    /\ draining = FALSE
    /\ pc = [r \in Requests |-> "idle"]
    /\ route = [r \in Requests |-> "plain"]
    /\ ctxDone = [r \in Requests |-> FALSE]
    /\ admission = 0 /\ bodyDecodes = 0 /\ responseWrites = 0 /\ contextHandlers = 0
    /\ admitted = [r \in Requests |-> FALSE]
    /\ terminals = [r \in Requests |-> 0]
    /\ reportTerminal = [r \in Requests |-> FALSE]
    /\ reply = [r \in Requests |-> "none"]
    /\ status = [r \in Requests |-> "none"]
    /\ outcome = [r \in Requests |-> "none"]
    /\ lateArrival = [r \in Requests |-> FALSE]

-----------------------------------------------------------------------------
(* Steps shared by the handlers. *)

Go(r, to) == pc' = [pc EXCEPT ![r] = to]
AtRoute(r, from, on) == pc[r] = from /\ route[r] = on

(* emit of a report's terminal event. *)
EmitTerminal(r) ==
    /\ terminals' = [terminals EXCEPT ![r] = @ + 1]
    /\ reportTerminal' = [reportTerminal EXCEPT ![r] = TRUE]

(* writeJSONPayload: the write may fail before or after its first byte; a  *)
(* panic of the underlying writer is contained and counts as a failure.    *)
Respond(r, code, intended) ==
    /\ status' = [status EXCEPT ![r] = code]
    /\ reply' = [reply EXCEPT ![r] = IF @ = "none" THEN code ELSE @]
    /\ \E o \in {intended, "write_failed"} : outcome' = [outcome EXCEPT ![r] = o]

(* rejectReport, and the other ways a report ends with an error response. *)
EndReport(r) == Respond(r, "error", "refused") /\ EmitTerminal(r) /\ Go(r, "deferred")

(* Mutant: a client that left is not told apart from one that is refused. *)
GoneWrites(r) ==
    /\ status' = [status EXCEPT ![r] = "499"]
    /\ outcome' = [outcome EXCEPT ![r] = "cancel"]
    /\ reply' = [reply EXCEPT ![r] = IF @ = "none" THEN "error" ELSE @]
    /\ Go(r, "deferred")

(* The client has left: nothing is sent and the request is recorded as 499. *)
Gone(r) ==
    /\ status' = [status EXCEPT ![r] = "499"]
    /\ outcome' = [outcome EXCEPT ![r] = "cancel"]
    /\ UNCHANGED reply
    /\ Go(r, "deferred")

(* fail of createIPContext. *)
Fail(r) ==
    /\ IF ctxDone[r] THEN Gone(r) ELSE Respond(r, "error", "refused") /\ Go(r, "deferred")
    /\ UNCHANGED reportEvents

Refuse(r) == IF route[r] = "reports" THEN EndReport(r) ELSE Fail(r)

-----------------------------------------------------------------------------
(* serveHTTP up to the handler. *)

Arrive(r, on) ==
    /\ pc[r] = "idle"
    /\ Go(r, "gate")
    /\ route' = [route EXCEPT ![r] = on]
    /\ lateArrival' = [lateArrival EXCEPT ![r] = draining]
    /\ UNCHANGED <<draining, ctxDone, slots, reportEvents, answer>>

(* Refusals of serveHTTP itself are written whether or not the client has  *)
(* left: no credentials or over the rate limit, no such route, draining.   *)
GateRefuse(r) ==
    /\ Respond(r, "error", "refused") /\ Go(r, "deferred")
    /\ IF route[r] = "reports" THEN EmitTerminal(r) ELSE UNCHANGED reportEvents

(* Mutant: the draining check only refuses reports. *)
GateDrainsReportsOnly(r) ==
    /\ pc[r] = "gate"
    /\ \/ route[r] # "options" /\ (PublicMode \/ route[r] = "plain" \/ draining) /\ GateRefuse(r)
       \/ /\ route[r] # "reports" \/ ~draining
          /\ Go(r, "start") /\ UNCHANGED <<reportEvents, answer>>
    /\ UNCHANGED <<draining, ctxDone, slots, arrival>>

Gate(r) ==
    /\ pc[r] = "gate"
    /\ \/ route[r] # "options" /\ (PublicMode \/ route[r] = "plain" \/ draining) /\ GateRefuse(r)
       \/ /\ route[r] = "options" \/ ~draining
          /\ Go(r, "start") /\ UNCHANGED <<reportEvents, answer>>
    /\ UNCHANGED <<draining, ctxDone, slots, arrival>>

ServePlain(r) ==
    /\ pc[r] = "start" /\ route[r] \in {"plain", "options"}
    /\ \/ Respond(r, "200", "ok")
       \/ route[r] = "plain" /\ Respond(r, "error", "refused")
    /\ Go(r, "deferred")
    /\ UNCHANGED <<draining, ctxDone, slots, reportEvents, arrival>>

(* createIPContext up to its handler slot. *)
AdmitContext(r) ==
    /\ AtRoute(r, "start", "context")
    /\ IF ~ctxDone[r] /\ contextHandlers < MaxContexts
       THEN /\ contextHandlers' = contextHandlers + 1
            /\ admitted' = [admitted EXCEPT ![r] = TRUE]
            /\ Go(r, "sizing") /\ UNCHANGED <<reportEvents, answer>>
       ELSE Fail(r) /\ UNCHANGED <<contextHandlers, admitted>>
    /\ UNCHANGED <<draining, ctxDone, admission, bodyDecodes, responseWrites, arrival>>

BeginReport(r) ==
    /\ AtRoute(r, "start", "reports")
    /\ Go(r, "sizing")
    /\ UNCHANGED <<draining, ctxDone, slots, reportEvents, answer, arrival>>

(* A bad query or a declared length over the limit is refused before a     *)
(* decode slot is asked for.                                               *)
RefuseSize(r) ==
    /\ pc[r] = "sizing"
    /\ Refuse(r)
    /\ UNCHANGED <<draining, ctxDone, slots, arrival>>

DecodeBegin(r) ==
    /\ pc[r] = "sizing"
    /\ IF bodyDecodes < MaxDecodes
       THEN bodyDecodes' = bodyDecodes + 1 /\ Go(r, "decoding") /\ UNCHANGED <<reportEvents, answer>>
       ELSE Refuse(r) /\ UNCHANGED bodyDecodes
    /\ UNCHANGED <<draining, ctxDone, admission, responseWrites, contextHandlers, admitted,
                   arrival>>

(* The slot's own defer. *)
DecodeEnd(r) ==
    /\ pc[r] = "decoding"
    /\ bodyDecodes' = bodyDecodes - 1
    /\ Go(r, "decoded")
    /\ UNCHANGED <<draining, ctxDone, admission, responseWrites, contextHandlers, admitted,
                   reportEvents, answer, arrival>>

(* Malformed, oversized or invalid bodies. *)
RefuseBody(r) ==
    /\ pc[r] = "decoded"
    /\ Refuse(r)
    /\ UNCHANGED <<draining, ctxDone, slots, arrival>>

AcceptContext(r) ==
    /\ AtRoute(r, "decoded", "context")
    /\ Go(r, "running")
    /\ UNCHANGED <<draining, ctxDone, slots, reportEvents, answer, arrival>>

AdmitReport(r) ==
    /\ AtRoute(r, "decoded", "reports")
    /\ IF admission < MaxReports
       THEN admission' = admission + 1 /\ Go(r, "running") /\ UNCHANGED <<reportEvents, answer>>
       ELSE Refuse(r) /\ UNCHANGED admission
    /\ UNCHANGED <<draining, ctxDone, bodyDecodes, responseWrites, contextHandlers, admitted,
                   arrival>>

-----------------------------------------------------------------------------
(* The handler's work and its response. *)

ReleaseAdmission(r) == admission' = IF route[r] = "reports" THEN admission - 1 ELSE admission

(* RunWithID or Lookup returned and the client has left meanwhile ... *)
RunCancelled(r) ==
    /\ pc[r] = "running" /\ ctxDone[r]
    /\ ReleaseAdmission(r)
    /\ Gone(r)
    /\ IF route[r] = "reports" THEN EmitTerminal(r) ELSE UNCHANGED reportEvents
    /\ UNCHANGED <<draining, ctxDone, bodyDecodes, responseWrites, contextHandlers, admitted,
                   arrival>>

(* ... or failed, or ran into the network policy ... *)
RunFailed(r) ==
    /\ pc[r] = "running"
    /\ route[r] = "context" => ~ctxDone[r]
    /\ ReleaseAdmission(r)
    /\ Refuse(r)
    /\ UNCHANGED <<draining, ctxDone, bodyDecodes, responseWrites, contextHandlers, admitted,
                   arrival>>

(* ... or has a result to serialize. *)
RunReturn(r) ==
    /\ pc[r] = "running" /\ ~ctxDone[r]
    /\ Go(r, "marshalling")
    /\ UNCHANGED <<draining, ctxDone, slots, reportEvents, answer, arrival>>

MarshalFailed(r) ==
    /\ pc[r] = "marshalling"
    /\ ReleaseAdmission(r)
    /\ Refuse(r)
    /\ UNCHANGED <<draining, ctxDone, bodyDecodes, responseWrites, contextHandlers, admitted,
                   arrival>>

(* The write slot is asked for while the report slot is still held.        *)
ClaimWrite(r) ==
    /\ pc[r] = "marshalling"
    /\ IF responseWrites < MaxWrites
       THEN /\ responseWrites' = responseWrites + 1
            /\ Go(r, "claimed") /\ UNCHANGED <<admission, reportEvents, answer>>
       ELSE ReleaseAdmission(r) /\ Refuse(r) /\ UNCHANGED responseWrites
    /\ UNCHANGED <<draining, ctxDone, bodyDecodes, contextHandlers, admitted, arrival>>

WriteBegin(r) ==
    /\ pc[r] = "claimed"
    /\ ReleaseAdmission(r)
    /\ Go(r, "writing")
    /\ UNCHANGED <<draining, ctxDone, bodyDecodes, responseWrites, contextHandlers, admitted,
                   reportEvents, answer, arrival>>

(* The body is written under its deadline; a report then emits its finish. *)
WriteEnd(r) ==
    /\ pc[r] = "writing"
    /\ Respond(r, "200", "ok")
    /\ IF route[r] = "reports" THEN EmitTerminal(r) ELSE UNCHANGED reportEvents
    /\ Go(r, "written")
    /\ UNCHANGED <<draining, ctxDone, slots, arrival>>

(* The deferred release of the write slot. *)
ReleaseWrite(r) ==
    /\ pc[r] = "written"
    /\ responseWrites' = responseWrites - 1
    /\ Go(r, "deferred")
    /\ UNCHANGED <<draining, ctxDone, admission, bodyDecodes, contextHandlers, admitted, reportEvents,
                   answer, arrival>>

-----------------------------------------------------------------------------
(* Panics, and serveHTTP's deferred function. *)

MayPanic == {"gate", "start", "decoding", "decoded", "running", "marshalling", "written"}

(* Mutant: the decode slot is returned at the end of the body, not by a defer. *)
PanicLeaksDecode(r) ==
    /\ pc[r] \in MayPanic
    /\ responseWrites' = IF pc[r] = "written" THEN responseWrites - 1 ELSE responseWrites
    /\ admission' = IF route[r] = "reports" /\ pc[r] \in {"running", "marshalling"}
                    THEN admission - 1 ELSE admission
    /\ Go(r, "panicked")
    /\ UNCHANGED <<draining, ctxDone, bodyDecodes, contextHandlers, admitted, reportEvents, answer,
                   arrival>>

(* A panic in the handler's own work runs its deferred releases. *)
Panic(r) ==
    /\ pc[r] \in MayPanic
    /\ bodyDecodes' = IF pc[r] = "decoding" THEN bodyDecodes - 1 ELSE bodyDecodes
    /\ responseWrites' = IF pc[r] = "written" THEN responseWrites - 1 ELSE responseWrites
    /\ admission' = IF route[r] = "reports" /\ pc[r] \in {"running", "marshalling"}
                    THEN admission - 1 ELSE admission
    /\ Go(r, "panicked")
    /\ UNCHANGED <<draining, ctxDone, contextHandlers, admitted, reportEvents, answer, arrival>>

(* An error response unless one was attempted, and a report_finish event   *)
(* if that is asked for.                                                   *)
Contain(r, finish) ==
    /\ pc[r] = "panicked"
    /\ status' = [status EXCEPT ![r] = IF reply[r] = "none" THEN "error" ELSE reply[r]]
    /\ reply' = [reply EXCEPT ![r] = IF @ = "none" THEN "error" ELSE @]
    /\ outcome' = [outcome EXCEPT ![r] = "panic"]
    /\ IF finish THEN EmitTerminal(r) ELSE UNCHANGED reportEvents
    /\ Go(r, "deferred")
    /\ UNCHANGED <<draining, ctxDone, slots, arrival>>

(* Mutants: the event is emitted whatever was emitted before; a panic after *)
(* the response began is not contained.                                     *)
ContainPanicAlwaysFinishes(r) == Contain(r, route[r] = "reports")
ContainPanicUnsent(r) == reply[r] = "none" /\ Contain(r, route[r] = "reports")

(* containPanic. *)
ContainPanic(r) == Contain(r, route[r] = "reports" /\ ~reportTerminal[r])

(* The http_terminal event, with a status even if none was recorded ... *)
EmitHTTPTerminal(r) ==
    /\ pc[r] = "deferred"
    /\ status' = [status EXCEPT ![r] =
                     IF @ # "none" THEN @ ELSE IF reply[r] # "none" THEN reply[r] ELSE "error"]
    /\ outcome' = [outcome EXCEPT ![r] =
                     IF status[r] = "none" /\ reply[r] = "none" THEN "panic" ELSE @]
    /\ Go(r, "ending")
    /\ UNCHANGED <<draining, ctxDone, slots, reportEvents, reply, arrival>>

(* ... and only then the context handler's slot. *)
End(r) ==
    /\ pc[r] = "ending"
    /\ contextHandlers' = IF admitted[r] THEN contextHandlers - 1 ELSE contextHandlers
    /\ Go(r, "ended")
    /\ UNCHANGED <<draining, ctxDone, admission, bodyDecodes, responseWrites, admitted, reportEvents,
                   answer, arrival>>

-----------------------------------------------------------------------------
(* The client leaves, or the request's deadline passes. *)
Disconnect(r) ==
    /\ pc[r] \notin {"idle", "ended"} /\ ~ctxDone[r]
    /\ ctxDone' = [ctxDone EXCEPT ![r] = TRUE]
    /\ UNCHANGED <<draining, pc, slots, reportEvents, answer, arrival>>

BeginDrain ==
    /\ ~draining
    /\ draining' = TRUE
    /\ UNCHANGED <<pc, ctxDone, slots, reportEvents, answer, arrival>>

Handle(r) ==
    \/ Gate(r) \/ ServePlain(r) \/ AdmitContext(r) \/ BeginReport(r)
    \/ RefuseSize(r) \/ DecodeBegin(r) \/ DecodeEnd(r) \/ RefuseBody(r)
    \/ AcceptContext(r) \/ AdmitReport(r)
    \/ RunCancelled(r) \/ RunFailed(r) \/ RunReturn(r)
    \/ MarshalFailed(r) \/ ClaimWrite(r) \/ WriteBegin(r) \/ WriteEnd(r) \/ ReleaseWrite(r)
    \/ ContainPanic(r) \/ EmitHTTPTerminal(r) \/ End(r)

Next ==
    \/ \E r \in Requests : \/ \E on \in {"reports", "context", "plain", "options"} : Arrive(r, on)
                           \/ Handle(r) \/ Panic(r) \/ Disconnect(r)
    \/ BeginDrain

Spec == Init /\ [][Next]_vars

(* Body reads and response writes have deadlines, runs and lookups return  *)
(* (Runner, IPContextService): a handler always takes its next step.       *)
FairSpec == Spec /\ \A r \in Requests : WF_vars(Handle(r))

-----------------------------------------------------------------------------
(* Every variable has its type. *)
TypeOK ==
    /\ draining \in BOOLEAN
    /\ pc \in [Requests -> {"idle", "gate", "start", "sizing", "decoding", "decoded", "running",
                            "marshalling", "claimed", "writing", "written", "panicked",
                            "deferred", "ending", "ended"}]
    /\ route \in [Requests -> {"reports", "context", "plain", "options"}]
    /\ ctxDone \in [Requests -> BOOLEAN]
    /\ {admission, bodyDecodes, responseWrites, contextHandlers} \subseteq Int
    /\ admitted \in [Requests -> BOOLEAN]
    /\ terminals \in [Requests -> Nat] /\ reportTerminal \in [Requests -> BOOLEAN]
    /\ reply \in [Requests -> {"none", "200", "error"}]
    /\ status \in [Requests -> {"none", "200", "499", "error"}]
    /\ outcome \in [Requests -> {"none", "ok", "refused", "cancel", "write_failed", "panic"}]
    /\ lateArrival \in [Requests -> BOOLEAN]

Holding(S) == Cardinality({r \in Requests : pc[r] \in S})
Reporting(S) == Cardinality({r \in Requests : pc[r] \in S /\ route[r] = "reports"})

(* The length of every slot channel is the number of requests that are     *)
(* inside the part of the handler it bounds, on every path, panics         *)
(* included, and never exceeds its capacity: no slot leaks and none is     *)
(* given back twice.                                                       *)
SlotsAreHeld ==
    /\ admission = Reporting({"running", "marshalling", "claimed"})
    /\ bodyDecodes = Holding({"decoding"})
    /\ responseWrites = Holding({"claimed", "writing", "written"})
    /\ contextHandlers = Cardinality({r \in Requests : admitted[r] /\ pc[r] # "ended"})
    /\ admission <= MaxReports /\ bodyDecodes <= MaxDecodes
    /\ responseWrites <= MaxWrites /\ contextHandlers <= MaxContexts

(* A report that reached its http_terminal event emitted exactly one of    *)
(* report_finish, report_reject and report_cancel, whichever way it ended. *)
OneReportTerminal ==
    \A r \in Requests :
        /\ terminals[r] <= 1
        /\ pc[r] \in {"ending", "ended"} => terminals[r] = IF route[r] = "reports" THEN 1 ELSE 0

(* The recorded status is the one the client was first sent; 499 is only   *)
(* recorded when the client left and nothing was sent, and an outcome of   *)
(* ok only when a 200 response was.                                        *)
TerminalIsTruthful ==
    \A r \in Requests : pc[r] \in {"ending", "ended"} =>
        /\ status[r] = "499" => ctxDone[r] /\ reply[r] = "none"
        /\ status[r] # "499" => status[r] = reply[r] /\ reply[r] # "none"
        /\ outcome[r] = "ok" => reply[r] = "200"

(* A request that arrives once the drain has begun starts no work: it      *)
(* never holds a slot, decodes, runs or writes a result.                   *)
DrainingStartsNothing ==
    \A r \in Requests : lateArrival[r] /\ route[r] # "options" =>
        pc[r] \in {"gate", "panicked", "deferred", "ending", "ended"}

(* Every request that arrives reaches its end. *)
RequestsEnd == \A r \in Requests : (pc[r] = "gate") ~> (pc[r] = "ended")

=============================================================================
