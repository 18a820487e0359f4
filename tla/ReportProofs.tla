---------------------------- MODULE ReportProofs ----------------------------
(***************************************************************************)
(* Proofs about what becomes of a report at the API: the handler that      *)
(* answers the request (ReportServer), for any requests and capacities,    *)
(* and the topology it fits into the answer (TopologyPipeline), for any    *)
(* reports, limits and bundles.                                            *)
(*                                                                         *)
(* The first part is the handler: one terminal event, the truth of what is *)
(* recorded, slots, and the drain.  The second is the pipeline, which      *)
(* rests on the operators' lemmas of TopologyProofs: the two searches,     *)
(* what the client's model has of the report, and what it selects of the   *)
(* model for a view.                                                       *)
(***************************************************************************)
EXTENDS ReportServer, TopologyPipeline, TopologyProofs

(* Nothing was answered, recorded or emitted yet. *)
Unanswered(r) ==
    /\ terminals[r] = 0 /\ reply[r] = "none" /\ status[r] = "none" /\ outcome[r] = "none"

(* A report has emitted its one terminal event; other routes have none. *)
Emitted(r) == terminals[r] = IF route[r] = "reports" THEN 1 ELSE 0

(* The result was written, if perhaps not to the end. *)
Sent(r) ==
    /\ reply[r] = "200" /\ status[r] = "200" /\ outcome[r] \in {"ok", "write_failed"}
    /\ Emitted(r)

(* What the http_terminal event is going to say is true. *)
Truthful(r) ==
    /\ status[r] = "499" => ctxDone[r] /\ reply[r] = "none"
    /\ status[r] # "499" => status[r] = reply[r] /\ reply[r] # "none"
    /\ outcome[r] = "ok" => reply[r] = "200"

(* How far a request's answer has come, by the place it is at.  A panic    *)
(* finds a request wholly unanswered or wholly answered: no handler can    *)
(* panic between its response and the terminal event that goes with it.    *)
RequestInv(r) ==
    /\ reportTerminal[r] <=> terminals[r] # 0
    /\ pc[r] \notin {"written", "panicked", "deferred", "ending", "ended"} => Unanswered(r)
    /\ pc[r] = "written" => Sent(r)
    /\ pc[r] = "panicked" => Unanswered(r) \/ Sent(r)
    /\ pc[r] \in {"deferred", "ending", "ended"} => Emitted(r) /\ Truthful(r)
    /\ pc[r] \in {"idle", "gate", "start"} => ~admitted[r]
    /\ lateArrival[r] => draining
    /\ lateArrival[r] /\ route[r] # "options" =>
          pc[r] \in {"gate", "panicked", "deferred", "ending", "ended"}

(* The inductive invariant. *)
ServerInv ==
    /\ TypeOK
    /\ SlotsAreHeld
    /\ \A r \in Requests : RequestInv(r)

-----------------------------------------------------------------------------
(* The requests each slot channel counts. *)
Admitting == {r \in Requests : pc[r] \in {"running", "marshalling", "claimed"} /\ route[r] = "reports"}
Decoding == {r \in Requests : pc[r] \in {"decoding"}}
Writing == {r \in Requests : pc[r] \in {"claimed", "writing", "written"}}
Contexts == {r \in Requests : admitted[r] /\ pc[r] # "ended"}

Bit(b) == IF b THEN 1 ELSE 0

(* A step of request r takes or gives back the slots of exactly the parts  *)
(* of the handler it enters or leaves, and takes none that is not free.    *)
SlotStep(r) ==
    /\ admission' = admission + Bit(r \in Admitting') - Bit(r \in Admitting)
    /\ bodyDecodes' = bodyDecodes + Bit(r \in Decoding') - Bit(r \in Decoding)
    /\ responseWrites' = responseWrites + Bit(r \in Writing') - Bit(r \in Writing)
    /\ contextHandlers' = contextHandlers + Bit(r \in Contexts') - Bit(r \in Contexts)
    /\ admission' <= admission \/ admission' <= MaxReports
    /\ bodyDecodes' <= bodyDecodes \/ bodyDecodes' <= MaxDecodes
    /\ responseWrites' <= responseWrites \/ responseWrites' <= MaxWrites
    /\ contextHandlers' <= contextHandlers \/ contextHandlers' <= MaxContexts

(* Nothing of another request changes. *)
OnlyOf(r) ==
    /\ draining' = draining
    /\ \A s \in Requests \ {r} :
          /\ pc'[s] = pc[s] /\ route'[s] = route[s] /\ ctxDone'[s] = ctxDone[s]
          /\ admitted'[s] = admitted[s] /\ lateArrival'[s] = lateArrival[s]
          /\ terminals'[s] = terminals[s] /\ reportTerminal'[s] = reportTerminal[s]
          /\ reply'[s] = reply[s] /\ status'[s] = status[s] /\ outcome'[s] = outcome[s]

(* Two sets that differ in one element at most. *)
LEMMA Recount ==
    ASSUME NEW S, IsFiniteSet(S), NEW A \in SUBSET S, NEW B \in SUBSET S, NEW x,
           A \ {x} = B \ {x}
    PROVE  Cardinality(B) = Cardinality(A) + Bit(x \in B) - Bit(x \in A)
<1>1. IsFiniteSet(A) /\ IsFiniteSet(B) /\ Cardinality(A) \in Nat /\ Cardinality(B) \in Nat
  BY FS_Subset, FS_CardinalityType
<1>2. CASE x \in A /\ x \in B
  <2>1. A = B
    BY <1>2
  <2>2. QED
    BY <1>1, <1>2, <2>1 DEF Bit
<1>3. CASE x \in A /\ x \notin B
  <2>1. B = A \ {x}
    BY <1>3
  <2>2. Cardinality(B) = Cardinality(A) - 1
    BY <1>1, <1>3, <2>1, FS_RemoveElement
  <2>3. QED
    BY <1>1, <1>3, <2>2 DEF Bit
<1>4. CASE x \notin A /\ x \in B
  <2>1. B = A \cup {x}
    BY <1>4
  <2>2. Cardinality(B) = Cardinality(A) + 1
    BY <1>1, <1>4, <2>1, FS_AddElement
  <2>3. QED
    BY <1>1, <1>4, <2>2 DEF Bit
<1>5. CASE x \notin A /\ x \notin B
  <2>1. A = B
    BY <1>5
  <2>2. QED
    BY <1>1, <1>5, <2>1 DEF Bit
<1>6. QED
  BY <1>2, <1>3, <1>4, <1>5

(* Such a step keeps the invariant when it keeps the request's own part. *)
LEMMA RequestStep ==
    ASSUME ServerInv, NEW r \in Requests, TypeOK', OnlyOf(r), SlotStep(r), RequestInv(r)'
    PROVE  ServerInv'
<1>1. /\ Admitting \ {r} = Admitting' \ {r} /\ Decoding \ {r} = Decoding' \ {r}
      /\ Writing \ {r} = Writing' \ {r} /\ Contexts \ {r} = Contexts' \ {r}
  BY DEF OnlyOf, Admitting, Decoding, Writing, Contexts
<1>2. /\ Admitting \in SUBSET Requests /\ Admitting' \in SUBSET Requests
      /\ Decoding \in SUBSET Requests /\ Decoding' \in SUBSET Requests
      /\ Writing \in SUBSET Requests /\ Writing' \in SUBSET Requests
      /\ Contexts \in SUBSET Requests /\ Contexts' \in SUBSET Requests
  BY DEF Admitting, Decoding, Writing, Contexts
<1>3. Cardinality(Admitting') = Cardinality(Admitting) + Bit(r \in Admitting') - Bit(r \in Admitting)
  BY <1>1, <1>2, Recount, ReportServerAssumption
<1>4. Cardinality(Decoding') = Cardinality(Decoding) + Bit(r \in Decoding') - Bit(r \in Decoding)
  BY <1>1, <1>2, Recount, ReportServerAssumption
<1>5. Cardinality(Writing') = Cardinality(Writing) + Bit(r \in Writing') - Bit(r \in Writing)
  BY <1>1, <1>2, Recount, ReportServerAssumption
<1>6. Cardinality(Contexts') = Cardinality(Contexts) + Bit(r \in Contexts') - Bit(r \in Contexts)
  BY <1>1, <1>2, Recount, ReportServerAssumption
<1>7. /\ admission = Cardinality(Admitting) /\ bodyDecodes = Cardinality(Decoding)
      /\ responseWrites = Cardinality(Writing) /\ contextHandlers = Cardinality(Contexts)
  BY DEF ServerInv, SlotsAreHeld, Holding, Reporting, Admitting, Decoding, Writing, Contexts
<1>8. /\ admission' = Cardinality(Admitting)' /\ bodyDecodes' = Cardinality(Decoding)'
      /\ responseWrites' = Cardinality(Writing)' /\ contextHandlers' = Cardinality(Contexts)'
  BY <1>3, <1>4, <1>5, <1>6, <1>7 DEF SlotStep
<1>9. /\ admission' <= MaxReports /\ bodyDecodes' <= MaxDecodes
      /\ responseWrites' <= MaxWrites /\ contextHandlers' <= MaxContexts
  BY ReportServerAssumption DEF SlotStep, ServerInv, SlotsAreHeld, TypeOK
<1>10. SlotsAreHeld'
  BY <1>8, <1>9 DEF SlotsAreHeld, Holding, Reporting, Admitting, Decoding, Writing, Contexts
<1>11. ASSUME NEW s \in Requests
       PROVE  RequestInv(s)'
  <2>1. CASE s = r
    BY <2>1
  <2>2. CASE s # r
    BY <2>2 DEF ServerInv, OnlyOf, RequestInv, Unanswered, Sent, Emitted, Truthful
  <2>3. QED
    BY <2>1, <2>2
<1>12. QED
  BY <1>10, <1>11 DEF ServerInv

-----------------------------------------------------------------------------
(* The steps that answer a request and send it to its deferred function.   *)
AnswerTypes ==
    /\ terminals \in [Requests -> Nat] /\ reportTerminal \in [Requests -> BOOLEAN]
    /\ reply \in [Requests -> {"none", "200", "error"}]
    /\ status \in [Requests -> {"none", "200", "499", "error"}]
    /\ outcome \in [Requests -> {"none", "ok", "refused", "cancel", "write_failed", "panic"}]

Ends(r) ==
    /\ Go(r, "deferred")
    /\ AnswerTypes'
    /\ \A s \in Requests \ {r} :
          /\ terminals'[s] = terminals[s] /\ reportTerminal'[s] = reportTerminal[s]
          /\ reply'[s] = reply[s] /\ status'[s] = status[s] /\ outcome'[s] = outcome[s]
    /\ reportTerminal'[r] <=> terminals'[r] # 0
    /\ Emitted(r)' /\ Truthful(r)'

(* The terminal event of a request that has emitted none. *)
LEMMA FirstTerminal ==
    ASSUME TypeOK, NEW r \in Requests, terminals[r] = 0, reportTerminal[r] <=> terminals[r] # 0,
           route' = route,
           IF route[r] = "reports" THEN EmitTerminal(r) ELSE UNCHANGED reportEvents
    PROVE  /\ terminals' \in [Requests -> Nat] /\ reportTerminal' \in [Requests -> BOOLEAN]
           /\ \A s \in Requests \ {r} :
                 terminals'[s] = terminals[s] /\ reportTerminal'[s] = reportTerminal[s]
           /\ reportTerminal'[r] <=> terminals'[r] # 0
           /\ Emitted(r)'
<1>1. CASE route[r] = "reports"
  <2>1. /\ terminals' = [terminals EXCEPT ![r] = @ + 1]
        /\ reportTerminal' = [reportTerminal EXCEPT ![r] = TRUE]
    BY <1>1 DEF EmitTerminal
  <2>2. terminals'[r] = 1 /\ reportTerminal'[r]
    BY <2>1 DEF TypeOK
  <2>3. terminals' \in [Requests -> Nat] /\ reportTerminal' \in [Requests -> BOOLEAN]
    BY <2>1 DEF TypeOK
  <2>4. \A s \in Requests \ {r} :
            terminals'[s] = terminals[s] /\ reportTerminal'[s] = reportTerminal[s]
    BY <2>1 DEF TypeOK
  <2>5. QED
    BY <1>1, <2>2, <2>3, <2>4 DEF Emitted
<1>2. CASE route[r] # "reports"
  BY <1>2 DEF reportEvents, TypeOK, Emitted
<1>3. QED
  BY <1>1, <1>2

LEMMA RefusalEnds ==
    ASSUME TypeOK, NEW r \in Requests, RequestInv(r), Unanswered(r),
           UNCHANGED <<ctxDone, route>>,
           \/ Refuse(r) \/ GateRefuse(r)
           \/ Gone(r) /\ ctxDone[r]
              /\ IF route[r] = "reports" THEN EmitTerminal(r) ELSE UNCHANGED reportEvents
    PROVE  Ends(r)
<1> USE DEF TypeOK, Unanswered, RequestInv, AnswerTypes, Ends, Go, Emitted, Truthful, reportEvents
<1>1. CASE Gone(r) /\ ctxDone[r]
           /\ IF route[r] = "reports" THEN EmitTerminal(r) ELSE UNCHANGED reportEvents
  <2>1. /\ status' = [status EXCEPT ![r] = "499"]
        /\ outcome' = [outcome EXCEPT ![r] = "cancel"] /\ reply' = reply
        /\ pc' = [pc EXCEPT ![r] = "deferred"] /\ ctxDone'[r]
    BY <1>1 DEF Gone
  <2>2. status'[r] = "499" /\ outcome'[r] = "cancel" /\ reply'[r] = "none"
    BY <2>1
  <2>3. /\ reply' \in [Requests -> {"none", "200", "error"}]
        /\ status' \in [Requests -> {"none", "200", "499", "error"}]
        /\ outcome' \in [Requests -> {"none", "ok", "refused", "cancel", "write_failed", "panic"}]
    BY <2>1
  <2>4. \A s \in Requests \ {r} :
            reply'[s] = reply[s] /\ status'[s] = status[s] /\ outcome'[s] = outcome[s]
    BY <2>1
  <2>5. Truthful(r)'
    BY <2>1, <2>2
  <2>6. QED
    BY <1>1, <2>1, <2>3, <2>4, <2>5, FirstTerminal
<1>2. CASE Respond(r, "error", "refused") /\ Go(r, "deferred")
           /\ IF route[r] = "reports" THEN EmitTerminal(r) ELSE UNCHANGED reportEvents
  <2>1. PICK o \in {"refused", "write_failed"} :
            /\ status' = [status EXCEPT ![r] = "error"] /\ outcome' = [outcome EXCEPT ![r] = o]
            /\ reply' = [reply EXCEPT ![r] = "error"] /\ pc' = [pc EXCEPT ![r] = "deferred"]
    BY <1>2 DEF Respond
  <2>2. status'[r] = "error" /\ outcome'[r] = o /\ reply'[r] = "error"
    BY <2>1
  <2>3. /\ reply' \in [Requests -> {"none", "200", "error"}]
        /\ status' \in [Requests -> {"none", "200", "499", "error"}]
        /\ outcome' \in [Requests -> {"none", "ok", "refused", "cancel", "write_failed", "panic"}]
    BY <2>1
  <2>4. \A s \in Requests \ {r} :
            reply'[s] = reply[s] /\ status'[s] = status[s] /\ outcome'[s] = outcome[s]
    BY <2>1
  <2>5. Truthful(r)'
    BY <2>2
  <2>6. QED
    BY <1>2, <2>1, <2>3, <2>4, <2>5, FirstTerminal
<1>3. CASE Refuse(r)
  <2>1. CASE route[r] = "reports"
    BY <1>2, <1>3, <2>1 DEF Refuse, EndReport
  <2>2. CASE route[r] # "reports" /\ ctxDone[r]
    BY <1>1, <1>3, <2>2 DEF Refuse, Fail
  <2>3. CASE route[r] # "reports" /\ ~ctxDone[r]
    BY <1>2, <1>3, <2>3 DEF Refuse, Fail
  <2>4. QED
    BY <2>1, <2>2, <2>3
<1>4. CASE GateRefuse(r)
  BY <1>2, <1>4 DEF GateRefuse
<1>5. QED
  BY <1>1, <1>3, <1>4

(* What such a step gives back is the report's slot, if it held one. *)
LEMMA EndStep ==
    ASSUME ServerInv, NEW r \in Requests, Ends(r),
           UNCHANGED <<draining, ctxDone, arrival, admitted>>,
           pc[r] \in {"gate", "start", "sizing", "decoded", "running", "marshalling", "panicked"},
           admission' = IF r \in Admitting THEN admission - 1 ELSE admission,
           UNCHANGED <<bodyDecodes, responseWrites, contextHandlers>>
    PROVE  ServerInv'
<1> USE DEF arrival
<1>1. pc' = [pc EXCEPT ![r] = "deferred"] /\ pc'[r] = "deferred"
  BY DEF Ends, Go, ServerInv, TypeOK
<1>2. TypeOK'
  <2>1. pc' \in [Requests -> {"idle", "gate", "start", "sizing", "decoding", "decoded", "running",
                             "marshalling", "claimed", "writing", "written", "panicked",
                             "deferred", "ending", "ended"}]
    BY <1>1 DEF ServerInv, TypeOK
  <2>2. admission' \in Int
    BY DEF ServerInv, TypeOK
  <2>3. AnswerTypes'
    BY DEF Ends
  <2>4. QED
    BY <2>1, <2>2, <2>3 DEF ServerInv, TypeOK, AnswerTypes
<1>3. OnlyOf(r)
  BY <1>1 DEF OnlyOf, Ends, ServerInv, TypeOK
<1>4. SlotStep(r)
  <2>1. r \notin Admitting' /\ r \notin Decoding' /\ r \notin Writing' /\ r \notin Decoding
        /\ r \notin Writing
    BY <1>1 DEF Admitting, Decoding, Writing
  <2>2. r \in Contexts' <=> r \in Contexts
    BY <1>1 DEF Contexts
  <2>3. QED
    BY <2>1, <2>2 DEF SlotStep, Bit, ServerInv, TypeOK
<1>5. RequestInv(r)'
  BY <1>1 DEF Ends, RequestInv, ServerInv
<1>6. QED
  BY <1>2, <1>3, <1>4, <1>5, RequestStep

(* The steps that answer nothing. *)
LEMMA MoveStep ==
    ASSUME ServerInv, NEW r \in Requests, NEW to, Go(r, to),
           to \in {"start", "sizing", "decoding", "decoded", "running", "marshalling",
                   "claimed", "writing", "panicked", "deferred", "ending", "ended"},
           UNCHANGED <<draining, ctxDone, reportEvents, answer, arrival>>,
           admitted' \in [Requests -> BOOLEAN],
           \A s \in Requests \ {r} : admitted'[s] = admitted[s],
           SlotStep(r),
           to \in {"deferred", "ending", "ended"} => pc[r] \in {"written", "deferred", "ending"},
           to = "panicked" => pc[r] \in MayPanic,
           to \notin {"panicked", "deferred", "ending", "ended"} =>
               /\ Unanswered(r)
               /\ pc[r] \notin {"written", "panicked", "deferred", "ending", "ended"}
               /\ lateArrival[r] => route[r] = "options",
           to = "start" => ~admitted'[r]
    PROVE  ServerInv'
<1> USE DEF arrival, reportEvents, answer
<1>1. pc' = [pc EXCEPT ![r] = to] /\ pc'[r] = to
  BY DEF Go, ServerInv, TypeOK
<1>2. TypeOK'
  <2>1. pc' \in [Requests -> {"idle", "gate", "start", "sizing", "decoding", "decoded", "running",
                             "marshalling", "claimed", "writing", "written", "panicked",
                             "deferred", "ending", "ended"}]
    BY <1>1 DEF ServerInv, TypeOK
  <2>2. {admission, bodyDecodes, responseWrites, contextHandlers}' \subseteq Int
    BY DEF ServerInv, TypeOK, SlotStep, Bit
  <2>3. QED
    BY <2>1, <2>2 DEF ServerInv, TypeOK
<1>3. OnlyOf(r)
  BY <1>1 DEF OnlyOf, ServerInv, TypeOK
<1>4. RequestInv(r)
  BY DEF ServerInv
<1>5. RequestInv(r)'
  <2>1. CASE to \notin {"panicked", "deferred", "ending", "ended"}
    BY <1>1, <1>4, <2>1 DEF RequestInv, Unanswered, MayPanic
  <2>2. CASE to = "panicked"
    BY <1>1, <1>4, <2>2 DEF RequestInv, Unanswered, Sent, Emitted, MayPanic
  <2>3. CASE to \in {"deferred", "ending", "ended"}
    BY <1>1, <1>4, <2>3 DEF RequestInv, Sent, Emitted, Truthful
  <2>4. QED
    BY <2>1, <2>2, <2>3
<1>6. QED
  BY <1>2, <1>3, <1>5, RequestStep

-----------------------------------------------------------------------------
(* Refusals, failures and panics. *)
LEMMA RefusingStep ==
    ASSUME ServerInv, NEW r \in Requests,
           pc[r] \in {"gate", "start", "sizing", "decoded", "running", "marshalling"},
           \/ Refuse(r) \/ GateRefuse(r)
           \/ Gone(r) /\ ctxDone[r]
              /\ IF route[r] = "reports" THEN EmitTerminal(r) ELSE UNCHANGED reportEvents,
           IF pc[r] \in {"running", "marshalling"}
           THEN ReleaseAdmission(r) ELSE UNCHANGED admission,
           UNCHANGED <<draining, ctxDone, arrival, bodyDecodes, responseWrites, contextHandlers,
                       admitted>>
    PROVE  ServerInv'
<1>1. RequestInv(r) /\ Unanswered(r)
  BY DEF ServerInv, RequestInv
<1>2. Ends(r)
  BY <1>1, RefusalEnds DEF ServerInv, arrival
<1>3. admission' = IF r \in Admitting THEN admission - 1 ELSE admission
  BY DEF ReleaseAdmission, Admitting
<1>4. QED
  BY <1>2, <1>3, EndStep

(* The steps up to the handler's work. *)
LEMMA AdmissionSteps ==
    ASSUME ServerInv, NEW r \in Requests,
           \/ Gate(r) \/ AdmitContext(r) \/ BeginReport(r) \/ RefuseSize(r) \/ DecodeBegin(r)
           \/ DecodeEnd(r) \/ RefuseBody(r) \/ AcceptContext(r) \/ AdmitReport(r)
    PROVE  ServerInv'
<1> USE ReportServerAssumption DEF AtRoute
<1>0. RequestInv(r)
  BY DEF ServerInv
<1>1. CASE Gate(r)
  <2>1. CASE GateRefuse(r)
    BY <1>1, <2>1, RefusingStep DEF Gate, slots
  <2>2. CASE ~GateRefuse(r)
    <3>1. /\ pc[r] = "gate" /\ Go(r, "start") /\ (route[r] = "options" \/ ~draining)
          /\ UNCHANGED <<reportEvents, answer, draining, ctxDone, slots, arrival>>
      BY <1>1, <2>2 DEF Gate
    <3>2. SlotStep(r)
      BY <3>1 DEF SlotStep, Bit, Admitting, Decoding, Writing, Contexts, Go, ServerInv, TypeOK, slots, arrival
    <3>3. QED
      BY <1>0, <3>1, <3>2, MoveStep DEF RequestInv, ServerInv, TypeOK, slots
  <2>3. QED
    BY <2>1, <2>2
<1>2. CASE AdmitContext(r)
  <2>1. CASE ~ctxDone[r] /\ contextHandlers < MaxContexts
    <3>1. /\ pc[r] = "start" /\ route[r] = "context" /\ Go(r, "sizing")
          /\ contextHandlers' = contextHandlers + 1
          /\ admitted' = [admitted EXCEPT ![r] = TRUE]
          /\ UNCHANGED <<reportEvents, answer, draining, ctxDone, admission, bodyDecodes,
                         responseWrites, arrival>>
      BY <1>2, <2>1 DEF AdmitContext
    <3>2. SlotStep(r)
      BY <1>0, <2>1, <3>1 DEF SlotStep, Bit, Admitting, Decoding, Writing, Contexts, Go, ServerInv, TypeOK, slots, arrival, RequestInv
    <3>3. admitted' \in [Requests -> BOOLEAN]
          /\ \A s \in Requests \ {r} : admitted'[s] = admitted[s]
      BY <3>1 DEF ServerInv, TypeOK
    <3>4. QED
      BY <1>0, <3>1, <3>2, <3>3, MoveStep DEF RequestInv
  <2>2. CASE ~(~ctxDone[r] /\ contextHandlers < MaxContexts)
    BY <1>2, <2>2, RefusingStep DEF AdmitContext, Refuse
  <2>3. QED
    BY <2>1, <2>2
<1>3. CASE BeginReport(r)
  <2>1. SlotStep(r)
    BY <1>3 DEF SlotStep, Bit, Admitting, Decoding, Writing, Contexts, Go, ServerInv, TypeOK, slots, arrival, BeginReport
  <2>2. QED
    BY <1>0, <1>3, <2>1, MoveStep DEF BeginReport, RequestInv, ServerInv, TypeOK, slots
<1>4. CASE RefuseSize(r)
  BY <1>4, RefusingStep DEF RefuseSize, slots
<1>5. CASE DecodeBegin(r)
  <2>1. CASE bodyDecodes < MaxDecodes
    <3>1. SlotStep(r)
      BY <1>5, <2>1 DEF SlotStep, Bit, Admitting, Decoding, Writing, Contexts, Go, ServerInv, TypeOK, slots, arrival, DecodeBegin
    <3>2. QED
      BY <1>0, <1>5, <2>1, <3>1, MoveStep DEF DecodeBegin, RequestInv, ServerInv, TypeOK
  <2>2. CASE ~(bodyDecodes < MaxDecodes)
    BY <1>5, <2>2, RefusingStep DEF DecodeBegin
  <2>3. QED
    BY <2>1, <2>2
<1>6. CASE DecodeEnd(r)
  <2>1. SlotStep(r)
    BY <1>6 DEF SlotStep, Bit, Admitting, Decoding, Writing, Contexts, Go, ServerInv, TypeOK, slots, arrival, DecodeEnd
  <2>2. QED
    BY <1>0, <1>6, <2>1, MoveStep DEF DecodeEnd, RequestInv, ServerInv, TypeOK
<1>7. CASE RefuseBody(r)
  BY <1>7, RefusingStep DEF RefuseBody, slots
<1>8. CASE AcceptContext(r)
  <2>1. SlotStep(r)
    BY <1>8 DEF SlotStep, Bit, Admitting, Decoding, Writing, Contexts, Go, ServerInv, TypeOK, slots, arrival, AcceptContext
  <2>2. QED
    BY <1>0, <1>8, <2>1, MoveStep DEF AcceptContext, RequestInv, ServerInv, TypeOK, slots
<1>9. CASE AdmitReport(r)
  <2>1. CASE admission < MaxReports
    <3>1. SlotStep(r)
      BY <1>9, <2>1 DEF SlotStep, Bit, Admitting, Decoding, Writing, Contexts, Go, ServerInv, TypeOK, slots, arrival, AdmitReport
    <3>2. QED
      BY <1>0, <1>9, <2>1, <3>1, MoveStep DEF AdmitReport, RequestInv, ServerInv, TypeOK
  <2>2. CASE ~(admission < MaxReports)
    BY <1>9, <2>2, RefusingStep DEF AdmitReport
  <2>3. QED
    BY <2>1, <2>2
<1>10. QED
  BY <1>1, <1>2, <1>3, <1>4, <1>5, <1>6, <1>7, <1>8, <1>9

(* The handler's work and its response. *)
LEMMA WorkSteps ==
    ASSUME ServerInv, NEW r \in Requests,
           \/ RunCancelled(r) \/ RunFailed(r) \/ RunReturn(r) \/ MarshalFailed(r)
           \/ ClaimWrite(r) \/ WriteBegin(r) \/ ReleaseWrite(r)
    PROVE  ServerInv'
<1> USE ReportServerAssumption
<1>0. RequestInv(r)
  BY DEF ServerInv
<1>1. CASE RunCancelled(r)
  BY <1>1, RefusingStep DEF RunCancelled
<1>2. CASE RunFailed(r)
  BY <1>2, RefusingStep DEF RunFailed
<1>3. CASE RunReturn(r)
  <2>1. SlotStep(r)
    BY <1>3 DEF SlotStep, Bit, Admitting, Decoding, Writing, Contexts, Go, ServerInv, TypeOK, slots, arrival, RunReturn
  <2>2. QED
    BY <1>0, <1>3, <2>1, MoveStep DEF RunReturn, RequestInv, ServerInv, TypeOK, slots
<1>4. CASE MarshalFailed(r)
  BY <1>4, RefusingStep DEF MarshalFailed
<1>5. CASE ClaimWrite(r)
  <2>1. CASE responseWrites < MaxWrites
    <3>1. SlotStep(r)
      BY <1>5, <2>1 DEF SlotStep, Bit, Admitting, Decoding, Writing, Contexts, Go, ServerInv, TypeOK, slots, arrival, ClaimWrite
    <3>2. QED
      BY <1>0, <1>5, <2>1, <3>1, MoveStep DEF ClaimWrite, RequestInv, ServerInv, TypeOK
  <2>2. CASE ~(responseWrites < MaxWrites)
    BY <1>5, <2>2, RefusingStep DEF ClaimWrite
  <2>3. QED
    BY <2>1, <2>2
<1>6. CASE WriteBegin(r)
  <2>1. SlotStep(r)
    BY <1>6 DEF SlotStep, Bit, Admitting, Decoding, Writing, Contexts, Go, ServerInv, TypeOK, slots, arrival, WriteBegin, ReleaseAdmission
  <2>2. QED
    BY <1>0, <1>6, <2>1, MoveStep DEF WriteBegin, RequestInv, ServerInv, TypeOK
<1>7. CASE ReleaseWrite(r)
  <2>1. SlotStep(r)
    BY <1>7 DEF SlotStep, Bit, Admitting, Decoding, Writing, Contexts, Go, ServerInv, TypeOK, slots, arrival, ReleaseWrite
  <2>2. QED
    BY <1>0, <1>7, <2>1, MoveStep DEF ReleaseWrite, RequestInv, ServerInv, TypeOK
<1>8. QED
  BY <1>1, <1>2, <1>3, <1>4, <1>5, <1>6, <1>7

(* The routes with no state: one response, never a terminal report event. *)
LEMMA ServePlainStep ==
    ASSUME ServerInv, NEW r \in Requests, ServePlain(r)
    PROVE  ServerInv'
<1> USE DEF ServerInv, TypeOK
<1>1. RequestInv(r) /\ Unanswered(r)
  BY DEF RequestInv, ServePlain
<1>2. PICK code \in {"200", "error"}, o \in {"ok", "refused", "write_failed"} :
          /\ status' = [status EXCEPT ![r] = code] /\ outcome' = [outcome EXCEPT ![r] = o]
          /\ reply' = [reply EXCEPT ![r] = code]
          /\ o = "ok" => code = "200"
  BY <1>1 DEF ServePlain, Respond, Unanswered
<1>3. status'[r] = code /\ outcome'[r] = o /\ reply'[r] = code
  BY <1>2
<1>4. /\ reply' \in [Requests -> {"none", "200", "error"}]
      /\ status' \in [Requests -> {"none", "200", "499", "error"}]
      /\ outcome' \in [Requests -> {"none", "ok", "refused", "cancel", "write_failed", "panic"}]
  BY <1>2
<1>5. \A s \in Requests \ {r} :
          reply'[s] = reply[s] /\ status'[s] = status[s] /\ outcome'[s] = outcome[s]
  BY <1>2
<1>6. Truthful(r)'
  BY <1>2, <1>3 DEF Truthful
<1>7. /\ AnswerTypes'
      /\ \A s \in Requests \ {r} :
            /\ terminals'[s] = terminals[s] /\ reportTerminal'[s] = reportTerminal[s]
      /\ reportTerminal'[r] <=> terminals'[r] # 0
      /\ Emitted(r)'
  BY <1>1, <1>4 DEF ServePlain, reportEvents, arrival, AnswerTypes, RequestInv, Unanswered, Emitted
<1>8. Ends(r)
  BY <1>5, <1>6, <1>7 DEF Ends, ServePlain
<1>9. QED
  BY <1>8, EndStep DEF ServePlain, slots, arrival, Admitting

(* A panic found the request unanswered, or its result already sent. *)
LEMMA ContainPanicStep ==
    ASSUME ServerInv, NEW r \in Requests, ContainPanic(r)
    PROVE  ServerInv'
<1> USE DEF ServerInv, TypeOK
<1>1. /\ RequestInv(r) /\ pc[r] = "panicked" /\ (Unanswered(r) \/ Sent(r))
      /\ UNCHANGED <<draining, ctxDone, slots, arrival>> /\ Go(r, "deferred")
  BY DEF ContainPanic, Contain, RequestInv
<1>2. PICK code \in {"200", "error"} :
          /\ status' = [status EXCEPT ![r] = code] /\ outcome' = [outcome EXCEPT ![r] = "panic"]
          /\ reply' = [reply EXCEPT ![r] = code]
  BY <1>1 DEF ContainPanic, Contain, Unanswered, Sent
<1>3. status'[r] = code /\ outcome'[r] = "panic" /\ reply'[r] = code
  BY <1>2
<1>4. /\ reply' \in [Requests -> {"none", "200", "error"}]
      /\ status' \in [Requests -> {"none", "200", "499", "error"}]
      /\ outcome' \in [Requests -> {"none", "ok", "refused", "cancel", "write_failed", "panic"}]
  BY <1>2
<1>5. \A s \in Requests \ {r} :
          reply'[s] = reply[s] /\ status'[s] = status[s] /\ outcome'[s] = outcome[s]
  BY <1>2
<1>6. Truthful(r)'
  BY <1>3 DEF Truthful
<1>7. /\ terminals' \in [Requests -> Nat] /\ reportTerminal' \in [Requests -> BOOLEAN]
      /\ \A s \in Requests \ {r} :
            terminals'[s] = terminals[s] /\ reportTerminal'[s] = reportTerminal[s]
      /\ reportTerminal'[r] <=> terminals'[r] # 0
      /\ Emitted(r)'
  <2>1. CASE Unanswered(r)
    <3>1. terminals[r] = 0 /\ ~reportTerminal[r]
      BY <1>1, <2>1 DEF Unanswered, RequestInv
    <3>2. IF route[r] = "reports" THEN EmitTerminal(r) ELSE UNCHANGED reportEvents
      BY <3>1 DEF ContainPanic, Contain
    <3>3. QED
      BY <1>1, <3>1, <3>2, FirstTerminal DEF arrival
  <2>2. CASE Sent(r)
    <3>1. Emitted(r) /\ (route[r] = "reports" => reportTerminal[r])
      BY <1>1, <2>2 DEF Sent, Emitted, RequestInv
    <3>2. UNCHANGED reportEvents
      BY <3>1 DEF ContainPanic, Contain
    <3>3. QED
      BY <1>1, <3>1, <3>2 DEF reportEvents, arrival, Emitted, RequestInv
  <2>3. QED
    BY <1>1, <2>1, <2>2
<1>8. Ends(r)
  BY <1>1, <1>4, <1>5, <1>6, <1>7 DEF Ends, AnswerTypes
<1>9. QED
  BY <1>1, <1>8, EndStep DEF slots, arrival, Admitting

(* The result is written and, for a report, its finish emitted. *)
LEMMA WriteEndStep ==
    ASSUME ServerInv, NEW r \in Requests, WriteEnd(r)
    PROVE  ServerInv'
<1>1. /\ RequestInv(r) /\ Unanswered(r) /\ pc[r] = "writing"
      /\ pc' = [pc EXCEPT ![r] = "written"] /\ pc'[r] = "written"
      /\ UNCHANGED <<draining, ctxDone, slots, arrival>>
  BY DEF WriteEnd, RequestInv, ServerInv, TypeOK, Go
<1>2. PICK o \in {"ok", "write_failed"} :
          /\ status' = [status EXCEPT ![r] = "200"] /\ outcome' = [outcome EXCEPT ![r] = o]
          /\ reply' = [reply EXCEPT ![r] = "200"]
  BY <1>1 DEF WriteEnd, Respond, Unanswered, ServerInv, TypeOK
<1>3. status'[r] = "200" /\ outcome'[r] = o /\ reply'[r] = "200"
  BY <1>2 DEF ServerInv, TypeOK
<1>4. /\ reply' \in [Requests -> {"none", "200", "error"}]
      /\ status' \in [Requests -> {"none", "200", "499", "error"}]
      /\ outcome' \in [Requests -> {"none", "ok", "refused", "cancel", "write_failed", "panic"}]
  BY <1>2 DEF ServerInv, TypeOK
<1>5. \A s \in Requests \ {r} :
          reply'[s] = reply[s] /\ status'[s] = status[s] /\ outcome'[s] = outcome[s]
  BY <1>2 DEF ServerInv, TypeOK
<1>6. /\ terminals' \in [Requests -> Nat] /\ reportTerminal' \in [Requests -> BOOLEAN]
      /\ \A s \in Requests \ {r} :
            terminals'[s] = terminals[s] /\ reportTerminal'[s] = reportTerminal[s]
      /\ reportTerminal'[r] <=> terminals'[r] # 0
      /\ Emitted(r)'
  BY <1>1, FirstTerminal DEF WriteEnd, RequestInv, Unanswered, ServerInv, arrival
<1>7. TypeOK'
  <2>1. pc' \in [Requests -> {"idle", "gate", "start", "sizing", "decoding", "decoded", "running",
                             "marshalling", "claimed", "writing", "written", "panicked",
                             "deferred", "ending", "ended"}]
    BY <1>1 DEF ServerInv, TypeOK
  <2>2. QED
    BY <1>1, <1>4, <1>6, <2>1 DEF ServerInv, TypeOK, slots, arrival
<1>8. OnlyOf(r)
  BY <1>1, <1>5, <1>6 DEF OnlyOf, slots, arrival
<1>9. SlotStep(r)
  BY <1>1 DEF SlotStep, Bit, Admitting, Decoding, Writing, Contexts, Go, ServerInv, TypeOK, slots, arrival
<1>10. RequestInv(r)'
  BY <1>1, <1>3, <1>6 DEF RequestInv, Sent, arrival, slots
<1>11. QED
  BY <1>7, <1>8, <1>9, <1>10, RequestStep

(* Panics run the deferred releases; serveHTTP's own deferred function ends *)
(* the request.                                                             *)
LEMMA EndingSteps ==
    ASSUME ServerInv, NEW r \in Requests, Panic(r) \/ EmitHTTPTerminal(r) \/ End(r)
    PROVE  ServerInv'
<1>0. RequestInv(r)
  BY DEF ServerInv
<1>1. CASE Panic(r)
  <2>1. SlotStep(r)
    BY <1>1 DEF SlotStep, Bit, Admitting, Decoding, Writing, Contexts, Go, ServerInv, TypeOK, slots, arrival, Panic, MayPanic
  <2>2. QED
    BY <1>1, <2>1, MoveStep DEF Panic, ServerInv, TypeOK
<1>2. CASE EmitHTTPTerminal(r)
  <2>1. status[r] # "none"
    BY <1>0, <1>2 DEF RequestInv, EmitHTTPTerminal, Truthful
  <2>2. status' = status /\ outcome' = outcome
    BY <1>2, <2>1 DEF EmitHTTPTerminal, ServerInv, TypeOK
  <2>3. /\ pc[r] = "deferred" /\ Go(r, "ending")
        /\ UNCHANGED <<draining, ctxDone, slots, reportEvents, answer, arrival>>
    BY <1>2, <2>2 DEF EmitHTTPTerminal, answer
  <2>4. SlotStep(r)
    BY <2>3 DEF SlotStep, Bit, Admitting, Decoding, Writing, Contexts, Go, ServerInv, TypeOK, slots, arrival
  <2>5. QED
    BY <2>3, <2>4, MoveStep DEF ServerInv, TypeOK, slots
<1>3. CASE End(r)
  <2>1. SlotStep(r)
    BY <1>3 DEF SlotStep, Bit, Admitting, Decoding, Writing, Contexts, Go, ServerInv, TypeOK, slots, arrival, End
  <2>2. QED
    BY <1>3, <2>1, MoveStep DEF End, ServerInv, TypeOK
<1>4. QED
  BY <1>1, <1>2, <1>3

(* Requests arrive and clients leave. *)
LEMMA ClientSteps ==
    ASSUME ServerInv, NEW r \in Requests,
           \/ \E on \in {"reports", "context", "plain", "options"} : Arrive(r, on)
           \/ Disconnect(r)
    PROVE  ServerInv'
<1>0. RequestInv(r)
  BY DEF ServerInv
<1>1. ASSUME NEW on \in {"reports", "context", "plain", "options"}, Arrive(r, on)
      PROVE  ServerInv'
  <2>1. /\ pc[r] = "idle" /\ pc' = [pc EXCEPT ![r] = "gate"]
        /\ route' = [route EXCEPT ![r] = on] /\ lateArrival' = [lateArrival EXCEPT ![r] = draining]
        /\ UNCHANGED <<draining, ctxDone, slots, reportEvents, answer>>
    BY <1>1 DEF Arrive, Go
  <2>2. pc'[r] = "gate" /\ route'[r] = on /\ (lateArrival'[r] <=> draining)
    BY <2>1 DEF ServerInv, TypeOK
  <2>3. TypeOK'
    <3>1. pc' \in [Requests -> {"idle", "gate", "start", "sizing", "decoding", "decoded", "running",
                               "marshalling", "claimed", "writing", "written", "panicked",
                               "deferred", "ending", "ended"}]
      BY <2>1 DEF ServerInv, TypeOK
    <3>2. /\ route' \in [Requests -> {"reports", "context", "plain", "options"}]
          /\ lateArrival' \in [Requests -> BOOLEAN]
      BY <2>1 DEF ServerInv, TypeOK
    <3>3. QED
      BY <2>1, <3>1, <3>2 DEF ServerInv, TypeOK, slots, reportEvents, answer
  <2>4. OnlyOf(r)
    BY <2>1 DEF OnlyOf, ServerInv, TypeOK, slots, reportEvents, answer
  <2>5. SlotStep(r)
    BY <2>1, <2>2 DEF SlotStep, Bit, Admitting, Decoding, Writing, Contexts, Go, ServerInv, TypeOK, slots, arrival
  <2>6. RequestInv(r)'
    BY <1>0, <2>1, <2>2 DEF RequestInv, Unanswered, slots, reportEvents, answer
  <2>7. QED
    BY <2>3, <2>4, <2>5, <2>6, RequestStep
<1>2. CASE Disconnect(r)
  <2>1. /\ ctxDone' = [ctxDone EXCEPT ![r] = TRUE] /\ ctxDone'[r]
        /\ UNCHANGED <<draining, pc, slots, reportEvents, answer, arrival>>
    BY <1>2 DEF Disconnect, ServerInv, TypeOK
  <2>2. TypeOK'
    BY <2>1 DEF ServerInv, TypeOK, slots, reportEvents, answer, arrival
  <2>3. OnlyOf(r)
    BY <2>1 DEF OnlyOf, ServerInv, TypeOK, slots, reportEvents, answer, arrival
  <2>4. SlotStep(r)
    BY <2>1 DEF SlotStep, Bit, Admitting, Decoding, Writing, Contexts, Go, ServerInv, TypeOK, slots, arrival
  <2>5. RequestInv(r)'
    BY <1>0, <2>1 DEF RequestInv, Unanswered, Sent, Emitted, Truthful, slots, reportEvents, answer, arrival
  <2>6. QED
    BY <2>2, <2>3, <2>4, <2>5, RequestStep
<1>3. QED
  BY <1>1, <1>2

-----------------------------------------------------------------------------
LEMMA ServerInitInv == Init => ServerInv
<1> SUFFICES ASSUME Init
             PROVE  ServerInv
  OBVIOUS
<1>1. TypeOK
  <2>1. {admission, bodyDecodes, responseWrites, contextHandlers} \subseteq Int
    BY DEF Init
  <2>2. /\ draining \in BOOLEAN /\ ctxDone \in [Requests -> BOOLEAN]
        /\ admitted \in [Requests -> BOOLEAN] /\ reportTerminal \in [Requests -> BOOLEAN]
        /\ lateArrival \in [Requests -> BOOLEAN]
    BY DEF Init
  <2>3. QED
    BY <2>1, <2>2 DEF Init, TypeOK
<1>2. SlotsAreHeld
  <2>1. /\ {r \in Requests : pc[r] \in {"running", "marshalling", "claimed"} /\ route[r] = "reports"} = {}
        /\ {r \in Requests : pc[r] \in {"decoding"}} = {}
        /\ {r \in Requests : pc[r] \in {"claimed", "writing", "written"}} = {}
        /\ {r \in Requests : admitted[r] /\ pc[r] # "ended"} = {}
    BY DEF Init
  <2>2. Cardinality({}) = 0
    BY FS_EmptySet
  <2>3. QED
    BY <2>1, <2>2, ReportServerAssumption DEF Init, SlotsAreHeld, Holding, Reporting
<1>3. \A r \in Requests : RequestInv(r)
  BY DEF Init, RequestInv, Unanswered
<1>4. QED
  BY <1>1, <1>2, <1>3 DEF ServerInv

LEMMA ServerNextInv == ServerInv /\ [Next]_vars => ServerInv'
<1> SUFFICES ASSUME ServerInv, [Next]_vars
             PROVE  ServerInv'
  OBVIOUS
<1>1. ASSUME NEW r \in Requests, Handle(r)
      PROVE  ServerInv'
  BY <1>1, AdmissionSteps, WorkSteps, ServePlainStep, WriteEndStep, ContainPanicStep, EndingSteps
  DEF Handle
<1>2. ASSUME NEW r \in Requests, Panic(r)
      PROVE  ServerInv'
  BY <1>2, EndingSteps
<1>3. ASSUME NEW r \in Requests, Disconnect(r) \/
             \E on \in {"reports", "context", "plain", "options"} : Arrive(r, on)
      PROVE  ServerInv'
  BY <1>3, ClientSteps
<1>4. CASE BeginDrain \/ UNCHANGED vars
  <2>1. /\ UNCHANGED <<pc, ctxDone, slots, reportEvents, answer, arrival>>
        /\ draining' \in BOOLEAN /\ (draining => draining')
    BY <1>4 DEF BeginDrain, vars, ServerInv, TypeOK
  <2>2. TypeOK' /\ SlotsAreHeld'
    BY <2>1 DEF ServerInv, TypeOK, SlotsAreHeld, Holding, Reporting, slots, reportEvents, answer, arrival
  <2>3. \A r \in Requests : RequestInv(r)'
    BY <2>1 DEF ServerInv, RequestInv, Unanswered, Sent, Emitted, Truthful, slots, reportEvents, answer,
                arrival
  <2>4. QED
    BY <2>2, <2>3 DEF ServerInv
<1>5. QED
  BY <1>1, <1>2, <1>3, <1>4 DEF Next

(* Type correctness, the slot accounting and what each request has answered *)
(* hold in every reachable state of serveHTTP and its two handlers.         *)
THEOREM ServerInvariant == Spec => []ServerInv
BY ServerInitInv, ServerNextInv, PTL DEF Spec

(* The four slot channels hold exactly the requests inside the parts of the *)
(* handlers they bound, on every path out of them, panics included.         *)
THEOREM SlotsAreHeldHolds == Spec => []SlotsAreHeld
<1>1. ServerInv => SlotsAreHeld
  BY DEF ServerInv
<1>2. QED
  BY <1>1, ServerInvariant, PTL

(* A report emits exactly one of report_finish, report_reject and           *)
(* report_cancel before its http_terminal event.                            *)
THEOREM OneReportTerminalHolds == Spec => []OneReportTerminal
<1>1. ServerInv => OneReportTerminal
  BY DEF ServerInv, TypeOK, RequestInv, Unanswered, Sent, Emitted, OneReportTerminal
<1>2. QED
  BY <1>1, ServerInvariant, PTL

(* The recorded status and outcome are what the client was sent. *)
THEOREM TerminalIsTruthfulHolds == Spec => []TerminalIsTruthful
<1>1. ServerInv => TerminalIsTruthful
  BY DEF ServerInv, RequestInv, Truthful, TerminalIsTruthful
<1>2. QED
  BY <1>1, ServerInvariant, PTL

(* A request that arrives after beginDrain starts no work. *)
THEOREM DrainingStartsNothingHolds == Spec => []DrainingStartsNothing
<1>1. ServerInv => DrainingStartsNothing
  BY DEF ServerInv, RequestInv, DrainingStartsNothing
<1>2. QED
  BY <1>1, ServerInvariant, PTL

(* Such a topology: the client accepts it, and its length is known. *)
LEMMA DepictedHolds ==
    ASSUME NEW rep \in ReportSet, NEW limit \in Int, NEW t, NEW n, Depicts(t, rep, limit, n)
    PROVE  /\ NormalizeCompactTopology(t, rep)
           /\ BundleCount(t) = n /\ n \in Nat
           /\ t.accepted = Taken(rep, limit)
           /\ Size(t) = BulkOf(rep, limit) + BundleSize * n /\ Size(t) \in Nat
           /\ t # None
<1>r. PICK routes : routes = RoutesOf(rep)
  OBVIOUS
<1>s. PICK st : st = Chosen(rep, limit)
  OBVIOUS
<1>1. PICK B, reasons : /\ B \in SUBSET Fitting(SelectedKeys(st, routes)) /\ Cardinality(B) = n
                        /\ t = Drawing(rep, routes, st, B, reasons)
  BY <1>r, <1>s DEF Depicts
<1>2. routes \in Seq(TracesOf(rep)) /\ routes \in Seq(TraceSet) /\ SelectionInv(st, routes)
  BY <1>r, <1>s, ChosenHolds
<1>3. NormalizeCompactTopology(t, rep)
  <2>1. rep \in ReportSet
    OBVIOUS
  <2>2. NormalizeCompactTopology(Drawing(rep, routes, st, B, reasons), rep)
    BY ONLY <1>1, <1>2, <2>1, DrawingIsAccepted
  <2> QED BY <1>1, <2>2
<1>4. /\ BundleCount(t) = n /\ n \in Nat /\ t.accepted = st.taken
      /\ Size(t) = Bulk(st, routes) + BundleSize * n
  <2>1. LET u == Drawing(rep, routes, st, B, reasons)
        IN  /\ BundleCount(u) = Cardinality(B) /\ Cardinality(B) \in Nat
            /\ u.accepted = st.taken
            /\ Size(u) = Bulk(st, routes) + BundleSize * Cardinality(B)
    BY ONLY <1>1, <1>2, SizeHolds
  <2> QED BY <1>1, <2>1
<1>5. Bulk(st, routes) \in Nat
  BY <1>2, BulkHolds
<1>6. Size(t) \in Nat
  <2>1. BundleSize \in Nat
    BY CompactAssumption
  <2> QED BY <1>4, <1>5, <2>1
<1>7. t # None
  <2>1. "nodes" \in DOMAIN t
    BY ONLY <1>1 DEF Drawing
  <2>2. "nodes" \notin DOMAIN None
    BY DEF None
  <2> QED BY <2>1, <2>2
<1> QED BY <1>3, <1>4, <1>6, <1>7, <1>r, <1>s DEF Taken, BulkOf

-----------------------------------------------------------------------------
(* The pipeline: its invariant, and what holds of everything that is sent. *)

(* The reports of the model are of the form the lemmas are about.          *)
LEMMA ReportsAreReports == Reports \in SUBSET ReportSet
BY PipelineAssumption DEF ReportSet, Attempts

(* The two searches.  What lies outside the bounds is known: the best      *)
(* candidate fits, and the next larger one does not.                       *)
IsSearch ==
    /\ search = [low |-> search.low, high |-> search.high, best |-> search.best]
    /\ search.low \in Nat /\ search.high \in Int /\ search.low <= search.high + 1

GeoSearch ==
    /\ IsSearch
    /\ search.low >= 1 /\ search.high <= BundleCount(initial)
    /\ BulkOf(report, -1) + BundleSize * (BundleCount(initial) - search.low + 1) >= room
    /\ \/ search.best = None /\ search.high = BundleCount(initial)
       \/ /\ Depicts(search.best, report, -1, BundleCount(initial) - search.high - 1)
          /\ Fits(search.best)

TransactionSearch ==
    /\ IsSearch
    /\ search.high + 1 <= initial.accepted
    /\ BulkOf(report, search.high + 1) >= room
    /\ \/ search.best = None
       \/ /\ search.low >= 1 /\ Depicts(search.best, report, search.low - 1, 0)
          /\ Fits(search.best)

Initial == Depicts(initial, report, -1, BundleCount(initial))

SentAsCut ==
    /\ Fits(sent)
    /\ \/ sent = initial
       \/ /\ sent.accepted = initial.accepted /\ BundleCount(sent) < BundleCount(initial)
          /\ Size(sent) + BundleSize >= room
       \/ /\ BundleCount(sent) = 0
          /\ sent.accepted < initial.accepted
          /\ ~Fits(Build(report, sent.accepted + 1, FALSE))

PipelineInv ==
    /\ phase # "refused"
    /\ room \in Nat
    /\ phase # "idle" => report \in ReportSet
    /\ phase \in {"idle", "checked"} => sent = None
    /\ phase = "geo" => Initial /\ GeoSearch
    /\ phase = "transactions" => Initial /\ TransactionSearch
    /\ phase = "sent" /\ sent # None => NormalizeCompactTopology(sent, report) /\ SentAsCut

(* At first nothing is built.                                              *)
LEMMA InitialInv == PipelineInit => PipelineInv
BY DEF PipelineInit, PipelineInv

(* The checkers end.                                                       *)
LEMMA CheckKeeps ==
    ASSUME PipelineInv, NEW rep \in Reports, NEW limit \in Rooms, Check(rep, limit)
    PROVE  PipelineInv'
<1>1. rep \in ReportSet /\ limit \in Nat
  BY ReportsAreReports, PipelineAssumption
<1>2. phase' = "checked" /\ report' = rep /\ room' = limit /\ sent' = None
  BY DEF Check, PipelineInv
<1> QED BY ONLY <1>1, <1>2 DEF PipelineInv

(* The topology as it is first built. *)
LEMMA MarshalKeeps ==
    ASSUME PipelineInv, MarshalInitial
    PROVE  PipelineInv'
<1>b. PICK built : built = Build(report, -1, TRUE)
  OBVIOUS
<1>1. /\ phase = "checked" /\ initial' = built /\ report' = report /\ room' = room
      /\ \/ Fits(built) /\ phase' = "sent" /\ sent' = built
         \/ ~Fits(built) /\ phase' = "geo" /\ search' = Search(1, BundleCount(built))
  BY <1>b DEF MarshalInitial, MarshalWith
<1>2. report \in ReportSet /\ room \in Nat
  BY <1>1 DEF PipelineInv
<1>3. PICK n : Depicts(built, report, -1, n)
  <2>1. -1 \in Int /\ TRUE \in BOOLEAN
    OBVIOUS
  <2>2. \E n : Depicts(Build(report, -1, TRUE), report, -1, n)
    BY ONLY <1>2, <2>1, BuiltHolds
  <2> QED BY <1>b, <2>2
<1>4. /\ NormalizeCompactTopology(built, report) /\ BundleCount(built) = n /\ n \in Nat
      /\ Size(built) = BulkOf(report, -1) + BundleSize * n /\ Size(built) \in Nat
  <2>1. -1 \in Int
    OBVIOUS
  <2> QED BY ONLY <1>2, <1>3, <2>1, DepictedHolds
<1>5. CASE Fits(built) /\ phase' = "sent" /\ sent' = built
  <2>1. SentAsCut'
    BY <1>1, <1>5 DEF SentAsCut, Fits
  <2>2. NormalizeCompactTopology(sent, report)'
    BY <1>1, <1>4, <1>5
  <2> QED BY ONLY <1>1, <1>2, <1>5, <2>1, <2>2 DEF PipelineInv
<1>6. CASE ~Fits(built) /\ phase' = "geo" /\ search' = Search(1, BundleCount(built))
  <2>1. search' = [low |-> 1, high |-> n, best |-> None]
    BY ONLY <1>4, <1>6 DEF Search
  <2>2. BulkOf(report, -1) + BundleSize * n >= room
    BY <1>2, <1>4, <1>6 DEF Fits
  <2>3. Initial'
    BY ONLY <1>1, <1>3, <1>4 DEF Initial
  <2>4. search'.low = 1 /\ search'.high = n /\ search'.best = None /\ BundleCount(initial)' = n /\ n - 1 + 1 = n
    BY <1>1, <1>4, <2>1
  <2>5. IsSearch'
    BY ONLY <2>1, <2>4, <1>4 DEF IsSearch
  <2>6. BulkOf(report, -1)' = BulkOf(report, -1)
    BY <1>1
  <2>7. GeoSearch'
    BY ONLY <1>1, <1>4, <2>2, <2>4, <2>5, <2>6 DEF GeoSearch
  <2> QED BY ONLY <1>1, <1>2, <1>6, <2>3, <2>7 DEF PipelineInv
<1> QED BY ONLY <1>1, <1>5, <1>6

(* A probe halves what is open of a search. *)
LEMMA MiddleHolds ==
    ASSUME IsSearch, search.low <= search.high
    PROVE  /\ Middle \in Nat /\ search.low <= Middle /\ Middle <= search.high
           /\ search.high \in Nat
<1>l. PICK l, h : l = search.low /\ h = search.high
  OBVIOUS
<1>1. l \in Nat /\ h \in Int /\ l <= h
  BY <1>l DEF IsSearch
<1>2. (h - l) \div 2 \in Nat /\ (h - l) \div 2 <= h - l
  BY <1>1
<1>3. Middle = l + (h - l) \div 2
  BY <1>l DEF Middle
<1> QED BY <1>1, <1>2, <1>3, <1>l

(* A probe of the search for how few bundles have to go: cut candidates are *)
(* of known length, so the bound that moves says what does not fit.        *)
LEMMA GeoKeeps ==
    ASSUME PipelineInv, ProbeGeo
    PROVE  PipelineInv'
<1>n. PICK n : n = BundleCount(initial)
  OBVIOUS
<1>m. PICK m : m = Middle
  OBVIOUS
<1>l. PICK l, h : l = search.low /\ h = search.high
  OBVIOUS
<1>c. PICK candidate : candidate = Limited(WithoutLastGeoBundles(initial, m), TRUE)
  BY Zenon
<1>b. PICK bulk : bulk = BulkOf(report, -1)
  OBVIOUS
<1>1. /\ phase = "geo" /\ l <= h
      /\ phase' = phase /\ report' = report /\ room' = room /\ initial' = initial /\ sent' = sent
      /\ \/ Fits(candidate) /\ search' = [search EXCEPT !.best = candidate, !.high = m - 1]
         \/ ~Fits(candidate) /\ search' = [search EXCEPT !.low = m + 1]
  BY <1>c, <1>l, <1>m DEF ProbeGeo
<1>2. /\ report \in ReportSet /\ room \in Nat /\ Initial /\ GeoSearch
  BY <1>1 DEF PipelineInv
<1>3. search = [low |-> l, high |-> h, best |-> search.best] /\ l \in Nat /\ h \in Int /\ l >= 1 /\ h <= n
  BY <1>2, <1>l, <1>n DEF GeoSearch, IsSearch
<1>4. m \in Nat /\ l <= m /\ m <= h /\ h \in Nat
  BY <1>1, <1>2, <1>l, <1>m, MiddleHolds DEF GeoSearch
<1>5. n \in Nat /\ bulk \in Nat
  <2>1. Depicts(initial, report, -1, n)
    BY <1>2, <1>n DEF Initial
  <2>2. -1 \in Int
    OBVIOUS
  <2>3. n \in Nat
    BY ONLY <1>2, <2>1, <2>2, DepictedHolds
  <2>4. BulkOf(report, -1) \in Nat
    BY ONLY <1>2, <2>2, ChosenHolds
  <2> QED BY <1>b, <2>3, <2>4
<1>6. Depicts(candidate, report, -1, n - m)
  <2>1. Depicts(initial, report, -1, n)
    BY <1>2, <1>n DEF Initial
  <2>2. -1 \in Int /\ m \in 0 .. n
    BY <1>3, <1>4, <1>5
  <2>3. Depicts(Limited(WithoutLastGeoBundles(initial, m), TRUE), report, -1, n - m)
    BY ONLY <1>2, <2>1, <2>2, CutDepicts
  <2> QED BY <1>c, <2>3
<1>7. Size(candidate) = bulk + BundleSize * (n - m) /\ Size(candidate) \in Nat
  <2>1. -1 \in Int
    OBVIOUS
  <2> QED BY ONLY <1>2, <1>6, <1>b, <2>1, DepictedHolds
<1>8. Initial' /\ BulkOf(report, -1)' = bulk /\ BundleCount(initial)' = n
  BY <1>1, <1>2, <1>b, <1>n DEF Initial
<1>9. bulk + BundleSize * (n - l + 1) >= room
  BY <1>2, <1>b, <1>l, <1>n DEF GeoSearch
<1>10. CASE Fits(candidate) /\ search' = [search EXCEPT !.best = candidate, !.high = m - 1]
  <2>b. PICK best : best = search.best
    OBVIOUS
  <2>0. search = [low |-> l, high |-> h, best |-> best]
    BY ONLY <1>3, <2>b
  <2>1. search' = [low |-> l, high |-> m - 1, best |-> candidate]
    BY ONLY <2>0, <1>10
  <2>2. search'.low = l /\ search'.high = m - 1 /\ search'.best = candidate
    BY ONLY <2>1
  <2>3. IsSearch'
    BY <1>3, <1>4, <2>1, <2>2 DEF IsSearch
  <2>4. n - (m - 1) - 1 = n - m /\ m - 1 <= n
    BY <1>3, <1>4, <1>5
  <2>5. Depicts(search.best, report, -1, BundleCount(initial) - search.high - 1)'
    BY ONLY <1>1, <1>6, <1>8, <2>2, <2>4
  <2>6. Fits(search.best)'
    BY ONLY <1>1, <1>10, <2>2 DEF Fits
  <2>7. GeoSearch'
    BY ONLY <1>1, <1>3, <1>8, <1>9, <2>2, <2>3, <2>4, <2>5, <2>6 DEF GeoSearch
  <2> QED BY ONLY <1>1, <1>2, <1>8, <2>7 DEF PipelineInv
<1>11. CASE ~Fits(candidate) /\ search' = [search EXCEPT !.low = m + 1]
  <2>1. search' = [low |-> m + 1, high |-> h, best |-> search.best]
    BY ONLY <1>3, <1>11
  <2>2. search'.low = m + 1 /\ search'.high = h /\ search'.best = search.best
    BY ONLY <2>1
  <2>3. IsSearch'
    BY <1>3, <1>4, <2>1, <2>2 DEF IsSearch
  <2>4. n - (m + 1) + 1 = n - m /\ m + 1 >= 1
    BY <1>4, <1>5
  <2>5. bulk + BundleSize * (n - m) >= room
    BY <1>2, <1>7, <1>11 DEF Fits
  <2>6. (search.best = None /\ search.high = BundleCount(initial))'
           \/ (Depicts(search.best, report, -1, BundleCount(initial) - search.high - 1) /\ Fits(search.best))'
    <3>1. \/ search.best = None /\ h = n
          \/ Depicts(search.best, report, -1, n - h - 1) /\ Fits(search.best)
      BY <1>2, <1>l, <1>n DEF GeoSearch
    <3>2. Fits(search.best) => Fits(search.best)'
      BY ONLY <1>1, <2>2 DEF Fits
    <3>3. Depicts(search.best, report, -1, n - h - 1) =>
              Depicts(search.best, report, -1, BundleCount(initial) - search.high - 1)'
      BY ONLY <1>1, <1>8, <2>2
    <3> QED BY ONLY <1>8, <2>2, <3>1, <3>2, <3>3
  <2>7. GeoSearch'
    BY ONLY <1>1, <1>3, <1>8, <2>2, <2>3, <2>4, <2>5, <2>6 DEF GeoSearch
  <2> QED BY ONLY <1>1, <1>2, <1>8, <2>7 DEF PipelineInv
<1> QED BY ONLY <1>1, <1>10, <1>11

(* A probe of the search for how many hops fit: a selection of so many hops *)
(* is the beginning of the whole selection.                                *)
LEMMA TransactionsKeep ==
    ASSUME PipelineInv, ProbeTransactions
    PROVE  PipelineInv'
<1>m. PICK m : m = Middle
  OBVIOUS
<1>l. PICK l, h, best : l = search.low /\ h = search.high /\ best = search.best
  OBVIOUS
<1>g. PICK geo : geo = (BundleCount(initial) > 0)
  OBVIOUS
<1>c. PICK candidate : candidate = Limited(Build(report, m, FALSE), geo)
  BY Zenon
<1>1. /\ phase = "transactions" /\ l <= h
      /\ phase' = phase /\ report' = report /\ room' = room /\ initial' = initial /\ sent' = sent
      /\ \/ Fits(candidate) /\ search' = [search EXCEPT !.best = candidate, !.low = m + 1]
         \/ ~Fits(candidate) /\ search' = [search EXCEPT !.high = m - 1]
  BY <1>c, <1>g, <1>l, <1>m DEF ProbeTransactions
<1>2. /\ report \in ReportSet /\ room \in Nat /\ Initial /\ TransactionSearch
  BY <1>1 DEF PipelineInv
<1>3. search = [low |-> l, high |-> h, best |-> best] /\ l \in Nat /\ h \in Int
  BY <1>2, <1>l DEF TransactionSearch, IsSearch
<1>4. m \in Nat /\ l <= m /\ m <= h /\ h \in Nat
  BY <1>1, <1>2, <1>l, <1>m, MiddleHolds DEF TransactionSearch
<1>5. /\ h + 1 <= initial.accepted /\ BulkOf(report, h + 1) >= room
      /\ best = None \/ (l >= 1 /\ Depicts(best, report, l - 1, 0) /\ Fits(best))
  BY <1>2, <1>l DEF TransactionSearch
<1>6. Depicts(candidate, report, m, 0)
  <2>1. m \in Int /\ FALSE \in BOOLEAN /\ 0 \in 0 .. 0
    BY <1>4
  <2>2. Depicts(Build(report, m, FALSE), report, m, 0)
    BY ONLY <1>2, <2>1, BuiltHolds
  <2>3. Depicts(Limited(Build(report, m, FALSE), geo), report, m, 0)
    BY ONLY <1>2, <2>1, <2>2, CutDepicts
  <2> QED BY <1>c, <2>3
<1>7. Size(candidate) = BulkOf(report, m) /\ Size(candidate) \in Nat
  <2>1. m \in Int
    BY <1>4
  <2>2. Size(candidate) = BulkOf(report, m) + BundleSize * 0 /\ Size(candidate) \in Nat
    BY ONLY <1>2, <1>6, <2>1, DepictedHolds
  <2>3. BulkOf(report, m) \in Nat
    BY ONLY <1>2, <2>1, ChosenHolds
  <2> QED BY <2>2, <2>3, CompactAssumption
<1>8. Initial'
  BY <1>1, <1>2 DEF Initial
<1>9. CASE Fits(candidate) /\ search' = [search EXCEPT !.best = candidate, !.low = m + 1]
  <2>1. search' = [low |-> m + 1, high |-> h, best |-> candidate]
    BY ONLY <1>3, <1>9
  <2>2. search'.low = m + 1 /\ search'.high = h /\ search'.best = candidate
    BY ONLY <2>1
  <2>3. IsSearch'
    BY <1>3, <1>4, <2>1, <2>2 DEF IsSearch
  <2>4. (m + 1) - 1 = m /\ m + 1 >= 1
    BY <1>4
  <2>5. Depicts(search.best, report, search.low - 1, 0)'
    BY ONLY <1>1, <1>6, <2>2, <2>4
  <2>6. Fits(search.best)'
    BY ONLY <1>1, <1>9, <2>2 DEF Fits
  <2>7. TransactionSearch'
    BY ONLY <1>1, <1>5, <2>2, <2>3, <2>4, <2>5, <2>6 DEF TransactionSearch
  <2> QED BY ONLY <1>1, <1>2, <1>8, <2>7 DEF PipelineInv
<1>10. CASE ~Fits(candidate) /\ search' = [search EXCEPT !.high = m - 1]
  <2>1. search' = [low |-> l, high |-> m - 1, best |-> best]
    BY ONLY <1>3, <1>10
  <2>2. search'.low = l /\ search'.high = m - 1 /\ search'.best = best
    BY ONLY <2>1
  <2>3. IsSearch'
    BY <1>3, <1>4, <2>1, <2>2 DEF IsSearch
  <2>4. (m - 1) + 1 = m /\ BulkOf(report, m) >= room
    BY <1>2, <1>4, <1>7, <1>10 DEF Fits
  <2>5. m <= initial.accepted
    <3>1. initial.accepted = Taken(report, -1) /\ Taken(report, -1) \in Nat
      <4>1. -1 \in Int
        OBVIOUS
      <4>2. Depicts(initial, report, -1, BundleCount(initial))
        BY <1>2 DEF Initial
      <4> QED BY ONLY <1>2, <4>1, <4>2, DepictedHolds, ChosenHolds
    <3> QED BY <1>4, <1>5, <3>1
  <2>6. \/ search'.best = None
        \/ (search.low >= 1 /\ Depicts(search.best, report, search.low - 1, 0) /\ Fits(search.best))'
    <3>1. Fits(best) => Fits(search.best)'
      BY ONLY <1>1, <2>2 DEF Fits
    <3>2. Depicts(best, report, l - 1, 0) => Depicts(search.best, report, search.low - 1, 0)'
      BY ONLY <1>1, <2>2
    <3> QED BY ONLY <1>5, <2>2, <3>1, <3>2
  <2>7. TransactionSearch'
    BY ONLY <1>1, <2>2, <2>3, <2>4, <2>5, <2>6 DEF TransactionSearch
  <2> QED BY ONLY <1>1, <1>2, <1>8, <2>7 DEF PipelineInv
<1> QED BY ONLY <1>1, <1>9, <1>10

(* The end of the search for how few bundles have to go. *)
LEMMA GeoEnds ==
    ASSUME PipelineInv, SearchEnds, phase = "geo"
    PROVE  PipelineInv'
<1>n. PICK n, bulk : n = BundleCount(initial) /\ bulk = BulkOf(report, -1)
  OBVIOUS
<1>l. PICK l, h, best : l = search.low /\ h = search.high /\ best = search.best
  OBVIOUS
<1>1. /\ l > h /\ report' = report /\ room' = room /\ initial' = initial
      /\ \/ best # None /\ phase' = "sent" /\ sent' = best
         \/ /\ best = None /\ phase' = "transactions"
            /\ search' = Search(0, initial.accepted - 1) /\ sent' = sent
  BY <1>l DEF SearchEnds
<1>2. report \in ReportSet /\ room \in Nat /\ Initial /\ GeoSearch
  BY DEF PipelineInv
<1>3. /\ l \in Nat /\ h \in Int /\ l <= h + 1 /\ l >= 1 /\ h <= n
      /\ bulk + BundleSize * (n - l + 1) >= room
      /\ \/ best = None /\ h = n
         \/ Depicts(best, report, -1, n - h - 1) /\ Fits(best)
  BY <1>2, <1>l, <1>n DEF GeoSearch, IsSearch
<1>i. -1 \in Int
  OBVIOUS
<1>4. n \in Nat /\ initial.accepted = Taken(report, -1) /\ Taken(report, -1) \in Nat /\ bulk \in Nat
  <2>1. Depicts(initial, report, -1, n)
    BY <1>2, <1>n DEF Initial
  <2>2. n \in Nat /\ initial.accepted = Taken(report, -1)
    BY ONLY <1>2, <1>i, <2>1, DepictedHolds
  <2>3. Taken(report, -1) \in Nat /\ BulkOf(report, -1) \in Nat
    BY ONLY <1>2, <1>i, ChosenHolds
  <2> QED BY <1>n, <2>2, <2>3
<1>5. l = h + 1 /\ BundleSize \in Nat
  BY <1>1, <1>3, CompactAssumption
<1>6. CASE best # None /\ phase' = "sent" /\ sent' = best
  <2>1. Depicts(best, report, -1, n - h - 1) /\ Fits(best)
    BY <1>3, <1>6
  <2>k. PICK k : k = n - h - 1
    OBVIOUS
  <2>2. /\ NormalizeCompactTopology(best, report) /\ BundleCount(best) = k
        /\ best.accepted = Taken(report, -1)
        /\ Size(best) = bulk + BundleSize * k
    <3>1. Depicts(best, report, -1, k)
      BY <2>1, <2>k
    <3> QED BY ONLY <1>2, <1>i, <1>n, <3>1, DepictedHolds
  <2>3. k < n /\ n - l + 1 = k + 1 /\ k \in Int
    BY <1>3, <1>4, <1>5, <2>k
  <2>4. bulk + BundleSize * (k + 1) >= room
    BY <1>3, <2>3
  <2>5. BundleSize * (k + 1) = BundleSize * k + BundleSize
    BY <1>5, <2>3
  <2>6. Size(best) + BundleSize >= room
    BY <1>4, <1>5, <2>2, <2>3, <2>4, <2>5
  <2>7. SentAsCut'
    <3>1. Fits(sent)'
      BY ONLY <1>1, <1>6, <2>1 DEF Fits
    <3>2. (/\ sent.accepted = initial.accepted /\ BundleCount(sent) < BundleCount(initial)
           /\ Size(sent) + BundleSize >= room)'
      BY ONLY <1>1, <1>4, <1>6, <1>n, <2>2, <2>3, <2>6
    <3> QED BY ONLY <3>1, <3>2 DEF SentAsCut
  <2>8. NormalizeCompactTopology(sent, report)'
    BY ONLY <1>1, <1>6, <2>2
  <2> QED BY ONLY <1>1, <1>2, <1>6, <2>7, <2>8 DEF PipelineInv
<1>7. CASE /\ best = None /\ phase' = "transactions"
           /\ search' = Search(0, initial.accepted - 1) /\ sent' = sent
  <2>1. h = n
    <3>1. Depicts(best, report, -1, n - h - 1) => best # None
      BY ONLY <1>2, <1>i, DepictedHolds
    <3> QED BY ONLY <1>3, <1>7, <3>1
  <2>2. bulk >= room
    <3>1. n - l + 1 = 0
      BY <1>3, <1>4, <1>5, <2>1
    <3> QED BY <1>3, <1>4, <1>5, <3>1
  <2>a. PICK a : a = Taken(report, -1)
    OBVIOUS
  <2>3. BulkOf(report, a) = bulk
    <3>1. a \in Nat
      BY <1>4, <2>a
    <3> QED BY ONLY <1>2, <1>n, <2>a, <3>1, LimitsHold
  <2>4. search' = [low |-> 0, high |-> a - 1, best |-> None]
    BY ONLY <1>4, <1>7, <2>a DEF Search
  <2>5. search'.low = 0 /\ search'.high = a - 1 /\ search'.best = None
    BY ONLY <2>4
  <2>6. a \in Nat /\ (a - 1) + 1 = a /\ a <= a
    BY <1>4, <2>a
  <2>7. IsSearch'
    BY <2>4, <2>5, <2>6 DEF IsSearch
  <2>8. TransactionSearch'
    BY ONLY <1>1, <1>4, <2>a, <2>2, <2>3, <2>5, <2>6, <2>7 DEF TransactionSearch
  <2>9. Initial'
    BY <1>1, <1>2 DEF Initial
  <2> QED BY ONLY <1>1, <1>2, <1>7, <2>8, <2>9 DEF PipelineInv
<1> QED BY ONLY <1>1, <1>6, <1>7

(* The end of the search for how many hops fit. *)
LEMMA TransactionsEnd ==
    ASSUME PipelineInv, SearchEnds, phase = "transactions"
    PROVE  PipelineInv'
<1>l. PICK l, h, best : l = search.low /\ h = search.high /\ best = search.best
  OBVIOUS
<1>1. /\ l > h /\ report' = report /\ room' = room /\ initial' = initial
      /\ \/ best # None /\ phase' = "sent" /\ sent' = best
         \/ phase' = "too_large"
  BY <1>l DEF SearchEnds
<1>2. report \in ReportSet /\ room \in Nat /\ Initial /\ TransactionSearch
  BY DEF PipelineInv
<1>3. /\ l \in Nat /\ h \in Int /\ l <= h + 1 /\ h + 1 <= initial.accepted
      /\ BulkOf(report, h + 1) >= room
      /\ \/ best = None
         \/ l >= 1 /\ Depicts(best, report, l - 1, 0) /\ Fits(best)
  BY <1>2, <1>l DEF TransactionSearch, IsSearch
<1>i. -1 \in Int
  OBVIOUS
<1>4. initial.accepted = Taken(report, -1) /\ Taken(report, -1) \in Nat
  <2>1. Depicts(initial, report, -1, BundleCount(initial))
    BY <1>2 DEF Initial
  <2> QED BY ONLY <1>2, <1>i, <2>1, DepictedHolds, ChosenHolds
<1>5. l = h + 1
  BY <1>1, <1>3
<1>6. CASE best # None /\ phase' = "sent" /\ sent' = best
  <2>1. l >= 1 /\ Depicts(best, report, l - 1, 0) /\ Fits(best)
    BY <1>3, <1>6
  <2>k. PICK k : k = l - 1
    OBVIOUS
  <2>2. k \in Nat /\ k \in Int /\ k + 1 = l /\ k < Taken(report, -1) /\ k <= Taken(report, -1)
    BY <1>3, <1>4, <1>5, <2>1, <2>k
  <2>3. /\ NormalizeCompactTopology(best, report) /\ BundleCount(best) = 0
        /\ best.accepted = Taken(report, k)
    <3>1. Depicts(best, report, k, 0)
      BY <2>1, <2>k
    <3> QED BY ONLY <1>2, <2>2, <3>1, DepictedHolds
  <2>4. Taken(report, k) = k
    BY ONLY <1>2, <2>2, LimitsHold
  <2>5. ~Fits(Build(report, l, FALSE))
    <3>1. l \in Int /\ FALSE \in BOOLEAN
      BY <1>3
    <3>b. PICK built : built = Build(report, l, FALSE)
      BY Zenon
    <3>2. Depicts(built, report, l, 0)
      BY ONLY <1>2, <3>1, <3>b, BuiltHolds
    <3>3. Size(built) = BulkOf(report, l) + BundleSize * 0
      BY ONLY <1>2, <3>1, <3>2, DepictedHolds
    <3>4. BulkOf(report, l) \in Nat
      BY ONLY <1>2, <3>1, ChosenHolds
    <3>5. Size(built) >= room /\ Size(built) \in Nat
      BY <1>3, <1>5, <3>3, <3>4, CompactAssumption
    <3>6. ~Fits(built)
      BY ONLY <1>2, <3>5 DEF Fits
    <3> QED BY <3>6, <3>b, Zenon
  <2>6. SentAsCut'
    <3>1. Fits(sent)'
      BY ONLY <1>1, <1>6, <2>1 DEF Fits
    <3>2. (sent.accepted = k)' /\ sent.accepted' + 1 = l
      BY ONLY <1>6, <2>2, <2>3, <2>4
    <3>3. (BundleCount(sent) = 0)' /\ (sent.accepted < initial.accepted)'
      BY ONLY <1>1, <1>4, <1>6, <2>2, <2>3, <2>4
    <3>4. (~Fits(Build(report, sent.accepted + 1, FALSE)))'
      BY ONLY <1>1, <2>5, <3>2 DEF Fits
    <3> QED BY ONLY <3>1, <3>3, <3>4 DEF SentAsCut
  <2>7. NormalizeCompactTopology(sent, report)'
    BY ONLY <1>1, <1>6, <2>3
  <2> QED BY ONLY <1>1, <1>2, <1>6, <2>6, <2>7 DEF PipelineInv
<1>7. CASE phase' = "too_large"
  BY ONLY <1>1, <1>2, <1>7 DEF PipelineInv
<1> QED BY ONLY <1>1, <1>6, <1>7

(* The steps of the client, which sends nothing. *)
LEMMA ClientKeeps ==
    ASSUME PipelineInv,
           \/ SendWhole \/ Receive \/ Replan \/ Clear
           \/ \E selected, view, show, remaining : Plan(selected, view, show, remaining)
    PROVE  PipelineInv'
<1>1. room \in Nat /\ (phase # "idle" => report \in ReportSet)
  BY DEF PipelineInv
<1>2. CASE SendWhole
  BY <1>1, <1>2 DEF SendWhole, PipelineInv
<1>3. CASE Receive
  <2>1. sent # None => NormalizeCompactTopology(sent, report)
    BY <1>3 DEF Receive, PipelineInv
  <2>2. phase' = "modelled" /\ room' = room /\ report' = report /\ phase = "sent"
    BY <1>3, <2>1 DEF Receive
  <2> QED BY ONLY <1>1, <2>2 DEF PipelineInv
<1>4. CASE Replan
  <2>1. phase' = "modelled" /\ room' = room /\ report' = report /\ phase = "planned"
    BY <1>4 DEF Replan
  <2> QED BY ONLY <1>1, <2>1 DEF PipelineInv
<1>5. CASE Clear
  <2>1. phase' = "idle" /\ room' = 0 /\ sent' = None
    BY <1>5 DEF Clear
  <2> QED BY ONLY <2>1 DEF PipelineInv
<1>6. CASE \E selected, view, show, remaining : Plan(selected, view, show, remaining)
  <2>1. phase' = "planned" /\ room' = room /\ report' = report /\ phase = "modelled"
    BY <1>6 DEF Plan
  <2> QED BY ONLY <1>1, <2>1 DEF PipelineInv
<1> QED BY <1>2, <1>3, <1>4, <1>5, <1>6

(* Every step keeps the invariant.                                         *)
LEMMA PipelineStep ==
    ASSUME PipelineInv, [PipelineNext]_pipelineVars
    PROVE  PipelineInv'
<1>1. CASE \E rep \in Reports, limit \in Rooms : Check(rep, limit)
  BY <1>1, CheckKeeps
<1>2. CASE MarshalInitial
  BY <1>2, MarshalKeeps
<1>3. CASE ProbeGeo
  BY <1>3, GeoKeeps
<1>4. CASE ProbeTransactions
  BY <1>4, TransactionsKeep
<1>5. CASE SearchEnds
  <2>1. phase \in {"geo", "transactions"}
    BY <1>5 DEF SearchEnds
  <2> QED BY <1>5, <2>1, GeoEnds, TransactionsEnd
<1>6. CASE \/ SendWhole \/ Receive \/ Replan \/ Clear
           \/ \E selected, view, show, remaining : Plan(selected, view, show, remaining)
  BY <1>6, ClientKeeps
<1>7. CASE UNCHANGED pipelineVars
  <2>1. UNCHANGED <<phase, report, room, initial, search, sent>>
    BY <1>7 DEF pipelineVars
  <2> QED BY <2>1 DEF PipelineInv, Initial, GeoSearch, TransactionSearch, IsSearch, SentAsCut, Fits
<1> QED BY <1>1, <1>2, <1>3, <1>4, <1>5, <1>6, <1>7 DEF PipelineNext

(* The invariant is stronger than what it is for.                          *)
LEMMA InvImpliesSound == PipelineInv => SentIsSound
BY DEF PipelineInv, SentAsCut, SentIsSound

(* Every state of the searches knows what lies outside their bounds, and    *)
(* what was sent is accepted by the client and cut as little as it must be. *)
THEOREM PipelineInvariant == PipelineSpec => []PipelineInv
<1>1. PipelineInit => PipelineInv
  BY InitialInv
<1>2. PipelineInv /\ [PipelineNext]_pipelineVars => PipelineInv'
  BY PipelineStep
<1> QED BY <1>1, <1>2, PTL DEF PipelineSpec

(* What the server sends fits and is what the client accepts, and no more  *)
(* was cut of it than had to be.                                           *)
THEOREM SentIsSoundHolds == PipelineSpec => []SentIsSound
<1>1. PipelineSpec => []PipelineInv
  BY PipelineInvariant
<1>2. PipelineInv => SentIsSound
  BY InvImpliesSound
<1> QED BY <1>1, <1>2, PTL

(* From a whole report the client selects what the server would select if  *)
(* the partial attempts had completed.                                     *)
LEMMA FormsThatAgree ==
    ASSUME NEW rep \in ReportSet
    PROVE  SameTopology(AdaptLegacyTopology(rep), Build(AsCompleted(rep), -1, TRUE))
<1>d. PICK done : done = AsCompleted(rep)
  OBVIOUS
<1>0. done \in ReportSet /\ DOMAIN done = DOMAIN rep
  BY <1>d, CompletedHolds
<1>r. PICK routes : routes = RoutesOf(done)
  OBVIOUS
<1>s. PICK st : st = Select(routes, -1)
  OBVIOUS
<1>k. PICK ks, shown : ks = SelectedKeys(st, routes) /\ shown = Shown(st, routes)
  OBVIOUS
<1>1. routes \in Seq(TracesOf(done)) /\ routes \in Seq(TraceSet)
  BY <1>0, <1>r, RoutesOfHold
<1>2. AdaptLegacyTopology(rep) = AdaptedModel(rep, routes, st, shown, ks)
  <2>1. [r \in DOMAIN rep |-> LegacyRoutes(rep, r)] = [r \in DOMAIN done |-> CompactRoutes(done, r)]
    BY <1>0, <1>d, SameRoutes
  <2> QED BY <1>k, <1>r, <1>s, <2>1 DEF AdaptLegacyTopology, AdaptedRoutes, Adapted, RoutesOf
<1>3. Build(done, -1, TRUE) = Projection(done, routes, st, shown, ks, TRUE)
  BY <1>k, <1>r, <1>s DEF Build, Built, Projected, RoutesOf
<1>4. \A n \in DOMAIN shown : shown[n] \in DOMAIN routes
  <2>S. PICK S : S = {i \in DOMAIN routes : Displayed(st, routes, i) > 0}
    OBVIOUS
  <2>1. S \in SUBSET Nat /\ IsFiniteSet(S) /\ S \in SUBSET (DOMAIN routes)
    <3>1. DOMAIN routes = 1 .. Len(routes) /\ Len(routes) \in Nat
      BY <1>1
    <3>2. IsFiniteSet(DOMAIN routes)
      BY <3>1, FS_Interval
    <3> QED BY <2>S, <3>1, <3>2, FS_Subset
  <2>2. shown \in [1 .. Cardinality(S) -> S]
    BY <1>k, <2>S, <2>1, AscendingHolds DEF Shown
  <2> QED BY <2>1, <2>2
<1>5. \A i \in DOMAIN routes : Whole(rep[routes[i].result].attempts[routes[i].attempt])
  <2>1. ASSUME NEW i \in DOMAIN routes
        PROVE  Whole(rep[routes[i].result].attempts[routes[i].attempt])
    <3>x. PICK x : x = routes[i]
      OBVIOUS
    <3>1. x \in TracesOf(done)
      BY <1>1, <3>x
    <3>2. x.result \in DOMAIN rep /\ x.attempt \in DOMAIN rep[x.result].attempts
      <4>1. x.result \in DOMAIN done /\ x.attempt \in DOMAIN done[x.result].attempts
        BY <3>1 DEF TracesOf
      <4> QED BY <1>0, <1>d, <4>1, CompletedHolds
    <3>3. rep[x.result].attempts \in Seq(Attempts)
      BY <3>2, CompletedHolds
    <3>4. rep[x.result].attempts[x.attempt] \in Attempts
      BY <3>2, <3>3
    <3>5. rep[x.result].attempts[x.attempt].hops \in Seq(Nat)
      BY <3>4 DEF Attempts
    <3> QED BY <3>5, <3>x, PathHolds
  <2> QED BY <2>1
<1>m. PICK own, built : /\ own = AdaptedModel(rep, routes, st, shown, ks)
                        /\ built = Projection(done, routes, st, shown, ks, TRUE)
  OBVIOUS
<1>6. own.links = built.links
  BY <1>m DEF AdaptedModel, Projection
<1>7. own.routes = built.routes
  <2>1. own.routes =
          [n \in DOMAIN shown |->
             RouteOf(st, routes[shown[n]], Prefix(st, routes, shown[n]), ks,
                     /\ Whole(rep[routes[shown[n]].result].attempts[routes[shown[n]].attempt])
                     /\ AcceptedWhole(st, routes, shown[n]))]
    BY <1>m DEF AdaptedModel
  <2>2. built.routes =
          [n \in DOMAIN shown |->
             RouteOf(st, routes[shown[n]], Prefix(st, routes, shown[n]), ks, AcceptedWhole(st, routes, shown[n]))]
    BY <1>m DEF Projection
  <2>3. ASSUME NEW n \in DOMAIN shown
        PROVE  (/\ Whole(rep[routes[shown[n]].result].attempts[routes[shown[n]].attempt])
                /\ AcceptedWhole(st, routes, shown[n]))
                 = AcceptedWhole(st, routes, shown[n])
    <3>1. Whole(rep[routes[shown[n]].result].attempts[routes[shown[n]].attempt])
      BY ONLY <1>4, <1>5, <2>3
    <3>2. AcceptedWhole(st, routes, shown[n]) \in BOOLEAN
      BY DEF AcceptedWhole
    <3> QED BY <3>1, <3>2
  <2> QED BY ONLY <2>1, <2>2, <2>3
<1>8. [n \in DOMAIN own.nodes |-> own.nodes[n].key] = [n \in DOMAIN built.nodes |-> built.nodes[n].key]
  <2>1. DOMAIN own.nodes = DOMAIN ks /\ \A n \in DOMAIN ks : own.nodes[n].key = ks[n]
    BY <1>m DEF AdaptedModel
  <2>2. DOMAIN built.nodes = DOMAIN ks /\ \A n \in DOMAIN ks : built.nodes[n].key = ks[n]
    BY <1>m DEF Projection
  <2> QED BY <2>1, <2>2
<1>9. SameTopology(own, built)
  BY <1>6, <1>7, <1>8 DEF SameTopology
<1> QED BY <1>2, <1>3, <1>9, <1>d, <1>m

(* Whenever the client has a model, what it would make itself of the whole *)
(* report is what the server makes of it, but for the partial traces: the  *)
(* client has these too, selected and drawn as if they were complete.      *)
THEOREM FormsAlwaysAgree == PipelineSpec => [](phase = "modelled" => FormsAgree)
<1>1. PipelineSpec => []PipelineInv
  BY PipelineInvariant
<1>2. PipelineInv => (phase = "modelled" => FormsAgree)
  <2>1. SUFFICES ASSUME PipelineInv, phase = "modelled" PROVE FormsAgree
    OBVIOUS
  <2>2. report \in ReportSet
    BY <2>1 DEF PipelineInv
  <2> QED BY <2>2, FormsThatAgree DEF FormsAgree
<1> QED BY <1>1, <1>2, PTL

-----------------------------------------------------------------------------
(* What the client has is of the report it has it from.                    *)

(* A route of a topology is a trace from its first hop on, whole if it is  *)
(* called complete; a link joins neighbours of a trace.                    *)
Begins(t, path, trace) ==
    /\ path.result = trace.result /\ path.attempt = trace.attempt
    /\ Len(path.node_ids) <= Len(trace.keys)
    /\ path.complete <=> Len(path.node_ids) = Len(trace.keys)
    /\ \A m \in 1 .. Len(path.node_ids) : \E x \in DOMAIN t.nodes :
          path.node_ids[m] = <<x>> /\ t.nodes[x].key = trace.keys[m]

Neighbouring(t, l, trace) ==
    \E m \in 1 .. Len(trace.keys) - 1 : \E x, y \in DOMAIN t.nodes :
        /\ l.from = <<x>> /\ t.nodes[x].key = trace.keys[m]
        /\ l.to = <<y>> /\ t.nodes[y].key = trace.keys[m + 1]

(* A topology in which everything is of the report, and no node twice. *)
Follows(t, rep) ==
    /\ \A x, y \in DOMAIN t.nodes : t.nodes[x].key = t.nodes[y].key => x = y
    /\ \A k \in DOMAIN t.routes : \E r \in DOMAIN rep : \E n \in DOMAIN CompactRoutes(rep, r) :
          Begins(t, t.routes[k], CompactRoutes(rep, r)[n])
    /\ \A l \in t.links : \E r \in DOMAIN rep : \E n \in DOMAIN CompactRoutes(rep, r) :
          Neighbouring(t, l, CompactRoutes(rep, r)[n])

(* Every attempt the selection is made from is one of the report's.        *)
LEMMA RoutesAreTraces ==
    ASSUME NEW rep \in ReportSet, NEW i \in DOMAIN RoutesOf(rep)
    PROVE  \E r \in DOMAIN rep : \E n \in DOMAIN CompactRoutes(rep, r) :
              RoutesOf(rep)[i] = CompactRoutes(rep, r)[n]
<1>q. PICK seqs : seqs = [r \in DOMAIN rep |-> CompactRoutes(rep, r)]
  OBVIOUS
<1>X. PICK X : X = UNION {{CompactRoutes(rep, r)[n] : n \in DOMAIN CompactRoutes(rep, r)} : r \in DOMAIN rep}
  OBVIOUS
<1>1. DOMAIN rep = 1 .. Len(rep) /\ Len(rep) \in Nat
  BY DEF ReportSet
<1>2. ASSUME NEW r \in DOMAIN rep
      PROVE  CompactRoutes(rep, r) \in Seq(X)
  <2>c. PICK c : c = CompactRoutes(rep, r)
    OBVIOUS
  <2>1. c \in Seq(TracesOf(rep))
    BY <2>c, CompactRoutesHold
  <2>2. \A n \in DOMAIN c : c[n] \in X
    BY <1>X, <2>c
  <2>3. DOMAIN c = 1 .. Len(c) /\ Len(c) \in Nat /\ c = [n \in 1 .. Len(c) |-> c[n]]
    BY <2>1
  <2>4. c \in [1 .. Len(c) -> X]
    BY ONLY <2>2, <2>3
  <2> QED BY <2>c, <2>3, <2>4
<1>3. seqs \in Seq(Seq(X))
  <2>1. seqs \in [1 .. Len(rep) -> Seq(X)]
    BY ONLY <1>q, <1>1, <1>2
  <2> QED BY <1>1, <2>1
<1>4. FlattenSeq(seqs) \in Seq(X)
  BY ONLY <1>3, FlattenHolds
<1>5. RoutesOf(rep)[i] \in X
  <2>1. RoutesOf(rep) \in Seq(X)
    BY <1>q, <1>4 DEF RoutesOf
  <2> QED BY <2>1
<1> QED BY <1>X, <1>5

(* A topology with the nodes, the links and the routes of a selection. *)
Numbered(t) == \A x \in DOMAIN t.nodes : t.nodes[x].id = <<x>>

Selects(t, rep, limit) ==
    LET st == Chosen(rep, limit)
        ks == SelectedKeys(st, RoutesOf(rep))
    IN  /\ DOMAIN t.nodes = DOMAIN ks /\ \A x \in DOMAIN ks : t.nodes[x].key = ks[x]
        /\ Numbered(t)
        /\ t.routes = RoutesDrawn(st, RoutesOf(rep))
        /\ t.links = SelectedLinks(st, RoutesOf(rep), ks)

(* Whatever the limit was, it follows the report.                          *)
LEMMA SelectionFollows ==
    ASSUME NEW rep \in ReportSet, NEW limit \in Int, NEW t, Selects(t, rep, limit)
    PROVE  Follows(t, rep)
<1>r. PICK routes : routes = RoutesOf(rep)
  OBVIOUS
<1>s. PICK st : st = Chosen(rep, limit)
  OBVIOUS
<1>k. PICK ks : ks = SelectedKeys(st, routes)
  OBVIOUS
<1>1. /\ DOMAIN t.nodes = DOMAIN ks /\ \A x \in DOMAIN ks : t.nodes[x].key = ks[x]
      /\ t.routes = RoutesDrawn(st, routes) /\ t.links = SelectedLinks(st, routes, ks)
  BY <1>r, <1>s, <1>k DEF Selects
<1>2. routes \in Seq(TraceSet) /\ SelectionInv(st, routes)
  BY <1>r, <1>s, ChosenHolds
<1>3. /\ ks \in Seq(Keys) /\ Distinctly(ks)
      /\ \A i \in DOMAIN routes : \A m \in 1 .. Displayed(st, routes, i) : Holds(ks, routes[i].keys[m])
  BY <1>2, <1>k, SelectedKeysHold
<1>4. \A i \in DOMAIN routes : \E r \in DOMAIN rep : \E n \in DOMAIN CompactRoutes(rep, r) :
         routes[i] = CompactRoutes(rep, r)[n]
  BY <1>r, RoutesAreTraces
<1>5. \A k : Holds(ks, k) => \E x \in DOMAIN t.nodes : IdOf(ks, k) = <<x>> /\ t.nodes[x].key = k
  BY <1>1, <1>3, IdOfHolds
<1>6. \A x, y \in DOMAIN t.nodes : t.nodes[x].key = t.nodes[y].key => x = y
  BY <1>1, <1>3 DEF Distinctly
<1>7. ASSUME NEW k \in DOMAIN t.routes
      PROVE  \E i \in DOMAIN routes : Begins(t, t.routes[k], routes[i])
  <2>S. PICK S, a : S = ShownOf(st, routes, DOMAIN routes) /\ a = Ascending(S)
    OBVIOUS
  <2>1. DrawnFrom(t.routes, ks, S, a, st, routes)
    BY <1>1, <1>2, <1>k, <2>S, RoutesDrawnHold
  <2>i. PICK i : i = a[k]
    OBVIOUS
  <2>d. PICK d, path : d = Displayed(st, routes, i) /\ path = t.routes[k]
    OBVIOUS
  <2>2. /\ i \in S /\ i \in DOMAIN routes
        /\ path.result = routes[i].result /\ path.attempt = routes[i].attempt
        /\ path.complete = AcceptedWhole(st, routes, i)
        /\ Len(path.node_ids) = d
        /\ \A m \in 1 .. d : path.node_ids[m] = IdOf(ks, routes[i].keys[m])
    BY <2>1, <2>i, <2>d DEF DrawnFrom
  <2>l. PICK l, c : l = Len(routes[i].keys) /\ c = st.accepted[i]
    OBVIOUS
  <2>3. d > 0
    BY <2>2, <2>S, <2>d DEF ShownOf
  <2>4. l \in Nat /\ d \in 0 .. l /\ c \in Nat /\ d = c + 1
    BY <1>2, <2>2, <2>3, <2>d, <2>l, HopsOf, DisplayedHolds
  <2>5. path.complete <=> d = l
    <3>1. AcceptedWhole(st, routes, i) <=> c = l - 1
      BY <2>l DEF AcceptedWhole
    <3> QED BY <2>2, <2>4, <3>1
  <2>6. ASSUME NEW m \in 1 .. d
        PROVE  \E x \in DOMAIN t.nodes :
                  path.node_ids[m] = <<x>> /\ t.nodes[x].key = routes[i].keys[m]
    BY <1>3, <1>5, <2>2, <2>d
  <2>7. Begins(t, path, routes[i])
    BY <2>2, <2>4, <2>5, <2>6, <2>l DEF Begins
  <2> QED BY <2>2, <2>7, <2>d
<1>8. ASSUME NEW l \in t.links
      PROVE  \E i \in DOMAIN routes : Neighbouring(t, l, routes[i])
  <2>e. PICK e : e \in UNION {Pairs(Prefix(st, routes, i)) : i \in DOMAIN routes} /\ l = LinkOf(st, routes, ks, e)
    BY <1>1 DEF SelectedLinks
  <2>1. PICK i \in DOMAIN routes : e \in Pairs(Prefix(st, routes, i))
    BY <2>e
  <2>2. PICK m \in 1 .. st.accepted[i] : e = Edge(routes, i, m)
    BY <1>2, <2>1, PrefixPairs
  <2>d. PICK d : d = Displayed(st, routes, i)
    OBVIOUS
  <2>3. /\ st.accepted[i] \in Nat /\ d \in 0 .. Len(routes[i].keys) /\ Len(routes[i].keys) \in Nat
        /\ d = 0 => st.accepted[i] = 0
        /\ d > 0 => d = st.accepted[i] + 1
    BY <1>2, <2>d, HopsOf, DisplayedHolds
  <2>4. m \in 1 .. d /\ m + 1 \in 1 .. d /\ m \in 1 .. Len(routes[i].keys) - 1
    BY <2>3
  <2>5. e = <<routes[i].keys[m], routes[i].keys[m + 1]>>
    BY <2>2 DEF Edge
  <2>6. Holds(ks, routes[i].keys[m]) /\ Holds(ks, routes[i].keys[m + 1])
    BY <1>3, <2>4, <2>d
  <2>7. l.from = IdOf(ks, routes[i].keys[m]) /\ l.to = IdOf(ks, routes[i].keys[m + 1])
    BY <2>e, <2>5 DEF LinkOf
  <2>8. Neighbouring(t, l, routes[i])
    BY <1>5, <2>4, <2>6, <2>7 DEF Neighbouring
  <2> QED BY <2>8
<1>9. ASSUME NEW k \in DOMAIN t.routes
      PROVE  \E r \in DOMAIN rep : \E n \in DOMAIN CompactRoutes(rep, r) :
                Begins(t, t.routes[k], CompactRoutes(rep, r)[n])
  <2>1. PICK i \in DOMAIN routes : Begins(t, t.routes[k], routes[i])
    BY <1>7
  <2> QED BY ONLY <1>4, <2>1
<1>10. ASSUME NEW l \in t.links
       PROVE  \E r \in DOMAIN rep : \E n \in DOMAIN CompactRoutes(rep, r) :
                Neighbouring(t, l, CompactRoutes(rep, r)[n])
  <2>1. PICK i \in DOMAIN routes : Neighbouring(t, l, routes[i])
    BY <1>8
  <2> QED BY ONLY <1>4, <2>1
<1> QED BY <1>6, <1>9, <1>10 DEF Follows

(* What is built or cut of a report's selection has its nodes, links and   *)
(* routes.                                                                 *)
LEMMA DepictedSelects ==
    ASSUME NEW rep, NEW limit, NEW t, NEW n, Depicts(t, rep, limit, n)
    PROVE  Selects(t, rep, limit)
<1>1. PICK B, reasons : t = Drawing(rep, RoutesOf(rep), Chosen(rep, limit), B, reasons)
  BY DEF Depicts
<1>k. PICK ks : ks = SelectedKeys(Chosen(rep, limit), RoutesOf(rep))
  OBVIOUS
<1>2. /\ t.nodes = NodesDrawn(ks, B)
      /\ t.routes = RoutesDrawn(Chosen(rep, limit), RoutesOf(rep))
      /\ t.links = SelectedLinks(Chosen(rep, limit), RoutesOf(rep), ks)
  BY <1>1, <1>k DEF Drawing
<1>3. DOMAIN t.nodes = DOMAIN ks /\ \A x \in DOMAIN ks : t.nodes[x].key = ks[x]
  BY <1>2 DEF NodesDrawn
<1>4. Numbered(t)
  BY <1>2 DEF NodesDrawn, Numbered
<1> QED BY <1>2, <1>3, <1>4, <1>k DEF Selects

(* The same topology is the same selection, and shows as much.             *)
LEMMA SameSelects ==
    ASSUME NEW own, NEW theirs, SameTopology(own, theirs), NEW rep
    PROVE  /\ \A limit : Selects(theirs, rep, limit) /\ Numbered(own) => Selects(own, rep, limit)
           /\ ShowsAll(theirs, rep) => ShowsAll(own, rep)
<1>f. PICK f, g : /\ f = [n \in DOMAIN own.nodes |-> own.nodes[n].key]
                  /\ g = [n \in DOMAIN theirs.nodes |-> theirs.nodes[n].key]
  OBVIOUS
<1>1. own.links = theirs.links /\ own.routes = theirs.routes /\ f = g
  BY <1>f DEF SameTopology
<1>2. /\ DOMAIN own.nodes = DOMAIN theirs.nodes
      /\ \A x \in DOMAIN own.nodes : own.nodes[x].key = theirs.nodes[x].key
  <2>1. /\ DOMAIN f = DOMAIN own.nodes /\ DOMAIN g = DOMAIN theirs.nodes
        /\ \A x \in DOMAIN own.nodes : f[x] = own.nodes[x].key
        /\ \A x \in DOMAIN theirs.nodes : g[x] = theirs.nodes[x].key
    BY ONLY <1>f
  <2> QED BY ONLY <1>1, <2>1
<1>3. \A limit : Selects(theirs, rep, limit) /\ Numbered(own) => Selects(own, rep, limit)
  BY ONLY <1>1, <1>2 DEF Selects
<1>4. ShowsAll(theirs, rep) => ShowsAll(own, rep)
  <2> SUFFICES ASSUME ShowsAll(theirs, rep), NEW r \in DOMAIN rep, NEW n \in DOMAIN CompactRoutes(rep, r)
               PROVE  LET trace == CompactRoutes(rep, r)[n]
                      IN  \E k \in DOMAIN own.routes :
                            /\ own.routes[k].result = trace.result
                            /\ own.routes[k].attempt = trace.attempt
                            /\ own.routes[k].complete
                            /\ Len(own.routes[k].node_ids) = Len(trace.keys)
                            /\ \A m \in 1 .. Len(trace.keys) : \E x \in DOMAIN own.nodes :
                                  /\ own.routes[k].node_ids[m] = <<x>>
                                  /\ own.nodes[x].key = trace.keys[m]
    BY DEF ShowsAll
  <2>t. PICK trace : trace = CompactRoutes(rep, r)[n]
    OBVIOUS
  <2>1. PICK k \in DOMAIN theirs.routes :
          /\ theirs.routes[k].result = trace.result /\ theirs.routes[k].attempt = trace.attempt
          /\ theirs.routes[k].complete
          /\ Len(theirs.routes[k].node_ids) = Len(trace.keys)
          /\ \A m \in 1 .. Len(trace.keys) : \E x \in DOMAIN theirs.nodes :
                theirs.routes[k].node_ids[m] = <<x>> /\ theirs.nodes[x].key = trace.keys[m]
    BY <2>t DEF ShowsAll
  <2>2. \A m \in 1 .. Len(trace.keys) : \E x \in DOMAIN own.nodes :
           own.routes[k].node_ids[m] = <<x>> /\ own.nodes[x].key = trace.keys[m]
    BY ONLY <1>1, <1>2, <2>1
  <2> QED BY <1>1, <2>1, <2>2, <2>t
<1> QED BY <1>3, <1>4

(* What was sent is a selection of the report, and is called cut if it is; *)
(* and the client's model is of what was sent, or its own of the report.   *)
ModelInv ==
    /\ sent # None => /\ \E limit \in Int : Selects(sent, report, limit)
                      /\ sent.reasons = {} => sent = Build(report, -1, TRUE)
    /\ phase \in {"geo", "transactions"} => search.best = None \/ search.best.reasons # {}
    /\ phase \in {"modelled", "planned"} =>
          model = IF sent = None THEN AdaptLegacyTopology(report) ELSE CompactModel(sent)

(* A candidate is called cut. *)
LEMMA CandidateIsCut ==
    ASSUME NEW t, "reasons" \in DOMAIN t, NEW geo
    PROVE  Limited(t, geo).reasons # {}
BY DEF Limited

(* The steps that search keep it.                                          *)
LEMMA ModelAtSearch ==
    ASSUME PipelineInv, ModelInv, ProbeGeo \/ ProbeTransactions \/ MarshalInitial
    PROVE  ModelInv'
<1>i. -1 \in Int /\ TRUE \in BOOLEAN
  OBVIOUS
<1>1. CASE ProbeGeo
  <2>c. PICK candidate, m : /\ candidate = Limited(WithoutLastGeoBundles(initial, Middle), TRUE)
                            /\ m = Middle
    BY Zenon
  <2>1. /\ phase = "geo" /\ phase' = "geo" /\ report' = report /\ sent' = sent
        /\ \/ search' = [search EXCEPT !.best = candidate, !.high = m - 1]
           \/ search' = [search EXCEPT !.low = m + 1]
    BY <1>1, <2>c DEF ProbeGeo
  <2>2. Initial /\ IsSearch
    BY <2>1 DEF PipelineInv, GeoSearch
  <2>3. candidate.reasons # {}
    <3>1. "reasons" \in DOMAIN initial
      BY <2>2 DEF Initial, Depicts, Drawing
    <3>2. "reasons" \in DOMAIN WithoutLastGeoBundles(initial, Middle)
      BY <3>1 DEF WithoutLastGeoBundles
    <3> QED BY <2>c, <3>2, CandidateIsCut
  <2>4. search'.best = candidate \/ search'.best = search.best
    BY <2>1, <2>2 DEF IsSearch
  <2> QED BY <2>1, <2>3, <2>4 DEF ModelInv
<1>2. CASE ProbeTransactions
  <2>c. PICK built, candidate, m : /\ built = Build(report, m, FALSE) /\ m = Middle
                                   /\ candidate = Limited(built, BundleCount(initial) > 0)
    OBVIOUS
  <2>1. /\ phase = "transactions" /\ phase' = "transactions" /\ report' = report /\ sent' = sent
        /\ \/ search' = [search EXCEPT !.best = candidate, !.low = m + 1]
           \/ search' = [search EXCEPT !.high = m - 1]
    BY <1>2, <2>c DEF ProbeTransactions
  <2>2. IsSearch
    BY <2>1 DEF PipelineInv, TransactionSearch
  <2>3. candidate.reasons # {}
    <3>1. "reasons" \in DOMAIN built
      BY <2>c DEF Build, Built, Projected, Projection
    <3> QED BY <2>c, <3>1, CandidateIsCut
  <2>4. search'.best = candidate \/ search'.best = search.best
    BY <2>1, <2>2 DEF IsSearch
  <2> QED BY <2>1, <2>3, <2>4 DEF ModelInv
<1>3. CASE MarshalInitial
  <2>b. PICK built : built = Build(report, -1, TRUE)
    OBVIOUS
  <2>1. /\ phase = "checked" /\ report' = report
        /\ \/ phase' = "sent" /\ sent' = built
           \/ phase' = "geo" /\ sent' = sent /\ search' = Search(1, BundleCount(built))
    BY <1>3, <2>b DEF MarshalInitial, MarshalWith
  <2>2. report \in ReportSet
    BY <2>1 DEF PipelineInv
  <2>3. Selects(built, report, -1)
    <3>1. \E n : Depicts(Build(report, -1, TRUE), report, -1, n)
      BY ONLY <1>i, <2>2, BuiltHolds
    <3> QED BY <2>b, <3>1, DepictedSelects
  <2>4. CASE phase' = "sent" /\ sent' = built
    <3>1. \E limit \in Int : Selects(sent', report', limit)
      BY ONLY <1>i, <2>1, <2>3, <2>4
    <3>2. sent' = Build(report', -1, TRUE)
      BY ONLY <2>1, <2>4, <2>b
    <3>3. (\E limit \in Int : Selects(sent, report, limit))' <=> \E limit \in Int : Selects(sent', report', limit)
      BY DEF Selects
    <3> QED BY <2>4, <3>1, <3>2 DEF ModelInv
  <2>5. CASE phase' = "geo" /\ sent' = sent /\ search' = Search(1, BundleCount(built))
    <3>1. search'.best = None
      BY <2>5 DEF Search
    <3>2. sent = None
      BY <2>1 DEF PipelineInv
    <3> QED BY <2>5, <3>1, <3>2 DEF ModelInv
  <2> QED BY <2>1, <2>4, <2>5
<1> QED BY <1>1, <1>2, <1>3

(* So does the end of a search.                                            *)
LEMMA ModelAtEnd ==
    ASSUME PipelineInv, ModelInv, SearchEnds
    PROVE  ModelInv'
<1>b. PICK best : best = search.best
  OBVIOUS
<1>i. -1 \in Int
  OBVIOUS
<1>1. /\ phase \in {"geo", "transactions"} /\ report' = report
      /\ \/ best # None /\ phase' = "sent" /\ sent' = best
         \/ /\ phase' = "transactions" /\ sent' = sent
            /\ search' = Search(0, initial.accepted - 1)
         \/ phase' = "too_large" /\ sent' = sent
  BY <1>b DEF SearchEnds
<1>2. CASE best # None /\ phase' = "sent" /\ sent' = best
  <2>1. best.reasons # {}
    BY <1>1, <1>2, <1>b DEF ModelInv
  <2>2. \E limit \in Int : Selects(best, report, limit)
    <3>1. CASE phase = "geo"
      <4>1. Depicts(best, report, -1, BundleCount(initial) - search.high - 1)
        BY <1>2, <1>b, <3>1 DEF PipelineInv, GeoSearch
      <4>2. Selects(best, report, -1)
        BY ONLY <4>1, DepictedSelects
      <4> QED BY <1>i, <4>2
    <3>2. CASE phase = "transactions"
      <4>1. Depicts(best, report, search.low - 1, 0) /\ search.low \in Nat
        BY <1>2, <1>b, <3>2 DEF PipelineInv, TransactionSearch, IsSearch
      <4>2. Selects(best, report, search.low - 1)
        BY ONLY <4>1, DepictedSelects
      <4>3. search.low - 1 \in Int
        BY <4>1
      <4> QED BY <4>2, <4>3
    <3> QED BY <1>1, <3>1, <3>2
  <2> QED BY <1>1, <1>2, <2>1, <2>2 DEF ModelInv
<1>3. CASE /\ phase' = "transactions" /\ sent' = sent
           /\ search' = Search(0, initial.accepted - 1)
  <2>1. search'.best = None
    BY <1>3 DEF Search
  <2> QED BY <1>1, <1>3, <2>1 DEF ModelInv
<1>4. CASE phase' = "too_large" /\ sent' = sent
  BY <1>1, <1>4 DEF ModelInv
<1> QED BY <1>1, <1>2, <1>3, <1>4

(* Every step keeps it.                                                    *)
LEMMA ModelStep ==
    ASSUME PipelineInv, ModelInv, [PipelineNext]_pipelineVars
    PROVE  ModelInv'
<1>1. CASE \E rep \in Reports, limit \in Rooms : Check(rep, limit)
  <2>1. phase = "idle" /\ phase' = "checked" /\ sent' = sent
    BY <1>1 DEF Check
  <2>2. sent = None
    BY <2>1 DEF PipelineInv
  <2> QED BY <2>1, <2>2 DEF ModelInv
<1>2. CASE ProbeGeo \/ ProbeTransactions \/ MarshalInitial
  BY <1>2, ModelAtSearch
<1>3. CASE SearchEnds
  BY <1>3, ModelAtEnd
<1>4. CASE SendWhole
  <2>1. phase' = "sent" /\ sent' = sent /\ report' = report
    BY <1>4 DEF SendWhole
  <2> QED BY <2>1 DEF ModelInv
<1>5. CASE Receive
  <2>1. /\ sent' = sent /\ report' = report
        /\ \/ phase' = "refused"
           \/ /\ phase' = "modelled"
              /\ model' = IF sent = None THEN AdaptLegacyTopology(report) ELSE CompactModel(sent)
    BY <1>5 DEF Receive
  <2> QED BY <2>1 DEF ModelInv
<1>6. CASE Clear
  <2>1. phase' = "idle" /\ sent' = None
    BY <1>6 DEF Clear
  <2> QED BY <2>1 DEF ModelInv
<1>7. CASE Replan \/ \E selected, view, show, remaining : Plan(selected, view, show, remaining)
  <2>1. /\ phase \in {"modelled", "planned"} /\ phase' \in {"modelled", "planned"}
        /\ sent' = sent /\ report' = report /\ model' = model
    BY <1>7 DEF Replan, Plan
  <2> QED BY <2>1 DEF ModelInv
<1>8. CASE UNCHANGED pipelineVars
  BY <1>8 DEF pipelineVars, ModelInv
<1> QED BY <1>1, <1>2, <1>3, <1>4, <1>5, <1>6, <1>7, <1>8 DEF PipelineNext

(* What was sent and what the client made of it stay tied to the report.   *)
THEOREM ModelInvariant == PipelineSpec => []ModelInv
<1>1. PipelineSpec => []PipelineInv
  BY PipelineInvariant
<1>2. PipelineInit => ModelInv
  BY DEF PipelineInit, ModelInv
<1>3. PipelineInv /\ ModelInv /\ [PipelineNext]_pipelineVars => ModelInv'
  BY ModelStep
<1> QED BY <1>1, <1>2, <1>3, PTL DEF PipelineSpec

(* The client's own topology is the selection the server would make if the *)
(* partial attempts had completed, and limited for the same reasons.       *)
LEMMA OwnModelHolds ==
    ASSUME NEW rep \in ReportSet
    PROVE  /\ Selects(AdaptLegacyTopology(rep), AsCompleted(rep), -1)
           /\ AdaptLegacyTopology(rep).reasons = Select(RoutesOf(AsCompleted(rep)), -1).limited
<1>i. -1 \in Int /\ TRUE \in BOOLEAN
  OBVIOUS
<1>d. PICK done : done = AsCompleted(rep)
  OBVIOUS
<1>0. done \in ReportSet /\ DOMAIN done = DOMAIN rep
  BY <1>d, CompletedHolds
<1>1. Selects(Build(done, -1, TRUE), done, -1)
  <2>1. \E n : Depicts(Build(done, -1, TRUE), done, -1, n)
    BY <1>0, <1>i, BuiltHolds
  <2> QED BY <2>1, DepictedSelects
<1>2. SameTopology(AdaptLegacyTopology(rep), Build(done, -1, TRUE))
  BY <1>d, FormsThatAgree
<1>3. AdaptLegacyTopology(rep).reasons = Select(RoutesOf(done), -1).limited
  <2>1. [r \in DOMAIN rep |-> LegacyRoutes(rep, r)] = [r \in DOMAIN done |-> CompactRoutes(done, r)]
    BY <1>0, <1>d, SameRoutes
  <2> QED BY <2>1 DEF AdaptLegacyTopology, AdaptedRoutes, Adapted, AdaptedModel, RoutesOf
<1>4. Numbered(AdaptLegacyTopology(rep))
  BY DEF AdaptLegacyTopology, AdaptedRoutes, Adapted, AdaptedModel, Numbered
<1> QED BY <1>1, <1>2, <1>3, <1>4, <1>d, SameSelects

(* What the client was told is a report of the same targets.               *)
LEMMA ToldHolds ==
    ASSUME report \in ReportSet
    PROVE  /\ Told \in ReportSet /\ DOMAIN Told = DOMAIN report
           /\ \A r \in DOMAIN report : Told[r].kind = report[r].kind
           /\ sent = None => Told = AsCompleted(report)
           /\ sent # None => Told = report
<1>1. CASE sent = None
  BY <1>1, CompletedHolds DEF Told
<1>2. CASE sent # None
  BY <1>2 DEF Told
<1> QED BY <1>1, <1>2

(* The model of the client is a selection of what it was told, however     *)
(* limited.                                                                *)
LEMMA ModelSelects ==
    ASSUME PipelineInv, ModelInv, phase \in {"modelled", "planned"}
    PROVE  /\ report \in ReportSet /\ Told \in ReportSet
           /\ {"nodes", "links", "routes"} \subseteq DOMAIN model
           /\ \E limit \in Int : Selects(model, Told, limit)
<1>1. report \in ReportSet
  BY DEF PipelineInv
<1>2. Told \in ReportSet
  BY <1>1, ToldHolds
<1>3. CASE sent = None
  <2>1. model = AdaptLegacyTopology(report) /\ -1 \in Int
    BY <1>3 DEF ModelInv
  <2>2. {"nodes", "links", "routes"} \subseteq DOMAIN model
    BY <2>1 DEF AdaptLegacyTopology, AdaptedRoutes, Adapted, AdaptedModel
  <2>3. Selects(model, Told, -1)
    BY <1>1, <1>3, <2>1, OwnModelHolds, ToldHolds
  <2> QED BY <1>1, <1>2, <2>1, <2>2, <2>3
<1>4. CASE sent # None
  <2>1. model = CompactModel(sent) /\ \E limit \in Int : Selects(sent, Told, limit)
    BY <1>1, <1>4, ToldHolds DEF ModelInv
  <2>2. /\ model.nodes = sent.nodes /\ model.links = sent.links /\ model.routes = sent.routes
        /\ {"nodes", "links", "routes"} \subseteq DOMAIN model
    BY <2>1 DEF CompactModel
  <2>3. \E limit \in Int : Selects(model, Told, limit)
    BY ONLY <2>1, <2>2 DEF Selects, Numbered
  <2> QED BY <1>1, <1>2, <2>2, <2>3
<1> QED BY <1>3, <1>4

(* Whatever was cut on the way, the model of the client is of what it was  *)
(* told (the completed attempts, and the partial ones of a whole report):  *)
(* no node twice, every route the beginning of a trace and called complete *)
(* only if it is all of it, every link between neighbours of a trace.      *)
THEOREM ModelIsOfTheReport ==
    PipelineSpec => [](phase \in {"modelled", "planned"} => Follows(model, Told))
<1>1. PipelineSpec => []PipelineInv /\ []ModelInv
  BY PipelineInvariant, ModelInvariant
<1>2. PipelineInv /\ ModelInv => (phase \in {"modelled", "planned"} => Follows(model, Told))
  <2> SUFFICES ASSUME PipelineInv, ModelInv, phase \in {"modelled", "planned"}
               PROVE  Follows(model, Told)
    OBVIOUS
  <2>1. Told \in ReportSet
    BY ModelSelects
  <2>2. PICK limit \in Int : Selects(model, Told, limit)
    BY ModelSelects
  <2> QED BY <2>1, <2>2, SelectionFollows
<1> QED BY <1>1, <1>2, PTL

(* If the model of the client gives no reason for an omission, it shows    *)
(* every trace that the client was told to its last hop, whatever the      *)
(* limits were.  Of a whole report these are the partial traces, too; a    *)
(* compact topology leaves them out without a reason.                      *)
THEOREM OmissionsAreReported ==
    PipelineSpec =>
        [](phase \in {"modelled", "planned"} /\ model.reasons = {} => ShowsAll(model, Told))
<1>1. PipelineSpec => []PipelineInv /\ []ModelInv
  BY PipelineInvariant, ModelInvariant
<1>2. PipelineInv /\ ModelInv =>
        (phase \in {"modelled", "planned"} /\ model.reasons = {} => ShowsAll(model, Told))
  <2> SUFFICES ASSUME PipelineInv, ModelInv, phase \in {"modelled", "planned"}, model.reasons = {}
               PROVE  ShowsAll(model, Told)
    OBVIOUS
  <2>1. report \in ReportSet /\ TRUE \in BOOLEAN
    BY DEF PipelineInv
  <2>t. PICK told : told = Told
    OBVIOUS
  <2>b. PICK built : built = Build(told, -1, TRUE)
    OBVIOUS
  <2>0. told \in ReportSet
    BY <2>1, <2>t, ToldHolds
  <2>2. SameTopology(model, built) /\ ShowsAll(built, told)
    <3>1. CASE sent = None
      <4>1. model = AdaptLegacyTopology(report) /\ told = AsCompleted(report)
        BY <2>1, <2>t, <3>1, ToldHolds DEF ModelInv
      <4>2. Select(RoutesOf(told), -1).limited = {}
        BY <2>1, <4>1, OwnModelHolds
      <4>3. SameTopology(model, built)
        BY <2>1, <2>b, <4>1, FormsThatAgree
      <4> QED BY <2>0, <2>1, <2>b, <4>2, <4>3, UnlimitedShowsAll
    <3>2. CASE sent # None
      <4>0. told = report
        BY <2>1, <2>t, <3>2, ToldHolds
      <4>1. model = CompactModel(sent) /\ (sent.reasons = {} => sent = built)
        BY <2>b, <3>2, <4>0 DEF ModelInv
      <4>2. /\ model.nodes = sent.nodes /\ model.links = sent.links /\ model.routes = sent.routes
            /\ sent.reasons = {}
        BY <4>1 DEF CompactModel
      <4>3. SameTopology(model, built)
        BY <4>1, <4>2 DEF SameTopology
      <4>4. ShowsAll(built, told)
        BY <2>0, <2>1, <2>b, <4>1, <4>2, OmissionsHaveReasons
      <4> QED BY <4>3, <4>4
    <3> QED BY <3>1, <3>2
  <2> QED BY <2>2, <2>t, SameSelects
<1> QED BY <1>1, <1>2, PTL

-----------------------------------------------------------------------------
(* What is selected of the model for a view.                               *)

(* A sequence is extended by what it does not have yet. *)
LEMMA AddHolds ==
    ASSUME NEW X, NEW s \in Seq(X), NEW k \in X, Distinctly(s),
           NEW added, added = IF Contains(s, k) THEN <<>> ELSE <<k>>
    PROVE  /\ s \o added \in Seq(X) /\ Distinctly(s \o added) /\ Holds(s \o added, k)
           /\ Len(added) \in Nat /\ Len(s \o added) = Len(s) + Len(added)
           /\ \A other : Holds(s, other) => Holds(s \o added, other)
           /\ \A other : Holds(s \o added, other) => other = k \/ Holds(s, other)
<1>1. DOMAIN s = 1 .. Len(s) /\ Len(s) \in Nat
  OBVIOUS
<1>t. PICK t : t = s \o added
  OBVIOUS
<1>2. CASE Holds(s, k)
  <2>1. added = <<>>
    BY <1>1, <1>2 DEF Contains, Holds
  <2>2. t = s /\ Len(added) = 0
    BY <1>t, <2>1
  <2>4. /\ t \in Seq(X) /\ Distinctly(t) /\ Holds(t, k) /\ Len(t) = Len(s) + Len(added)
        /\ Len(added) \in Nat /\ \A other : Holds(s, other) => Holds(t, other)
        /\ \A other : Holds(t, other) => other = k \/ Holds(s, other)
    <3>1. Len(t) = Len(s) + Len(added) /\ Len(added) \in Nat
      BY ONLY <1>1, <2>2
    <3>2. /\ t \in Seq(X) /\ Distinctly(t) /\ Holds(t, k)
          /\ \A other : Holds(s, other) => Holds(t, other)
      BY <1>2, <2>2
    <3>3. \A other : Holds(t, other) => Holds(s, other)
      BY ONLY <2>2
    <3> QED BY <3>1, <3>2, <3>3
  <2> QED BY <1>t, <2>4
<1>3. CASE ~Holds(s, k)
  <2>1. added = <<k>>
    BY <1>1, <1>3 DEF Contains, Holds
  <2>2. /\ t \in Seq(X) /\ DOMAIN t = 1 .. Len(s) + 1 /\ t[Len(s) + 1] = k /\ Len(added) = 1
        /\ Len(t) = Len(s) + 1 /\ \A n \in 1 .. Len(s) : t[n] = s[n]
    <3>1. t = Append(s, k)
      <4>1. t = s \o <<k>>
        BY ONLY <1>t, <2>1
      <4>2. s \o <<k>> = Append(s, k)
        OBVIOUS
      <4> QED BY ONLY <4>1, <4>2
    <3>2. Len(added) = 1
      BY <2>1
    <3> QED BY <1>1, <3>1, <3>2
  <2>3. Holds(t, k)
    BY <1>1, <2>2 DEF Holds
  <2>4. \A other : Holds(s, other) => Holds(t, other)
    BY <1>1, <2>2 DEF Holds
  <2>6. \A n \in DOMAIN t : n \in 1 .. Len(s) \/ n = Len(s) + 1
    BY <1>1, <2>2
  <2>5. Distinctly(t)
    <3>1. SUFFICES ASSUME NEW m \in DOMAIN t, NEW n \in DOMAIN t, t[m] = t[n]
                   PROVE  m = n
      BY DEF Distinctly
    <3>2. CASE m \in 1 .. Len(s) /\ n \in 1 .. Len(s)
      BY <1>1, <2>2, <3>1, <3>2 DEF Distinctly
    <3>3. CASE m = Len(s) + 1 /\ n \in 1 .. Len(s)
      BY <1>1, <1>3, <2>2, <3>1, <3>3 DEF Holds
    <3>4. CASE n = Len(s) + 1 /\ m \in 1 .. Len(s)
      BY <1>1, <1>3, <2>2, <3>1, <3>4 DEF Holds
    <3>5. CASE m = Len(s) + 1 /\ n = Len(s) + 1
      BY <3>5
    <3> QED BY <2>6, <3>2, <3>3, <3>4, <3>5
  <2>7. \A other : Holds(t, other) => other = k \/ Holds(s, other)
    BY <1>1, <2>2, <2>6 DEF Holds
  <2> QED BY <1>t, <2>2, <2>3, <2>4, <2>5, <2>7
<1> QED BY <1>2, <1>3

(* A sequence without repetition is no longer than there are elements, and *)
(* has them all if it is as long.                                          *)
LEMMA LenOfDistinct ==
    ASSUME NEW X, IsFiniteSet(X), NEW s \in Seq(X), Distinctly(s)
    PROVE  /\ Cardinality(X) \in Nat /\ Len(s) \in Nat /\ Len(s) <= Cardinality(X)
           /\ Len(s) >= Cardinality(X) => \A x \in X : Holds(s, x)
<1>D. PICK D : D = 1 .. Len(s)
  OBVIOUS
<1>1. DOMAIN s = D /\ Len(s) \in Nat /\ s \in [D -> X] /\ Cardinality(X) \in Nat
  BY <1>D, FS_CardinalityType
<1>2. IsFiniteSet(D) /\ Cardinality(D) = Len(s)
  <2>1. IsFiniteSet(1 .. Len(s)) /\ Cardinality(1 .. Len(s)) = Len(s)
    <3>n. PICK n : n = Len(s)
      OBVIOUS
    <3>1. 1 \in Int /\ n \in Int /\ n \in Nat
      BY <1>1, <3>n
    <3>2. IsFiniteSet(1 .. n) /\ Cardinality(1 .. n) = IF 1 > n THEN 0 ELSE n - 1 + 1
      BY ONLY <3>1, FS_Interval
    <3> QED BY <3>1, <3>2, <3>n
  <2> QED BY <1>D, <2>1
<1>3. s \in Injection(D, X)
  <2>1. \A a, b \in D : s[a] = s[b] => a = b
    BY <1>1 DEF Distinctly
  <2> QED BY <1>1, <2>1, Fun_IsInj
<1>4. Cardinality(D) <= Cardinality(X)
  BY <1>2, <1>3, FS_Injection
<1>5. ASSUME Len(s) >= Cardinality(X)
      PROVE  \A x \in X : Holds(s, x)
  <2>1. Cardinality(D) = Cardinality(X)
    BY <1>1, <1>2, <1>4, <1>5
  <2>2. s \in Surjection(D, X)
    BY <1>2, <1>3, <2>1, FS_Injection
  <2>3. \A x \in X : \E n \in D : s[n] = x
    BY <2>2, Fun_SurjectionProperties
  <2> QED BY <1>1, <2>3 DEF Holds
<1> QED BY <1>1, <1>2, <1>4, <1>5

(* The largest of some numbers. *)
LEMMA MaxHolds ==
    ASSUME NEW S \in SUBSET Nat, IsFiniteSet(S), S # {}
    PROVE  Max(S) \in S /\ \A y \in S : Max(S) >= y
<1>c. PICK c, a : c = Cardinality(S) /\ a = Ascending(S)
  OBVIOUS
<1>1. /\ c \in Nat /\ a \in [1 .. c -> S]
      /\ \A i, j \in 1 .. c : i < j => a[i] < a[j]
      /\ \A x \in S : \E i \in 1 .. c : a[i] = x
  BY <1>c, AscendingHolds
<1>2. c \in 1 .. c /\ a[c] \in S /\ a[c] \in Nat
  <2>x. PICK x : x \in S
    OBVIOUS
  <2>i. PICK i \in 1 .. c : a[i] = x
    BY <1>1, <2>x
  <2>1. c # 0
    BY <2>i
  <2>2. c \in 1 .. c
    BY <1>1, <2>1
  <2>3. a[c] \in S
    BY <1>1, <2>2
  <2> QED BY <2>2, <2>3
<1>3. \A y \in S : a[c] >= y
  <2>1. ASSUME NEW y \in S
        PROVE  a[c] >= y
    <3>1. PICK i \in 1 .. c : a[i] = y
      BY <1>1
    <3>2. i = c \/ i < c
      BY <1>1
    <3>3. i < c => a[i] < a[c]
      BY <1>1, <1>2
    <3> QED BY <1>2, <3>1, <3>2, <3>3
  <2> QED BY <2>1
<1> QED BY <1>2, <1>3 DEF Max

(* A number or zero, whichever is larger. *)
LEMMA MaxOfZero ==
    ASSUME NEW x \in Int
    PROVE  Max({0, x}) \in Nat /\ Max({0, x}) \in {0, x}
<1>m. PICK m \in {0, x} : m = IF x >= 0 THEN x ELSE 0
  OBVIOUS
<1>1. \A y \in {0, x} : m >= y
  BY <1>m
<1>2. Max({0, x}) \in {0, x} /\ \A y \in {0, x} : Max({0, x}) >= y
  BY <1>1 DEF Max
<1> QED BY <1>2

(* A first value and as many steps. *)
RunUpTo(h, S, L, first, step) ==
    h \in [0 .. L -> S] /\ h[0] = first /\ \A n \in 1 .. L : h[n] = step[<<n, h[n - 1]>>]

LEMMA StepsUpTo ==
    ASSUME NEW S, NEW L \in Nat, NEW first \in S, NEW step, step \in [(1 .. L) \X S -> S]
    PROVE  \E h : RunUpTo(h, S, L, first, step)
<1> DEFINE all == [o \in Nat \X S |-> IF o[1] + 1 <= L THEN step[<<o[1] + 1, o[2]>>] ELSE o[2]]
<1>1. all \in [Nat \X S -> S]
  <2>1. ASSUME NEW o \in Nat \X S
        PROVE  (IF o[1] + 1 <= L THEN step[<<o[1] + 1, o[2]>>] ELSE o[2]) \in S
    <3>1. o[1] \in Nat /\ o[2] \in S
      OBVIOUS
    <3>2. CASE o[1] + 1 <= L
      <4>1. <<o[1] + 1, o[2]>> \in (1 .. L) \X S
        BY <3>1, <3>2
      <4> QED BY <3>2, <4>1
    <3> QED BY <3>1, <3>2
  <2> QED BY <2>1
<1>2. PICK g : IsRun(g, S, first, all)
  <2> HIDE DEF all
  <2> QED BY <1>1, Iteration
<1>3. g \in [Nat -> S] /\ g[0] = first /\ \A n \in Nat : g[n + 1] = all[<<n, g[n]>>]
  BY <1>2 DEF IsRun
<1>h. PICK h : h = [n \in 0 .. L |-> g[n]]
  OBVIOUS
<1>4. h \in [0 .. L -> S] /\ h[0] = first
  BY <1>3, <1>h
<1>5. ASSUME NEW n \in 1 .. L
      PROVE  h[n] = step[<<n, h[n - 1]>>]
  <2>1. n - 1 \in Nat /\ (n - 1) + 1 = n /\ n <= L /\ n - 1 \in 0 .. L /\ n \in 0 .. L
    OBVIOUS
  <2>2. g[n] = all[<<n - 1, g[n - 1]>>] /\ g[n - 1] \in S
    <3>m. PICK m \in Nat : m = n - 1
      BY <2>1
    <3>1. g[m + 1] = all[<<m, g[m]>>] /\ g[m] \in S
      <4> HIDE DEF all
      <4> QED BY <1>3
    <3> QED BY <2>1, <3>m, <3>1
  <2>o. PICK o : o = <<n - 1, g[n - 1]>>
    OBVIOUS
  <2>3. o \in Nat \X S /\ o[1] = n - 1 /\ o[2] = g[n - 1]
    BY <2>1, <2>2, <2>o
  <2>4. all[o] = IF o[1] + 1 <= L THEN step[<<o[1] + 1, o[2]>>] ELSE o[2]
    BY <2>3
  <2> HIDE DEF all
  <2>5. all[o] = step[<<n, g[n - 1]>>]
    BY <2>1, <2>3, <2>4
  <2>6. h[n] = g[n] /\ h[n - 1] = g[n - 1]
    BY <1>h, <2>1
  <2> QED BY <2>2, <2>5, <2>6, <2>o
<1> QED BY <1>4, <1>5 DEF RunUpTo

(* What a plan is made from: the routes have their nodes and their links,  *)
(* and there are not too many of these.                                    *)
PathIds(m) == UNION {ToSet(m.routes[i].node_ids) : i \in DOMAIN m.routes}
LinkPairs(m) == {<<l.from, l.to>> : l \in m.links}

Plannable(m) ==
    /\ IsFiniteSet(PathIds(m)) /\ Cardinality(PathIds(m)) <= MaxNodes
    /\ IsFiniteSet(LinkPairs(m)) /\ Cardinality(LinkPairs(m)) <= MaxLinks
    /\ \A e \in LinkPairs(m) : e = <<e[1], e[2]>> /\ e[1] # e[2]
    /\ m.routes \in Seq(ToSet(m.routes))
    /\ \A i \in DOMAIN m.routes :
          LET ids == m.routes[i].node_ids
          IN  /\ {"node_ids", "complete"} \subseteq DOMAIN m.routes[i]
              /\ m.routes[i].result \in Nat /\ m.routes[i].complete \in BOOLEAN
              /\ ids \in Seq(PathIds(m)) /\ Len(ids) # 0
              /\ \A n \in 1 .. Len(ids) - 1 : <<ids[n], ids[n + 1]>> \in LinkPairs(m)

(* The state of a selection, in which a route is as far as its nodes and   *)
(* its links are selected.                                                 *)
Along(nodes, links, ids, c) ==
    /\ c \in 1 .. Len(ids)
    /\ \A n \in 1 .. c : Holds(nodes, ids[n])
    /\ \A n \in 1 .. c - 1 : Holds(links, <<ids[n], ids[n + 1]>>)

Owned(m) == [route : DOMAIN m.routes, cursor : Nat, blocked : BOOLEAN]

PlanStates(m) ==
    [nodes : Seq(PathIds(m)), links : Seq(LinkPairs(m)), taken : Seq(Owned(m)), cost : Nat,
     missing : {FALSE}]

PlanInv(st, m, budget) ==
    /\ st \in PlanStates(m)
    /\ Distinctly(st.nodes) /\ Distinctly(st.links)
    /\ \A n \in DOMAIN st.links : Holds(st.nodes, st.links[n][1]) /\ Holds(st.nodes, st.links[n][2])
    /\ st.cost = Len(st.nodes) + Len(st.links) + Len(st.taken) /\ st.cost <= budget
    /\ \A k \in DOMAIN st.taken :
          Along(st.nodes, st.links, m.routes[st.taken[k].route].node_ids, st.taken[k].cursor)

LEMMA PlanTypes ==
    ASSUME NEW m, NEW budget, NEW st, PlanInv(st, m, budget)
    PROVE  /\ st.nodes \in Seq(PathIds(m)) /\ st.links \in Seq(LinkPairs(m))
           /\ st.taken \in Seq(Owned(m)) /\ st.cost \in Nat /\ st.missing = FALSE
           /\ DOMAIN st.taken = 1 .. Len(st.taken) /\ Len(st.taken) \in Nat
           /\ Len(st.nodes) \in Nat /\ Len(st.links) \in Nat
           /\ \A k \in DOMAIN st.taken : /\ st.taken[k] \in Owned(m)
                                         /\ st.taken[k].route \in DOMAIN m.routes
                                         /\ st.taken[k].cursor \in Nat
                                         /\ st.taken[k].blocked \in BOOLEAN
<1>1. st \in PlanStates(m)
  BY DEF PlanInv
<1>2. /\ st.nodes \in Seq(PathIds(m)) /\ st.links \in Seq(LinkPairs(m))
      /\ st.taken \in Seq(Owned(m)) /\ st.cost \in Nat /\ st.missing = FALSE
  BY <1>1 DEF PlanStates
<1>t. PICK t : t = st.taken
  OBVIOUS
<1>3. DOMAIN t = 1 .. Len(t) /\ Len(t) \in Nat /\ \A k \in DOMAIN t : t[k] \in Owned(m)
  <2>1. t \in Seq(Owned(m))
    BY <1>2, <1>t
  <2> QED BY <2>1
<1>4. \A k \in DOMAIN t : /\ t[k].route \in DOMAIN m.routes /\ t[k].cursor \in Nat
                          /\ t[k].blocked \in BOOLEAN
  BY <1>3 DEF Owned
<1>5. Len(st.nodes) \in Nat /\ Len(st.links) \in Nat
  BY <1>2
<1> QED BY <1>2, <1>3, <1>4, <1>5, <1>t

(* What is along a route stays along it as more is selected.               *)
LEMMA StaysAlong ==
    ASSUME NEW nodes, NEW links, NEW ids, NEW c, Along(nodes, links, ids, c), NEW more, NEW further,
           \A x : Holds(nodes, x) => Holds(more, x),
           \A x : Holds(links, x) => Holds(further, x)
    PROVE  Along(more, further, ids, c)
BY DEF Along

(* A state of these fields. *)
Consists(st, nodes, links, taken, cost) ==
    st.nodes = nodes /\ st.links = links /\ st.taken = taken /\ st.cost = cost

LEMMA PlanStateHolds ==
    ASSUME NEW m, NEW budget,
           NEW nodes, NEW links, NEW taken, NEW cost,
           cost = Len(nodes) + Len(links) + Len(taken), cost <= budget,
           Distinctly(nodes), Distinctly(links),
           \A n \in DOMAIN links : Holds(nodes, links[n][1]) /\ Holds(nodes, links[n][2]),
           \A k \in DOMAIN taken : Along(nodes, links, m.routes[taken[k].route].node_ids, taken[k].cursor),
           NEW st \in PlanStates(m), Consists(st, nodes, links, taken, cost)
    PROVE  PlanInv(st, m, budget)
BY DEF PlanInv, Consists

(* What a step changes of a state. *)
LEMMA PlanStateOf ==
    ASSUME NEW m, NEW st \in PlanStates(m),
           NEW nodes \in Seq(PathIds(m)), NEW links \in Seq(LinkPairs(m)), NEW taken \in Seq(Owned(m)),
           NEW cost \in Nat
    PROVE  /\ LET y == [st EXCEPT !.taken = taken]
              IN  y \in PlanStates(m) /\ Consists(y, st.nodes, st.links, taken, st.cost)
           /\ LET y == [st EXCEPT !.nodes = nodes, !.cost = cost, !.taken = taken]
              IN  y \in PlanStates(m) /\ Consists(y, nodes, st.links, taken, cost)
           /\ LET y == [st EXCEPT !.nodes = nodes, !.links = links, !.cost = cost, !.taken = taken]
              IN  y \in PlanStates(m) /\ Consists(y, nodes, links, taken, cost)
<1>y. PICK x, y, z : /\ x = [st EXCEPT !.taken = taken]
                     /\ y = [st EXCEPT !.nodes = nodes, !.cost = cost]
                     /\ z = [y EXCEPT !.links = links]
  OBVIOUS
<1>1. x \in PlanStates(m) /\ Consists(x, st.nodes, st.links, taken, st.cost)
  BY <1>y DEF PlanStates, Consists
<1>2. y \in PlanStates(m) /\ Consists(y, nodes, st.links, st.taken, cost)
  BY <1>y DEF PlanStates, Consists
<1>3. z \in PlanStates(m) /\ Consists(z, nodes, links, st.taken, cost)
  BY <1>y, <1>2 DEF PlanStates, Consists
<1>u. PICK u, v : u = [y EXCEPT !.taken = taken] /\ v = [z EXCEPT !.taken = taken]
  OBVIOUS
<1>4. u \in PlanStates(m) /\ Consists(u, nodes, st.links, taken, cost)
  BY <1>u, <1>2 DEF PlanStates, Consists
<1>5. v \in PlanStates(m) /\ Consists(v, nodes, links, taken, cost)
  BY <1>u, <1>3 DEF PlanStates, Consists
<1>6. u = [st EXCEPT !.nodes = nodes, !.cost = cost, !.taken = taken]
  BY <1>y, <1>u DEF PlanStates
<1>7. v = [st EXCEPT !.nodes = nodes, !.links = links, !.cost = cost, !.taken = taken]
  BY <1>y, <1>u DEF PlanStates
<1> QED BY <1>y, <1>1, <1>4, <1>5, <1>6, <1>7

(* A route is taken with its first hop, or is not.                         *)
LEMMA EnrollHolds ==
    ASSUME NEW m, Plannable(m), NEW budget \in Nat, NEW st, PlanInv(st, m, budget),
           NEW i \in DOMAIN m.routes
    PROVE  LET y == Enroll(st, m.routes, i, budget)
           IN  /\ PlanInv(y, m, budget)
               /\ \/ y.taken = st.taken
                  \/ y.taken = Append(st.taken, [route |-> i, cursor |-> 1, blocked |-> FALSE])
<1>y. PICK y : y = Enroll(st, m.routes, i, budget)
  OBVIOUS
<1>d. PICK ids : ids = m.routes[i].node_ids
  OBVIOUS
<1>1. ids \in Seq(PathIds(m)) /\ Len(ids) # 0
  BY <1>d DEF Plannable
<1>f. PICK first : first = ids[1]
  OBVIOUS
<1>2. first \in PathIds(m) /\ 1 \in 1 .. Len(ids)
  BY <1>1, <1>f
<1>a. PICK added : added = IF Contains(st.nodes, first) THEN <<>> ELSE <<first>>
  OBVIOUS
<1>c. PICK cost : cost = st.cost + 1 + Len(added)
  OBVIOUS
<1>o. PICK own : own = [route |-> i, cursor |-> 1, blocked |-> FALSE]
  OBVIOUS
<1>3. y = IF cost > budget THEN st
          ELSE [st EXCEPT !.nodes = @ \o added, !.cost = cost, !.taken = Append(@, own)]
  BY <1>y, <1>d, <1>f, <1>a, <1>c, <1>o DEF Enroll
<1>4. CASE cost > budget
  BY <1>3, <1>4, <1>y
<1>5. CASE ~(cost > budget)
  <2>n. PICK nodes, taken : nodes = st.nodes \o added /\ taken = Append(st.taken, own)
    OBVIOUS
  <2>0. /\ st.nodes \in Seq(PathIds(m)) /\ st.links \in Seq(LinkPairs(m)) /\ st.taken \in Seq(Owned(m))
        /\ st.cost \in Nat /\ DOMAIN st.taken = 1 .. Len(st.taken) /\ Len(st.taken) \in Nat
        /\ Len(st.nodes) \in Nat /\ Len(st.links) \in Nat
    BY PlanTypes
  <2>2. /\ nodes \in Seq(PathIds(m)) /\ Distinctly(nodes) /\ Holds(nodes, first)
        /\ Len(added) \in Nat /\ Len(nodes) = Len(st.nodes) + Len(added)
        /\ \A other : Holds(st.nodes, other) => Holds(nodes, other)
    <3>1. Distinctly(st.nodes)
      BY DEF PlanInv
    <3> QED BY <1>2, <1>a, <2>0, <2>n, <3>1, AddHolds
  <2>3. /\ taken \in Seq(Owned(m)) /\ Len(taken) = Len(st.taken) + 1
        /\ \A k \in DOMAIN taken : (k \in DOMAIN st.taken /\ taken[k] = st.taken[k]) \/ taken[k] = own
    <3>1. own \in Owned(m)
      BY <1>o DEF Owned
    <3>2. taken \in Seq(Owned(m)) /\ Len(taken) = Len(st.taken) + 1
      BY <2>0, <2>n, <3>1
    <3>3. DOMAIN taken = 1 .. Len(st.taken) + 1 /\ taken[Len(st.taken) + 1] = own
      BY <2>0, <2>n, <3>1
    <3>4. \A k \in 1 .. Len(st.taken) : taken[k] = st.taken[k]
      BY <2>0, <2>n, <3>1
    <3> QED BY <2>0, <3>2, <3>3, <3>4
  <2>4. cost = Len(nodes) + Len(st.links) + Len(taken) /\ cost <= budget /\ cost \in Nat
    <3>1. st.cost = Len(st.nodes) + Len(st.links) + Len(st.taken)
      BY DEF PlanInv
    <3>2. /\ Len(added) \in Nat /\ Len(nodes) = Len(st.nodes) + Len(added)
          /\ Len(taken) = Len(st.taken) + 1
      BY ONLY <2>2, <2>3
    <3>3. /\ st.cost \in Nat /\ Len(st.taken) \in Nat /\ Len(st.nodes) \in Nat
          /\ Len(st.links) \in Nat /\ budget \in Nat
      BY <2>0
    <3>a. PICK a, b, t, x : a = Len(st.nodes) /\ b = Len(st.links) /\ t = Len(st.taken) /\ x = Len(added)
      OBVIOUS
    <3>p. PICK p, q : p = Len(nodes) /\ q = Len(taken)
      OBVIOUS
    <3>7. /\ cost = (a + b + t) + 1 + x /\ p = a + x /\ q = t + 1
          /\ a \in Nat /\ b \in Nat /\ t \in Nat /\ x \in Nat
      BY ONLY <1>c, <3>1, <3>2, <3>3, <3>a, <3>p
    <3>4. cost = p + b + q
      BY ONLY <3>7
    <3>5. cost \in Nat
      BY ONLY <3>7
    <3>6. cost <= budget
      BY ONLY <1>5, <3>3, <3>5
    <3> QED BY <3>4, <3>5, <3>6, <3>a, <3>p
  <2>5. \A n \in DOMAIN st.links : Holds(nodes, st.links[n][1]) /\ Holds(nodes, st.links[n][2])
    <3>1. \A n \in DOMAIN st.links : Holds(st.nodes, st.links[n][1]) /\ Holds(st.nodes, st.links[n][2])
      BY DEF PlanInv
    <3> QED BY ONLY <2>2, <3>1
  <2>6. ASSUME NEW k \in DOMAIN taken
        PROVE  Along(nodes, st.links, m.routes[taken[k].route].node_ids, taken[k].cursor)
    <3>1. CASE k \in DOMAIN st.taken /\ taken[k] = st.taken[k]
      <4>1. Along(st.nodes, st.links, m.routes[taken[k].route].node_ids, taken[k].cursor)
        BY <3>1 DEF PlanInv
      <4> QED BY ONLY <2>2, <4>1, StaysAlong
    <3>2. CASE taken[k] = own
      <4>1. taken[k].route = i /\ taken[k].cursor = 1
        BY <1>o, <3>2
      <4>2. Along(nodes, st.links, ids, 1)
        BY <1>2, <1>f, <2>2 DEF Along
      <4> QED BY <1>d, <4>1, <4>2
    <3> QED BY <2>3, <3>1, <3>2
  <2>7. Distinctly(st.links)
    BY DEF PlanInv
  <2>1. y \in PlanStates(m) /\ Consists(y, nodes, st.links, taken, cost)
    <3>1. st \in PlanStates(m)
      BY DEF PlanInv
    <3>2. y = [st EXCEPT !.nodes = nodes, !.cost = cost, !.taken = taken]
      BY <1>3, <1>5, <2>n
    <3> QED BY ONLY <2>0, <2>2, <2>3, <2>4, <3>1, <3>2, PlanStateOf
  <2>8. PlanInv(y, m, budget)
    BY ONLY <2>1, <2>2, <2>4, <2>5, <2>6, <2>7, PlanStateHolds
  <2>9. y.taken = Append(st.taken, own)
    BY <2>1, <2>n DEF Consists
  <2> QED BY <1>o, <1>y, <2>8, <2>9
<1> QED BY <1>4, <1>5

(* A route gets one hop further, or is blocked.  Its link is never missing. *)
LEMMA ExtendHolds ==
    ASSUME NEW m, Plannable(m), NEW budget \in Nat, NEW st, PlanInv(st, m, budget),
           NEW k \in DOMAIN st.taken
    PROVE  LET y == Extend(st, m, k, budget)
           IN  /\ PlanInv(y, m, budget) /\ DOMAIN y.taken = DOMAIN st.taken
               /\ \A a \in DOMAIN st.taken : y.taken[a].route = st.taken[a].route
<1>y. PICK y : y = Extend(st, m, k, budget)
  OBVIOUS
<1>o. PICK own, i, c : own = st.taken[k] /\ i = own.route /\ c = own.cursor
  OBVIOUS
<1>d. PICK ids : ids = m.routes[i].node_ids
  OBVIOUS
<1>0. /\ st.nodes \in Seq(PathIds(m)) /\ st.links \in Seq(LinkPairs(m)) /\ st.taken \in Seq(Owned(m))
      /\ st.cost \in Nat /\ DOMAIN st.taken = 1 .. Len(st.taken) /\ Len(st.taken) \in Nat
      /\ Len(st.nodes) \in Nat /\ Len(st.links) \in Nat
      /\ own \in Owned(m) /\ i \in DOMAIN m.routes /\ c \in Nat /\ own.blocked \in BOOLEAN
  BY <1>o, PlanTypes
<1>1. ids \in Seq(PathIds(m)) /\ \A n \in 1 .. Len(ids) - 1 : <<ids[n], ids[n + 1]>> \in LinkPairs(m)
  BY <1>0, <1>d DEF Plannable
<1>2. Along(st.nodes, st.links, ids, c)
  BY <1>o, <1>d DEF PlanInv
<1>e. PICK edge : edge = <<ids[c], ids[c + 1]>>
  OBVIOUS
<1>n. PICK nodes, links : /\ nodes = IF Contains(st.nodes, edge[2]) THEN <<>> ELSE <<edge[2]>>
                          /\ links = IF Contains(st.links, edge) THEN <<>> ELSE <<edge>>
  OBVIOUS
<1>c. PICK cost : cost = st.cost + Len(nodes) + Len(links)
  OBVIOUS
<1>3. y = IF own.blocked \/ c = Len(ids) THEN st
          ELSE IF edge \notin LinkPairs(m)
          THEN [st EXCEPT !.taken[k].blocked = TRUE, !.missing = TRUE]
          ELSE IF cost > budget THEN [st EXCEPT !.taken[k].blocked = TRUE]
          ELSE [st EXCEPT !.nodes = @ \o nodes, !.links = @ \o links, !.cost = cost,
                          !.taken[k].cursor = @ + 1]
  <2>1. /\ own.route = i /\ own.cursor = c /\ LinkPairs(m) = {<<l.from, l.to>> : l \in m.links}
    BY <1>o DEF LinkPairs
  <2>2. Extend(st, m, k, budget)
          = IF own.blocked \/ c = Len(ids) THEN st
            ELSE IF edge \notin LinkPairs(m)
            THEN [st EXCEPT !.taken[k].blocked = TRUE, !.missing = TRUE]
            ELSE IF cost > budget THEN [st EXCEPT !.taken[k].blocked = TRUE]
            ELSE [st EXCEPT !.nodes = @ \o nodes, !.links = @ \o links, !.cost = cost,
                            !.taken[k].cursor = @ + 1]
    BY ONLY <1>o, <1>d, <1>e, <1>n, <1>c, <2>1, Zenon DEF Extend
  <2> QED BY ONLY <1>y, <2>2
<1>s. st \in PlanStates(m)
  BY DEF PlanInv
<1>i. /\ Distinctly(st.nodes) /\ Distinctly(st.links)
      /\ \A n \in DOMAIN st.links : Holds(st.nodes, st.links[n][1]) /\ Holds(st.nodes, st.links[n][2])
      /\ st.cost = Len(st.nodes) + Len(st.links) + Len(st.taken) /\ st.cost <= budget
      /\ \A a \in DOMAIN st.taken :
            Along(st.nodes, st.links, m.routes[st.taken[a].route].node_ids, st.taken[a].cursor)
  BY DEF PlanInv
<1>4. CASE own.blocked \/ c = Len(ids)
  BY <1>3, <1>4, <1>y
<1>5. CASE ~(own.blocked \/ c = Len(ids))
  <2>1. c \in 1 .. Len(ids) - 1 /\ c + 1 \in 1 .. Len(ids) /\ Len(ids) \in Nat
    BY <1>1, <1>2, <1>5 DEF Along
  <2>2. edge \in LinkPairs(m) /\ edge[1] = ids[c] /\ edge[2] = ids[c + 1] /\ edge[2] \in PathIds(m)
    BY <1>1, <1>e, <2>1
  <2>3. CASE cost > budget
    <3>t. PICK taken : taken = [st.taken EXCEPT ![k].blocked = TRUE]
      OBVIOUS
    <3>b. PICK new : new = [own EXCEPT !.blocked = TRUE]
      OBVIOUS
    <3>2. new \in Owned(m) /\ new.route = i /\ new.cursor = c
      BY <1>0, <1>o, <3>b DEF Owned
    <3>3. /\ DOMAIN taken = DOMAIN st.taken /\ taken[k] = new
          /\ \A a \in DOMAIN st.taken : a # k => taken[a] = st.taken[a]
      BY <1>o, <3>b, <3>t
    <3>4. /\ taken \in Seq(Owned(m)) /\ Len(taken) = Len(st.taken)
          /\ \A a \in DOMAIN st.taken : /\ taken[a].route = st.taken[a].route
                                        /\ taken[a].cursor = st.taken[a].cursor
      <4>1. /\ DOMAIN taken = 1 .. Len(st.taken) /\ Len(st.taken) \in Nat
            /\ taken = [a \in DOMAIN taken |-> taken[a]]
        BY <1>0, <3>3, <3>t
      <4>2. \A a \in DOMAIN taken : taken[a] \in Owned(m)
        BY <3>2, <3>3, PlanTypes
      <4>3. taken \in Seq(Owned(m)) /\ Len(taken) = Len(st.taken)
        BY ONLY <4>1, <4>2
      <4>4. \A a \in DOMAIN st.taken : /\ taken[a].route = st.taken[a].route
                                         /\ taken[a].cursor = st.taken[a].cursor
        BY <1>o, <3>2, <3>3
      <4> QED BY <4>3, <4>4
    <3>5. \A a \in DOMAIN taken :
             Along(st.nodes, st.links, m.routes[taken[a].route].node_ids, taken[a].cursor)
      BY <1>i, <3>3, <3>4
    <3>1. y \in PlanStates(m) /\ Consists(y, st.nodes, st.links, taken, st.cost)
      <4>1. y = [st EXCEPT !.taken = taken]
        BY <1>3, <1>5, <2>2, <2>3, <3>t
      <4> QED BY ONLY <1>0, <1>s, <3>4, <4>1, PlanStateOf
    <3>8. st.cost = Len(st.nodes) + Len(st.links) + Len(taken)
      BY ONLY <1>i, <3>4
    <3>6. PlanInv(y, m, budget)
      BY ONLY <1>i, <3>1, <3>5, <3>8, PlanStateHolds
    <3>7. y.taken = taken
      BY <3>1 DEF Consists
    <3> QED BY <1>y, <3>3, <3>4, <3>6, <3>7
  <2>4. CASE ~(cost > budget)
    <3>t. PICK taken : taken = [st.taken EXCEPT ![k].cursor = @ + 1]
      OBVIOUS
    <3>n. PICK ns, ls : ns = st.nodes \o nodes /\ ls = st.links \o links
      OBVIOUS
    <3>b. PICK new : new = [own EXCEPT !.cursor = c + 1]
      OBVIOUS
    <3>2. new \in Owned(m) /\ new.route = i /\ new.cursor = c + 1
      <4>1. c + 1 \in Nat
        BY <1>0
      <4>2. own \in [route : DOMAIN m.routes, cursor : Nat, blocked : BOOLEAN]
        BY <1>0 DEF Owned
      <4> QED BY ONLY <1>o, <3>b, <4>1, <4>2 DEF Owned
    <3>3. /\ DOMAIN taken = DOMAIN st.taken /\ taken[k] = new
          /\ \A a \in DOMAIN st.taken : a # k => taken[a] = st.taken[a]
      BY <1>o, <3>b, <3>t
    <3>4. /\ taken \in Seq(Owned(m)) /\ Len(taken) = Len(st.taken)
          /\ \A a \in DOMAIN st.taken : taken[a].route = st.taken[a].route
      <4>1. /\ DOMAIN taken = 1 .. Len(st.taken) /\ Len(st.taken) \in Nat
            /\ taken = [a \in DOMAIN taken |-> taken[a]]
        BY <1>0, <3>3, <3>t
      <4>2. \A a \in DOMAIN taken : taken[a] \in Owned(m)
        BY <3>2, <3>3, PlanTypes
      <4>3. taken \in Seq(Owned(m)) /\ Len(taken) = Len(st.taken)
        BY ONLY <4>1, <4>2
      <4>4. \A a \in DOMAIN st.taken : taken[a].route = st.taken[a].route
        BY <1>o, <3>2, <3>3
      <4> QED BY <4>3, <4>4
    <3>5. /\ ns \in Seq(PathIds(m)) /\ Distinctly(ns) /\ Holds(ns, edge[2])
          /\ Len(nodes) \in Nat /\ Len(ns) = Len(st.nodes) + Len(nodes)
          /\ \A other : Holds(st.nodes, other) => Holds(ns, other)
      <4>1. st.nodes \in Seq(PathIds(m)) /\ Distinctly(st.nodes) /\ edge[2] \in PathIds(m)
        BY <1>0, <1>i, <2>2
      <4>2. nodes = IF Contains(st.nodes, edge[2]) THEN <<>> ELSE <<edge[2]>>
        BY <1>n
      <4> QED BY ONLY <3>n, <4>1, <4>2, AddHolds
    <3>6. /\ ls \in Seq(LinkPairs(m)) /\ Distinctly(ls) /\ Holds(ls, edge)
          /\ Len(links) \in Nat /\ Len(ls) = Len(st.links) + Len(links)
          /\ \A other : Holds(st.links, other) => Holds(ls, other)
          /\ \A n \in DOMAIN ls : ls[n] = edge \/ Holds(st.links, ls[n])
      <4>1. st.links \in Seq(LinkPairs(m)) /\ Distinctly(st.links) /\ edge \in LinkPairs(m)
        BY <1>0, <1>i, <2>2
      <4>2. links = IF Contains(st.links, edge) THEN <<>> ELSE <<edge>>
        BY <1>n
      <4>s. PICK s, X : s = st.links /\ X = LinkPairs(m)
        OBVIOUS
      <4>3. s \in Seq(X) /\ Distinctly(s) /\ edge \in X /\ links = IF Contains(s, edge) THEN <<>> ELSE <<edge>>
        BY ONLY <4>1, <4>2, <4>s
      <4>4. /\ s \o links \in Seq(X) /\ Distinctly(s \o links) /\ Holds(s \o links, edge)
            /\ Len(links) \in Nat /\ Len(s \o links) = Len(s) + Len(links)
            /\ \A other : Holds(s, other) => Holds(s \o links, other)
            /\ \A other : Holds(s \o links, other) => other = edge \/ Holds(s, other)
        BY ONLY <4>3, AddHolds
      <4>5. \A n \in DOMAIN ls : Holds(ls, ls[n])
        BY DEF Holds
      <4> QED BY ONLY <3>n, <4>s, <4>4, <4>5
    <3>7. Holds(ns, edge[1])
      <4>1. Holds(st.nodes, ids[c])
        BY <1>2, <2>1 DEF Along
      <4> QED BY <2>2, <3>5, <4>1
    <3>8. ASSUME NEW n \in DOMAIN ls
          PROVE  Holds(ns, ls[n][1]) /\ Holds(ns, ls[n][2])
      <4>1. CASE ls[n] = edge
        BY <3>5, <3>7, <4>1
      <4>2. CASE Holds(st.links, ls[n])
        <5>1. PICK b \in DOMAIN st.links : st.links[b] = ls[n]
          BY <4>2 DEF Holds
        <5>2. Holds(st.nodes, ls[n][1]) /\ Holds(st.nodes, ls[n][2])
          BY ONLY <1>i, <5>1
        <5> QED BY ONLY <3>5, <5>2
      <4> QED BY <3>6, <4>1, <4>2
    <3>9. cost = Len(ns) + Len(ls) + Len(taken) /\ cost <= budget /\ cost \in Nat
      <4>1. /\ Len(nodes) \in Nat /\ Len(ns) = Len(st.nodes) + Len(nodes)
            /\ Len(links) \in Nat /\ Len(ls) = Len(st.links) + Len(links)
            /\ Len(taken) = Len(st.taken)
        BY ONLY <3>4, <3>5, <3>6
      <4>2. /\ st.cost \in Nat /\ Len(st.taken) \in Nat /\ Len(st.nodes) \in Nat
            /\ Len(st.links) \in Nat /\ budget \in Nat
            /\ st.cost = Len(st.nodes) + Len(st.links) + Len(st.taken)
        BY <1>0, <1>i
      <4>a. PICK a, b, t, x, z : /\ a = Len(st.nodes) /\ b = Len(st.links) /\ t = Len(st.taken)
                                 /\ x = Len(nodes) /\ z = Len(links)
        OBVIOUS
      <4>p. PICK p, q, r : p = Len(ns) /\ q = Len(ls) /\ r = Len(taken)
        OBVIOUS
      <4>6. /\ cost = (a + b + t) + x + z /\ p = a + x /\ q = b + z /\ r = t
            /\ a \in Nat /\ b \in Nat /\ t \in Nat /\ x \in Nat /\ z \in Nat
        BY ONLY <1>c, <4>1, <4>2, <4>a, <4>p
      <4>3. cost = p + q + r
        BY ONLY <4>6
      <4>4. cost \in Nat
        BY ONLY <4>6
      <4>5. cost <= budget
        BY ONLY <2>4, <4>2, <4>4
      <4> QED BY <4>3, <4>4, <4>5, <4>p
    <3>10. ASSUME NEW a \in DOMAIN taken
           PROVE  Along(ns, ls, m.routes[taken[a].route].node_ids, taken[a].cursor)
      <4>1. CASE a # k
        <5>1. Along(st.nodes, st.links, m.routes[taken[a].route].node_ids, taken[a].cursor)
          BY <1>i, <3>3, <4>1
        <5> QED BY ONLY <3>5, <3>6, <5>1, StaysAlong
      <4>2. CASE a = k
        <5>1. Along(ns, ls, ids, c)
          BY ONLY <1>2, <3>5, <3>6, StaysAlong
        <5>2. \A n \in 1 .. c + 1 : Holds(ns, ids[n])
          <6>1. \A n \in 1 .. c + 1 : n \in 1 .. c \/ n = c + 1
            BY <1>0
          <6> QED BY <2>2, <3>5, <5>1, <6>1 DEF Along
        <5>3. \A n \in 1 .. (c + 1) - 1 : Holds(ls, <<ids[n], ids[n + 1]>>)
          <6>1. \A n \in 1 .. (c + 1) - 1 : n \in 1 .. c - 1 \/ n = c
            BY <1>0
          <6> QED BY <1>e, <3>6, <5>1, <6>1 DEF Along
        <5>4. Along(ns, ls, ids, c + 1)
          BY <2>1, <5>2, <5>3 DEF Along
        <5>5. taken[a].route = i /\ taken[a].cursor = c + 1
          BY <3>2, <3>3, <4>2
        <5> QED BY <1>d, <5>4, <5>5
      <4> QED BY <4>1, <4>2
    <3>1. y \in PlanStates(m) /\ Consists(y, ns, ls, taken, cost)
      <4>1. y = [st EXCEPT !.nodes = ns, !.links = ls, !.cost = cost, !.taken = taken]
        BY <1>3, <1>5, <2>2, <2>4, <3>t, <3>n
      <4> QED BY ONLY <1>s, <3>4, <3>5, <3>6, <3>9, <4>1, PlanStateOf
    <3>11. PlanInv(y, m, budget)
      BY ONLY <3>1, <3>5, <3>6, <3>8, <3>9, <3>10, PlanStateHolds
    <3>12. y.taken = taken
      BY <3>1 DEF Consists
    <3> QED BY <1>y, <3>3, <3>4, <3>11, <3>12
  <2> QED BY <2>3, <2>4
<1> QED BY <1>4, <1>5

(* Sequences without repetition that have nothing in common, one after the *)
(* other.                                                                  *)
LEMMA ConcatHolds ==
    ASSUME NEW X, NEW s \in Seq(X), NEW t \in Seq(X), Distinctly(s), Distinctly(t),
           \A x : ~(Holds(s, x) /\ Holds(t, x))
    PROVE  /\ Distinctly(s \o t)
           /\ \A x : Holds(s \o t, x) => Holds(s, x) \/ Holds(t, x)
<1>c. PICK c : c = s \o t
  OBVIOUS
<1>1. /\ DOMAIN s = 1 .. Len(s) /\ Len(s) \in Nat /\ DOMAIN t = 1 .. Len(t) /\ Len(t) \in Nat
      /\ DOMAIN c = 1 .. Len(s) + Len(t)
      /\ \A n \in 1 .. Len(s) : c[n] = s[n]
      /\ \A n \in 1 .. Len(t) : c[Len(s) + n] = t[n]
  BY <1>c
<1>2. ASSUME NEW n \in DOMAIN c
      PROVE  \/ n \in DOMAIN s /\ c[n] = s[n]
             \/ n - Len(s) \in DOMAIN t /\ c[n] = t[n - Len(s)]
  <2>1. CASE n <= Len(s)
    BY <1>1, <2>1
  <2>2. CASE ~(n <= Len(s))
    <3>1. n - Len(s) \in 1 .. Len(t) /\ Len(s) + (n - Len(s)) = n
      BY <1>1, <2>2
    <3> QED BY <1>1, <3>1
  <2> QED BY <2>1, <2>2
<1>3. ASSUME NEW n \in DOMAIN c, NEW o \in DOMAIN c, c[n] = c[o]
      PROVE  n = o
  <2>1. CASE n \in DOMAIN s /\ c[n] = s[n] /\ o \in DOMAIN s /\ c[o] = s[o]
    BY <1>3, <2>1 DEF Distinctly
  <2>2. CASE /\ n - Len(s) \in DOMAIN t /\ c[n] = t[n - Len(s)]
             /\ o - Len(s) \in DOMAIN t /\ c[o] = t[o - Len(s)]
    <3>1. n - Len(s) = o - Len(s)
      BY <1>3, <2>2 DEF Distinctly
    <3> QED BY <1>1, <3>1
  <2>3. CASE n \in DOMAIN s /\ c[n] = s[n] /\ o - Len(s) \in DOMAIN t /\ c[o] = t[o - Len(s)]
    <3>1. Holds(s, c[n]) /\ Holds(t, c[n])
      BY <1>3, <2>3 DEF Holds
    <3> QED BY <3>1
  <2>4. CASE o \in DOMAIN s /\ c[o] = s[o] /\ n - Len(s) \in DOMAIN t /\ c[n] = t[n - Len(s)]
    <3>1. Holds(s, c[n]) /\ Holds(t, c[n])
      BY <1>3, <2>4 DEF Holds
    <3> QED BY <3>1
  <2> QED BY <1>2, <2>1, <2>2, <2>3, <2>4
<1>4. Distinctly(c)
  BY <1>3 DEF Distinctly
<1>5. \A x : Holds(c, x) => Holds(s, x) \/ Holds(t, x)
  BY <1>2 DEF Holds
<1> QED BY <1>4, <1>5, <1>c

LEMMA FlattenDistinct ==
    ASSUME NEW X, NEW seqs \in Seq(Seq(X)), \A i \in DOMAIN seqs : Distinctly(seqs[i]),
           \A i, j \in DOMAIN seqs : i # j => \A x : ~(Holds(seqs[i], x) /\ Holds(seqs[j], x))
    PROVE  Distinctly(FlattenSeq(seqs))
<1>l. PICK L : L = Len(seqs)
  OBVIOUS
<1>1. L \in Nat /\ DOMAIN seqs = 1 .. L /\ \A i \in 1 .. L : seqs[i] \in Seq(X)
  BY <1>l
<1>2. CASE L = 0
  <2>1. FlattenSeq(seqs) = seqs
    BY <1>2, <1>l DEF FlattenSeq
  <2>2. DOMAIN seqs = {}
    BY <1>1, <1>2
  <2> QED BY <2>1, <2>2 DEF Distinctly
<1>3. CASE L # 0
  <2>f. PICK f : /\ FlattenSeq(seqs) = f[L]
                 /\ \A i \in 1 .. L :
                       /\ f[i] \in Seq(X)
                       /\ f[i] = IF i = 1 THEN seqs[i] ELSE f[i - 1] \o seqs[i]
    <3>1. seqs \in Seq(Seq(X)) /\ Len(seqs) # 0
      BY <1>3, <1>l
    <3>2. \E f : /\ FlattenSeq(seqs) = f[Len(seqs)]
                 /\ \A i \in 1 .. Len(seqs) :
                       /\ f[i] \in Seq(X)
                       /\ f[i] = IF i = 1 THEN seqs[i] ELSE f[i - 1] \o seqs[i]
      BY ONLY <3>1, FlattenSteps
    <3> QED BY ONLY <1>l, <3>2
  <2> DEFINE Good(k) == /\ Distinctly(f[k])
                        /\ \A x : Holds(f[k], x) => \E i \in 1 .. k : Holds(seqs[i], x)
             G == {j \in Nat : j + 1 <= L => Good(j + 1)}
  <2>1. 0 \in G
    <3>1. 1 \in 1 .. L /\ 1 \in 1 .. 1 /\ 0 + 1 = 1
      BY <1>1, <1>3
    <3>2. f[1] = seqs[1] /\ Distinctly(seqs[1])
      BY <1>1, <2>f, <3>1
    <3>3. Good(1)
      BY <3>1, <3>2
    <3> HIDE DEF Good
    <3> QED BY <3>1, <3>3
  <2>2. ASSUME NEW j \in G
        PROVE  j + 1 \in G
    <3>1. SUFFICES ASSUME (j + 1) + 1 <= L
                   PROVE  Good((j + 1) + 1)
      OBVIOUS
    <3>k. PICK k : k = j + 1
      OBVIOUS
    <3>2. j \in Nat /\ k \in 1 .. L /\ k + 1 \in 1 .. L /\ (k + 1) - 1 = k /\ k + 1 # 1 /\ k \in Nat
      BY <1>1, <3>1, <3>k
    <3>3. Good(k)
      BY <3>2, <3>k
    <3>g. PICK g, s : g = f[k] /\ s = seqs[k + 1]
      OBVIOUS
    <3>4. f[k + 1] = g \o s /\ g \in Seq(X) /\ s \in Seq(X)
      BY <1>1, <2>f, <3>2, <3>g
    <3>5. Distinctly(g) /\ \A x : Holds(g, x) => \E i \in 1 .. k : Holds(seqs[i], x)
      BY <3>3, <3>g
    <3>6. Distinctly(s)
      BY <1>1, <3>2, <3>g
    <3>7. ASSUME NEW x, Holds(g, x), Holds(s, x)
          PROVE  FALSE
      <4>1. PICK i \in 1 .. k : Holds(seqs[i], x)
        BY <3>5, <3>7
      <4>2. i \in 1 .. L /\ i # k + 1
        BY <1>1, <3>2
      <4> QED BY <1>1, <3>2, <3>7, <3>g, <4>1, <4>2
    <3>8. /\ Distinctly(g \o s)
          /\ \A x : Holds(g \o s, x) => Holds(g, x) \/ Holds(s, x)
      BY ONLY <3>4, <3>5, <3>6, <3>7, ConcatHolds
    <3>9. \A x : Holds(f[k + 1], x) => \E i \in 1 .. k + 1 : Holds(seqs[i], x)
      <4>1. ASSUME NEW x, Holds(f[k + 1], x)
            PROVE  \E i \in 1 .. k + 1 : Holds(seqs[i], x)
        <5>1. Holds(g, x) \/ Holds(s, x)
          BY <3>4, <3>8, <4>1
        <5>2. k + 1 \in 1 .. k + 1 /\ \A i \in 1 .. k : i \in 1 .. k + 1
          BY <3>2
        <5>3. CASE Holds(g, x)
          BY <3>5, <5>2, <5>3
        <5>4. CASE Holds(s, x)
          BY <3>g, <5>2, <5>4
        <5> QED BY <5>1, <5>3, <5>4
      <4> QED BY <4>1
    <3>10. Good(k + 1)
      BY <3>4, <3>8, <3>9
    <3> HIDE DEF Good
    <3> QED BY <3>10, <3>k
  <2>3. G \in SUBSET Nat
    OBVIOUS
  <2>4. \A j \in Nat : j \in G
    <3> HIDE DEF G
    <3> QED BY <2>1, <2>2, <2>3, NumbersByStep
  <2>5. Good(L)
    <3>1. L - 1 \in Nat /\ (L - 1) + 1 = L
      BY <1>1, <1>3
    <3>2. L - 1 \in G
      BY <2>4, <3>1
    <3>3. (L - 1) + 1 <= L => Good((L - 1) + 1)
      <4> HIDE DEF Good
      <4> QED BY <3>2
    <3> HIDE DEF Good
    <3> QED BY <1>1, <3>1, <3>3
  <2> QED BY <2>5, <2>f
<1> QED BY <1>2, <1>3

(* The order of the routes has every route once at most. *)
LEMMA OrderHolds ==
    ASSUME NEW m, Plannable(m)
    PROVE  LET order == FairRouteOrder(m.routes)
           IN  order \in Seq(DOMAIN m.routes) /\ Distinctly(order)
<1>r. PICK routes : routes = m.routes
  OBVIOUS
<1>D. PICK D : D = DOMAIN routes
  OBVIOUS
<1>1. /\ D = 1 .. Len(routes) /\ Len(routes) \in Nat /\ IsFiniteSet(D)
      /\ \A i \in D : routes[i].result \in Nat
  <2>1. routes \in Seq(ToSet(routes)) /\ \A i \in D : routes[i].result \in Nat
    BY <1>r, <1>D DEF Plannable
  <2>2. D = 1 .. Len(routes) /\ Len(routes) \in Nat
    BY <1>D, <2>1
  <2>n. PICK n : n = Len(routes)
    OBVIOUS
  <2>3. 1 \in Int /\ n \in Int
    BY <2>2, <2>n
  <2>4. IsFiniteSet(1 .. n)
    BY ONLY <2>3, FS_Interval
  <2> QED BY <2>1, <2>2, <2>4, <2>n
<1> DEFINE before(j, i) == \/ routes[j].attempt < routes[i].attempt
                           \/ routes[j].attempt = routes[i].attempt /\ j < i
           offset(i) == Cardinality({j \in DOMAIN routes :
                           routes[j].result = routes[i].result /\ before(j, i)})
           round(n) == {i \in DOMAIN routes : offset(i) = n - 1}
           targets(n) == Ascending({routes[i].result : i \in round(n)})
           place(n) == [k \in DOMAIN targets(n) |->
                           CHOOSE i \in round(n) : routes[i].result = targets(n)[k]]
           seqs == [n \in DOMAIN routes |-> place(n)]
<1>2. FairRouteOrder(routes) = FlattenSeq(seqs)
  BY DEF FairRouteOrder
<1>3. ASSUME NEW n \in D
      PROVE  /\ place(n) \in Seq(D) /\ Distinctly(place(n))
             /\ \A x : Holds(place(n), x) => x \in round(n)
  <2>S. PICK S, a, c : /\ S = {routes[i].result : i \in round(n)} /\ a = Ascending(S)
                       /\ c = Cardinality(S)
    OBVIOUS
  <2>R. PICK R : R = round(n)
    OBVIOUS
  <2>1. R \subseteq D
    BY <1>D, <2>R
  <2>2. S \in SUBSET Nat /\ S = {routes[i].result : i \in R}
    BY <1>1, <2>1, <2>R, <2>S
  <2>3. IsFiniteSet(S)
    <3>f. PICK f : f = [i \in R |-> routes[i].result]
      OBVIOUS
    <3>1. f \in [R -> S] /\ \A t \in S : \E i \in R : f[i] = t
      BY <2>2, <3>f
    <3>2. IsFiniteSet(R)
      BY <1>1, <2>1, FS_Subset
    <3> QED BY ONLY <3>1, <3>2, ImageSize
  <2>4. /\ c \in Nat /\ a \in [1 .. c -> S]
        /\ \A i, j \in 1 .. c : i < j => a[i] < a[j]
    BY <2>2, <2>3, <2>S, AscendingHolds
  <2>p. PICK p : p = [k \in 1 .. c |-> CHOOSE i \in R : routes[i].result = a[k]]
    OBVIOUS
  <2>5. place(n) = p
    <3>1. targets(n) = a
      BY <2>S
    <3>2. DOMAIN targets(n) = 1 .. c
      BY <2>4, <3>1
    <3>3. place(n) = [k \in 1 .. c |-> CHOOSE i \in round(n) : routes[i].result = a[k]]
      <4> HIDE DEF targets, round
      <4> QED BY ONLY <3>1, <3>2
    <3> HIDE DEF targets, round, place
    <3> QED BY <2>p, <2>R, <3>3
  <2>6. \A k \in 1 .. c : p[k] \in R /\ routes[p[k]].result = a[k]
    <3>1. ASSUME NEW k \in 1 .. c
          PROVE  p[k] \in R /\ routes[p[k]].result = a[k]
      <4>1. a[k] \in S
        BY <2>4
      <4>2. \E i \in R : routes[i].result = a[k]
        BY <2>2, <4>1
      <4>3. p[k] = CHOOSE i \in R : routes[i].result = a[k]
        BY <2>p
      <4> QED BY ONLY <4>2, <4>3
    <3> QED BY <3>1
  <2>7. p \in Seq(D)
    <3>1. p \in [1 .. c -> D]
      BY <2>1, <2>6, <2>p
    <3> QED BY <2>4, <3>1
  <2>8. DOMAIN p = 1 .. c
    BY <2>p
  <2>9. ASSUME NEW i \in 1 .. c, NEW j \in 1 .. c, p[i] = p[j]
        PROVE  i = j
    <3>1. a[i] = a[j]
      BY <2>6, <2>9
    <3>2. a[i] \in Nat /\ a[j] \in Nat
      BY <2>2, <2>4
    <3>3. ~(i < j) /\ ~(j < i)
      BY <2>4, <3>1, <3>2
    <3> QED BY <2>4, <3>3
  <2>10. Distinctly(p)
    BY <2>8, <2>9 DEF Distinctly
  <2>11. \A x : Holds(p, x) => x \in R
    BY <2>6, <2>8 DEF Holds
  <2> HIDE DEF place, round
  <2> QED BY <2>5, <2>7, <2>10, <2>11, <2>R
<1>4. ASSUME NEW n \in D, NEW o \in D, n # o, NEW x
      PROVE  ~(x \in round(n) /\ x \in round(o))
  <2>1. n \in Int /\ o \in Int
    BY <1>1
  <2>2. x \in round(n) /\ x \in round(o) => n - 1 = o - 1
    <3> HIDE DEF offset
    <3> QED OBVIOUS
  <2> HIDE DEF round
  <2> QED BY <1>4, <2>1, <2>2
<1> HIDE DEF place, round
<1>5. seqs \in Seq(Seq(D))
  <2>1. seqs = [n \in 1 .. Len(routes) |-> place(n)]
    BY <1>1, <1>D
  <2>2. \A n \in 1 .. Len(routes) : place(n) \in Seq(D)
    BY <1>1, <1>3
  <2>3. seqs \in [1 .. Len(routes) -> Seq(D)]
    <3> HIDE DEF seqs
    <3> QED BY ONLY <2>1, <2>2
  <2> QED BY <1>1, <2>3
<1>6. DOMAIN seqs = D /\ \A n \in D : seqs[n] = place(n)
  BY <1>D
<1> HIDE DEF seqs
<1>7. \A n \in DOMAIN seqs : Distinctly(seqs[n])
  BY <1>3, <1>6
<1>8. \A n, o \in DOMAIN seqs : n # o => \A x : ~(Holds(seqs[n], x) /\ Holds(seqs[o], x))
  BY <1>3, <1>4, <1>6
<1>9. FlattenSeq(seqs) \in Seq(D)
  BY ONLY <1>5, FlattenHolds
<1>10. Distinctly(FlattenSeq(seqs))
  BY ONLY <1>5, <1>7, <1>8, FlattenDistinct
<1> QED BY <1>2, <1>9, <1>10, <1>r, <1>D

(* The routes that are taken are different ones. *)
TakenOnce(st) ==
    \A a, b \in DOMAIN st.taken : st.taken[a].route = st.taken[b].route => a = b

(* The first hops: every route of the order is taken once at most.         *)
LEMMA EnrolledHolds ==
    ASSUME NEW m, Plannable(m), NEW budget \in Nat, NEW order \in Seq(DOMAIN m.routes), Distinctly(order)
    PROVE  LET y == Enrolled(m.routes, order, budget)
           IN  PlanInv(y, m, budget) /\ TakenOnce(y)
<1>L. PICK L : L = Len(order)
  OBVIOUS
<1> DEFINE S == {st \in PlanStates(m) : PlanInv(st, m, budget)}
           step == [o \in (1 .. L) \X S |-> Enroll(o[2], m.routes, order[o[1]], budget)]
           is(f) == f = [n \in 0 .. Len(order) |->
                            IF n = 0 THEN Unplanned ELSE Enroll(f[n - 1], m.routes, order[n], budget)]
<1>0. L \in Nat /\ DOMAIN order = 1 .. L /\ \A n \in 1 .. L : order[n] \in DOMAIN m.routes
  BY <1>L
<1>1. PlanInv(Unplanned, m, budget)
  <2>1. /\ Unplanned.nodes = <<>> /\ Unplanned.links = <<>> /\ Unplanned.taken = <<>>
        /\ Unplanned.cost = 0 /\ Unplanned.missing = FALSE
    BY DEF Unplanned
  <2>2. Unplanned \in PlanStates(m)
    BY DEF Unplanned, PlanStates
  <2> QED BY <2>1, <2>2 DEF PlanInv, Distinctly
<1>2. Unplanned \in S
  BY <1>1 DEF PlanInv
<1>3. ASSUME NEW st, PlanInv(st, m, budget), NEW n \in 1 .. L
      PROVE  LET y == Enroll(st, m.routes, order[n], budget)
             IN  /\ PlanInv(y, m, budget)
                 /\ \/ y.taken = st.taken
                    \/ y.taken = Append(st.taken, [route |-> order[n], cursor |-> 1, blocked |-> FALSE])
  <2>1. order[n] \in DOMAIN m.routes
    BY <1>0
  <2> QED BY <1>3, <2>1, EnrollHolds
<1>4. step \in [(1 .. L) \X S -> S]
  <2>1. ASSUME NEW o \in (1 .. L) \X S
        PROVE  Enroll(o[2], m.routes, order[o[1]], budget) \in S
    <3>1. o[2] \in S /\ o[1] \in 1 .. L
      OBVIOUS
    <3>2. PlanInv(o[2], m, budget)
      BY <3>1
    <3>y. PICK y : y = Enroll(o[2], m.routes, order[o[1]], budget)
      OBVIOUS
    <3>3. PlanInv(y, m, budget)
      BY <1>3, <3>1, <3>2, <3>y
    <3> QED BY <3>3, <3>y, Zenon DEF PlanInv
  <2> QED BY <2>1, Zenon
<1>5. PICK h : h \in [0 .. L -> S] /\ h[0] = Unplanned /\ \A n \in 1 .. L : h[n] = step[<<n, h[n - 1]>>]
  <2> HIDE DEF S, step
  <2>1. L \in Nat
    BY <1>0
  <2>2. \E h : RunUpTo(h, S, L, Unplanned, step)
    BY ONLY <1>2, <1>4, <2>1, StepsUpTo
  <2> QED BY ONLY <2>2 DEF RunUpTo
<1>6. is(h)
  <2>1. ASSUME NEW n \in 0 .. L
        PROVE  h[n] = IF n = 0 THEN Unplanned ELSE Enroll(h[n - 1], m.routes, order[n], budget)
    <3>1. CASE n = 0
      BY <1>5, <3>1
    <3>2. CASE n # 0
      <4>1. n \in 1 .. L /\ n - 1 \in 0 .. L
        BY <1>0, <3>2
      <4>2. h[n - 1] \in S
        BY <1>5, <4>1
      <4>o. PICK o : o = <<n, h[n - 1]>>
        OBVIOUS
      <4>3. o \in (1 .. L) \X S /\ o[1] = n /\ o[2] = h[n - 1]
        BY <4>1, <4>2, <4>o
      <4>4. step[o] = Enroll(o[2], m.routes, order[o[1]], budget)
        BY <4>3
      <4> HIDE DEF step
      <4> QED BY <1>5, <3>2, <4>1, <4>3, <4>4, <4>o
    <3> QED BY <3>1, <3>2
  <2>2. h = [n \in 0 .. L |-> h[n]]
    BY <1>5
  <2> QED BY <1>L, <2>1, <2>2
<1>f. PICK f : f = CHOOSE g : is(g)
  OBVIOUS
<1>7. is(f)
  <2> HIDE DEF is
  <2> QED BY <1>6, <1>f
<1>8. Enrolled(m.routes, order, budget) = f[L]
  BY <1>f, <1>L DEF Enrolled
<1>9. f[0] = Unplanned
  BY <1>0, <1>7, <1>L
<1>10. ASSUME NEW n \in 1 .. L
       PROVE  f[n] = Enroll(f[n - 1], m.routes, order[n], budget)
  <2>1. n \in 0 .. Len(order) /\ n # 0
    BY <1>0, <1>L
  <2> QED BY <1>7, <2>1
<1> HIDE DEF is, S, step
<1> DEFINE Good(n) == /\ PlanInv(f[n], m, budget) /\ TakenOnce(f[n])
                      /\ \A a \in DOMAIN f[n].taken : \E x \in 1 .. n : f[n].taken[a].route = order[x]
           G == {n \in Nat : n <= L => Good(n)}
<1>11. 0 \in G
  <2>1. DOMAIN Unplanned.taken = {}
    BY DEF Unplanned
  <2>2. Good(0)
    BY <1>1, <1>9, <2>1 DEF TakenOnce
  <2> QED BY <2>2
<1>12. ASSUME NEW n \in G
       PROVE  n + 1 \in G
  <2>1. SUFFICES ASSUME n + 1 <= L
                 PROVE  Good(n + 1)
    OBVIOUS
  <2>2. n \in Nat /\ n + 1 \in 1 .. L /\ (n + 1) - 1 = n /\ n <= L
    BY <1>0, <2>1
  <2>3. Good(n)
    BY <2>2
  <2>s. PICK st, y, k : st = f[n] /\ k = n + 1 /\ y = f[k]
    OBVIOUS
  <2>4. /\ PlanInv(st, m, budget) /\ TakenOnce(st)
        /\ \A a \in DOMAIN st.taken : \E x \in 1 .. n : st.taken[a].route = order[x]
    BY <2>3, <2>s
  <2>o. PICK own : own = [route |-> order[k], cursor |-> 1, blocked |-> FALSE]
    OBVIOUS
  <2>5. PlanInv(y, m, budget) /\ (y.taken = st.taken \/ y.taken = Append(st.taken, own))
    <3>1. y = Enroll(st, m.routes, order[k], budget)
      BY <1>10, <2>2, <2>s
    <3>2. k \in 1 .. L
      BY <2>2, <2>s
    <3> QED BY ONLY <1>3, <2>4, <2>o, <3>1, <3>2
  <2>6. \A x \in 1 .. n : x \in 1 .. k /\ x # k /\ x \in 1 .. L
    BY <1>0, <2>2, <2>s
  <2>7. CASE y.taken = st.taken
    <3>1. TakenOnce(y)
      BY <2>4, <2>7 DEF TakenOnce
    <3>2. \A a \in DOMAIN y.taken : \E x \in 1 .. k : y.taken[a].route = order[x]
      BY <2>4, <2>6, <2>7
    <3> QED BY <2>5, <2>s, <3>1, <3>2
  <2>8. CASE y.taken = Append(st.taken, own)
    <3>t. PICK t, c : t = st.taken /\ c = Len(st.taken)
      OBVIOUS
    <3>1. t \in Seq(Owned(m)) /\ c \in Nat /\ DOMAIN t = 1 .. c /\ Len(t) = c
      BY <2>4, <3>t, PlanTypes
    <3>2. /\ DOMAIN y.taken = 1 .. c + 1 /\ y.taken[c + 1] = own
          /\ \A a \in 1 .. c : y.taken[a] = t[a]
      <4>1. y.taken = Append(t, own)
        BY <2>8, <3>t
      <4> QED BY ONLY <3>1, <4>1
    <3>3. own.route = order[k]
      BY <2>o
    <3>4. \A a \in 1 .. c + 1 : a \in 1 .. c \/ a = c + 1
      BY <3>1
    <3>5. \A a \in 1 .. c : \E x \in 1 .. n : y.taken[a].route = order[x]
      BY <2>4, <3>1, <3>2, <3>t
    <3>6. \A a \in 1 .. c : y.taken[a].route # order[k]
      <4>1. ASSUME NEW a \in 1 .. c, y.taken[a].route = order[k]
            PROVE  FALSE
        <5>1. PICK x \in 1 .. n : y.taken[a].route = order[x]
          BY <3>5
        <5>2. x \in 1 .. L /\ k \in 1 .. L /\ x # k
          BY <2>2, <2>6, <2>s
        <5> QED BY <1>0, <4>1, <5>1, <5>2 DEF Distinctly
      <4> QED BY <4>1
    <3>7. ASSUME NEW a \in DOMAIN y.taken, NEW b \in DOMAIN y.taken,
                 y.taken[a].route = y.taken[b].route
          PROVE  a = b
      <4>1. CASE a \in 1 .. c /\ b \in 1 .. c
        BY <2>4, <3>1, <3>2, <3>7, <3>t, <4>1 DEF TakenOnce
      <4> QED BY <3>2, <3>3, <3>4, <3>6, <3>7, <4>1
    <3>8. TakenOnce(y)
      BY <3>7 DEF TakenOnce
    <3>9. \A a \in DOMAIN y.taken : \E x \in 1 .. k : y.taken[a].route = order[x]
      <4>1. k \in 1 .. k
        BY <2>2, <2>s
      <4> QED BY <2>6, <3>2, <3>3, <3>4, <3>5, <4>1
    <3> QED BY <2>5, <2>s, <3>8, <3>9
  <2> QED BY <2>5, <2>7, <2>8
<1>13. L \in G
  <2>1. G \in SUBSET Nat
    OBVIOUS
  <2> HIDE DEF G
  <2> QED BY <1>0, <1>11, <1>12, <2>1, NumbersByStep
<1> QED BY <1>0, <1>8, <1>13

(* The hops after the first ones.                                          *)
LEMMA ExtendedHolds ==
    ASSUME NEW m, Plannable(m), NEW budget \in Nat, NEW enrolled, PlanInv(enrolled, m, budget),
           TakenOnce(enrolled), NEW passes \in Nat
    PROVE  LET y == Extended(enrolled, m, passes * Len(enrolled.taken), budget)
           IN  PlanInv(y, m, budget) /\ TakenOnce(y)
<1>c. PICK c : c = Len(enrolled.taken)
  OBVIOUS
<1>L. PICK L : L = passes * c
  OBVIOUS
<1> DEFINE S == {st \in PlanStates(m) : /\ PlanInv(st, m, budget) /\ TakenOnce(st)
                                        /\ DOMAIN st.taken = 1 .. c}
           turn(n) == 1 + ((n - 1) % c)
           step == [o \in (1 .. L) \X S |-> Extend(o[2], m, turn(o[1]), budget)]
           is(f) == f = [n \in 0 .. L |->
                            IF n = 0 THEN enrolled ELSE Extend(f[n - 1], m, 1 + ((n - 1) % c), budget)]
<1>0. c \in Nat /\ DOMAIN enrolled.taken = 1 .. c
  BY <1>c, PlanTypes
<1>1. L \in Nat /\ (c = 0 => L = 0)
  BY <1>0, <1>L
<1>2. enrolled \in S
  BY <1>0 DEF PlanInv
<1>3. ASSUME NEW st \in S, NEW n \in 1 .. L
      PROVE  Extend(st, m, turn(n), budget) \in S
  <2>1. c \in Nat \ {0} /\ n - 1 \in Nat
    BY <1>0, <1>1
  <2>2. turn(n) \in 1 .. c
    <3>1. (n - 1) % c \in 0 .. c - 1
      BY ONLY <2>1, ModRange
    <3> QED BY <2>1, <3>1
  <2>k. PICK k : k = turn(n)
    OBVIOUS
  <2>y. PICK y : y = Extend(st, m, k, budget)
    OBVIOUS
  <2>3. PlanInv(st, m, budget) /\ TakenOnce(st) /\ DOMAIN st.taken = 1 .. c
    OBVIOUS
  <2>4. k \in DOMAIN st.taken
    BY <2>2, <2>3, <2>k
  <2>5. /\ PlanInv(y, m, budget) /\ DOMAIN y.taken = DOMAIN st.taken
        /\ \A a \in DOMAIN st.taken : y.taken[a].route = st.taken[a].route
    <3>1. Plannable(m) /\ budget \in Nat /\ PlanInv(st, m, budget)
      BY <2>3
    <3> QED BY ONLY <2>4, <2>y, <3>1, ExtendHolds
  <2>6. TakenOnce(y)
    BY <2>3, <2>5 DEF TakenOnce
  <2>7. y \in PlanStates(m)
    BY <2>5 DEF PlanInv
  <2> QED BY <2>3, <2>5, <2>6, <2>7, <2>k, <2>y
<1> HIDE DEF S
<1>4. step \in [(1 .. L) \X S -> S]
  <2>1. ASSUME NEW o \in (1 .. L) \X S
        PROVE  Extend(o[2], m, turn(o[1]), budget) \in S
    <3>1. o[2] \in S /\ o[1] \in 1 .. L
      OBVIOUS
    <3> HIDE DEF turn
    <3> QED BY <1>3, <3>1
  <2> HIDE DEF turn
  <2> QED BY <2>1
<1>5. PICK h : h \in [0 .. L -> S] /\ h[0] = enrolled /\ \A n \in 1 .. L : h[n] = step[<<n, h[n - 1]>>]
  <2> HIDE DEF step
  <2>1. L \in Nat
    BY <1>1
  <2>2. \E h : RunUpTo(h, S, L, enrolled, step)
    BY ONLY <1>2, <1>4, <2>1, StepsUpTo
  <2> QED BY ONLY <2>2 DEF RunUpTo
<1>6. is(h)
  <2>1. ASSUME NEW n \in 0 .. L
        PROVE  h[n] = IF n = 0 THEN enrolled ELSE Extend(h[n - 1], m, 1 + ((n - 1) % c), budget)
    <3>1. CASE n = 0
      BY <1>5, <3>1
    <3>2. CASE n # 0
      <4>1. n \in 1 .. L /\ n - 1 \in 0 .. L
        BY <1>1, <3>2
      <4>2. h[n - 1] \in S
        BY <1>5, <4>1
      <4>o. PICK o : o = <<n, h[n - 1]>>
        OBVIOUS
      <4>3. o \in (1 .. L) \X S /\ o[1] = n /\ o[2] = h[n - 1]
        BY <4>1, <4>2, <4>o
      <4>4. step[o] = Extend(o[2], m, 1 + ((o[1] - 1) % c), budget)
        BY <4>3
      <4> HIDE DEF step
      <4> QED BY <1>5, <3>2, <4>1, <4>3, <4>4, <4>o
    <3> QED BY <3>1, <3>2
  <2>2. h = [n \in 0 .. L |-> h[n]]
    BY <1>5
  <2> QED BY <2>1, <2>2
<1>f. PICK f : f = CHOOSE g : is(g)
  OBVIOUS
<1>7. is(f)
  <2> HIDE DEF is
  <2> QED BY <1>6, <1>f
<1>8. Extended(enrolled, m, L, budget) = f[L]
  BY <1>c, <1>f DEF Extended
<1>9. f[0] = enrolled
  BY <1>1, <1>7
<1>10. ASSUME NEW n \in 1 .. L
       PROVE  f[n] = Extend(f[n - 1], m, turn(n), budget)
  <2>1. n \in 0 .. L /\ n # 0
    BY <1>1
  <2> QED BY <1>7, <2>1
<1> HIDE DEF is, step
<1> DEFINE G == {n \in Nat : n <= L => f[n] \in S}
<1>11. 0 \in G
  BY <1>2, <1>9
<1>12. ASSUME NEW n \in G
       PROVE  n + 1 \in G
  <2>1. SUFFICES ASSUME n + 1 <= L
                 PROVE  f[n + 1] \in S
    OBVIOUS
  <2>2. n \in Nat /\ n + 1 \in 1 .. L /\ (n + 1) - 1 = n /\ n <= L
    BY <1>1, <2>1
  <2>3. f[n] \in S
    BY <2>2
  <2> HIDE DEF turn
  <2> QED BY <1>3, <1>10, <2>2, <2>3
<1>13. f[L] \in S
  <2>1. G \in SUBSET Nat
    OBVIOUS
  <2>2. L \in G
    <3> HIDE DEF G
    <3> QED BY <1>1, <1>11, <1>12, <2>1, NumbersByStep
  <2> QED BY <1>1, <2>2
<1> QED BY <1>8, <1>13, <1>c, <1>L DEF S

(* The selection of a view: what is taken keeps to the budget. *)
LEMMA AdmittedHolds ==
    ASSUME NEW m, Plannable(m), NEW budget \in Nat
    PROVE  PlanInv(Admitted(m, budget), m, budget) /\ TakenOnce(Admitted(m, budget))
<1>e. PICK enrolled : enrolled = Enrolled(m.routes, FairRouteOrder(m.routes), budget)
  OBVIOUS
<1>1. PlanInv(enrolled, m, budget) /\ TakenOnce(enrolled)
  BY <1>e, OrderHolds, EnrolledHolds
<1>S. PICK S : S = {Len(m.routes[i].node_ids) : i \in DOMAIN m.routes}
  OBVIOUS
<1>p. PICK passes : passes = Max({0} \cup S)
  OBVIOUS
<1>2. passes \in Nat
  <2>D. PICK D, n : D = DOMAIN m.routes /\ n = Len(m.routes)
    OBVIOUS
  <2>1. /\ m.routes \in Seq(ToSet(m.routes))
        /\ \A i \in D : m.routes[i].node_ids \in Seq(PathIds(m))
    BY <2>D DEF Plannable
  <2>2. n \in Nat /\ D = 1 .. n /\ 1 \in Int /\ n \in Int
    BY <2>1, <2>D
  <2>3. IsFiniteSet(D)
    <3>1. IsFiniteSet(1 .. n)
      BY ONLY <2>2, FS_Interval
    <3> QED BY <2>2, <3>1
  <2>4. \A i \in D : Len(m.routes[i].node_ids) \in Nat
    BY <2>1
  <2>f. PICK f : f = [i \in D |-> Len(m.routes[i].node_ids)]
    OBVIOUS
  <2>5. f \in [D -> S] /\ (\A t \in S : \E i \in D : f[i] = t) /\ S \in SUBSET Nat
    BY <1>S, <2>4, <2>D, <2>f
  <2>6. IsFiniteSet(S)
    BY ONLY <2>3, <2>5, ImageSize
  <2>7. IsFiniteSet({0} \cup S)
    BY <2>6, FS_Singleton, FS_Union
  <2>8. {0} \cup S \in SUBSET Nat /\ {0} \cup S # {}
    BY <2>5
  <2>9. Max({0} \cup S) \in {0} \cup S
    BY ONLY <2>7, <2>8, MaxHolds
  <2> QED BY <1>p, <2>8, <2>9
<1>3. Admitted(m, budget) = Extended(enrolled, m, passes * Len(enrolled.taken), budget)
  BY <1>e, <1>S, <1>p DEF Admitted
<1> QED BY <1>1, <1>2, <1>3, ExtendedHolds

-----------------------------------------------------------------------------
(* The model can be planned from.                                          *)

(* A function on the first numbers is a sequence of its values. *)
LEMMA SeqOfValues ==
    ASSUME NEW f, NEW n \in Nat, DOMAIN f = 1 .. n, f = [k \in 1 .. n |-> f[k]]
    PROVE  f \in Seq(ToSet(f)) /\ Len(f) = n
<1>1. f \in [1 .. n -> ToSet(f)]
  BY DEF ToSet
<1> QED BY <1>1

(* The routes of a selection: where their ids come from, and what links    *)
(* their neighbours.                                                       *)
LEMMA SelectedRoutesHold ==
    ASSUME NEW rep \in ReportSet, NEW limit \in Int, NEW t, Selects(t, rep, limit)
    PROVE  /\ t.routes \in Seq(ToSet(t.routes))
           /\ \A k \in DOMAIN t.routes :
                 LET ids == t.routes[k].node_ids
                 IN  /\ {"node_ids", "complete"} \subseteq DOMAIN t.routes[k]
                     /\ t.routes[k].result \in Nat /\ t.routes[k].complete \in BOOLEAN
                     /\ ids \in Seq(ToSet(ids)) /\ Len(ids) # 0
                     /\ \A n \in DOMAIN ids : ids[n] \in {<<x>> : x \in DOMAIN t.nodes}
                     /\ \A n \in 1 .. Len(ids) - 1 : <<ids[n], ids[n + 1]>> \in LinkPairs(t)
<1>r. PICK routes : routes = RoutesOf(rep)
  OBVIOUS
<1>s. PICK st : st = Chosen(rep, limit)
  OBVIOUS
<1>k. PICK ks : ks = SelectedKeys(st, routes)
  OBVIOUS
<1>1. /\ DOMAIN t.nodes = DOMAIN ks
      /\ t.routes = RoutesDrawn(st, routes) /\ t.links = SelectedLinks(st, routes, ks)
  BY <1>r, <1>s, <1>k DEF Selects
<1>2. routes \in Seq(TraceSet) /\ SelectionInv(st, routes)
  BY <1>r, <1>s, ChosenHolds
<1>3. /\ ks \in Seq(Keys) /\ Distinctly(ks)
      /\ \A i \in DOMAIN routes : \A m \in 1 .. Displayed(st, routes, i) : Holds(ks, routes[i].keys[m])
  BY <1>2, <1>k, SelectedKeysHold
<1>S. PICK S, a, c : S = ShownOf(st, routes, DOMAIN routes) /\ a = Ascending(S) /\ c = Cardinality(S)
  OBVIOUS
<1>4. DrawnFrom(t.routes, ks, S, a, st, routes)
  BY <1>1, <1>2, <1>k, <1>S, RoutesDrawnHold
<1>5. c \in Nat /\ DOMAIN t.routes = 1 .. c /\ S \subseteq DOMAIN routes
  BY <1>4, <1>S DEF DrawnFrom
<1>6. t.routes \in Seq(ToSet(t.routes))
  <2>1. t.routes = [n \in DOMAIN t.routes |-> t.routes[n]]
    BY <1>1 DEF RoutesDrawn
  <2>2. t.routes = [n \in 1 .. c |-> t.routes[n]]
    BY <1>5, <2>1
  <2> QED BY <1>5, <2>2, SeqOfValues
<1>7. \A i \in DOMAIN routes : \A e \in Pairs(Prefix(st, routes, i)) :
         <<IdOf(ks, e[1]), IdOf(ks, e[2])>> \in LinkPairs(t)
  <2>1. \A e \in EdgesShown(st, routes) :
           <<IdOf(ks, e[1]), IdOf(ks, e[2])>> \in {<<l.from, l.to>> : l \in t.links}
    BY <1>1, <1>2, <1>k, LinksHold
  <2> QED BY <2>1 DEF EdgesShown, LinkPairs
<1>8. ASSUME NEW k \in DOMAIN t.routes
      PROVE  LET ids == t.routes[k].node_ids
             IN  /\ {"node_ids", "complete"} \subseteq DOMAIN t.routes[k]
                 /\ t.routes[k].result \in Nat /\ t.routes[k].complete \in BOOLEAN
                 /\ ids \in Seq(ToSet(ids)) /\ Len(ids) # 0
                 /\ \A n \in DOMAIN ids : ids[n] \in {<<x>> : x \in DOMAIN t.nodes}
                 /\ \A n \in 1 .. Len(ids) - 1 : <<ids[n], ids[n + 1]>> \in LinkPairs(t)
  <2>i. PICK i : i = a[k]
    OBVIOUS
  <2>d. PICK d, path, ids : d = Displayed(st, routes, i) /\ path = t.routes[k] /\ ids = path.node_ids
    OBVIOUS
  <2>1. /\ i \in S /\ path.result = routes[i].result /\ path.complete = AcceptedWhole(st, routes, i)
        /\ DOMAIN ids = 1 .. d /\ Len(ids) = d
        /\ \A m \in 1 .. d : ids[m] = IdOf(ks, routes[i].keys[m])
    BY <1>4, <2>i, <2>d DEF DrawnFrom
  <2>2. i \in DOMAIN routes /\ d > 0
    BY <1>5, <1>S, <2>1, <2>d DEF ShownOf
  <2>3. /\ path.result \in Nat /\ path.complete \in BOOLEAN
    <3>1. routes[i].result \in Nat
      BY <1>2, <2>2, HopsOf
    <3>2. AcceptedWhole(st, routes, i) \in BOOLEAN
      BY DEF AcceptedWhole
    <3> QED BY <2>1, <3>1, <3>2
  <2>l. PICK l, n : l = Len(routes[i].keys) /\ n = st.accepted[i]
    OBVIOUS
  <2>4. l \in Nat /\ d \in 0 .. l /\ n \in Nat /\ d = n + 1
    BY <1>2, <2>2, <2>d, <2>l, HopsOf, DisplayedHolds
  <2>5. /\ {"node_ids", "complete"} \subseteq DOMAIN path
        /\ ids = [m \in DOMAIN ids |-> ids[m]]
    <3>p. PICK w, p, b : /\ w = routes[Shown(st, routes)[k]] /\ p = Prefix(st, routes, Shown(st, routes)[k])
                         /\ b = AcceptedWhole(st, routes, Shown(st, routes)[k])
      OBVIOUS
    <3>1. path = RouteOf(st, w, p, ks, b)
      BY <1>1, <1>k, <2>d, <3>p DEF RoutesDrawn
    <3>2. {"node_ids", "complete"} \subseteq DOMAIN path
      BY ONLY <3>1 DEF RouteOf
    <3>3. ids = [m \in DOMAIN p |-> IdOf(ks, p[m])]
      BY ONLY <2>d, <3>1 DEF RouteOf
    <3>4. ids = [m \in DOMAIN ids |-> ids[m]]
      BY ONLY <3>3
    <3> QED BY <3>2, <3>4
  <2>6. ids \in Seq(ToSet(ids)) /\ Len(ids) # 0
    <3>1. d \in Nat /\ ids = [m \in 1 .. d |-> ids[m]]
      BY <2>1, <2>4, <2>5
    <3>2. ids \in Seq(ToSet(ids)) /\ Len(ids) = d
      BY ONLY <2>1, <3>1, SeqOfValues
    <3> QED BY <2>2, <2>4, <3>2
  <2>7. ASSUME NEW m \in 1 .. d
        PROVE  ids[m] \in {<<x>> : x \in DOMAIN t.nodes}
    <3>1. Holds(ks, routes[i].keys[m])
      BY <1>3, <2>2, <2>d
    <3>2. PICK x \in DOMAIN ks : IdOf(ks, routes[i].keys[m]) = <<x>>
      BY <1>3, <3>1, IdOfHolds
    <3> QED BY <1>1, <2>1, <3>2
  <2>8. ASSUME NEW m \in 1 .. d - 1
        PROVE  <<ids[m], ids[m + 1]>> \in LinkPairs(t)
    <3>1. m \in 1 .. n /\ m \in 1 .. d /\ m + 1 \in 1 .. d
      BY <2>4
    <3>e. PICK e : e = Edge(routes, i, m)
      OBVIOUS
    <3>2. e \in Pairs(Prefix(st, routes, i))
      <4>1. Pairs(Prefix(st, routes, i)) = {Edge(routes, i, o) : o \in 1 .. st.accepted[i]}
        BY <1>2, <2>2, PrefixPairs
      <4> QED BY <2>l, <3>1, <3>e, <4>1
    <3>3. <<IdOf(ks, e[1]), IdOf(ks, e[2])>> \in LinkPairs(t)
      BY <1>7, <2>2, <3>2
    <3>4. e[1] = routes[i].keys[m] /\ e[2] = routes[i].keys[m + 1]
      BY <3>e DEF Edge
    <3>5. ids[m] = IdOf(ks, routes[i].keys[m]) /\ ids[m + 1] = IdOf(ks, routes[i].keys[m + 1])
      BY <2>1, <3>1
    <3> QED BY <3>3, <3>4, <3>5
  <2> QED BY <2>1, <2>3, <2>5, <2>6, <2>7, <2>8, <2>d
<1> QED BY <1>6, <1>8

(* A plan can be made from it, however it was limited.                     *)
LEMMA SelectsPlannable ==
    ASSUME NEW rep \in ReportSet, NEW limit \in Int, NEW t, Selects(t, rep, limit)
    PROVE  Plannable(t)
<1>r. PICK routes : routes = RoutesOf(rep)
  OBVIOUS
<1>s. PICK st : st = Chosen(rep, limit)
  OBVIOUS
<1>k. PICK ks, c : ks = SelectedKeys(st, routes) /\ c = Len(ks)
  OBVIOUS
<1>1. DOMAIN t.nodes = DOMAIN ks /\ t.links = SelectedLinks(st, routes, ks)
  BY <1>r, <1>s, <1>k DEF Selects
<1>2. routes \in Seq(TraceSet) /\ SelectionInv(st, routes)
  BY <1>r, <1>s, ChosenHolds
<1>3. ks \in Seq(Keys) /\ c <= MaxNodes
  BY <1>2, <1>k, SelectedKeysHold
<1>4. c \in Nat /\ DOMAIN t.nodes = 1 .. c
  BY <1>1, <1>3, <1>k
<1>5. /\ t.routes \in Seq(ToSet(t.routes))
      /\ \A k \in DOMAIN t.routes :
            LET ids == t.routes[k].node_ids
            IN  /\ {"node_ids", "complete"} \subseteq DOMAIN t.routes[k]
                /\ t.routes[k].result \in Nat /\ t.routes[k].complete \in BOOLEAN
                /\ ids \in Seq(ToSet(ids)) /\ Len(ids) # 0
                /\ \A n \in DOMAIN ids : ids[n] \in {<<x>> : x \in DOMAIN t.nodes}
                /\ \A n \in 1 .. Len(ids) - 1 : <<ids[n], ids[n + 1]>> \in LinkPairs(t)
  BY SelectedRoutesHold
<1>X. PICK X : X = {<<x>> : x \in 1 .. c}
  OBVIOUS
<1>6. IsFiniteSet(X) /\ Cardinality(X) <= c /\ Cardinality(X) \in Nat
  <2>f. PICK f, D : D = 1 .. c /\ f = [x \in D |-> <<x>>]
    OBVIOUS
  <2>1. 1 \in Int /\ c \in Int
    BY <1>4
  <2>2. IsFiniteSet(1 .. c) /\ Cardinality(1 .. c) = IF 1 > c THEN 0 ELSE c - 1 + 1
    BY ONLY <2>1, FS_Interval
  <2>3. IsFiniteSet(D) /\ Cardinality(D) = c
    BY <1>4, <2>2, <2>f
  <2>4. f \in [D -> X] /\ \A y \in X : \E x \in D : f[x] = y
    BY <1>X, <2>f
  <2>5. IsFiniteSet(X) /\ Cardinality(X) <= Cardinality(D)
    BY ONLY <2>3, <2>4, ImageSize
  <2> QED BY <2>3, <2>5, FS_CardinalityType
<1>7. IsFiniteSet(PathIds(t)) /\ Cardinality(PathIds(t)) <= MaxNodes
  <2>1. PathIds(t) \subseteq X
    <3>1. ASSUME NEW k \in DOMAIN t.routes
          PROVE  ToSet(t.routes[k].node_ids) \subseteq X
      <4>i. PICK ids : ids = t.routes[k].node_ids
        OBVIOUS
      <4>1. \A n \in DOMAIN ids : ids[n] \in {<<x>> : x \in DOMAIN t.nodes}
        BY <1>5, <4>i
      <4> QED BY <1>4, <1>X, <4>1, <4>i DEF ToSet
    <3> QED BY <3>1 DEF PathIds
  <2>2. /\ IsFiniteSet(PathIds(t)) /\ Cardinality(PathIds(t)) <= Cardinality(X)
        /\ Cardinality(PathIds(t)) \in Nat
    BY <1>6, <2>1, FS_Subset, FS_CardinalityType
  <2>3. MaxNodes \in Nat
    BY PrefixAssumption
  <2> QED BY <1>3, <1>4, <1>6, <2>2, <2>3
<1>8. /\ IsFiniteSet(LinkPairs(t)) /\ Cardinality(LinkPairs(t)) <= MaxLinks
      /\ \A e \in LinkPairs(t) : e = <<e[1], e[2]>> /\ e[1] # e[2]
  <2>E. PICK E, L, P : E = EdgesShown(st, routes) /\ L = t.links /\ P = LinkPairs(t)
    OBVIOUS
  <2>1. /\ IsFiniteSet(L) /\ Cardinality(L) = Cardinality(E) /\ \A l \in L : l.from # l.to
    <3>1. LET links == SelectedLinks(st, routes, SelectedKeys(st, routes))
          IN  /\ IsFiniteSet(links) /\ Cardinality(links) = Cardinality(EdgesShown(st, routes))
              /\ \A l \in links : l.from # l.to
      BY ONLY <1>2, LinksHold
    <3>2. L = SelectedLinks(st, routes, SelectedKeys(st, routes))
      BY <1>1, <1>k, <2>E
    <3> QED BY ONLY <2>E, <3>1, <3>2
  <2>2. Cardinality(E) \in Nat /\ Cardinality(E) <= MaxLinks
    BY <1>2, <2>E, EdgesHold
  <2>f. PICK f : f = [l \in L |-> <<l.from, l.to>>]
    OBVIOUS
  <2>3. P = {<<l.from, l.to>> : l \in L}
    BY <2>E DEF LinkPairs
  <2>4. f \in [L -> P] /\ \A y \in P : \E l \in L : f[l] = y
    BY <2>3, <2>f
  <2>5. IsFiniteSet(P) /\ Cardinality(P) <= Cardinality(L)
    BY ONLY <2>1, <2>4, ImageSize
  <2>6. Cardinality(P) \in Nat /\ MaxLinks \in Nat
    BY <2>5, FS_CardinalityType, PrefixAssumption
  <2>7. Cardinality(P) <= MaxLinks
    BY <2>1, <2>2, <2>5, <2>6
  <2>8. ASSUME NEW e \in P
        PROVE  e = <<e[1], e[2]>> /\ e[1] # e[2]
    <3>1. PICK l \in L : e = <<l.from, l.to>>
      BY <2>3
    <3>2. e[1] = l.from /\ e[2] = l.to
      BY <3>1
    <3> QED BY <2>1, <3>1, <3>2
  <2> QED BY <2>5, <2>7, <2>8, <2>E
<1>9. ASSUME NEW k \in DOMAIN t.routes
      PROVE  t.routes[k].node_ids \in Seq(PathIds(t))
  <2>i. PICK ids : ids = t.routes[k].node_ids
    OBVIOUS
  <2>1. ids \in Seq(ToSet(ids)) /\ ToSet(ids) \subseteq PathIds(t)
    BY <1>5, <2>i DEF PathIds
  <2>2. ids \in Seq(PathIds(t))
    BY <2>1
  <2> QED BY <2>2, <2>i
<1> QED BY <1>5, <1>7, <1>8, <1>9 DEF Plannable

(* So it can from the targets that are selected of it. *)
LEMMA FilterKeeps ==
    ASSUME NEW m, Plannable(m), {"nodes", "links", "routes"} \subseteq DOMAIN m, NEW selected
    PROVE  LET fm == FilterTopologyModel(m, selected)
           IN  /\ Plannable(fm)
               /\ \A k \in DOMAIN fm.routes : \E i \in DOMAIN m.routes :
                     fm.routes[k] = m.routes[i] /\ m.routes[i].result \in selected
               /\ \A i \in DOMAIN m.routes : m.routes[i].result \in selected =>
                     \E k \in DOMAIN fm.routes : fm.routes[k] = m.routes[i]
<1>S. PICK S : S = {n \in DOMAIN m.routes : m.routes[n].result \in selected}
  OBVIOUS
<1>r. PICK R, T : R = At(m.routes, S) /\ T = ToSet(m.routes)
  OBVIOUS
<1>f. PICK fm : fm = FilterTopologyModel(m, selected)
  OBVIOUS
<1>c. PICK c : c = Cardinality(S)
  OBVIOUS
<1>1. m.routes \in Seq(T) /\ S \in SUBSET (DOMAIN m.routes)
  BY <1>S, <1>r DEF Plannable
<1>2. /\ c \in Nat /\ R \in Seq(T) /\ DOMAIN R = 1 .. c
      /\ \A n \in 1 .. c : Ascending(S)[n] \in S /\ R[n] = m.routes[Ascending(S)[n]]
      /\ \A i \in S : \E n \in 1 .. c : R[n] = m.routes[i]
  BY ONLY <1>1, <1>r, <1>c, AtHolds
<1>p. PICK pairs : pairs = UNION {Pairs(R[n].node_ids) : n \in DOMAIN R}
  OBVIOUS
<1>3. fm.routes = R /\ fm.links = {l \in m.links : <<l.from, l.to>> \in pairs}
  <2>i. PICK ids, x, y, z : /\ ids = UNION {ToSet(R[n].node_ids) : n \in DOMAIN R}
                            /\ x = At(m.nodes, {n \in DOMAIN m.nodes : m.nodes[n].id \in ids})
                            /\ y = {l \in m.links : <<l.from, l.to>> \in pairs}
                            /\ z = [m EXCEPT !.routes = R, !.nodes = x, !.links = y]
    OBVIOUS
  <2>1. fm = z
    BY <1>S, <1>r, <1>f, <1>p, <2>i DEF FilterTopologyModel
  <2>2. z.routes = R /\ z.links = y
    BY ONLY <2>i, {"nodes", "links", "routes"} \subseteq DOMAIN m
  <2> QED BY <2>1, <2>2, <2>i
<1>4. \A k \in DOMAIN R : \E i \in DOMAIN m.routes : R[k] = m.routes[i] /\ m.routes[i].result \in selected
  <2>1. ASSUME NEW k \in DOMAIN R
        PROVE  \E i \in DOMAIN m.routes : R[k] = m.routes[i] /\ m.routes[i].result \in selected
    <3>i. PICK i : i = Ascending(S)[k]
      OBVIOUS
    <3>1. i \in S /\ R[k] = m.routes[i]
      BY <1>2, <3>i
    <3>2. i \in DOMAIN m.routes /\ m.routes[i].result \in selected
      BY ONLY <1>S, <3>1
    <3> QED BY ONLY <3>1, <3>2
  <2> QED BY <2>1
<1>5. \A i \in DOMAIN m.routes : m.routes[i].result \in selected => \E k \in DOMAIN R : R[k] = m.routes[i]
  BY <1>2, <1>S
<1>6. R \in Seq(ToSet(R))
  <2>1. R = [n \in 1 .. c |-> R[n]]
    BY <1>2
  <2> QED BY <1>2, <2>1, SeqOfValues
<1>7. IsFiniteSet(PathIds(fm)) /\ Cardinality(PathIds(fm)) <= MaxNodes
  <2>1. PathIds(fm) \subseteq PathIds(m)
    BY <1>3, <1>4 DEF PathIds
  <2>2. IsFiniteSet(PathIds(m)) /\ Cardinality(PathIds(m)) <= MaxNodes /\ MaxNodes \in Nat
    BY PrefixAssumption DEF Plannable
  <2>3. IsFiniteSet(PathIds(fm)) /\ Cardinality(PathIds(fm)) <= Cardinality(PathIds(m))
    BY ONLY <2>1, <2>2, FS_Subset
  <2>4. Cardinality(PathIds(fm)) \in Nat /\ Cardinality(PathIds(m)) \in Nat
    BY <2>2, <2>3, FS_CardinalityType
  <2> QED BY <2>2, <2>3, <2>4
<1>8. /\ IsFiniteSet(LinkPairs(fm)) /\ Cardinality(LinkPairs(fm)) <= MaxLinks
      /\ \A e \in LinkPairs(fm) : e = <<e[1], e[2]>> /\ e[1] # e[2]
  <2>1. LinkPairs(fm) \subseteq LinkPairs(m)
    BY <1>3 DEF LinkPairs
  <2>2. /\ IsFiniteSet(LinkPairs(m)) /\ Cardinality(LinkPairs(m)) <= MaxLinks /\ MaxLinks \in Nat
        /\ \A e \in LinkPairs(m) : e = <<e[1], e[2]>> /\ e[1] # e[2]
    BY PrefixAssumption DEF Plannable
  <2>3. IsFiniteSet(LinkPairs(fm)) /\ Cardinality(LinkPairs(fm)) <= Cardinality(LinkPairs(m))
    BY ONLY <2>1, <2>2, FS_Subset
  <2>4. Cardinality(LinkPairs(fm)) \in Nat /\ Cardinality(LinkPairs(m)) \in Nat
    BY <2>2, <2>3, FS_CardinalityType
  <2> QED BY <2>1, <2>2, <2>3, <2>4
<1>9. ASSUME NEW k \in DOMAIN R
      PROVE  LET ids == R[k].node_ids
             IN  /\ {"node_ids", "complete"} \subseteq DOMAIN R[k]
                 /\ R[k].result \in Nat /\ R[k].complete \in BOOLEAN
                 /\ ids \in Seq(PathIds(fm)) /\ Len(ids) # 0
                 /\ \A n \in 1 .. Len(ids) - 1 : <<ids[n], ids[n + 1]>> \in LinkPairs(fm)
  <2>1. PICK i \in DOMAIN m.routes : R[k] = m.routes[i]
    BY <1>4
  <2>i. PICK ids : ids = R[k].node_ids
    OBVIOUS
  <2>2. /\ {"node_ids", "complete"} \subseteq DOMAIN R[k]
        /\ R[k].result \in Nat /\ R[k].complete \in BOOLEAN
        /\ ids \in Seq(PathIds(m)) /\ Len(ids) # 0
        /\ \A n \in 1 .. Len(ids) - 1 : <<ids[n], ids[n + 1]>> \in LinkPairs(m)
    BY <2>1, <2>i DEF Plannable
  <2>3. ids \in Seq(PathIds(fm))
    <3>1. ToSet(ids) \subseteq PathIds(fm)
      BY <1>3, <2>i DEF PathIds
    <3>2. ids \in Seq(ToSet(ids))
      <4>1. Len(ids) \in Nat /\ DOMAIN ids = 1 .. Len(ids) /\ ids = [n \in 1 .. Len(ids) |-> ids[n]]
        BY <2>2
      <4> QED BY <4>1, SeqOfValues
    <3> QED BY <3>1, <3>2
  <2>4. ASSUME NEW n \in 1 .. Len(ids) - 1
        PROVE  <<ids[n], ids[n + 1]>> \in LinkPairs(fm)
    <3>1. PICK l \in m.links : <<ids[n], ids[n + 1]>> = <<l.from, l.to>>
      BY <2>2 DEF LinkPairs
    <3>2. <<ids[n], ids[n + 1]>> \in pairs
      BY <1>p, <2>i DEF Pairs
    <3>3. l \in fm.links
      BY <1>3, <3>1, <3>2
    <3> QED BY <3>1, <3>3 DEF LinkPairs
  <2> QED BY <2>2, <2>3, <2>4, <2>i
<1>10. Plannable(fm)
  BY <1>3, <1>6, <1>7, <1>8, <1>9 DEF Plannable
<1> QED BY <1>3, <1>4, <1>5, <1>10, <1>f

-----------------------------------------------------------------------------
(* The plan of a view.                                                     *)

(* A beginning of a route, called complete if it is a complete route. *)
IsCut(path, whole) ==
    /\ path.result = whole.result /\ path.attempt = whole.attempt
    /\ \E c \in 1 .. Len(whole.node_ids) :
          /\ path.node_ids = SubSeq(whole.node_ids, 1, c)
          /\ path.complete = (whole.complete /\ c = Len(whole.node_ids))

LEMMA PlannedRouteIsCut ==
    ASSUME NEW m, Plannable(m), NEW own, own.route \in DOMAIN m.routes,
           own.cursor \in 1 .. Len(m.routes[own.route].node_ids)
    PROVE  LET path == PlannedRoute(m, own)
           IN  /\ IsCut(path, m.routes[own.route])
               /\ path.node_ids = [n \in 1 .. own.cursor |-> m.routes[own.route].node_ids[n]]
               /\ Len(path.node_ids) = own.cursor /\ path.complete \in BOOLEAN
               /\ {"node_ids", "complete"} \subseteq DOMAIN path
<1>w. PICK whole, c, ids : /\ whole = m.routes[own.route] /\ c = own.cursor /\ ids = whole.node_ids
  OBVIOUS
<1>1. /\ {"node_ids", "complete"} \subseteq DOMAIN whole /\ whole.complete \in BOOLEAN
      /\ ids \in Seq(PathIds(m)) /\ c \in 1 .. Len(ids)
  BY <1>w DEF Plannable
<1>b. PICK cut, b : cut = SubSeq(ids, 1, c) /\ b \in BOOLEAN /\ b = (whole.complete /\ c = Len(ids))
  BY <1>1
<1>p. PICK path, some : /\ some = [whole EXCEPT !.node_ids = cut]
                        /\ path = [whole EXCEPT !.node_ids = cut, !.complete = b]
  OBVIOUS
<1>2. path = PlannedRoute(m, own)
  BY <1>w, <1>b, <1>p DEF PlannedRoute
<1>3. /\ path.node_ids = cut /\ path.complete = b
      /\ path.result = whole.result /\ path.attempt = whole.attempt
      /\ {"node_ids", "complete"} \subseteq DOMAIN path
  BY ONLY <1>1, <1>p
<1>4. cut = [n \in 1 .. c |-> ids[n]] /\ Len(cut) = c
  BY <1>1, <1>b
<1>5. IsCut(path, whole)
  BY <1>1, <1>3, <1>b, <1>w DEF IsCut
<1> QED BY <1>2, <1>3, <1>4, <1>5, <1>b, <1>w

(* What a plan has of the selection it is made of, and how much that may   *)
(* be.                                                                     *)
ElementBudget(m, view, remaining) ==
    IF view = "topology" THEN Max({0, Max({0, remaining - ViewReserve}) - Canvas - Inspector})
    ELSE MaxNodes + MaxLinks + Len(m.routes)

PlanParts(p, m, view, show, remaining) ==
    LET budget == ElementBudget(m, view, remaining)
        st == Admitted(m, budget)
        y == PresentTopology(m, st, p.routes, show, budget)
        targets == {p.routes[k].result : k \in DOMAIN p.routes}
        dynamic == Max({0, remaining - ViewReserve})
    IN  /\ p.view = view /\ p.nodes = st.nodes /\ p.links = st.links
        /\ p.routes = [k \in DOMAIN st.taken |-> PlannedRoute(m, st.taken[k])]
        /\ p.presentation = y.shown
        /\ p.renderable <=> Renderable(view, targets, remaining, dynamic)
        /\ p.renderable => \E markers \in SUBSET ToSet(st.nodes) :
              p.mount = Mounted(IF view = "topology" THEN TopologyItems(y.shown)
                                ELSE GeoItems(targets, markers), dynamic)
        /\ p.reasons = PlanReasons(m, st, p.routes, p.renderable, y)

LEMMA PlanFields ==
    ASSUME NEW m, NEW view, NEW show, NEW remaining
    PROVE  PlanParts(PlanTopologyDOM(m, view, show, remaining), m, view, show, remaining)
<1>b. PICK budget : budget = ElementBudget(m, view, remaining)
  OBVIOUS
<1>s. PICK st, dynamic : st = Admitted(m, budget) /\ dynamic = Max({0, remaining - ViewReserve})
  OBVIOUS
<1>r. PICK routes : routes = [k \in DOMAIN st.taken |-> PlannedRoute(m, st.taken[k])]
  BY Zenon
<1>p. PICK p : p = PlanTopologyDOM(m, view, show, remaining)
  OBVIOUS
<1>y. PICK y, targets, markers, renderable :
         /\ y = PresentTopology(m, st, routes, show, budget)
         /\ targets = {routes[k].result : k \in DOMAIN routes}
         /\ markers = {id \in ToSet(st.nodes) : \E n \in ToSet(m.nodes) : n.id = id /\ n.geo}
         /\ renderable = Renderable(view, targets, remaining, dynamic)
  OBVIOUS
<1>1. p = Planned(m, view, show, st, budget, remaining, dynamic)
  BY <1>b, <1>s, <1>p DEF PlanTopologyDOM, Budgeted, ElementBudget
<1>2. p = Routed(m, view, show, st, routes, budget, remaining, dynamic)
  BY <1>1, <1>r DEF Planned
<1>3. p = Assembled(m, view, st, routes, y, markers, dynamic, renderable)
  BY <1>2, <1>y DEF Routed
<1>m. PICK mount, reasons :
         /\ mount = (IF ~renderable THEN <<>>
                     ELSE Mounted(IF view = "topology" THEN TopologyItems(y.shown)
                                  ELSE GeoItems({routes[k].result : k \in DOMAIN routes}, markers), dynamic))
         /\ reasons = PlanReasons(m, st, routes, renderable, y)
  OBVIOUS
<1>4. p = [view |-> view, renderable |-> renderable, presentation |-> y.shown,
           nodes |-> st.nodes, links |-> st.links, routes |-> routes,
           mount |-> mount, reasons |-> reasons]
  BY <1>3, <1>m DEF Assembled
<1>5. /\ p.view = view /\ p.nodes = st.nodes /\ p.links = st.links /\ p.routes = routes
      /\ p.presentation = y.shown /\ p.renderable = renderable /\ p.mount = mount
      /\ p.reasons = reasons
  BY ONLY <1>4
<1>6. markers \in SUBSET ToSet(st.nodes)
  BY <1>y
<1>7. p.renderable => p.mount = Mounted(IF view = "topology" THEN TopologyItems(y.shown)
                                        ELSE GeoItems(targets, markers), dynamic)
  BY <1>5, <1>m, <1>y
<1>8. /\ p.routes = [k \in DOMAIN st.taken |-> PlannedRoute(m, st.taken[k])]
      /\ y = PresentTopology(m, st, p.routes, show, budget)
      /\ targets = {p.routes[k].result : k \in DOMAIN p.routes}
      /\ p.reasons = PlanReasons(m, st, p.routes, p.renderable, y)
  BY <1>5, <1>r, <1>y, <1>m
<1>9. p.renderable <=> Renderable(view, targets, remaining, dynamic)
  BY <1>5, <1>y
<1>10. p.renderable => \E extra \in SUBSET ToSet(st.nodes) :
          p.mount = Mounted(IF view = "topology" THEN TopologyItems(y.shown)
                            ELSE GeoItems(targets, extra), dynamic)
  BY <1>6, <1>7
<1>11. PlanParts(p, m, view, show, remaining)
  BY ONLY <1>5, <1>8, <1>9, <1>10, <1>b, <1>s DEF PlanParts
<1> QED BY <1>11, <1>p

(* The routes of a plan are cut from those of the model. *)
CutsOf(p, m, st) ==
    /\ DOMAIN p.routes = 1 .. Len(st.taken) /\ Len(p.routes) = Len(st.taken)
    /\ \A k \in DOMAIN p.routes :
          LET own == st.taken[k]
              ids == m.routes[own.route].node_ids
              path == p.routes[k]
          IN  /\ own.route \in DOMAIN m.routes /\ IsCut(path, m.routes[own.route])
              /\ path.node_ids = [n \in 1 .. own.cursor |-> ids[n]]
              /\ Len(path.node_ids) = own.cursor /\ own.cursor \in 1 .. Len(ids)
              /\ ids \in Seq(PathIds(m))
              /\ {"node_ids", "complete"} \subseteq DOMAIN path /\ path.complete \in BOOLEAN

LEMMA PlanRoutesHold ==
    ASSUME NEW m, Plannable(m), NEW view, NEW show, NEW remaining \in Nat,
           NEW p, PlanParts(p, m, view, show, remaining),
           NEW budget, budget = ElementBudget(m, view, remaining), NEW st, st = Admitted(m, budget)
    PROVE  budget \in Nat /\ PlanInv(st, m, budget) /\ TakenOnce(st) /\ CutsOf(p, m, st)
<1>L. PICK L : L = Len(m.routes)
  OBVIOUS
<1>0. /\ L \in Nat /\ MaxNodes \in Nat /\ MaxLinks \in Nat /\ ViewReserve \in Nat
  <2>1. MaxNodes \in Nat /\ MaxLinks \in Nat /\ ViewReserve \in Nat
    BY PrefixAssumption, PlanAssumption
  <2>2. L \in Nat
    BY <1>L DEF Plannable
  <2> QED BY <2>1, <2>2
<1>1. budget \in Nat
  <2>1. CASE view = "topology"
    <3>d. PICK dynamic : dynamic = Max({0, remaining - ViewReserve})
      OBVIOUS
    <3>1. remaining - ViewReserve \in Int
      BY <1>0
    <3>2. dynamic \in Nat
      BY <3>1, <3>d, MaxOfZero
    <3>3. dynamic - Canvas - Inspector \in Int
      BY <3>2 DEF Canvas, Inspector
    <3>4. Max({0, dynamic - Canvas - Inspector}) \in Nat
      BY <3>3, MaxOfZero
    <3> QED BY <2>1, <3>4, <3>d DEF ElementBudget
  <2>2. CASE view # "topology"
    <3>1. budget = MaxNodes + MaxLinks + L
      BY <1>L, <2>2 DEF ElementBudget
    <3> QED BY <1>0, <3>1
  <2> QED BY <2>1, <2>2
<1>2. PlanInv(st, m, budget) /\ TakenOnce(st)
  BY <1>1, AdmittedHolds
<1>t. PICK taken, c : taken = st.taken /\ c = Len(st.taken)
  OBVIOUS
<1>3. /\ DOMAIN taken = 1 .. c /\ c \in Nat
      /\ \A k \in 1 .. c : taken[k].route \in DOMAIN m.routes
  BY <1>2, <1>t, PlanTypes
<1>4. \A k \in 1 .. c : Along(st.nodes, st.links, m.routes[taken[k].route].node_ids, taken[k].cursor)
  BY <1>2, <1>3, <1>t DEF PlanInv
<1>5. p.routes = [k \in 1 .. c |-> PlannedRoute(m, taken[k])]
  <2>1. p.routes = [k \in DOMAIN st.taken |-> PlannedRoute(m, st.taken[k])]
    BY DEF PlanParts
  <2> QED BY <1>3, <1>t, <2>1
<1>6. /\ DOMAIN p.routes = 1 .. c /\ Len(p.routes) = c
      /\ \A k \in 1 .. c : p.routes[k] = PlannedRoute(m, taken[k])
  BY <1>3, <1>5
<1>7. ASSUME NEW k \in 1 .. c
      PROVE  LET own == taken[k]
                 ids == m.routes[own.route].node_ids
                 path == p.routes[k]
             IN  /\ own.route \in DOMAIN m.routes /\ IsCut(path, m.routes[own.route])
                 /\ path.node_ids = [n \in 1 .. own.cursor |-> ids[n]]
                 /\ Len(path.node_ids) = own.cursor /\ own.cursor \in 1 .. Len(ids)
                 /\ ids \in Seq(PathIds(m))
                 /\ {"node_ids", "complete"} \subseteq DOMAIN path /\ path.complete \in BOOLEAN
  <2>o. PICK own : own = taken[k]
    OBVIOUS
  <2>1. own.route \in DOMAIN m.routes
    BY <1>3, <2>o
  <2>2. own.cursor \in 1 .. Len(m.routes[own.route].node_ids)
    BY <1>4, <2>o DEF Along
  <2>3. LET path == PlannedRoute(m, own)
        IN  /\ IsCut(path, m.routes[own.route])
            /\ path.node_ids = [n \in 1 .. own.cursor |-> m.routes[own.route].node_ids[n]]
            /\ Len(path.node_ids) = own.cursor /\ path.complete \in BOOLEAN
            /\ {"node_ids", "complete"} \subseteq DOMAIN path
    BY <2>1, <2>2, PlannedRouteIsCut
  <2>4. m.routes[own.route].node_ids \in Seq(PathIds(m))
    BY <2>1 DEF Plannable
  <2> QED BY <1>6, <2>1, <2>2, <2>3, <2>4, <2>o
<1>8. CutsOf(p, m, st)
  BY ONLY <1>6, <1>7, <1>t, Zenon DEF CutsOf
<1> QED BY <1>1, <1>2, <1>8

(* A plan passes the checks of what is selected, keeps to its budget, cuts *)
(* routes and adds none, and says so if it cuts any.                       *)
PlanOf(p, m, view, remaining) ==
    /\ p.view = view /\ ValidateTopology(p.nodes, p.links, p.routes)
    /\ view = "topology" =>
          Len(p.nodes) + Len(p.links) + Len(p.routes) <= ElementBudget(m, view, remaining)
    /\ "missing_link" \notin p.reasons
    /\ \A k \in DOMAIN p.routes : \E i \in DOMAIN m.routes : IsCut(p.routes[k], m.routes[i])
    /\ "element_budget" \notin p.reasons =>
          \A i \in DOMAIN m.routes : \E k \in DOMAIN p.routes :
             IsCut(p.routes[k], m.routes[i]) /\ p.routes[k].complete

LEMMA PlanHolds ==
    ASSUME NEW m, Plannable(m), NEW view, NEW show, NEW remaining \in Nat
    PROVE  PlanOf(PlanTopologyDOM(m, view, show, remaining), m, view, remaining)
<1>b. PICK budget : budget = ElementBudget(m, view, remaining)
  OBVIOUS
<1>s. PICK st : st = Admitted(m, budget)
  OBVIOUS
<1>p. PICK p : p = PlanTopologyDOM(m, view, show, remaining)
  OBVIOUS
<1>q. PICK paths, L : paths = m.routes /\ L = Len(m.routes)
  OBVIOUS
<1>0. /\ paths \in Seq(ToSet(paths)) /\ L \in Nat /\ DOMAIN paths = 1 .. L
      /\ MaxNodes \in Nat /\ MaxLinks \in Nat /\ ViewReserve \in Nat
  <2>1. paths \in Seq(ToSet(paths))
    BY <1>q DEF Plannable
  <2>2. MaxNodes \in Nat /\ MaxLinks \in Nat /\ ViewReserve \in Nat
    BY PrefixAssumption, PlanAssumption
  <2>3. L \in Nat /\ DOMAIN paths = 1 .. L
    BY <1>q, <2>1
  <2> QED BY <2>1, <2>2, <2>3
<1>f. PlanParts(p, m, view, show, remaining)
  BY <1>p, PlanFields
<1>1. budget \in Nat /\ CutsOf(p, m, st)
  BY <1>b, <1>f, <1>s, PlanRoutesHold
<1>2. PlanInv(st, m, budget) /\ TakenOnce(st)
  BY <1>b, <1>f, <1>s, PlanRoutesHold
<1>t. PICK taken, c : taken = st.taken /\ c = Len(st.taken)
  OBVIOUS
<1>3. /\ st.nodes \in Seq(PathIds(m)) /\ st.links \in Seq(LinkPairs(m)) /\ st.missing = FALSE
      /\ DOMAIN taken = 1 .. c /\ c \in Nat /\ Len(st.nodes) \in Nat /\ Len(st.links) \in Nat
      /\ \A k \in 1 .. c : taken[k].route \in DOMAIN paths
  BY <1>2, <1>q, <1>t, PlanTypes
<1>4. /\ Distinctly(st.nodes) /\ Distinctly(st.links)
      /\ \A n \in DOMAIN st.links : Holds(st.nodes, st.links[n][1]) /\ Holds(st.nodes, st.links[n][2])
      /\ st.cost = Len(st.nodes) + Len(st.links) + c /\ st.cost <= budget
      /\ \A k \in 1 .. c : Along(st.nodes, st.links, paths[taken[k].route].node_ids, taken[k].cursor)
  BY <1>2, <1>3, <1>q, <1>t DEF PlanInv
<1>5. PICK renderable, presentation :
         /\ p.view = view /\ p.nodes = st.nodes /\ p.links = st.links
         /\ p.reasons = PlanReasons(m, st, p.routes, renderable, presentation)
  <2>y. PICK y, renderable : /\ y = PresentTopology(m, st, p.routes, show, budget)
                             /\ renderable = p.renderable
    OBVIOUS
  <2>1. /\ p.view = view /\ p.nodes = st.nodes /\ p.links = st.links
        /\ p.reasons = PlanReasons(m, st, p.routes, renderable, y)
    BY ONLY <1>b, <1>f, <1>s, <2>y DEF PlanParts
  <2> QED BY <2>1
<1>6. DOMAIN p.routes = 1 .. c /\ Len(p.routes) = c
  BY <1>1, <1>t DEF CutsOf
<1>7. ASSUME NEW k \in 1 .. c
      PROVE  LET ids == paths[taken[k].route].node_ids
             IN  /\ IsCut(p.routes[k], paths[taken[k].route])
                 /\ p.routes[k].node_ids = [n \in 1 .. taken[k].cursor |-> ids[n]]
                 /\ Len(p.routes[k].node_ids) = taken[k].cursor /\ taken[k].cursor \in 1 .. Len(ids)
                 /\ ids \in Seq(PathIds(m))
  BY <1>1, <1>6, <1>q, <1>t DEF CutsOf
<1>8. ValidateTopology(p.nodes, p.links, p.routes)
  <2>n. PICK nodes, links : nodes = st.nodes /\ links = st.links
    OBVIOUS
  <2>1. Len(nodes) <= MaxNodes /\ Len(links) <= MaxLinks
    <3>1. /\ IsFiniteSet(PathIds(m)) /\ Cardinality(PathIds(m)) <= MaxNodes
          /\ IsFiniteSet(LinkPairs(m)) /\ Cardinality(LinkPairs(m)) <= MaxLinks
      BY DEF Plannable
    <3>2. Cardinality(PathIds(m)) \in Nat /\ Len(nodes) <= Cardinality(PathIds(m))
      BY <1>3, <1>4, <2>n, <3>1, LenOfDistinct
    <3>3. Cardinality(LinkPairs(m)) \in Nat /\ Len(links) <= Cardinality(LinkPairs(m))
      BY <1>3, <1>4, <2>n, <3>1, LenOfDistinct
    <3> QED BY <1>0, <1>3, <2>n, <3>1, <3>2, <3>3
  <2>2. IsInjective(nodes) /\ IsInjective(links)
    BY <1>4, <2>n DEF Distinctly, IsInjective
  <2>3. /\ \A x : Holds(nodes, x) => x \in ToSet(nodes)
        /\ \A x : Holds(links, x) => x \in ToSet(links)
    BY DEF Holds, ToSet
  <2>4. ASSUME NEW n \in DOMAIN links
        PROVE  {links[n][1], links[n][2]} \subseteq ToSet(nodes) /\ links[n][1] # links[n][2]
    <3>1. links[n] \in LinkPairs(m)
      BY <1>3, <2>n
    <3>2. links[n][1] # links[n][2]
      BY <3>1 DEF Plannable
    <3> QED BY <1>4, <2>3, <2>n, <3>2
  <2>5. ASSUME NEW k \in 1 .. c
        PROVE  /\ ToSet(p.routes[k].node_ids) \subseteq ToSet(nodes)
               /\ Pairs(p.routes[k].node_ids) \subseteq ToSet(links)
    <3>i. PICK ids, d, cut : /\ ids = paths[taken[k].route].node_ids /\ d = taken[k].cursor
                             /\ cut = p.routes[k].node_ids
      OBVIOUS
    <3>1. cut = [n \in 1 .. d |-> ids[n]] /\ Len(cut) = d /\ d \in 1 .. Len(ids) /\ ids \in Seq(PathIds(m))
      BY <1>7, <3>i
    <3>2. /\ \A n \in 1 .. d : Holds(nodes, ids[n])
          /\ \A n \in 1 .. d - 1 : Holds(links, <<ids[n], ids[n + 1]>>)
      BY <1>4, <2>n, <3>i DEF Along
    <3>3. ToSet(cut) \subseteq ToSet(nodes)
      BY <2>3, <3>1, <3>2 DEF ToSet
    <3>4. ASSUME NEW e \in Pairs(cut)
          PROVE  e \in ToSet(links)
      <4>1. PICK n \in 1 .. Len(cut) - 1 : e = <<cut[n], cut[n + 1]>>
        BY DEF Pairs
      <4>2. n \in 1 .. d - 1 /\ n \in 1 .. d /\ n + 1 \in 1 .. d
        BY <3>1
      <4>3. e = <<ids[n], ids[n + 1]>>
        BY <3>1, <4>1, <4>2
      <4> QED BY <2>3, <3>2, <4>2, <4>3
    <3> QED BY <3>3, <3>4, <3>i
  <2> QED BY <1>5, <1>6, <2>1, <2>2, <2>4, <2>5, <2>n DEF ValidateTopology
<1>9. Len(p.nodes) + Len(p.links) + Len(p.routes) <= budget
  <2>1. st.cost = Len(p.nodes) + Len(p.links) + Len(p.routes)
    BY <1>4, <1>5, <1>6
  <2> QED BY <1>4, <2>1
<1>10. "missing_link" \notin p.reasons
  <2>1. "missing_link" \in p.reasons => st.missing
    BY <1>5 DEF PlanReasons
  <2> QED BY <1>3, <2>1
<1>11. \A k \in 1 .. c : \E i \in DOMAIN paths : IsCut(p.routes[k], paths[i])
  BY <1>3, <1>7
<1>12. ASSUME "element_budget" \notin p.reasons, NEW i \in DOMAIN paths
       PROVE  \E k \in 1 .. c : IsCut(p.routes[k], paths[i]) /\ p.routes[k].complete
  <2>1. ~(L > Len(p.routes)) /\ ~ \E k \in DOMAIN p.routes : ~p.routes[k].complete
    BY <1>5, <1>12, <1>q DEF PlanReasons
  <2>2. L <= c
    BY <1>0, <1>3, <1>6, <2>1
  <2>D. PICK D, f : D = 1 .. L /\ f = [k \in 1 .. c |-> taken[k].route]
    OBVIOUS
  <2>3. f \in Seq(D) /\ Len(f) = c /\ DOMAIN f = 1 .. c
    <3>1. f \in [1 .. c -> D]
      BY <1>0, <1>3, <2>D
    <3> QED BY <1>3, <3>1
  <2>4. Distinctly(f)
    <3>1. \A a, b \in 1 .. c : taken[a].route = taken[b].route => a = b
      BY <1>2, <1>3, <1>t DEF TakenOnce
    <3> QED BY <2>3, <2>D, <3>1 DEF Distinctly
  <2>5. IsFiniteSet(D) /\ Cardinality(D) = L
    <3>1. 1 \in Int /\ L \in Int
      BY <1>0
    <3>2. IsFiniteSet(1 .. L) /\ Cardinality(1 .. L) = IF 1 > L THEN 0 ELSE L - 1 + 1
      BY ONLY <3>1, FS_Interval
    <3> QED BY <1>0, <2>D, <3>2
  <2>6. Holds(f, i)
    <3>1. Len(f) >= Cardinality(D) /\ i \in D
      BY <1>0, <1>3, <2>2, <2>3, <2>5, <2>D
    <3>2. \A x \in D : Holds(f, x)
      BY ONLY <2>3, <2>4, <2>5, <3>1, LenOfDistinct
    <3> QED BY <3>1, <3>2
  <2>7. PICK k \in 1 .. c : taken[k].route = i
    BY <2>3, <2>6, <2>D DEF Holds
  <2>8. IsCut(p.routes[k], paths[i])
    BY <1>7, <2>7
  <2>9. p.routes[k].complete
    BY <1>6, <2>1
  <2> QED BY <2>8, <2>9
<1> QED BY <1>5, <1>6, <1>8, <1>9, <1>10, <1>11, <1>12, <1>b, <1>p, <1>q DEF PlanOf

(* A result has a trace of an attempt once. *)
LEMMA TraceOfAttempt ==
    ASSUME NEW rep \in ReportSet, NEW r \in DOMAIN rep, NEW n \in DOMAIN CompactRoutes(rep, r)
    PROVE  LET trace == CompactRoutes(rep, r)[n]
           IN  /\ trace.result = r /\ trace.keys \in Seq(Keys)
               /\ (CHOOSE t \in ToSet(CompactRoutes(rep, r)) : t.attempt = trace.attempt) = trace
<1>c. PICK c : c = CompactRoutes(rep, r)
  OBVIOUS
<1>1. c \in Seq(TracesOf(rep)) /\ n \in DOMAIN c
  BY <1>c, CompactRoutesHold
<1>2. c[n].keys \in Seq(Keys)
  <2>1. c[n] \in TraceSet
    BY <1>1 DEF TracesOf
  <2> QED BY <2>1 DEF TraceSet, HopLists
<1>a. PICK attempts, S, a, l : /\ attempts = rep[r].attempts /\ S = {j \in DOMAIN attempts : attempts[j].output = "completed"}
                               /\ a = Ascending(S) /\ l = Cardinality(S)
  OBVIOUS
<1>3. S \in SUBSET Nat /\ IsFiniteSet(S)
  <2>1. attempts \in Seq(Attempts)
    <3>T. PICK T : T = [kind : STRING, attempts : Seq(Attempts)]
      OBVIOUS
    <3>1. rep \in Seq(T)
      BY <3>T DEF ReportSet
    <3>2. rep[r] \in T
      BY <3>1
    <3>3. rep[r].attempts \in Seq(Attempts)
      BY <3>2, <3>T
    <3> QED BY <1>a, <3>3
  <2>l. PICK d : d = Len(attempts)
    OBVIOUS
  <2>2. d \in Nat /\ DOMAIN attempts = 1 .. d /\ 1 \in Int /\ d \in Int
    BY <2>1, <2>l
  <2>3. IsFiniteSet(1 .. d)
    BY ONLY <2>2, FS_Interval
  <2>4. S \subseteq 1 .. d
    BY <1>a, <2>2
  <2>5. IsFiniteSet(S)
    BY <2>3, <2>4, FS_Subset
  <2>6. S \in SUBSET Nat
    BY <2>2, <2>4
  <2> QED BY <2>5, <2>6
<1>4. l \in Nat /\ a \in [1 .. l -> S] /\ \A i, j \in 1 .. l : i < j => a[i] < a[j]
  BY <1>3, <1>a, AscendingHolds, Zenon
<1>5. /\ DOMAIN c = 1 .. l
      /\ \A m \in 1 .. l : c[m].result = r /\ c[m].attempt = a[m]
  <2>1. rep[r].kind = "traceroute"
    <3>1. rep[r].kind # "traceroute" => c = <<>>
      BY <1>c DEF CompactRoutes
    <3>2. c # <<>>
      <4>1. DOMAIN <<>> = {}
        OBVIOUS
      <4> QED BY <1>1, <4>1, Zenon
    <3> QED BY <3>1, <3>2
  <2>2. DOMAIN c = DOMAIN a /\ \A m \in DOMAIN a : c[m].result = r /\ c[m].attempt = a[m]
    BY <1>c, <1>a, <2>1, Zenon DEF CompactRoutes
  <2> QED BY <1>4, <2>2
<1>6. ASSUME NEW m \in 1 .. l, NEW o \in 1 .. l, a[m] = a[o]
      PROVE  m = o
  <2>1. a[m] \in Nat /\ a[o] \in Nat
    BY <1>3, <1>4
  <2>2. ~(m < o) /\ ~(o < m)
    BY <1>4, <1>6, <2>1
  <2> QED BY <1>4, <2>2
<1>7. \A t \in ToSet(c) : t.attempt = c[n].attempt => t = c[n]
  BY <1>1, <1>5, <1>6 DEF ToSet
<1>8. c[n] \in ToSet(c)
  BY <1>1 DEF ToSet
<1>9. (CHOOSE t \in ToSet(c) : t.attempt = c[n].attempt) = c[n]
  BY <1>7, <1>8
<1> QED BY <1>1, <1>2, <1>5, <1>9, <1>c

(* The first keys of some. *)
LEMMA FirstKeys ==
    ASSUME NEW keys \in Seq(Keys), NEW c \in Nat, c <= Len(keys),
           NEW some, some = [n \in 1 .. c |-> keys[n]]
    PROVE  IsPrefix(some, keys) /\ (c = Len(keys) => some = keys)
<1>1. some \in Seq(Keys) /\ Len(some) = c
  <2>1. some \in [1 .. c -> Keys]
    OBVIOUS
  <2> QED BY <2>1
<1>2. SubSeq(some, 1, c) = SubSeq(keys, 1, c)
  <2>1. SubSeq(some, 1, c) = [n \in 1 .. c |-> some[n]]
    BY <1>1
  <2>2. SubSeq(keys, 1, c) = [n \in 1 .. c |-> keys[n]]
    OBVIOUS
  <2> QED BY <2>1, <2>2
<1>3. c = Len(keys) => some = keys
  <2>1. keys = [n \in 1 .. Len(keys) |-> keys[n]]
    OBVIOUS
  <2> QED BY <2>1
<1> QED BY <1>1, <1>2, <1>3 DEF IsPrefix

(* The keys of a beginning of a route are the first keys of its trace.     *)
LEMMA CutBegins ==
    ASSUME NEW whole, NEW trace, Begins(model, whole, trace), NEW X, whole.node_ids \in Seq(X),
           trace.keys \in Seq(Keys), NEW path, IsCut(path, whole)
    PROVE  LET shown == KeysOf(path.node_ids)
           IN  /\ path.result = trace.result /\ path.attempt = trace.attempt
               /\ IsPrefix(shown, trace.keys)
               /\ path.complete => shown = trace.keys
<1>k. PICK keys, ids : keys = trace.keys /\ ids = whole.node_ids
  OBVIOUS
<1>1. /\ path.result = trace.result /\ path.attempt = trace.attempt
      /\ Len(ids) <= Len(keys) /\ (whole.complete <=> Len(ids) = Len(keys))
      /\ \A m \in 1 .. Len(ids) : \E x \in DOMAIN model.nodes :
            ids[m] = <<x>> /\ model.nodes[x].key = keys[m]
  BY <1>k DEF Begins, IsCut
<1>2. PICK c \in 1 .. Len(ids) :
         path.node_ids = SubSeq(ids, 1, c) /\ path.complete = (whole.complete /\ c = Len(ids))
  BY <1>k DEF IsCut
<1>3. /\ ids \in Seq(X) /\ keys \in Seq(Keys) /\ Len(ids) \in Nat /\ Len(keys) \in Nat
      /\ c \in Nat /\ c <= Len(ids) /\ c <= Len(keys)
  BY <1>1, <1>k
<1>4. path.node_ids = [n \in 1 .. c |-> ids[n]]
  BY <1>2, <1>3
<1>5. ASSUME NEW n \in 1 .. c
      PROVE  KeyOf(ids[n]) = keys[n]
  <2>1. n \in 1 .. Len(ids)
    BY <1>3
  <2>2. PICK x \in DOMAIN model.nodes : ids[n] = <<x>> /\ model.nodes[x].key = keys[n]
    BY <1>1, <2>1
  <2>3. Len(ids[n]) = 1 /\ ids[n][1] = x
    BY <2>2
  <2>4. ~(Len(ids[n]) > 1)
    BY <2>3
  <2>5. KeyOf(ids[n]) = model.nodes[ids[n][1]].key
    BY <2>4 DEF KeyOf
  <2> QED BY <2>2, <2>3, <2>5
<1>6. KeysOf(path.node_ids) = [n \in 1 .. c |-> keys[n]]
  <2>1. KeysOf(path.node_ids) = [n \in 1 .. c |-> KeyOf(ids[n])]
    BY <1>4 DEF KeysOf
  <2> QED BY <1>5, <2>1
<1>7. IsPrefix(KeysOf(path.node_ids), keys) /\ (c = Len(keys) => KeysOf(path.node_ids) = keys)
  BY <1>3, <1>6, FirstKeys
<1>8. path.complete => c = Len(keys)
  BY <1>1, <1>2, <1>3
<1> QED BY <1>1, <1>7, <1>8, <1>k

(* What was planned is a plan of the model and of what was selected. *)
IsPlanned ==
    phase = "planned" =>
        /\ input.remaining \in Nat /\ input.show \in BOOLEAN
        /\ input.selected \subseteq {r \in DOMAIN report : report[r].kind = "traceroute"}
        /\ \E view : plan = PlanTopologyDOM(FilterTopologyModel(model, input.selected), view,
                                            input.show, input.remaining)

LEMMA PlannedStep ==
    ASSUME IsPlanned, [PipelineNext]_pipelineVars
    PROVE  IsPlanned'
<1>1. CASE \E selected \in SUBSET {r \in DOMAIN report : report[r].kind = "traceroute"},
              view \in {"topology", "geo"}, show \in BOOLEAN, remaining \in Remainings :
              Plan(selected, view, show, remaining)
  <2>1. PICK selected \in SUBSET {r \in DOMAIN report : report[r].kind = "traceroute"},
             view \in {"topology", "geo"}, show \in BOOLEAN, remaining \in Remainings :
             Plan(selected, view, show, remaining)
    BY <1>1
  <2>2. /\ input' = [selected |-> selected, show |-> show, remaining |-> remaining]
        /\ plan' = PlanTopologyDOM(FilterTopologyModel(model, selected), view, show, remaining)
        /\ report' = report /\ model' = model
    BY <2>1 DEF Plan
  <2>3. input'.selected = selected /\ input'.show = show /\ input'.remaining = remaining
    BY <2>2
  <2>4. remaining \in Nat
    BY PipelineAssumption
  <2>5. plan' = PlanTopologyDOM(FilterTopologyModel(model', input'.selected), view,
                                input'.show, input'.remaining)
    BY <2>2, <2>3
  <2>6. \E v : plan' = PlanTopologyDOM(FilterTopologyModel(model', input'.selected), v,
                                       input'.show, input'.remaining)
    BY ONLY <2>5
  <2>7. input'.selected \subseteq {r \in DOMAIN report' : report'[r].kind = "traceroute"}
    BY <2>2, <2>3
  <2> QED BY <2>3, <2>4, <2>6, <2>7 DEF IsPlanned
<1>2. CASE \/ \E rep \in Reports, limit \in Rooms : Check(rep, limit)
           \/ SendWhole \/ MarshalInitial \/ ProbeGeo \/ ProbeTransactions \/ SearchEnds
           \/ Receive \/ Replan \/ Clear
  <2>1. phase' # "planned"
    BY <1>2 DEF Check, SendWhole, MarshalInitial, MarshalWith, ProbeGeo, ProbeTransactions, SearchEnds,
                Receive, Replan, Clear
  <2> QED BY <2>1 DEF IsPlanned
<1>3. CASE UNCHANGED pipelineVars
  BY <1>3 DEF pipelineVars, IsPlanned
<1> QED BY <1>1, <1>2, <1>3 DEF PipelineNext

(* What is selected for a view is of what the client was told.             *)
LEMMA PlannedIsSelected ==
    ASSUME PipelineInv, ModelInv, IsPlanned, phase = "planned",
           model.reasons = {} => ShowsAll(model, Told)
    PROVE  PlanIsSelected
<1>1. Told \in ReportSet /\ {"nodes", "links", "routes"} \subseteq DOMAIN model
  BY ModelSelects
<1>2. Plannable(model) /\ Follows(model, Told)
  <2>1. PICK limit \in Int : Selects(model, Told, limit)
    BY ModelSelects
  <2> QED BY <1>1, <2>1, SelectsPlannable, SelectionFollows
<1>s. PICK selected, remaining, show : /\ selected = input.selected /\ remaining = input.remaining
                                       /\ show = input.show
  OBVIOUS
<1>m. PICK fm : fm = FilterTopologyModel(model, selected)
  OBVIOUS
<1>3. PICK view : /\ plan = PlanTopologyDOM(fm, view, show, remaining) /\ remaining \in Nat
                  /\ selected \subseteq {r \in DOMAIN report : report[r].kind = "traceroute"}
  BY <1>s, <1>m DEF IsPlanned
<1>4. /\ Plannable(fm)
      /\ \A k \in DOMAIN fm.routes : \E i \in DOMAIN model.routes :
            fm.routes[k] = model.routes[i] /\ model.routes[i].result \in selected
      /\ \A i \in DOMAIN model.routes : model.routes[i].result \in selected =>
            \E k \in DOMAIN fm.routes : fm.routes[k] = model.routes[i]
  BY <1>1, <1>2, <1>m, FilterKeeps
<1>5. /\ plan.view = view /\ ValidateTopology(plan.nodes, plan.links, plan.routes)
      /\ view = "topology" =>
            Len(plan.nodes) + Len(plan.links) + Len(plan.routes) <= ElementBudget(fm, view, remaining)
      /\ "missing_link" \notin plan.reasons
      /\ \A k \in DOMAIN plan.routes : \E i \in DOMAIN fm.routes : IsCut(plan.routes[k], fm.routes[i])
      /\ "element_budget" \notin plan.reasons =>
            \A i \in DOMAIN fm.routes : \E k \in DOMAIN plan.routes :
               IsCut(plan.routes[k], fm.routes[i]) /\ plan.routes[k].complete
  <2>1. Plannable(fm) /\ remaining \in Nat
    BY <1>3, <1>4
  <2>p. PICK p : p = PlanTopologyDOM(fm, view, show, remaining)
    OBVIOUS
  <2>2. PlanOf(p, fm, view, remaining)
    BY ONLY <2>1, <2>p, PlanHolds
  <2>3. p = plan
    BY <1>3, <2>p
  <2> QED BY ONLY <2>2, <2>3 DEF PlanOf
<1>6. plan.view = "topology" =>
         Len(plan.nodes) + Len(plan.links) + Len(plan.routes)
             <= Max({0, Max({0, input.remaining - ViewReserve}) - Canvas - Inspector})
  BY <1>5, <1>s DEF ElementBudget
<1>7. ASSUME NEW i \in DOMAIN model.routes, NEW path, IsCut(path, model.routes[i])
      PROVE  /\ path.result = model.routes[i].result /\ path.attempt = model.routes[i].attempt
             /\ IsPrefix(KeysOf(path.node_ids), Trace(path.result, path.attempt))
             /\ path.complete => KeysOf(path.node_ids) = Trace(path.result, path.attempt)
  <2>w. PICK whole : whole = model.routes[i]
    OBVIOUS
  <2>1. PICK r \in DOMAIN Told : \E n \in DOMAIN CompactRoutes(Told, r) :
           Begins(model, whole, CompactRoutes(Told, r)[n])
    BY <1>2, <2>w DEF Follows
  <2>2. PICK n \in DOMAIN CompactRoutes(Told, r) : Begins(model, whole, CompactRoutes(Told, r)[n])
    BY <2>1
  <2>t. PICK trace : trace = CompactRoutes(Told, r)[n]
    OBVIOUS
  <2>3. /\ trace.result = r /\ trace.keys \in Seq(Keys)
        /\ (CHOOSE t \in ToSet(CompactRoutes(Told, r)) : t.attempt = trace.attempt) = trace
    BY <1>1, <2>t, TraceOfAttempt
  <2>4. whole.node_ids \in Seq(PathIds(model))
    BY <1>2, <2>w DEF Plannable
  <2>5. Begins(model, whole, trace) /\ IsCut(path, whole)
    BY <1>7, <2>2, <2>t, <2>w
  <2>6. /\ path.result = trace.result /\ path.attempt = trace.attempt
        /\ IsPrefix(KeysOf(path.node_ids), trace.keys)
        /\ path.complete => KeysOf(path.node_ids) = trace.keys
    BY ONLY <2>3, <2>4, <2>5, CutBegins
  <2>7. Trace(path.result, path.attempt) = trace.keys
    BY <2>3, <2>6 DEF Trace
  <2>8. path.result = whole.result /\ path.attempt = whole.attempt
    BY <2>5 DEF IsCut
  <2> QED BY <2>6, <2>7, <2>8, <2>w
<1>8. ASSUME NEW k \in DOMAIN plan.routes
      PROVE  /\ plan.routes[k].result \in selected
             /\ IsPrefix(KeysOf(plan.routes[k].node_ids),
                         Trace(plan.routes[k].result, plan.routes[k].attempt))
             /\ plan.routes[k].complete =>
                   KeysOf(plan.routes[k].node_ids) = Trace(plan.routes[k].result, plan.routes[k].attempt)
  <2>1. PICK j \in DOMAIN fm.routes : IsCut(plan.routes[k], fm.routes[j])
    BY <1>5
  <2>2. PICK i \in DOMAIN model.routes :
           fm.routes[j] = model.routes[i] /\ model.routes[i].result \in selected
    BY <1>4
  <2>3. IsCut(plan.routes[k], model.routes[i])
    BY <2>1, <2>2
  <2> QED BY <1>7, <2>2, <2>3
<1>9. ASSUME model.reasons \cup plan.reasons = {}, NEW r \in selected,
             NEW t \in ToSet(CompactRoutes(Told, r))
      PROVE  \E k \in DOMAIN plan.routes :
                /\ plan.routes[k].result = t.result /\ plan.routes[k].attempt = t.attempt
                /\ KeysOf(plan.routes[k].node_ids) = t.keys
  <2>1. r \in DOMAIN Told
    BY <1>3, ModelSelects, ToldHolds
  <2>2. PICK n \in DOMAIN CompactRoutes(Told, r) : t = CompactRoutes(Told, r)[n]
    BY DEF ToSet
  <2>3. /\ t.result = r
        /\ (CHOOSE x \in ToSet(CompactRoutes(Told, r)) : x.attempt = t.attempt) = t
    BY <1>1, <2>1, <2>2, TraceOfAttempt
  <2>4. ShowsAll(model, Told) /\ "element_budget" \notin plan.reasons
    BY <1>9
  <2>5. PICK i \in DOMAIN model.routes :
           model.routes[i].result = t.result /\ model.routes[i].attempt = t.attempt
    BY <2>1, <2>2, <2>4 DEF ShowsAll
  <2>6. PICK j \in DOMAIN fm.routes : fm.routes[j] = model.routes[i]
    BY <1>4, <2>3, <2>5
  <2>7. PICK k \in DOMAIN plan.routes :
           IsCut(plan.routes[k], fm.routes[j]) /\ plan.routes[k].complete
    BY <1>5, <2>4
  <2>p. PICK path : path = plan.routes[k]
    OBVIOUS
  <2>8. IsCut(path, model.routes[i]) /\ path.complete
    BY <2>6, <2>7, <2>p
  <2>9. /\ path.result = t.result /\ path.attempt = t.attempt
        /\ KeysOf(path.node_ids) = Trace(path.result, path.attempt)
    BY <1>7, <2>5, <2>8
  <2>10. Trace(path.result, path.attempt) = t.keys
    BY <2>3, <2>9 DEF Trace
  <2> QED BY <2>9, <2>10, <2>p
<1> QED BY <1>5, <1>6, <1>8, <1>9, <1>s DEF PlanIsSelected

(* Whatever was selected, shown and left of the document, the plan of a    *)
(* view passes the checks of validateTopology, keeps to its budget, has    *)
(* only beginnings of the selected targets' traces, calls them complete    *)
(* only if they are, and leaves nothing of these out without a reason.     *)
THEOREM PlanIsSelectedHolds == PipelineSpec => []PlanIsSelected
<1>1. PipelineSpec => /\ []PipelineInv /\ []ModelInv
                      /\ [](phase \in {"modelled", "planned"} /\ model.reasons = {}
                               => ShowsAll(model, Told))
  BY PipelineInvariant, ModelInvariant, OmissionsAreReported, PTL
<1>2. PipelineInit => IsPlanned
  BY DEF PipelineInit, IsPlanned
<1>3. IsPlanned /\ [PipelineNext]_pipelineVars => IsPlanned'
  BY PlannedStep
<1>4. /\ PipelineInv /\ ModelInv /\ IsPlanned
      /\ (phase \in {"modelled", "planned"} /\ model.reasons = {} => ShowsAll(model, Told))
      => PlanIsSelected
  <2>1. CASE phase = "planned"
    BY <2>1, PlannedIsSelected
  <2>2. CASE phase # "planned"
    BY <2>2 DEF PlanIsSelected
  <2> QED BY <2>1, <2>2
<1> QED BY <1>1, <1>2, <1>3, <1>4, PTL DEF PipelineSpec

(* A strictly increasing list of all elements of a set is its ascending one. *)
LEMMA AscendingUnique ==
    ASSUME NEW S \in SUBSET Nat, NEW c \in Nat, NEW a \in [1 .. c -> S],
           \A i, j \in 1 .. c : i < j => a[i] < a[j],
           \A x \in S : \E i \in 1 .. c : a[i] = x
    PROVE  IsFiniteSet(S) /\ Cardinality(S) = c /\ Ascending(S) = a
<1>D. PICK D : D = 1 .. c
  OBVIOUS
<1>1. IsFiniteSet(D) /\ Cardinality(D) = c
  <2>1. 1 \in Int /\ c \in Int
    OBVIOUS
  <2>2. IsFiniteSet(1 .. c) /\ Cardinality(1 .. c) = IF 1 > c THEN 0 ELSE c - 1 + 1
    BY ONLY <2>1, FS_Interval
  <2> QED BY <1>D, <2>2
<1>2. \A i \in D : a[i] \in S /\ a[i] \in Nat /\ i \in Nat
  <2>1. \A i \in 1 .. c : a[i] \in S /\ i \in Nat
    OBVIOUS
  <2> QED BY <1>D, <2>1
<1>3. \A i, j \in D : a[i] = a[j] => i = j
  BY <1>2, <1>D
<1>4. IsFiniteSet(S) /\ Cardinality(S) = c
  <2>1. a \in [D -> S] /\ \A x \in S : \E i \in D : a[i] = x
    BY <1>D
  <2> QED BY ONLY <1>1, <1>3, <2>1, SameSize
<1>b. PICK b : b = Ascending(S)
  OBVIOUS
<1>5. /\ b \in [D -> S] /\ \A i, j \in D : i < j => b[i] < b[j]
      /\ \A x \in S : \E i \in D : b[i] = x
  BY <1>4, <1>D, <1>b, AscendingHolds, Zenon
<1>6. \A i \in D : b[i] \in S /\ b[i] \in Nat
  BY <1>5
<1> DEFINE G == {n \in Nat : \A j \in D : j <= n => a[j] = b[j]}
<1>7. 0 \in G
  BY <1>D
<1>8. ASSUME NEW n \in G
      PROVE  n + 1 \in G
  <2>0. n \in Nat /\ n + 1 \in Nat /\ \A j \in D : j <= n => a[j] = b[j]
    OBVIOUS
  <2>1. ASSUME n + 1 \in D
        PROVE  a[n + 1] = b[n + 1]
    <3>m. PICK m \in D : m = n + 1
      BY <2>1
    <3>1. PICK i \in D : b[i] = a[m]
      BY <1>2, <1>5
    <3>2. PICK j \in D : a[j] = b[m]
      BY <1>6, <1>D
    <3>3. i >= m
      <4>1. i <= n => a[i] = a[m]
        BY <2>0, <3>1
      <4>2. i <= n => i = m
        BY <1>3, <4>1
      <4> QED BY <1>2, <2>0, <3>m, <4>2
    <3>4. j >= m
      <4>1. j <= n => b[j] = b[m]
        BY <2>0, <3>2
      <4>2. j <= n => j = m
        BY <1>2, <1>5, <1>6, <4>1
      <4> QED BY <1>2, <2>0, <3>m, <4>2
    <3>5. a[m] >= b[m]
      BY <1>2, <1>5, <1>6, <3>1, <3>3
    <3>6. b[m] >= a[m]
      BY <1>2, <1>D, <1>6, <3>2, <3>4
    <3> QED BY <1>2, <1>6, <3>5, <3>6, <3>m
  <2>2. \A j \in D : j <= n + 1 => j <= n \/ j = n + 1
    BY <1>2, <2>0
  <2> QED BY <2>0, <2>1, <2>2
<1>9. G \in SUBSET Nat
  OBVIOUS
<1>10. \A n \in Nat : n \in G
  <2> HIDE DEF G
  <2> QED BY <1>7, <1>8, <1>9, NumbersByStep
<1>11. \A i \in D : a[i] = b[i]
  <2>1. c \in G
    <3> HIDE DEF G
    <3> QED BY <1>10
  <2> QED BY <1>D, <2>1
<1>12. a = b
  BY <1>5, <1>11, <1>D
<1> QED BY <1>4, <1>12, <1>b

(* The first elements of a set come first in its ascending list. *)
LEMMA AscendingInitial ==
    ASSUME NEW S \in SUBSET Nat, IsFiniteSet(S), NEW T \in SUBSET S,
           \A x \in T, y \in S : y < x => y \in T
    PROVE  /\ IsFiniteSet(T) /\ Cardinality(T) \in Nat /\ Cardinality(S) \in Nat
           /\ Cardinality(T) <= Cardinality(S)
           /\ \A n \in 1 .. Cardinality(T) : Ascending(T)[n] = Ascending(S)[n]
           /\ \A n \in 1 .. Cardinality(S) : Ascending(S)[n] \in T => n <= Cardinality(T)
<1>c. PICK c, d, a, b : /\ c = Cardinality(S) /\ d = Cardinality(T)
                        /\ a = Ascending(S) /\ b = Ascending(T)
  OBVIOUS
<1>1. IsFiniteSet(T) /\ c \in Nat /\ d \in Nat /\ d <= c
  BY <1>c, FS_Subset, FS_CardinalityType
<1>2. /\ a \in [1 .. c -> S] /\ \A i, j \in 1 .. c : i < j => a[i] < a[j]
      /\ \A x \in S : \E i \in 1 .. c : a[i] = x
      /\ \A i \in 1 .. c : Cardinality({y \in S : y < a[i]}) = i - 1
  BY <1>c, AscendingHolds
<1>3. /\ b \in [1 .. d -> T]
      /\ \A x \in T : \E i \in 1 .. d : b[i] = x
      /\ \A i \in 1 .. d : Cardinality({y \in T : y < b[i]}) = i - 1
  BY <1>c, <1>1, AscendingHolds
<1>4. ASSUME NEW n \in 1 .. d
      PROVE  b[n] = a[n]
  <2>1. b[n] \in T /\ b[n] \in S
    BY <1>3
  <2>2. PICK i \in 1 .. c : a[i] = b[n]
    BY <1>2, <2>1
  <2>3. {y \in S : y < a[i]} = {y \in T : y < b[n]}
    BY <2>1, <2>2
  <2>4. i - 1 = n - 1
    BY <1>2, <1>3, <2>3
  <2>5. i = n
    BY <1>1, <2>4
  <2> QED BY <2>2, <2>5
<1>5. ASSUME NEW n \in 1 .. c, a[n] \in T
      PROVE  n <= d
  <2>1. PICK i \in 1 .. d : b[i] = a[n]
    BY <1>3, <1>5
  <2>2. a[i] = a[n] /\ i \in 1 .. c
    BY <1>1, <1>4, <2>1
  <2>3. a[i] \in Nat /\ a[n] \in Nat
    BY <1>2, <2>2
  <2>4. i = n
    BY <1>2, <2>2, <2>3
  <2> QED BY <2>4
<1> QED BY <1>1, <1>4, <1>5, <1>c

(* Of the places of some places. *)
LEMMA AtAt ==
    ASSUME NEW X, NEW s \in Seq(X), NEW S \in SUBSET (DOMAIN s), NEW U \in SUBSET S,
           NEW Q, Q = {n \in DOMAIN At(s, S) : Ascending(S)[n] \in U}
    PROVE  At(At(s, S), Q) = At(s, U)
<1>c. PICK c, a, t : c = Cardinality(S) /\ a = Ascending(S) /\ t = At(s, S)
  OBVIOUS
<1>1. /\ IsFiniteSet(S) /\ c \in Nat /\ t \in Seq(X) /\ DOMAIN t = 1 .. c
      /\ \A n \in 1 .. c : a[n] \in S /\ t[n] = s[a[n]]
  BY <1>c, AtHolds
<1>2. S \in SUBSET Nat /\ DOMAIN s \in SUBSET Nat
  OBVIOUS
<1>3. /\ a \in [1 .. c -> S] /\ \A i, j \in 1 .. c : i < j => a[i] < a[j]
      /\ \A x \in S : \E i \in 1 .. c : a[i] = x
  BY <1>1, <1>2, <1>c, AscendingHolds
<1>4. Q \in SUBSET (DOMAIN t) /\ \A n \in 1 .. c : n \in Q <=> a[n] \in U
  BY <1>1, <1>c
<1>q. PICK q, e : q = Cardinality(Q) /\ e = Ascending(Q)
  OBVIOUS
<1>5. /\ IsFiniteSet(Q) /\ q \in Nat /\ DOMAIN At(t, Q) = 1 .. q
      /\ \A n \in 1 .. q : e[n] \in Q /\ At(t, Q)[n] = t[e[n]]
      /\ At(t, Q) \in Seq(X)
  <2>1. t \in Seq(X) /\ Q \in SUBSET (DOMAIN t)
    BY <1>1, <1>4
  <2> QED BY ONLY <1>q, <2>1, AtHolds
<1>6. /\ e \in [1 .. q -> Q] /\ \A i, j \in 1 .. q : i < j => e[i] < e[j]
      /\ \A x \in Q : \E i \in 1 .. q : e[i] = x
  <2>1. Q \in SUBSET Nat
    BY <1>1, <1>4
  <2>2. IsFiniteSet(Q)
    BY <1>5
  <2> QED BY ONLY <1>q, <2>1, <2>2, AscendingHolds
<1>b. PICK b : b = [n \in 1 .. q |-> a[e[n]]]
  OBVIOUS
<1>7. \A n \in 1 .. q : e[n] \in 1 .. c /\ a[e[n]] \in U
  BY <1>1, <1>4, <1>5
<1>8. b \in [1 .. q -> U]
  BY <1>7, <1>b
<1>9. \A i, j \in 1 .. q : i < j => b[i] < b[j]
  BY <1>3, <1>6, <1>7, <1>b
<1>10. ASSUME NEW x \in U
       PROVE  \E i \in 1 .. q : b[i] = x
  <2>1. PICK n \in 1 .. c : a[n] = x
    BY <1>3
  <2>2. n \in Q
    BY <1>4, <2>1
  <2>3. PICK i \in 1 .. q : e[i] = n
    BY <1>6, <2>2
  <2> QED BY <1>b, <2>1, <2>3
<1>11. Cardinality(U) = q /\ Ascending(U) = b
  <2>1. U \in SUBSET Nat
    BY <1>2
  <2> QED BY ONLY <1>5, <1>8, <1>9, <1>10, <2>1, AscendingUnique
<1>12. /\ DOMAIN At(s, U) = 1 .. q /\ At(s, U) \in Seq(X)
       /\ \A n \in 1 .. q : At(s, U)[n] = s[b[n]]
  <2>1. U \in SUBSET (DOMAIN s)
    OBVIOUS
  <2> QED BY <1>11, <2>1, AtHolds
<1>13. \A n \in 1 .. q : At(s, U)[n] = At(t, Q)[n]
  BY <1>1, <1>5, <1>7, <1>12, <1>b
<1>14. At(s, U) = At(t, Q)
  BY <1>5, <1>12, <1>13
<1> QED BY <1>14, <1>c

(* What is shown of some hops: the silent ones all alike, and of a run of  *)
(* them the first or none.                                                 *)
Masked(keys) == [i \in DOMAIN keys |-> IF keys[i].kind = "unknown" THEN Silence ELSE keys[i]]

ShownPlaces(keys, show) ==
    {i \in DOMAIN keys : \/ keys[i].kind # "unknown"
                         \/ show /\ (i = 1 \/ keys[i - 1].kind # "unknown")}

LEMMA MaskedHolds ==
    ASSUME NEW keys \in Seq(Keys)
    PROVE  /\ Masked(keys) \in Seq(Keys) /\ DOMAIN Masked(keys) = DOMAIN keys
           /\ \A i \in DOMAIN keys : /\ keys[i].kind = "unknown" <=> Masked(keys)[i] = Silence
                                     /\ keys[i].kind # "unknown" => Masked(keys)[i] = keys[i]
<1>n. PICK n, m : n = Len(keys) /\ m = Masked(keys)
  OBVIOUS
<1>1. n \in Nat /\ DOMAIN keys = 1 .. n /\ \A i \in 1 .. n : keys[i] \in Keys
  BY <1>n
<1>2. Silence \in Keys
  <2>1. <<>> \in Seq(Nat)
    OBVIOUS
  <2> QED BY <2>1 DEF Silence, Keys
<1>3. m \in [1 .. n -> Keys]
  BY <1>1, <1>2, <1>n DEF Masked
<1>4. m \in Seq(Keys) /\ DOMAIN m = DOMAIN keys
  BY <1>1, <1>3
<1>5. Silence.kind = "unknown"
  BY DEF Silence
<1>6. \A i \in 1 .. n : m[i] = IF keys[i].kind = "unknown" THEN Silence ELSE keys[i]
  BY <1>1, <1>n DEF Masked
<1> QED BY <1>1, <1>4, <1>5, <1>6, <1>n

LEMMA FoldedHolds ==
    ASSUME NEW keys \in Seq(Keys), \A n \in 1 .. Len(keys) - 1 : keys[n] # keys[n + 1],
           NEW show \in BOOLEAN
    PROVE  Folded(keys, show) = At(Masked(keys), ShownPlaces(keys, show))
<1>m. PICK m : m = Masked(keys)
  OBVIOUS
<1>n. PICK n : n = Len(keys)
  OBVIOUS
<1>1. n \in Nat /\ DOMAIN keys = 1 .. n
  BY <1>n
<1>2. /\ m \in Seq(Keys) /\ DOMAIN m = 1 .. n
      /\ \A i \in 1 .. n : /\ keys[i].kind = "unknown" <=> m[i] = Silence
                           /\ keys[i].kind # "unknown" => m[i] = keys[i]
  BY <1>1, <1>m, MaskedHolds
<1>R. PICK R : R = {i \in DOMAIN m : i = 1 \/ m[i] # m[i - 1]}
  OBVIOUS
<1>U. PICK U : U = ShownPlaces(keys, show)
  OBVIOUS
<1>3. ASSUME NEW i \in 1 .. n, i # 1
      PROVE  m[i] # m[i - 1] <=> keys[i].kind # "unknown" \/ keys[i - 1].kind # "unknown"
  <2>1. i - 1 \in 1 .. n /\ i - 1 \in 1 .. n - 1 /\ (i - 1) + 1 = i
    BY <1>1, <1>3
  <2>2. keys[i - 1] # keys[i]
    BY <1>n, <2>1
  <2>3. /\ keys[i].kind = "unknown" <=> m[i] = Silence
        /\ keys[i].kind # "unknown" => m[i] = keys[i]
        /\ keys[i - 1].kind = "unknown" <=> m[i - 1] = Silence
        /\ keys[i - 1].kind # "unknown" => m[i - 1] = keys[i - 1]
    BY <1>2, <2>1
  <2> QED BY ONLY <2>2, <2>3
<1>4. R = {i \in 1 .. n : i = 1 \/ keys[i].kind # "unknown" \/ keys[i - 1].kind # "unknown"}
  BY <1>2, <1>3, <1>R
<1>5. U = {i \in 1 .. n : \/ keys[i].kind # "unknown"
                          \/ show /\ (i = 1 \/ keys[i - 1].kind # "unknown")}
  BY <1>1, <1>U DEF ShownPlaces
<1>6. U \in SUBSET R /\ \A i \in R : i \in U <=> show \/ m[i] # Silence
  <2>1. ASSUME NEW i \in R
        PROVE  i \in U <=> show \/ m[i] # Silence
    <3>1. i \in 1 .. n /\ (i = 1 \/ keys[i].kind # "unknown" \/ keys[i - 1].kind # "unknown")
      BY <1>4
    <3>2. keys[i].kind = "unknown" <=> m[i] = Silence
      BY <1>2, <3>1
    <3>3. i \in U <=> keys[i].kind # "unknown" \/ (show /\ (i = 1 \/ keys[i - 1].kind # "unknown"))
      BY <1>5, <3>1
    <3> QED BY ONLY <3>1, <3>2, <3>3
  <2>2. U \in SUBSET R
    BY <1>4, <1>5
  <2> QED BY <2>1, <2>2
<1>r. PICK runs : runs = At(m, R)
  OBVIOUS
<1>7. /\ R \in SUBSET (DOMAIN m)
      /\ DOMAIN runs = 1 .. Cardinality(R)
      /\ \A k \in 1 .. Cardinality(R) : Ascending(R)[k] \in R /\ runs[k] = m[Ascending(R)[k]]
  <2>1. R \in SUBSET (DOMAIN m) /\ m \in Seq(Keys)
    BY <1>2, <1>R
  <2> QED BY ONLY <2>1, <1>r, AtHolds
<1>Q. PICK Q : Q = {k \in DOMAIN runs : show \/ runs[k] # Silence}
  OBVIOUS
<1>8. Q = {k \in DOMAIN At(m, R) : Ascending(R)[k] \in U}
  BY <1>6, <1>7, <1>Q, <1>r
<1>9. Folded(keys, show) = At(runs, Q)
  <2>1. runs = Merged(m)
    BY <1>R, <1>r DEF Merged
  <2>2. m = [i \in DOMAIN keys |-> IF keys[i].kind = "unknown" THEN Silence ELSE keys[i]]
    BY <1>m DEF Masked
  <2> QED BY <1>Q, <2>1, <2>2 DEF Folded
<1>10. At(At(m, R), Q) = At(m, U)
  <2>1. m \in Seq(Keys)
    BY <1>2
  <2>2. R \in SUBSET (DOMAIN m) /\ U \in SUBSET R
    BY <1>6, <1>7
  <2> QED BY ONLY <1>8, <2>1, <2>2, AtAt
<1> QED BY <1>9, <1>10, <1>m, <1>r, <1>U

(* Of the first hops, the first of what is shown of all. *)
LEMMA FoldedBegins ==
    ASSUME NEW keys \in Seq(Keys), NEW show \in BOOLEAN, NEW c \in Nat, c <= Len(keys),
           NEW some, some = [n \in 1 .. c |-> keys[n]],
           NEW d \in Nat, d <= Cardinality(ShownPlaces(some, show)),
           NEW shown, shown = [n \in 1 .. d |-> At(Masked(some), ShownPlaces(some, show))[n]]
    PROVE  /\ IsPrefix(shown, At(Masked(keys), ShownPlaces(keys, show)))
           /\ c = Len(keys) /\ d = Cardinality(ShownPlaces(some, show)) =>
                 shown = At(Masked(keys), ShownPlaces(keys, show))
<1>n. PICK n : n = Len(keys)
  OBVIOUS
<1>1. n \in Nat /\ DOMAIN keys = 1 .. n /\ c <= n
  BY <1>n
<1>2. some \in Seq(Keys) /\ DOMAIN some = 1 .. c
  <2>1. some \in [1 .. c -> Keys]
    BY <1>1
  <2> QED BY <2>1
<1>S. PICK S, T : S = ShownPlaces(keys, show) /\ T = ShownPlaces(some, show)
  OBVIOUS
<1>m. PICK m, o : m = Masked(keys) /\ o = Masked(some)
  OBVIOUS
<1>3. m \in Seq(Keys) /\ DOMAIN m = 1 .. n /\ o \in Seq(Keys) /\ DOMAIN o = 1 .. c
  BY <1>1, <1>2, <1>m, MaskedHolds
<1>4. \A i \in 1 .. c : o[i] = m[i]
  BY <1>1, <1>2, <1>m DEF Masked
<1>5. S \in SUBSET (1 .. n) /\ T = {i \in S : i <= c}
  <2>1. S = {i \in 1 .. n : \/ keys[i].kind # "unknown"
                            \/ show /\ (i = 1 \/ keys[i - 1].kind # "unknown")}
    BY <1>1, <1>S DEF ShownPlaces
  <2>2. T = {i \in 1 .. c : \/ some[i].kind # "unknown"
                            \/ show /\ (i = 1 \/ some[i - 1].kind # "unknown")}
    BY <1>2, <1>S DEF ShownPlaces
  <2>3. \A i \in 1 .. c : i \in 1 .. n /\ some[i] = keys[i] /\ (i = 1 \/ some[i - 1] = keys[i - 1])
    BY <1>1
  <2>4. \A i \in 1 .. c : i \in T <=> i \in S
    BY <2>1, <2>2, <2>3
  <2> QED BY <1>1, <2>1, <2>2, <2>4
<1>6. T \in SUBSET S /\ \A x \in T, y \in S : y < x => y \in T
  BY <1>5
<1>t. PICK s, t : s = Cardinality(S) /\ t = Cardinality(T)
  OBVIOUS
<1>w. PICK whole, part : whole = At(m, S) /\ part = At(o, T)
  OBVIOUS
<1>7. /\ S \in SUBSET (DOMAIN m) /\ IsFiniteSet(S) /\ s \in Nat /\ whole \in Seq(Keys) /\ Len(whole) = s
      /\ \A k \in 1 .. s : whole[k] = m[Ascending(S)[k]]
  <2>1. m \in Seq(Keys) /\ S \in SUBSET (DOMAIN m)
    BY <1>3, <1>5
  <2> QED BY ONLY <2>1, <1>t, <1>w, AtHolds
<1>8. /\ t \in Nat /\ \A k \in 1 .. t : Ascending(T)[k] \in T /\ part[k] = o[Ascending(T)[k]]
  <2>1. o \in Seq(Keys) /\ T \in SUBSET (DOMAIN o)
    <3>1. \A i \in T : i \in 1 .. n /\ i <= c
      BY <1>5
    <3>2. T \in SUBSET (1 .. c)
      BY <1>1, <3>1
    <3> QED BY <1>3, <3>2
  <2> QED BY ONLY <2>1, <1>t, <1>w, AtHolds
<1>9. t <= s /\ \A k \in 1 .. t : Ascending(T)[k] = Ascending(S)[k]
  <2>1. S \in SUBSET Nat
    BY <1>5
  <2> QED BY ONLY <1>6, <1>7, <1>t, <2>1, AscendingInitial
<1>10. ASSUME NEW k \in 1 .. t
       PROVE  part[k] = whole[k]
  <2>1. Ascending(T)[k] \in 1 .. c
    BY <1>5, <1>8
  <2>2. k \in 1 .. s
    BY <1>7, <1>8, <1>9
  <2> QED BY <1>4, <1>7, <1>8, <1>9, <2>1, <2>2
<1>11. shown = [k \in 1 .. d |-> whole[k]]
  <2>1. d <= t
    BY <1>S, <1>t
  <2>2. \A k \in 1 .. d : k \in 1 .. t
    BY <1>8, <2>1
  <2>3. shown = [k \in 1 .. d |-> part[k]]
    BY <1>S, <1>m, <1>w
  <2> QED BY <1>10, <2>2, <2>3
<1>12. d <= Len(whole)
  BY <1>7, <1>8, <1>9, <1>S, <1>t
<1>13. IsPrefix(shown, whole) /\ (d = Len(whole) => shown = whole)
  <2>1. whole \in Seq(Keys) /\ d \in Nat
    BY <1>7
  <2> QED BY ONLY <1>11, <1>12, <2>1, FirstKeys
<1>14. c = n => s = t
  <2>1. \A i \in S : i \in 1 .. n
    BY <1>5
  <2>2. c = n => \A i \in S : i <= c
    BY <1>1, <2>1
  <2>3. c = n => S = T
    BY <1>5, <2>2
  <2> QED BY <1>t, <2>3
<1> QED BY <1>7, <1>13, <1>14, <1>S, <1>m, <1>n, <1>t, <1>w

(* The smaller of two numbers, and the least of some. *)
LEMMA MinOfTwo ==
    ASSUME NEW x \in Int, NEW y \in Int
    PROVE  Min({x, y}) = IF x <= y THEN x ELSE y
<1>m. PICK m \in {x, y} : m = IF x <= y THEN x ELSE y
  OBVIOUS
<1>1. \A z \in {x, y} : m <= z
  BY <1>m
<1>2. Min({x, y}) \in {x, y} /\ \A z \in {x, y} : Min({x, y}) <= z
  BY <1>1 DEF Min
<1> QED BY <1>2

LEMMA MinHolds ==
    ASSUME NEW S \in SUBSET Nat, S # {}
    PROVE  Min(S) \in S /\ \A y \in S : Min(S) <= y
<1>1. \E x \in S : \A y \in S : x <= y
  BY LeastNumber
<1> QED BY <1>1 DEF Min

(* The first n elements, or as many as there are. *)
LEMMA TakeHolds ==
    ASSUME NEW X, NEW s \in Seq(X), NEW n \in Int
    PROVE  LET t == Take(s, n)
           IN  /\ t \in Seq(X) /\ Len(t) \in Nat /\ Len(t) <= Len(s)
               /\ Len(t) <= n \/ Len(t) = 0
               /\ \A k \in 1 .. Len(t) : t[k] = s[k]
               /\ Len(t) = Len(s) => t = s
               /\ Distinctly(s) => Distinctly(t)
<1>m. PICK m, z, t : z = Max({0, n}) /\ m = Min({Len(s), z}) /\ t = Take(s, n)
  OBVIOUS
<1>1. z \in Nat /\ z \in {0, n}
  BY <1>m, MaxOfZero
<1>2. Len(s) \in Nat
  OBVIOUS
<1>3. m = IF Len(s) <= z THEN Len(s) ELSE z
  <2>1. Len(s) \in Int /\ z \in Int
    BY <1>1, <1>2
  <2> QED BY ONLY <2>1, <1>m, MinOfTwo
<1>4. m \in Nat /\ m <= Len(s) /\ (m <= n \/ m = 0)
  BY <1>1, <1>2, <1>3
<1>5. t = SubSeq(s, 1, m)
  BY <1>m DEF Take
<1>6. t \in Seq(X) /\ Len(t) = m /\ \A k \in 1 .. m : t[k] = s[k]
  BY <1>4, <1>5
<1>7. m = Len(s) => t = s
  <2>1. SubSeq(s, 1, Len(s)) = s
    OBVIOUS
  <2> QED BY <1>5, <2>1
<1>8. Distinctly(s) => Distinctly(t)
  <2>1. DOMAIN t = 1 .. m /\ \A k \in 1 .. m : k \in DOMAIN s
    BY <1>4, <1>6
  <2> QED BY <1>6, <2>1 DEF Distinctly
<1> QED BY <1>4, <1>6, <1>7, <1>8, <1>m

(* Some of the places keep what is different. *)
LEMMA AtDistinct ==
    ASSUME NEW X, NEW s \in Seq(X), NEW S \in SUBSET (DOMAIN s), Distinctly(s)
    PROVE  Distinctly(At(s, S))
<1>c. PICK c, a, t : c = Cardinality(S) /\ a = Ascending(S) /\ t = At(s, S)
  OBVIOUS
<1>1. /\ IsFiniteSet(S) /\ c \in Nat /\ DOMAIN t = 1 .. c
      /\ \A n \in 1 .. c : a[n] \in S /\ t[n] = s[a[n]]
  BY <1>c, AtHolds
<1>2. S \in SUBSET Nat
  OBVIOUS
<1>3. \A i, j \in 1 .. c : i < j => a[i] < a[j]
  BY <1>1, <1>2, <1>c, AscendingHolds
<1>4. ASSUME NEW i \in 1 .. c, NEW j \in 1 .. c, t[i] = t[j]
      PROVE  i = j
  <2>1. a[i] = a[j]
    BY <1>1, <1>4 DEF Distinctly
  <2>2. a[i] \in Nat /\ a[j] \in Nat
    BY <1>1, <1>2
  <2> QED BY <1>1, <1>3, <2>1, <2>2
<1>5. Distinctly(t)
  BY <1>1, <1>4 DEF Distinctly
<1> QED BY <1>5, <1>c

(* Without the later ones of a kind. *)
LEMMA DistinctHolds ==
    ASSUME NEW X, NEW s \in Seq(X)
    PROVE  /\ Distinct(s) \in Seq(X) /\ Distinctly(Distinct(s))
           /\ \A x : Holds(s, x) <=> Holds(Distinct(s), x)
<1>S. PICK S : S = {i \in DOMAIN s : \A j \in 1 .. i - 1 : s[j] # s[i]}
  OBVIOUS
<1>c. PICK c, a, t : c = Cardinality(S) /\ a = Ascending(S) /\ t = Distinct(s)
  OBVIOUS
<1>1. t = At(s, S) /\ S \in SUBSET (DOMAIN s)
  BY <1>S, <1>c DEF Distinct
<1>2. /\ IsFiniteSet(S) /\ c \in Nat /\ t \in Seq(X) /\ DOMAIN t = 1 .. c
      /\ \A n \in 1 .. c : a[n] \in S /\ t[n] = s[a[n]]
      /\ \A i \in S : \E n \in 1 .. c : t[n] = s[i]
  <2>1. s \in Seq(X)
    OBVIOUS
  <2>2. /\ IsFiniteSet(S) /\ Cardinality(S) \in Nat
        /\ At(s, S) \in Seq(X) /\ DOMAIN At(s, S) = 1 .. Cardinality(S)
        /\ \A n \in 1 .. Cardinality(S) : Ascending(S)[n] \in S /\ At(s, S)[n] = s[Ascending(S)[n]]
        /\ \A i \in S : \E n \in 1 .. Cardinality(S) : At(s, S)[n] = s[i]
    BY ONLY <1>1, <2>1, AtHolds
  <2> QED BY ONLY <1>1, <1>c, <2>2
<1>3. DOMAIN s \in SUBSET Nat /\ DOMAIN s = 1 .. Len(s) /\ Len(s) \in Nat /\ S \in SUBSET Nat
  BY <1>1
<1>4. \A i, j \in 1 .. c : i < j => a[i] < a[j]
  BY <1>2, <1>3, <1>c, AscendingHolds
<1>5. ASSUME NEW i \in 1 .. c, NEW j \in 1 .. c, i < j
      PROVE  t[i] # t[j]
  <2>1. a[i] < a[j] /\ a[i] \in S /\ a[j] \in S
    BY <1>2, <1>4, <1>5
  <2>2. a[i] \in 1 .. a[j] - 1
    BY <1>1, <1>3, <2>1
  <2>3. s[a[i]] # s[a[j]]
    BY <1>S, <2>1, <2>2
  <2> QED BY <1>2, <2>3
<1>6. Distinctly(t)
  <2>1. \A i, j \in 1 .. c : i < j \/ j < i \/ i = j
    BY <1>2
  <2> QED BY <1>2, <1>5, <2>1 DEF Distinctly
<1>7. ASSUME NEW x, Holds(s, x)
      PROVE  Holds(t, x)
  <2>T. PICK T : T = {i \in DOMAIN s : s[i] = x}
    OBVIOUS
  <2>1. T \in SUBSET Nat /\ T # {}
    BY <1>3, <1>7, <2>T DEF Holds
  <2>2. PICK i \in T : \A y \in T : i <= y
    BY <2>1, LeastNumber
  <2>3. \A j \in 1 .. i - 1 : j \in DOMAIN s /\ j \notin T
    BY <1>3, <2>1, <2>2, <2>T
  <2>4. i \in S /\ s[i] = x
    BY <1>S, <2>2, <2>3, <2>T
  <2> QED BY <1>2, <2>4 DEF Holds
<1>8. \A x : Holds(t, x) => Holds(s, x)
  BY <1>1, <1>2 DEF Holds
<1> QED BY <1>2, <1>6, <1>7, <1>8, <1>c

(* What is in a sequence of sequences. *)
LEMMA FlattenHas ==
    ASSUME NEW X, NEW seqs \in Seq(Seq(X))
    PROVE  /\ FlattenSeq(seqs) \in Seq(X)
           /\ \A x : Holds(FlattenSeq(seqs), x) <=> \E i \in DOMAIN seqs : Holds(seqs[i], x)
<1>Y. PICK Y : Y = {x \in X : \E i \in DOMAIN seqs : Holds(seqs[i], x)}
  OBVIOUS
<1>1. seqs \in Seq(Seq(Y))
  <2>1. DOMAIN seqs = 1 .. Len(seqs) /\ Len(seqs) \in Nat
    OBVIOUS
  <2>2. ASSUME NEW i \in DOMAIN seqs
        PROVE  seqs[i] \in Seq(Y)
    <3>s. PICK s : s = seqs[i]
      OBVIOUS
    <3>1. s \in Seq(X)
      BY <3>s
    <3>2. DOMAIN s = 1 .. Len(s) /\ Len(s) \in Nat /\ s = [n \in 1 .. Len(s) |-> s[n]]
      BY <3>1
    <3>3. \A n \in 1 .. Len(s) : s[n] \in Y
      BY <1>Y, <3>1, <3>2, <3>s DEF Holds
    <3>4. s \in [1 .. Len(s) -> Y]
      BY <3>2, <3>3
    <3>5. s \in Seq(Y)
      BY <3>2, <3>4
    <3> QED BY <3>5, <3>s
  <2>3. seqs = [i \in 1 .. Len(seqs) |-> seqs[i]]
    OBVIOUS
  <2>4. seqs \in [1 .. Len(seqs) -> Seq(Y)]
    BY <2>1, <2>2, <2>3
  <2> QED BY ONLY <2>1, <2>4
<1>f. PICK f : f = FlattenSeq(seqs)
  OBVIOUS
<1>2. f \in Seq(Y)
  BY <1>1, <1>f, FlattenHolds
<1>3. f \in Seq(X) /\ \A i \in DOMAIN seqs : \A n \in DOMAIN seqs[i] : \E m \in DOMAIN f : f[m] = seqs[i][n]
  BY <1>f, FlattenHolds
<1>4. \A x : Holds(f, x) => x \in Y
  BY <1>2 DEF Holds
<1>5. \A x : Holds(f, x) => \E i \in DOMAIN seqs : Holds(seqs[i], x)
  BY <1>4, <1>Y
<1>6. \A x : (\E i \in DOMAIN seqs : Holds(seqs[i], x)) => Holds(f, x)
  BY <1>3 DEF Holds
<1> QED BY <1>3, <1>5, <1>6, <1>f

(* A token stands for the hop it starts at, or for a run of silent ones. *)
StandsFor(token, ids, keys, occurrence, i) ==
    /\ i \in DOMAIN ids /\ token.start = i
    /\ token.group <=> keys[i].kind = "unknown"
    /\ token.group => token.id = <<0, occurrence, i>>
    /\ ~token.group => token.id = ids[i] /\ token.end = i

AreTokens(tokens, ids, keys, occurrence, show) ==
    LET S == ShownPlaces(keys, show)
    IN  /\ S \in SUBSET Nat /\ IsFiniteSet(S) /\ Cardinality(S) \in Nat
        /\ DOMAIN tokens = 1 .. Cardinality(S) /\ Len(tokens) = Cardinality(S)
        /\ tokens \in Seq(ToSet(tokens))
        /\ \A n \in 1 .. Cardinality(S) : StandsFor(tokens[n], ids, keys, occurrence, Ascending(S)[n])

LEMMA TokenHolds ==
    ASSUME NEW ids, NEW keys, NEW occurrence, NEW i \in DOMAIN ids, NEW silent, NEW end,
           silent <=> keys[i].kind = "unknown", silent \in BOOLEAN, ~silent => end = i,
           NEW token, token = [id |-> IF silent THEN <<0, occurrence, i>> ELSE ids[i],
                               start |-> i, end |-> end, group |-> silent]
    PROVE  StandsFor(token, ids, keys, occurrence, i)
<1>1. /\ token.id = (IF silent THEN <<0, occurrence, i>> ELSE ids[i])
      /\ token.start = i /\ token.end = end /\ token.group = silent
  OBVIOUS
<1> QED BY <1>1 DEF StandsFor

LEMMA TokensHold ==
    ASSUME NEW m, NEW path, NEW occurrence, NEW show \in BOOLEAN, NEW X,
           NEW ids \in Seq(X), ids = path.node_ids, NEW keys, DOMAIN keys = DOMAIN ids,
           \A i \in DOMAIN ids : KindOf(m, ids[i]) = keys[i].kind
    PROVE  AreTokens(Tokens(m, path, occurrence, show), ids, keys, occurrence, show)
<1> DEFINE silent(i) == KindOf(m, ids[i]) = "unknown"
           end(i) == IF ~silent(i) THEN i
                     ELSE Max({j \in i .. Len(ids) : \A h \in i .. j : silent(h)})
           token(i) == [id |-> IF silent(i) THEN <<0, occurrence, i>> ELSE ids[i],
                        start |-> i, end |-> end(i), group |-> silent(i)]
           places == {i \in DOMAIN ids : ~silent(i) \/ (show /\ (i = 1 \/ ~silent(i - 1)))}
<1>t. PICK t : t = Tokens(m, path, occurrence, show)
  OBVIOUS
<1>1. t = [n \in DOMAIN Ascending(places) |-> token(Ascending(places)[n])]
  BY <1>t, ids = path.node_ids DEF Tokens
<1>S. PICK S : S = ShownPlaces(keys, show)
  OBVIOUS
<1>2. DOMAIN ids = 1 .. Len(ids) /\ Len(ids) \in Nat
  OBVIOUS
<1>3. places = S
  <2>1. ASSUME NEW i \in DOMAIN ids
        PROVE  i \in places <=> i \in S
    <3>1. i # 1 => i - 1 \in DOMAIN ids
      BY <1>2
    <3>2. silent(i) <=> keys[i].kind = "unknown"
      OBVIOUS
    <3>3. i # 1 => (silent(i - 1) <=> keys[i - 1].kind = "unknown")
      BY <3>1
    <3>4. i \in S <=> keys[i].kind # "unknown" \/ (show /\ (i = 1 \/ keys[i - 1].kind # "unknown"))
      BY <1>S DEF ShownPlaces
    <3>5. i \in places <=> ~silent(i) \/ (show /\ (i = 1 \/ ~silent(i - 1)))
      OBVIOUS
    <3> HIDE DEF silent, places
    <3> QED BY ONLY <3>2, <3>3, <3>4, <3>5
  <2>2. places \in SUBSET (DOMAIN ids) /\ S \in SUBSET (DOMAIN ids)
    BY <1>S DEF ShownPlaces
  <2> HIDE DEF places
  <2> QED BY <2>1, <2>2
<1>4. /\ S \in SUBSET Nat /\ IsFiniteSet(S) /\ Cardinality(S) \in Nat
      /\ Ascending(S) \in [1 .. Cardinality(S) -> S]
  <2>1. S \in SUBSET (DOMAIN ids)
    BY <1>S DEF ShownPlaces
  <2>2. S \in SUBSET Nat
    BY <1>2, <2>1
  <2>3. IsFiniteSet(S)
    BY <2>1, AtHolds
  <2> QED BY <2>2, <2>3, AscendingHolds
<1>c. PICK c, a : c = Cardinality(S) /\ a = Ascending(S)
  OBVIOUS
<1>5. /\ c \in Nat /\ a \in [1 .. c -> S] /\ DOMAIN a = 1 .. c
  BY <1>4, <1>c
<1>6. t = [n \in 1 .. c |-> token(a[n])]
  <2> HIDE DEF token, places
  <2> QED BY <1>1, <1>3, <1>5, <1>c
<1>7. /\ DOMAIN t = 1 .. c /\ \A n \in 1 .. c : t[n] = token(a[n])
  <2> HIDE DEF token
  <2> QED BY <1>6
<1>8. t \in Seq(ToSet(t)) /\ Len(t) = c
  <2>1. t = [n \in 1 .. c |-> t[n]]
    <3> HIDE DEF token
    <3> QED BY <1>6
  <2> QED BY <1>5, <1>7, <2>1, SeqOfValues
<1>9. ASSUME NEW n \in 1 .. c
      PROVE  StandsFor(t[n], ids, keys, occurrence, a[n])
  <2>i. PICK i : i = a[n]
    OBVIOUS
  <2>1. i \in S
    BY <1>5, <2>i
  <2>2. i \in DOMAIN ids
    BY <1>S, <2>1 DEF ShownPlaces
  <2>3. silent(i) <=> keys[i].kind = "unknown"
    BY <2>2
  <2>4. silent(i) \in BOOLEAN /\ (~silent(i) => end(i) = i)
    OBVIOUS
  <2>e. PICK s, e : s \in BOOLEAN /\ s = silent(i) /\ e = end(i)
    BY <2>4
  <2>5. token(i) = [id |-> IF s THEN <<0, occurrence, i>> ELSE ids[i],
                    start |-> i, end |-> e, group |-> s]
    BY <2>e
  <2>6. t[n] = token(i)
    <3> HIDE DEF token
    <3> QED BY <1>7, <2>i
  <2>7. /\ s <=> keys[i].kind = "unknown"
        /\ ~s => e = i
    BY <2>3, <2>4, <2>e
  <2> HIDE DEF silent, end, token
  <2>8. StandsFor(token(i), ids, keys, occurrence, i)
    BY ONLY <2>2, <2>5, <2>7, <2>e, TokenHolds
  <2> QED BY <2>6, <2>8, <2>i
<1> HIDE DEF silent, end, token, places
<1> QED BY <1>4, <1>7, <1>8, <1>9, <1>S, <1>c, <1>t DEF AreTokens

(* What a token is called is the key of its hop, a silent run one mark. *)
LEMMA TokenKeys ==
    ASSUME NEW X, NEW ids \in Seq(X), NEW keys \in Seq(Keys), DOMAIN keys = DOMAIN ids,
           NEW occurrence, NEW show \in BOOLEAN,
           \A i \in DOMAIN ids : \E x \in DOMAIN model.nodes : ids[i] = <<x>> /\ model.nodes[x].key = keys[i],
           NEW tokens, AreTokens(tokens, ids, keys, occurrence, show)
    PROVE  \A n \in DOMAIN tokens :
              KeyOf(tokens[n].id) = At(Masked(keys), ShownPlaces(keys, show))[n]
<1>S. PICK S, m : S = ShownPlaces(keys, show) /\ m = Masked(keys)
  OBVIOUS
<1>c. PICK c, a : c = Cardinality(S) /\ a = Ascending(S)
  OBVIOUS
<1>1. /\ DOMAIN tokens = 1 .. c /\ c \in Nat
      /\ \A n \in 1 .. c : StandsFor(tokens[n], ids, keys, occurrence, a[n])
  BY <1>S, <1>c DEF AreTokens
<1>2. /\ m \in Seq(Keys) /\ DOMAIN m = DOMAIN keys
      /\ \A i \in DOMAIN keys : /\ keys[i].kind = "unknown" <=> m[i] = Silence
                                /\ keys[i].kind # "unknown" => m[i] = keys[i]
  BY <1>S, MaskedHolds
<1>3. \A n \in 1 .. c : At(m, S)[n] = m[a[n]]
  <2>1. S \in SUBSET (DOMAIN m) /\ m \in Seq(Keys)
    BY <1>2, <1>S DEF ShownPlaces
  <2> QED BY ONLY <2>1, <1>c, AtHolds
<1>4. ASSUME NEW n \in 1 .. c
      PROVE  KeyOf(tokens[n].id) = m[a[n]]
  <2>t. PICK t, i : t = tokens[n] /\ i = a[n]
    OBVIOUS
  <2>1. StandsFor(t, ids, keys, occurrence, i)
    BY <1>1, <2>t
  <2>2. CASE keys[i].kind = "unknown"
    <3>1. t.id = <<0, occurrence, i>>
      BY <2>1, <2>2 DEF StandsFor
    <3>2. Len(t.id) > 1
      BY <3>1
    <3>3. KeyOf(t.id) = Silence
      BY <3>2 DEF KeyOf
    <3>4. i \in DOMAIN keys
      BY <2>1 DEF StandsFor
    <3> QED BY <1>2, <2>2, <2>t, <3>3, <3>4
  <2>3. CASE keys[i].kind # "unknown"
    <3>1. t.id = ids[i] /\ i \in DOMAIN ids
      BY <2>1, <2>3 DEF StandsFor
    <3>2. PICK x \in DOMAIN model.nodes : ids[i] = <<x>> /\ model.nodes[x].key = keys[i]
      BY <3>1
    <3>3. Len(t.id) = 1 /\ t.id[1] = x
      BY <3>1, <3>2
    <3>4. ~(Len(t.id) > 1)
      BY <3>3
    <3>5. KeyOf(t.id) = model.nodes[t.id[1]].key
      BY <3>4 DEF KeyOf
    <3> QED BY <1>2, <2>3, <2>t, <3>1, <3>2, <3>3, <3>5
  <2> QED BY <2>2, <2>3
<1> QED BY <1>1, <1>3, <1>4, <1>S

-----------------------------------------------------------------------------
(* What is drawn of the routes of a plan.                                  *)

IsDrawn(join, links, connectors) ==
    IF join.kind = "link" THEN PairOf(join) \in links ELSE join \in connectors

(* The first d tokens are there, and what joins them. *)
Reaches(tokens, joins, retained, links, connectors, d) ==
    \A n \in 1 .. d : /\ tokens[n].id \in retained
                      /\ n > 1 => IsDrawn(joins[n - 1], links, connectors)

(* A route is kept as far as it reaches.                                   *)
LEMMA KeptHolds ==
    ASSUME NEW X, NEW tokens \in Seq(X), NEW joins, NEW retained, NEW links, NEW connectors
    PROVE  \E d \in 0 .. Len(tokens) :
              /\ KeptTokens(tokens, joins, retained, links, connectors) = SubSeq(tokens, 1, d)
              /\ Reaches(tokens, joins, retained, links, connectors, d)
              /\ Reaches(tokens, joins, retained, links, connectors, Len(tokens)) => d = Len(tokens)
<1>n. PICK c, kept : /\ c = Len(tokens)
                     /\ kept = KeptTokens(tokens, joins, retained, links, connectors)
  OBVIOUS
<1>L. PICK lost : lost = {i \in DOMAIN tokens :
                            \/ tokens[i].id \notin retained
                            \/ i > 1 /\ ~IsDrawn(joins[i - 1], links, connectors)}
  OBVIOUS
<1>1. c \in Nat /\ DOMAIN tokens = 1 .. c
  BY <1>n
<1>2. kept = IF lost = {} THEN tokens ELSE SubSeq(tokens, 1, Min(lost) - 1)
  BY <1>n, <1>L DEF KeptTokens, IsDrawn
<1>3. CASE lost = {}
  <2>1. kept = SubSeq(tokens, 1, c)
    <3>1. tokens = SubSeq(tokens, 1, Len(tokens))
      OBVIOUS
    <3> QED BY <1>2, <1>3, <1>n, <3>1, Zenon
  <2>2. Reaches(tokens, joins, retained, links, connectors, c)
    BY <1>1, <1>3, <1>L DEF Reaches
  <2>3. c \in 0 .. c
    BY <1>1
  <2> QED BY <1>n, <2>1, <2>2, <2>3, Zenon
<1>4. CASE lost # {}
  <2>1. lost \in SUBSET Nat
    BY <1>1, <1>L
  <2>m. PICK m : m = Min(lost)
    OBVIOUS
  <2>2. m \in lost /\ \A y \in lost : m <= y
    BY <1>4, <2>1, <2>m, MinHolds
  <2>3. m \in 1 .. c
    BY <1>1, <1>L, <2>2
  <2>4. m - 1 \in 0 .. c /\ m - 1 # c
    BY <1>1, <2>3
  <2>5. kept = SubSeq(tokens, 1, m - 1)
    BY <1>2, <1>4, <2>m
  <2>6. ASSUME NEW n \in 1 .. m - 1
        PROVE  /\ tokens[n].id \in retained
               /\ n > 1 => IsDrawn(joins[n - 1], links, connectors)
    <3>1. n \notin lost
      BY <1>1, <2>2, <2>3
    <3>2. n \in DOMAIN tokens
      BY <1>1, <2>3
    <3> QED BY ONLY <1>L, <3>1, <3>2
  <2>7. ~Reaches(tokens, joins, retained, links, connectors, c)
    <3>1. ~(/\ tokens[m].id \in retained
            /\ m > 1 => IsDrawn(joins[m - 1], links, connectors))
      BY ONLY <1>L, <2>2
    <3> QED BY <2>3, <3>1 DEF Reaches
  <2>8. Reaches(tokens, joins, retained, links, connectors, m - 1)
    BY <2>6 DEF Reaches
  <2> QED BY <1>n, <2>4, <2>5, <2>7, <2>8
<1> QED BY <1>3, <1>4

(* Some of a sequence, as many as there is vacant for.                       *)
LEMMA TakeAt ==
    ASSUME NEW X, NEW s \in Seq(X), NEW S \in SUBSET (DOMAIN s), NEW n \in Int
    PROVE  LET t == Take(At(s, S), n)
           IN  /\ t \in Seq(X) /\ Len(t) \in Nat /\ Len(t) <= Len(s)
               /\ Len(t) <= n \/ Len(t) = 0
               /\ \A k \in DOMAIN t : \E i \in S : t[k] = s[i]
               /\ Len(t) = Len(s) => \A x : Holds(s, x) => Holds(t, x)
               /\ Distinctly(s) => Distinctly(t)
<1>a. PICK a, t, c, U : a = At(s, S) /\ t = Take(a, n) /\ c = Cardinality(S) /\ U = Ascending(S)
  OBVIOUS
<1>1. /\ IsFiniteSet(S) /\ c \in Nat /\ c <= Len(s) /\ a \in Seq(X) /\ Len(a) = c /\ DOMAIN a = 1 .. c
      /\ \A k \in 1 .. c : U[k] \in S /\ a[k] = s[U[k]]
      /\ \A i \in S : \E k \in 1 .. c : a[k] = s[i]
  BY <1>a, AtHolds
<1>2. /\ t \in Seq(X) /\ Len(t) \in Nat /\ Len(t) <= Len(a)
      /\ Len(t) <= n \/ Len(t) = 0
      /\ \A k \in 1 .. Len(t) : t[k] = a[k]
      /\ Len(t) = Len(a) => t = a
      /\ Distinctly(a) => Distinctly(t)
  BY <1>1, <1>a, TakeHolds
<1>3. DOMAIN t = 1 .. Len(t) /\ Len(s) \in Nat /\ DOMAIN s = 1 .. Len(s)
  BY <1>2
<1>4. \A k \in DOMAIN t : \E i \in S : t[k] = s[i]
  <2>1. ASSUME NEW k \in DOMAIN t
        PROVE  \E i \in S : t[k] = s[i]
    <3>0. Len(t) \in Nat /\ Len(t) <= c /\ c \in Nat /\ k \in 1 .. Len(t)
      BY ONLY <1>1, <1>2, <1>3, Zenon
    <3>1. k \in 1 .. Len(t) /\ k \in 1 .. c
      BY ONLY <3>0
    <3>2. t[k] = a[k] /\ U[k] \in S /\ a[k] = s[U[k]]
      BY ONLY <1>1, <1>2, <3>1
    <3> QED BY <3>2, Zenon
  <2> QED BY <2>1
<1>5. ASSUME Len(t) = Len(s), NEW x, Holds(s, x)
      PROVE  Holds(t, x)
  <2>0. Len(t) <= c /\ c <= Len(s) /\ c \in Nat /\ Len(s) \in Nat /\ Len(t) = Len(s)
    BY ONLY <1>1, <1>2, <1>3, <1>5, Zenon
  <2>1. t = a /\ c = Len(s)
    <3>1. c = Len(s)
      BY ONLY <2>0
    <3> QED BY <1>1, <1>2, <2>0, <3>1
  <2>D. PICK D : D = DOMAIN s
    OBVIOUS
  <2>2. IsFiniteSet(D) /\ Cardinality(D) = Len(s)
    <3>1. 1 \in Int /\ Len(s) \in Int
      BY <1>3
    <3>2. IsFiniteSet(1 .. Len(s)) /\ Cardinality(1 .. Len(s)) = IF 1 > Len(s) THEN 0 ELSE Len(s) - 1 + 1
      BY ONLY <3>1, FS_Interval
    <3> QED BY <1>3, <2>D, <3>2
  <2>3. S \subseteq D /\ Cardinality(S) = Cardinality(D)
    BY <1>a, <2>1, <2>2, <2>D
  <2>4. S = D
    BY ONLY <2>2, <2>3, FS_Subset
  <2>5. PICK i \in D : s[i] = x
    BY <1>5, <2>D DEF Holds
  <2>6. PICK k \in 1 .. c : a[k] = s[i]
    BY <1>1, <2>4, <2>5
  <2> QED BY <1>1, <2>1, <2>5, <2>6, Zenon DEF Holds
<1>6. Distinctly(s) => Distinctly(t)
  BY <1>2, <1>a, AtDistinct
<1> QED BY <1>1, <1>2, <1>4, <1>5, <1>6, <1>a

(* What is drawn, given what there is to draw and the budget of it.        *)
Draws(p, nodes, observed, connectors, total, budget) ==
    /\ Distinctly(p.nodes) /\ Distinctly(p.links) /\ Distinctly(p.connectors)
    /\ Len(p.nodes) \in Nat /\ Len(p.links) \in Nat /\ Len(p.connectors) \in Nat
    /\ DOMAIN p.nodes = 1 .. Len(p.nodes) /\ DOMAIN p.links = 1 .. Len(p.links)
    /\ DOMAIN p.connectors = 1 .. Len(p.connectors)
    /\ Len(p.nodes) <= MaxNodes /\ Len(p.links) + Len(p.connectors) <= MaxLinks
    /\ Len(p.nodes) + Len(p.links) + Len(p.connectors) + total <= budget
    /\ \A i \in DOMAIN p.nodes : Holds(nodes, p.nodes[i])
    /\ \A i \in DOMAIN p.links : /\ Holds(observed, p.links[i])
                                 /\ {p.links[i][1], p.links[i][2]} \subseteq ToSet(p.nodes)
    /\ \A i \in DOMAIN p.connectors : /\ Holds(connectors, p.connectors[i])
                                      /\ {p.connectors[i].from, p.connectors[i].to} \subseteq ToSet(p.nodes)
    /\ ~(Omitted(p, nodes, observed, connectors) > 0) =>
          /\ \A x : Holds(nodes, x) => Holds(p.nodes, x)
          /\ \A x : Holds(observed, x) => Holds(p.links, x)
          /\ \A x : Holds(connectors, x) => Holds(p.connectors, x)

(* Of every route this many tokens are shown. *)
IsShown(path, whole, tokens, d) ==
    /\ path.result = whole.result /\ path.attempt = whole.attempt
    /\ path.node_ids = [n \in 1 .. d |-> tokens[n].id]
    /\ path.complete <=> whole.complete /\ d = Len(tokens)

ShowsRoutes(p, routes, tokens, joins) ==
    /\ p.routes = [k \in DOMAIN routes |-> p.routes[k]]
    /\ \A k \in DOMAIN routes : \E d \in 0 .. Len(tokens[k]) :
          /\ IsShown(p.routes[k], routes[k], tokens[k], d)
          /\ Reaches(tokens[k], joins[k], ToSet(p.nodes), ToSet(p.links), ToSet(p.connectors), d)
          /\ Reaches(tokens[k], joins[k], ToSet(p.nodes), ToSet(p.links), ToSet(p.connectors), Len(tokens[k]))
                => d = Len(tokens[k])

LEMMA DrawnHolds ==
    ASSUME NEW X, NEW nodes \in Seq(X), Distinctly(nodes),
           NEW Y, NEW observed \in Seq(Y), Distinctly(observed),
           NEW Z, NEW connectors \in Seq(Z), Distinctly(connectors),
           NEW routes, Len(routes) \in Nat, NEW budget \in Nat, Len(routes) <= budget,
           NEW tokens, NEW joins, NEW p,
           p = Within(routes, tokens, joins, observed, connectors,
                      Take(nodes, Min({MaxNodes, budget - Len(routes)})), budget)
    PROVE  Draws(p, nodes, observed, connectors, Len(routes), budget)
<1>R. PICK R, retained, vacant, first : /\ R = Len(routes)
                               /\ first = Min({MaxNodes, budget - R})
                               /\ retained = Take(nodes, first)
                               /\ vacant = Min({MaxLinks, budget - R - Len(retained)})
  OBVIOUS
<1>in. PICK I : I = ToSet(retained)
  OBVIOUS
<1>S. PICK S, links : /\ S = {i \in DOMAIN observed : {observed[i][1], observed[i][2]} \subseteq I}
                      /\ links = Take(At(observed, S), vacant)
  OBVIOUS
<1>T. PICK T, left, spans : /\ T = {i \in DOMAIN connectors :
                                       {PairOf(connectors[i])[1], PairOf(connectors[i])[2]} \subseteq I}
                            /\ left = vacant - Len(links)
                            /\ spans = Take(At(connectors, T), left)
  OBVIOUS
<1>1. p = Kept(routes, tokens, joins, retained, links, spans)
  BY <1>R, <1>in, <1>S, <1>T DEF Within
<1>2. p.nodes = retained /\ p.links = links /\ p.connectors = spans
  <2>1. PICK paths : p = [nodes |-> retained, links |-> links, connectors |-> spans, routes |-> paths]
    BY <1>1 DEF Kept
  <2> QED BY ONLY <2>1
<1>3. MaxNodes \in Nat /\ MaxLinks \in Nat /\ R \in Nat /\ budget - R \in Nat
  BY <1>R, PrefixAssumption
<1>4. first \in Nat /\ first <= MaxNodes /\ first <= budget - R
  <2>1. first = IF MaxNodes <= budget - R THEN MaxNodes ELSE budget - R
    <3>1. MaxNodes \in Int /\ budget - R \in Int
      BY <1>3
    <3>2. Min({MaxNodes, budget - R}) = IF MaxNodes <= budget - R THEN MaxNodes ELSE budget - R
      BY ONLY <3>1, MinOfTwo
    <3> QED BY ONLY <3>2, <1>R
  <2> QED BY <1>3, <2>1
<1>5. /\ retained \in Seq(X) /\ Len(retained) \in Nat /\ Len(retained) <= Len(nodes)
      /\ Len(retained) <= first
      /\ \A k \in 1 .. Len(retained) : retained[k] = nodes[k]
      /\ Len(retained) = Len(nodes) => retained = nodes
      /\ Distinctly(retained)
  <2>1. first \in Int /\ nodes \in Seq(X) /\ Distinctly(nodes)
    BY <1>4
  <2>2. LET t == Take(nodes, first)
        IN  /\ t \in Seq(X) /\ Len(t) \in Nat /\ Len(t) <= Len(nodes)
            /\ Len(t) <= first \/ Len(t) = 0
            /\ \A k \in 1 .. Len(t) : t[k] = nodes[k]
            /\ Len(t) = Len(nodes) => t = nodes
            /\ Distinctly(t)
    BY ONLY <2>1, TakeHolds
  <2>3. Len(retained) <= first
    BY <1>4, <1>R, <2>2
  <2> QED BY <1>R, <2>2, <2>3
<1>6. vacant \in Nat /\ vacant <= MaxLinks /\ vacant <= budget - R - Len(retained)
  <2>1. budget - R - Len(retained) \in Nat
    BY <1>3, <1>4, <1>5
  <2>2. vacant = IF MaxLinks <= budget - R - Len(retained) THEN MaxLinks ELSE budget - R - Len(retained)
    <3>1. MaxLinks \in Int /\ budget - R - Len(retained) \in Int
      BY <1>3, <2>1
    <3> QED BY ONLY <1>R, <3>1, MinOfTwo
  <2> QED BY <1>3, <2>1, <2>2
<1>7. /\ links \in Seq(Y) /\ Len(links) \in Nat /\ Len(links) <= Len(observed)
      /\ Len(links) <= vacant \/ Len(links) = 0
      /\ \A k \in DOMAIN links : \E i \in S : links[k] = observed[i]
      /\ Len(links) = Len(observed) => \A x : Holds(observed, x) => Holds(links, x)
      /\ Distinctly(links)
  <2>1. S \in SUBSET (DOMAIN observed) /\ observed \in Seq(Y) /\ vacant \in Int /\ Distinctly(observed)
    BY <1>S, <1>6
  <2>2. LET t == Take(At(observed, S), vacant)
        IN  /\ t \in Seq(Y) /\ Len(t) \in Nat /\ Len(t) <= Len(observed)
            /\ Len(t) <= vacant \/ Len(t) = 0
            /\ \A k \in DOMAIN t : \E i \in S : t[k] = observed[i]
            /\ Len(t) = Len(observed) => \A x : Holds(observed, x) => Holds(t, x)
            /\ Distinctly(observed) => Distinctly(t)
    BY ONLY <2>1, TakeAt, Zenon
  <2> QED BY ONLY <2>1, <1>S, <2>2
<1>8. left \in Nat /\ Len(links) + left = vacant
  <2>1. vacant \in Nat /\ Len(links) \in Nat /\ (Len(links) <= vacant \/ Len(links) = 0)
    BY ONLY <1>6, <1>7
  <2>2. left = vacant - Len(links)
    BY <1>T
  <2> QED BY ONLY <2>1, <2>2
<1>9. /\ spans \in Seq(Z) /\ Len(spans) \in Nat /\ Len(spans) <= Len(connectors)
      /\ Len(spans) <= left \/ Len(spans) = 0
      /\ \A k \in DOMAIN spans : \E i \in T : spans[k] = connectors[i]
      /\ Len(spans) = Len(connectors) => \A x : Holds(connectors, x) => Holds(spans, x)
      /\ Distinctly(spans)
  <2>1. T \in SUBSET (DOMAIN connectors) /\ connectors \in Seq(Z) /\ left \in Int /\ Distinctly(connectors)
    BY <1>T, <1>8
  <2>2. LET t == Take(At(connectors, T), left)
        IN  /\ t \in Seq(Z) /\ Len(t) \in Nat /\ Len(t) <= Len(connectors)
            /\ Len(t) <= left \/ Len(t) = 0
            /\ \A k \in DOMAIN t : \E i \in T : t[k] = connectors[i]
            /\ Len(t) = Len(connectors) => \A x : Holds(connectors, x) => Holds(t, x)
            /\ Distinctly(connectors) => Distinctly(t)
    BY ONLY <2>1, TakeAt, Zenon
  <2> QED BY ONLY <2>1, <1>T, <2>2
<1>10. /\ Len(retained) <= MaxNodes /\ Len(links) + Len(spans) <= MaxLinks
       /\ Len(retained) + Len(links) + Len(spans) + R <= budget
  BY <1>3, <1>4, <1>5, <1>6, <1>7, <1>8, <1>9
<1>11. /\ DOMAIN retained = 1 .. Len(retained) /\ DOMAIN links = 1 .. Len(links)
       /\ DOMAIN spans = 1 .. Len(spans)
  BY <1>5, <1>7, <1>9
<1>12. \A i \in DOMAIN retained : Holds(nodes, retained[i])
  <2>1. DOMAIN nodes = 1 .. Len(nodes) /\ Len(nodes) \in Nat
    OBVIOUS
  <2>2. ASSUME NEW i \in DOMAIN retained
        PROVE  Holds(nodes, retained[i])
    <3>1. i \in 1 .. Len(retained) /\ Len(retained) \in Nat /\ Len(retained) <= Len(nodes)
      BY ONLY <1>5, <1>11
    <3>2. i \in DOMAIN nodes
      BY ONLY <2>1, <3>1
    <3>3. retained[i] = nodes[i]
      BY <1>5, <3>1
    <3> QED BY <3>2, <3>3 DEF Holds
  <2> QED BY <2>2
<1>13. \A i \in DOMAIN links : Holds(observed, links[i]) /\ {links[i][1], links[i][2]} \subseteq I
  <2>1. ASSUME NEW i \in DOMAIN links
        PROVE  Holds(observed, links[i]) /\ {links[i][1], links[i][2]} \subseteq I
    <3>1. PICK j \in S : links[i] = observed[j]
      BY <1>7
    <3>2. j \in DOMAIN observed /\ {observed[j][1], observed[j][2]} \subseteq I
      BY <1>S
    <3> QED BY <3>1, <3>2 DEF Holds
  <2> QED BY <2>1
<1>14. \A i \in DOMAIN spans : Holds(connectors, spans[i]) /\ {spans[i].from, spans[i].to} \subseteq I
  BY <1>9, <1>T DEF Holds, PairOf
<1>15. ASSUME ~(Omitted(p, nodes, observed, connectors) > 0)
       PROVE  /\ \A x : Holds(nodes, x) => Holds(retained, x)
              /\ \A x : Holds(observed, x) => Holds(links, x)
              /\ \A x : Holds(connectors, x) => Holds(spans, x)
  <2>n. PICK a, b, c : a = Len(nodes) /\ b = Len(observed) /\ c = Len(connectors)
    OBVIOUS
  <2>1. a \in Nat /\ b \in Nat /\ c \in Nat
    BY <2>n
  <2>2. ~(a + b + c - Len(retained) - Len(links) - Len(spans) > 0)
    BY <1>2, <1>15, <2>n DEF Omitted
  <2>3. Len(retained) = a /\ Len(links) = b /\ Len(spans) = c
    BY <1>5, <1>7, <1>9, <2>1, <2>2, <2>n
  <2> QED BY <1>5, <1>7, <1>9, <2>3, <2>n
<1>16. /\ Distinctly(retained) /\ Distinctly(links) /\ Distinctly(spans)
       /\ Len(retained) \in Nat /\ Len(links) \in Nat /\ Len(spans) \in Nat
  BY ONLY <1>5, <1>7, <1>9
<1>17. I = ToSet(p.nodes) /\ R = Len(routes)
  BY <1>2, <1>R, <1>in
<1> QED
  BY ONLY <1>2, <1>10, <1>11, <1>12, <1>13, <1>14, <1>15, <1>16, <1>17 DEF Draws

LEMMA RoutesShown ==
    ASSUME NEW routes, NEW tokens, NEW joins, NEW retained, NEW links, NEW connectors, NEW p,
           p = Kept(routes, tokens, joins, retained, links, connectors),
           \A k \in DOMAIN routes : /\ {"node_ids", "complete"} \subseteq DOMAIN routes[k]
                                    /\ routes[k].complete \in BOOLEAN
                                    /\ tokens[k] \in Seq(ToSet(tokens[k]))
    PROVE  ShowsRoutes(p, routes, tokens, joins)
<1>s. PICK shown : shown = [k \in DOMAIN routes |->
            KeptTokens(tokens[k], joins[k], ToSet(retained), ToSet(links), ToSet(connectors))]
  OBVIOUS
<1>1. /\ p.nodes = retained /\ p.links = links /\ p.connectors = connectors
      /\ p.routes = [k \in DOMAIN routes |->
            [routes[k] EXCEPT !.node_ids = [i \in DOMAIN shown[k] |-> shown[k][i].id],
                              !.complete = @ /\ Len(shown[k]) = Len(tokens[k])]]
  BY <1>s DEF Kept
<1>2. ASSUME NEW k \in DOMAIN routes
      PROVE  \E d \in 0 .. Len(tokens[k]) :
          /\ IsShown(p.routes[k], routes[k], tokens[k], d)
          /\ Reaches(tokens[k], joins[k], ToSet(retained), ToSet(links), ToSet(connectors), d)
          /\ Reaches(tokens[k], joins[k], ToSet(retained), ToSet(links), ToSet(connectors), Len(tokens[k]))
                => d = Len(tokens[k])
  <2>t. PICK t, whole, path, u : t = tokens[k] /\ whole = routes[k] /\ path = p.routes[k] /\ u = shown[k]
    OBVIOUS
  <2>1. /\ {"node_ids", "complete"} \subseteq DOMAIN whole /\ whole.complete \in BOOLEAN
        /\ t \in Seq(ToSet(t))
    BY <2>t
  <2>2. u = KeptTokens(t, joins[k], ToSet(retained), ToSet(links), ToSet(connectors))
    BY <1>s, <2>t
  <2>3. PICK d \in 0 .. Len(t) :
          /\ u = SubSeq(t, 1, d)
          /\ Reaches(t, joins[k], ToSet(retained), ToSet(links), ToSet(connectors), d)
          /\ Reaches(t, joins[k], ToSet(retained), ToSet(links), ToSet(connectors), Len(t)) => d = Len(t)
    BY <2>1, <2>2, KeptHolds
  <2>4. Len(t) \in Nat /\ DOMAIN t = 1 .. Len(t) /\ d \in Nat /\ d <= Len(t)
    BY <2>1
  <2>5. Len(u) = d /\ DOMAIN u = 1 .. d /\ \A i \in 1 .. d : u[i] = t[i]
    <3>1. u = SubSeq(t, 1, d)
      BY <2>3
    <3>2. PICK kinds : t \in Seq(kinds)
      BY <2>1
    <3>3. SubSeq(t, 1, d) = [i \in 1 .. d |-> t[i]] /\ Len(SubSeq(t, 1, d)) = d
      BY ONLY <2>4, <3>2
    <3> QED BY ONLY <2>4, <3>1, <3>3
  <2>i. PICK ids, b : /\ ids = [i \in 1 .. d |-> t[i].id]
                      /\ b \in BOOLEAN /\ b = (whole.complete /\ d = Len(t))
    BY <2>1
  <2>6. ids = [i \in DOMAIN u |-> u[i].id]
    BY <2>5, <2>i
  <2>7. path = [whole EXCEPT !.node_ids = ids, !.complete = b]
    <3>1. path = [whole EXCEPT !.node_ids = [i \in DOMAIN u |-> u[i].id],
                               !.complete = @ /\ Len(u) = Len(t)]
      <4>1. p.routes[k] = [routes[k] EXCEPT !.node_ids = [i \in DOMAIN shown[k] |-> shown[k][i].id],
                              !.complete = @ /\ Len(shown[k]) = Len(tokens[k])]
        BY <1>1
      <4> QED BY ONLY <2>t, <4>1
    <3>2. path = [whole EXCEPT !.node_ids = ids, !.complete = @ /\ d = Len(t)]
      BY <2>5, <2>6, <3>1
    <3>3. [whole EXCEPT !.node_ids = ids].complete = whole.complete
      BY <2>1
    <3> QED BY <2>i, <3>2, <3>3
  <2>8. /\ path.node_ids = ids /\ path.complete = b
        /\ path.result = whole.result /\ path.attempt = whole.attempt
    BY ONLY <2>1, <2>7
  <2>9. IsShown(path, whole, t, d)
    BY <2>8, <2>i DEF IsShown
  <2> QED BY <2>3, <2>9, <2>t
<1>3. p.routes = [k \in DOMAIN routes |-> p.routes[k]]
  BY <1>1
<1> QED BY <1>1, <1>2, <1>3 DEF ShowsRoutes

-----------------------------------------------------------------------------
(* What there is to draw of the routes of a plan.                          *)

LEMMA AtHas ==
    ASSUME NEW X, NEW s \in Seq(X), NEW S \in SUBSET (DOMAIN s), NEW x
    PROVE  Holds(At(s, S), x) <=> \E i \in S : s[i] = x
<1>c. PICK c, a, t : c = Cardinality(S) /\ a = Ascending(S) /\ t = At(s, S)
  OBVIOUS
<1>1. /\ c \in Nat /\ DOMAIN t = 1 .. c
      /\ \A n \in 1 .. c : a[n] \in S /\ t[n] = s[a[n]]
      /\ \A i \in S : \E n \in 1 .. c : t[n] = s[i]
  BY <1>c, AtHolds
<1>2. ASSUME NEW n \in 1 .. c, t[n] = x
      PROVE  \E i \in S : s[i] = x
  BY <1>1, <1>2
<1>3. ASSUME NEW i \in S, s[i] = x
      PROVE  \E n \in 1 .. c : t[n] = x
  BY <1>1, <1>3
<1>4. Holds(t, x) <=> \E n \in 1 .. c : t[n] = x
  BY <1>1 DEF Holds
<1> QED BY ONLY <1>2, <1>3, <1>4, <1>c

(* What joins the tokens of one route. *)
LEMMA JoinsHold ==
    ASSUME NEW X, NEW tokens \in Seq(X), NEW k, NEW Z,
           \A n \in 1 .. Len(tokens) - 1 : Join(tokens, n + 1, k) \in Z
    PROVE  /\ Joins(tokens, k) \in Seq(Z) /\ DOMAIN Joins(tokens, k) = 1 .. Len(tokens) - 1
           /\ \A n \in 1 .. Len(tokens) - 1 : Joins(tokens, k)[n] = Join(tokens, n + 1, k)
           /\ Distinctly(Joins(tokens, k))
<1>j. PICK js, c : js = Joins(tokens, k) /\ c = Len(tokens)
  OBVIOUS
<1>1. c \in Nat
  BY <1>j
<1>2. DOMAIN js = 1 .. c - 1 /\ \A n \in 1 .. c - 1 : js[n] = Join(tokens, n + 1, k)
  BY <1>j DEF Joins
<1>3. js \in [1 .. c - 1 -> Z]
  BY <1>j DEF Joins
<1>4. js \in Seq(Z)
  <2>d. PICK d : d = IF c = 0 THEN 0 ELSE c - 1
    OBVIOUS
  <2>1. d \in Nat /\ 1 .. c - 1 = 1 .. d
    BY <1>1, <2>d
  <2>2. js \in [1 .. d -> Z]
    BY ONLY <1>3, <2>1
  <2> QED BY ONLY <2>1, <2>2
<1>5. \A n \in 1 .. c - 1 : js[n].id = <<1, k, n + 1>>
  BY <1>2 DEF Join
<1>6. ASSUME NEW a \in 1 .. c - 1, NEW b \in 1 .. c - 1, js[a] = js[b]
      PROVE  a = b
  <2>1. <<1, k, a + 1>> = <<1, k, b + 1>>
    BY <1>5, <1>6
  <2>2. a + 1 = b + 1
    BY ONLY <2>1
  <2> QED BY <1>1, <2>2
<1>7. Distinctly(js)
  BY <1>2, <1>6 DEF Distinctly
<1> QED BY <1>2, <1>4, <1>7, <1>j

(* All of them, route after route. *)
IsJoin(x, tokens, k, n) == n \in 1 .. Len(tokens[k]) - 1 /\ x = Join(tokens[k], n + 1, k)

LEMMA AllJoins ==
    ASSUME NEW c \in Nat, NEW tokens, \A k \in 1 .. c : tokens[k] \in Seq(ToSet(tokens[k])),
           NEW seqs, seqs = [k \in 1 .. c |-> Joins(tokens[k], k)]
    PROVE  /\ \E Z : FlattenSeq(seqs) \in Seq(Z)
           /\ Distinctly(FlattenSeq(seqs))
           /\ \A x : Holds(FlattenSeq(seqs), x) <=> \E k \in 1 .. c : \E n : IsJoin(x, tokens, k, n)
<1>Z. PICK Z : Z = UNION {{Join(tokens[k], n + 1, k) : n \in 1 .. Len(tokens[k]) - 1} : k \in 1 .. c}
  OBVIOUS
<1>1. ASSUME NEW k \in 1 .. c
      PROVE  /\ seqs[k] \in Seq(Z) /\ DOMAIN seqs[k] = 1 .. Len(tokens[k]) - 1
             /\ \A n \in 1 .. Len(tokens[k]) - 1 : seqs[k][n] = Join(tokens[k], n + 1, k)
             /\ Distinctly(seqs[k])
  <2>t. PICK t : t = tokens[k]
    OBVIOUS
  <2>1. t \in Seq(ToSet(t)) /\ \A n \in 1 .. Len(t) - 1 : Join(t, n + 1, k) \in Z
    BY <1>Z, <2>t
  <2>2. /\ Joins(t, k) \in Seq(Z) /\ DOMAIN Joins(t, k) = 1 .. Len(t) - 1
        /\ \A n \in 1 .. Len(t) - 1 : Joins(t, k)[n] = Join(t, n + 1, k)
        /\ Distinctly(Joins(t, k))
    BY ONLY <2>1, JoinsHold
  <2>3. seqs[k] = Joins(t, k)
    BY <2>t
  <2> QED BY ONLY <2>2, <2>3, <2>t
<1>2. DOMAIN seqs = 1 .. c
  OBVIOUS
<1>3. seqs \in Seq(Seq(Z))
  <2>1. seqs \in [1 .. c -> Seq(Z)]
    BY <1>1
  <2> QED BY <2>1
<1>4. \A k \in 1 .. c : \A x : Holds(seqs[k], x) <=> \E n : IsJoin(x, tokens, k, n)
  <2>1. ASSUME NEW k \in 1 .. c, NEW x
        PROVE  Holds(seqs[k], x) <=> \E n : IsJoin(x, tokens, k, n)
    <3>s. PICK s, t : s = seqs[k] /\ t = tokens[k]
      OBVIOUS
    <3>1. /\ DOMAIN s = 1 .. Len(t) - 1
          /\ \A n \in 1 .. Len(t) - 1 : s[n] = Join(t, n + 1, k)
      BY <1>1, <3>s
    <3>2. Holds(s, x) <=> \E n : n \in 1 .. Len(t) - 1 /\ x = Join(t, n + 1, k)
      BY ONLY <3>1 DEF Holds
    <3> QED BY ONLY <3>2, <3>s DEF IsJoin
  <2> QED BY <2>1
<1>5. /\ FlattenSeq(seqs) \in Seq(Z)
      /\ \A x : Holds(FlattenSeq(seqs), x) <=> \E k \in DOMAIN seqs : Holds(seqs[k], x)
  BY ONLY <1>3, FlattenHas
<1>6. \A a, b \in 1 .. c : a # b => \A x : ~(Holds(seqs[a], x) /\ Holds(seqs[b], x))
  <2>1. ASSUME NEW a \in 1 .. c, NEW b \in 1 .. c, NEW x, Holds(seqs[a], x), Holds(seqs[b], x)
        PROVE  a = b
    <3>1. PICK n, m : IsJoin(x, tokens, a, n) /\ IsJoin(x, tokens, b, m)
      BY <1>4, <2>1
    <3>2. x.id = <<1, a, n + 1>> /\ x.id = <<1, b, m + 1>>
      BY <3>1 DEF IsJoin, Join
    <3>3. <<1, a, n + 1>> = <<1, b, m + 1>>
      BY <3>2
    <3> QED BY ONLY <3>3
  <2> QED BY <2>1
<1>7. Distinctly(FlattenSeq(seqs))
  <2>1. /\ seqs \in Seq(Seq(Z)) /\ \A i \in DOMAIN seqs : Distinctly(seqs[i])
        /\ \A i, j \in DOMAIN seqs : i # j => \A x : ~(Holds(seqs[i], x) /\ Holds(seqs[j], x))
    BY <1>1, <1>2, <1>3, <1>6
  <2> QED BY ONLY <2>1, FlattenDistinct
<1> QED BY <1>2, <1>4, <1>5, <1>7

(* The links and the connectors among them. *)
LEMMA ObservedHolds ==
    ASSUME NEW Z, NEW js \in Seq(Z), NEW st
    PROVE  /\ \E Y : Observed(st, js) \in Seq(Y)
           /\ Distinctly(Observed(st, js))
           /\ \A x : Holds(Observed(st, js), x) <=>
                 \E j : Holds(js, j) /\ j.kind = "link" /\ PairOf(j) = x /\ Contains(st.links, x)
<1>p. PICK pairs, S : /\ pairs = [i \in DOMAIN js |-> PairOf(js[i])]
                      /\ S = {i \in DOMAIN js : js[i].kind = "link" /\ Contains(st.links, pairs[i])}
  OBVIOUS
<1>Y. PICK Y : Y = {PairOf(js[i]) : i \in DOMAIN js}
  OBVIOUS
<1>1. pairs \in Seq(Y) /\ DOMAIN pairs = DOMAIN js
  <2>1. DOMAIN js = 1 .. Len(js) /\ Len(js) \in Nat
    OBVIOUS
  <2>2. pairs \in [1 .. Len(js) -> Y]
    BY <1>p, <1>Y, <2>1
  <2> QED BY <2>1, <2>2
<1>2. S \in SUBSET (DOMAIN pairs)
  BY <1>1, <1>p
<1>a. PICK a : a = At(pairs, S)
  OBVIOUS
<1>3. a \in Seq(Y) /\ \A x : Holds(a, x) <=> \E i \in S : pairs[i] = x
  <2>1. a \in Seq(Y)
    BY ONLY <1>1, <1>2, <1>a, AtHolds
  <2>2. \A x : Holds(At(pairs, S), x) <=> \E i \in S : pairs[i] = x
    BY ONLY <1>1, <1>2, AtHas
  <2> QED BY <1>a, <2>1, <2>2
<1>4. Observed(st, js) = Distinct(a)
  BY <1>p, <1>a DEF Observed
<1>5. /\ Distinct(a) \in Seq(Y) /\ Distinctly(Distinct(a))
      /\ \A x : Holds(a, x) <=> Holds(Distinct(a), x)
  BY ONLY <1>3, DistinctHolds
<1>6. ASSUME NEW x
      PROVE  (\E i \in S : pairs[i] = x) <=>
             \E j : Holds(js, j) /\ j.kind = "link" /\ PairOf(j) = x /\ Contains(st.links, x)
  <2>1. ASSUME NEW i \in S, pairs[i] = x
        PROVE  Holds(js, js[i]) /\ js[i].kind = "link" /\ PairOf(js[i]) = x /\ Contains(st.links, x)
    BY <1>p, <2>1 DEF Holds
  <2>2. ASSUME NEW j, Holds(js, j), j.kind = "link", PairOf(j) = x, Contains(st.links, x)
        PROVE  \E i \in S : pairs[i] = x
    <3>1. PICK i \in DOMAIN js : js[i] = j
      BY <2>2 DEF Holds
    <3>2. pairs[i] = x
      BY <1>p, <2>2, <3>1
    <3>3. i \in S
      BY <1>p, <2>2, <3>1, <3>2
    <3> QED BY <3>2, <3>3
  <2> QED BY <2>1, <2>2
<1> QED BY <1>3, <1>4, <1>5, <1>6

LEMMA ConnectorsHold ==
    ASSUME NEW Z, NEW js \in Seq(Z), Distinctly(js)
    PROVE  /\ Connectors(js) \in Seq(Z) /\ Distinctly(Connectors(js))
           /\ \A x : Holds(Connectors(js), x) <=> Holds(js, x) /\ x.kind # "link"
<1>S. PICK S : S = {i \in DOMAIN js : js[i].kind # "link"}
  OBVIOUS
<1>1. Connectors(js) = At(js, S) /\ S \in SUBSET (DOMAIN js) /\ js \in Seq(Z) /\ Distinctly(js)
  BY <1>S DEF Connectors
<1>2. At(js, S) \in Seq(Z)
  BY ONLY <1>1, AtHolds
<1>3. Distinctly(At(js, S))
  BY ONLY <1>1, AtDistinct
<1>4. \A x : Holds(At(js, S), x) <=> \E i \in S : js[i] = x
  BY ONLY <1>1, AtHas
<1>5. ASSUME NEW x
      PROVE  (\E i \in S : js[i] = x) <=> Holds(js, x) /\ x.kind # "link"
  BY <1>S DEF Holds
<1> QED BY ONLY <1>1, <1>2, <1>3, <1>4, <1>5

(* The nodes: all tokens, each once. *)
Ids(tokens, c) == [k \in 1 .. c |-> [i \in DOMAIN tokens[k] |-> tokens[k][i].id]]

HasIds(s, tokens, c) ==
    /\ \E X : s \in Seq(X)
    /\ Distinctly(s)
    /\ \A x : Holds(s, x) <=> \E k \in 1 .. c : \E i \in DOMAIN tokens[k] : tokens[k][i].id = x

LEMMA TokenNodes ==
    ASSUME NEW c \in Nat, NEW tokens, \A k \in 1 .. c : tokens[k] \in Seq(ToSet(tokens[k]))
    PROVE  HasIds(Distinct(FlattenSeq(Ids(tokens, c))), tokens, c)
<1>s. PICK seqs : seqs = Ids(tokens, c)
  OBVIOUS
<1>0. seqs = [k \in 1 .. c |-> [i \in DOMAIN tokens[k] |-> tokens[k][i].id]]
  BY <1>s DEF Ids
<1>X. PICK X : X = UNION {{tokens[k][i].id : i \in DOMAIN tokens[k]} : k \in 1 .. c}
  OBVIOUS
<1>1. seqs \in Seq(Seq(X)) /\ DOMAIN seqs = 1 .. c
  <2>1. ASSUME NEW k \in 1 .. c
        PROVE  seqs[k] \in Seq(X)
    <3>t. PICK t : t = tokens[k]
      OBVIOUS
    <3>1. DOMAIN t = 1 .. Len(t) /\ Len(t) \in Nat
      BY <3>t
    <3>2. seqs[k] = [i \in 1 .. Len(t) |-> t[i].id]
      BY <1>0, <3>1, <3>t
    <3>3. \A i \in 1 .. Len(t) : t[i].id \in X
      BY <1>X, <3>1, <3>t
    <3> QED BY ONLY <3>1, <3>2, <3>3
  <2>2. seqs \in [1 .. c -> Seq(X)]
    BY <1>0, <2>1
  <2> QED BY <1>0, <2>2
<1>f. PICK f : f = FlattenSeq(seqs)
  OBVIOUS
<1>2. f \in Seq(X) /\ \A x : Holds(f, x) <=> \E k \in DOMAIN seqs : Holds(seqs[k], x)
  BY ONLY <1>1, <1>f, FlattenHas
<1>3. /\ Distinct(f) \in Seq(X) /\ Distinctly(Distinct(f))
      /\ \A x : Holds(f, x) <=> Holds(Distinct(f), x)
  BY ONLY <1>2, DistinctHolds
<1>4. ASSUME NEW k \in 1 .. c, NEW x
      PROVE  Holds(seqs[k], x) <=> \E i \in DOMAIN tokens[k] : tokens[k][i].id = x
  BY <1>0 DEF Holds
<1> QED BY <1>1, <1>2, <1>3, <1>4, <1>f, <1>s DEF HasIds

(* A link between tokens is one between hops of the route. *)
LEMMA LinkJoin ==
    ASSUME NEW X, NEW ids \in Seq(X), NEW keys, DOMAIN keys = DOMAIN ids, NEW k, NEW show,
           NEW tokens, AreTokens(tokens, ids, keys, k, show),
           NEW n \in 1 .. Len(tokens) - 1, Join(tokens, n + 1, k).kind = "link"
    PROVE  \E i \in 1 .. Len(ids) - 1 : PairOf(Join(tokens, n + 1, k)) = <<ids[i], ids[i + 1]>>
<1>S. PICK S : S = ShownPlaces(keys, show)
  OBVIOUS
<1>c. PICK c, a : c = Cardinality(S) /\ a = Ascending(S)
  OBVIOUS
<1>1. /\ S \in SUBSET Nat /\ IsFiniteSet(S) /\ c \in Nat /\ Len(tokens) = c
      /\ \A h \in 1 .. c : StandsFor(tokens[h], ids, keys, k, a[h])
  BY <1>S, <1>c DEF AreTokens
<1>2. a \in [1 .. c -> S] /\ \A i, j \in 1 .. c : i < j => a[i] < a[j]
  BY <1>1, <1>c, AscendingHolds
<1>t. PICK from, to, i, j : /\ from = tokens[n] /\ to = tokens[n + 1] /\ i = a[n] /\ j = a[n + 1]
  OBVIOUS
<1>3. n \in 1 .. c /\ n + 1 \in 1 .. c /\ n < n + 1 /\ (n + 1) - 1 = n
  BY <1>1
<1>4. StandsFor(from, ids, keys, k, i) /\ StandsFor(to, ids, keys, k, j) /\ i < j
  BY <1>1, <1>2, <1>3, <1>t
<1>y. PICK y : y = Join(tokens, n + 1, k)
  OBVIOUS
<1>5. y = [from |-> from.id, to |-> to.id, id |-> <<1, k, n + 1>>,
           kind |-> IF to.start > from.end + 1 THEN "bypass"
                    ELSE IF from.group \/ to.group THEN "fold" ELSE "link"]
  BY <1>3, <1>t, <1>y DEF Join
<1>6. y.from = from.id /\ y.to = to.id /\ ~(to.start > from.end + 1) /\ ~(from.group \/ to.group)
  <2>1. y.kind = "link"
    BY <1>y
  <2> QED BY ONLY <1>5, <2>1
<1>7. from.id = ids[i] /\ from.end = i /\ to.id = ids[j] /\ to.start = j /\ i \in DOMAIN ids /\ j \in DOMAIN ids
  BY <1>4, <1>6 DEF StandsFor
<1>8. j = i + 1 /\ i \in 1 .. Len(ids) - 1
  <2>1. DOMAIN ids = 1 .. Len(ids) /\ Len(ids) \in Nat
    OBVIOUS
  <2>2. ~(j > i + 1)
    BY <1>6, <1>7
  <2> QED BY ONLY <1>4, <1>7, <2>1, <2>2
<1>9. PairOf(y) = <<ids[i], ids[i + 1]>>
  BY <1>6, <1>7, <1>8 DEF PairOf
<1> QED BY <1>8, <1>9, <1>y

(* The routes of a plan, with the keys of their hops.                      *)
Described(m, st, routes, keys) ==
    \A k \in DOMAIN routes :
        LET ids == routes[k].node_ids
        IN  /\ {"node_ids", "complete"} \subseteq DOMAIN routes[k] /\ routes[k].complete \in BOOLEAN
            /\ ids \in Seq(ToSet(ids)) /\ DOMAIN keys[k] = DOMAIN ids
            /\ \A i \in DOMAIN ids : KindOf(m, ids[i]) = keys[k][i].kind
            /\ \A i \in 1 .. Len(ids) - 1 : Contains(st.links, <<ids[i], ids[i + 1]>>)

AllTokens(tokens, routes, keys, show) ==
    \A k \in DOMAIN routes : AreTokens(tokens[k], routes[k].node_ids, keys[k], k, show)

(* What is drawn is of these routes, is within its limits, and joins the   *)
(* tokens that are shown; all of them are shown if nothing is left out.    *)
Linked(p, tokens, k, n) ==
    \/ Contains(p.links, <<tokens[k][n - 1].id, tokens[k][n].id>>)
    \/ <<1, k, n>> \in {p.connectors[c].id : c \in DOMAIN p.connectors}

Presents(p, omitted, links, routes, tokens, budget) ==
    /\ Distinctly(p.nodes) /\ Distinctly(p.links)
    /\ Len(p.nodes) \in Nat /\ Len(p.links) \in Nat /\ Len(p.connectors) \in Nat
    /\ DOMAIN p.nodes = 1 .. Len(p.nodes) /\ DOMAIN p.links = 1 .. Len(p.links)
    /\ DOMAIN p.connectors = 1 .. Len(p.connectors)
    /\ Len(p.nodes) <= MaxNodes /\ Len(p.links) + Len(p.connectors) <= MaxLinks
    /\ Len(p.nodes) + Len(p.links) + Len(p.connectors) + Len(routes) <= budget
    /\ \A i \in DOMAIN p.links :
          /\ {p.links[i][1], p.links[i][2]} \subseteq ToSet(p.nodes)
          /\ Contains(links, p.links[i])
          /\ \E k \in DOMAIN routes : \E n \in 1 .. Len(routes[k].node_ids) - 1 :
                p.links[i] = <<routes[k].node_ids[n], routes[k].node_ids[n + 1]>>
    /\ \A i, j \in DOMAIN p.connectors : p.connectors[i].id = p.connectors[j].id => i = j
    /\ \A i \in DOMAIN p.connectors : {p.connectors[i].from, p.connectors[i].to} \subseteq ToSet(p.nodes)
    /\ DOMAIN p.routes = DOMAIN routes /\ Len(p.routes) = Len(routes)
    /\ \A k \in DOMAIN routes : \E d \in 0 .. Len(tokens[k]) :
          /\ IsShown(p.routes[k], routes[k], tokens[k], d)
          /\ \A n \in 1 .. d : /\ tokens[k][n].id \in ToSet(p.nodes)
                               /\ n > 1 => Linked(p, tokens, k, n)
          /\ ~(omitted > 0) => d = Len(tokens[k])

LEMMA ReachLinked ==
    ASSUME NEW p, NEW tokens, NEW k, NEW n \in Nat, n > 1,
           IsDrawn(Join(tokens[k], n, k), ToSet(p.links), ToSet(p.connectors)),
           Len(p.links) \in Nat, DOMAIN p.links = 1 .. Len(p.links)
    PROVE  Linked(p, tokens, k, n)
<1>y. PICK y : y = Join(tokens[k], n, k)
  OBVIOUS
<1>1. y.from = tokens[k][n - 1].id /\ y.to = tokens[k][n].id /\ y.id = <<1, k, n>>
  BY <1>y DEF Join
<1>2. CASE y.kind = "link"
  <2>1. PairOf(y) \in ToSet(p.links)
    BY <1>2, <1>y DEF IsDrawn
  <2>2. Contains(p.links, PairOf(y))
    BY <2>1 DEF ToSet, Contains
  <2> QED BY <1>1, <2>2 DEF Linked, PairOf
<1>3. CASE y.kind # "link"
  <2>1. y \in ToSet(p.connectors)
    BY <1>3, <1>y DEF IsDrawn
  <2> QED BY <1>1, <2>1 DEF Linked, ToSet
<1> QED BY <1>2, <1>3

LEMMA PresentedHolds ==
    ASSUME NEW m, NEW st, NEW routes, NEW keys, NEW show \in BOOLEAN, NEW budget \in Nat,
           Len(routes) \in Nat, DOMAIN routes = 1 .. Len(routes), Len(routes) <= budget,
           Described(m, st, routes, keys), DOMAIN st.links = 1 .. Len(st.links)
    PROVE  LET y == PresentTopology(m, st, routes, show, budget)
           IN  \E tokens : /\ AllTokens(tokens, routes, keys, show)
                           /\ Presents(y.shown, y.omitted, st.links, routes, tokens, budget)
<1>R. PICK R, D : R = Len(routes) /\ D = DOMAIN routes
  OBVIOUS
<1>0. R \in Nat /\ D = 1 .. R /\ R <= budget
  BY <1>R
<1>t. PICK tokens : tokens = [n \in D |-> Tokens(m, routes[n], n, show)]
  OBVIOUS
<1>1. ASSUME NEW k \in D
      PROVE  AreTokens(tokens[k], routes[k].node_ids, keys[k], k, show)
  <2>i. PICK ids, path, hops : path = routes[k] /\ ids = path.node_ids /\ hops = keys[k]
    OBVIOUS
  <2>1. /\ ids \in Seq(ToSet(ids)) /\ DOMAIN hops = DOMAIN ids
        /\ \A i \in DOMAIN ids : KindOf(m, ids[i]) = hops[i].kind
    BY <1>R, <2>i DEF Described
  <2>2. AreTokens(Tokens(m, path, k, show), ids, hops, k, show)
    BY <2>1, <2>i, TokensHold
  <2> QED BY <1>t, <2>2, <2>i
<1>2. \A k \in D : tokens[k] \in Seq(ToSet(tokens[k]))
  BY <1>1 DEF AreTokens
<1>j. PICK joins, js, seqs, nodes : /\ joins = [n \in D |-> Joins(tokens[n], n)]
                              /\ js = FlattenSeq(joins)
                              /\ seqs = [n \in D |-> [i \in DOMAIN tokens[n] |-> tokens[n][i].id]]
                              /\ nodes = Distinct(FlattenSeq(seqs))
  OBVIOUS
<1>o. PICK observed, connectors, first : /\ observed = Observed(st, js)
                                  /\ connectors = Connectors(js)
                                  /\ first = Min({MaxNodes, budget - R})
  OBVIOUS
<1>p. PICK y, p : y = PresentTopology(m, st, routes, show, budget) /\ p = y.shown
  OBVIOUS
<1>3. y = Presented(routes, tokens, joins, nodes, observed, connectors, budget)
  <2>1. y = Joined(st, routes, tokens, joins, budget)
    BY <1>R, <1>t, <1>j, <1>p DEF PresentTopology, Tokenized
  <2> QED BY <1>R, <1>j, <1>o, <2>1 DEF Joined
<1>4. /\ p = Within(routes, tokens, joins, observed, connectors, Take(nodes, first), budget)
      /\ y.omitted = Omitted(p, nodes, observed, connectors)
  BY <1>3, <1>p, <1>o, <1>R DEF Presented
<1>5. /\ \E Z : js \in Seq(Z)
      /\ Distinctly(js)
      /\ \A x : Holds(js, x) <=> \E k \in D : \E n : IsJoin(x, tokens, k, n)
  <2>1. joins = [k \in 1 .. R |-> Joins(tokens[k], k)] /\ \A k \in 1 .. R : tokens[k] \in Seq(ToSet(tokens[k]))
    BY <1>0, <1>2, <1>j
  <2>2. /\ \E Z : FlattenSeq(joins) \in Seq(Z)
        /\ Distinctly(FlattenSeq(joins))
        /\ \A x : Holds(FlattenSeq(joins), x) <=> \E k \in 1 .. R : \E n : IsJoin(x, tokens, k, n)
    BY ONLY <1>0, <2>1, AllJoins
  <2> QED BY ONLY <1>0, <1>j, <2>2
<1>6. /\ \E X : nodes \in Seq(X)
      /\ Distinctly(nodes)
      /\ \A x : Holds(nodes, x) <=> \E k \in D : \E i \in DOMAIN tokens[k] : tokens[k][i].id = x
  <2>0. \A k \in 1 .. R : tokens[k] \in Seq(ToSet(tokens[k]))
    BY <1>0, <1>2
  <2>1. seqs = Ids(tokens, R)
    BY <1>0, <1>j DEF Ids
  <2>r. R \in Nat
    BY <1>0
  <2>2. HasIds(Distinct(FlattenSeq(Ids(tokens, R))), tokens, R)
    BY ONLY <2>0, <2>r, TokenNodes
  <2>3. HasIds(nodes, tokens, R)
    BY ONLY <1>j, <2>1, <2>2
  <2> QED BY ONLY <1>0, <2>3 DEF HasIds
<1>Z. PICK Z : js \in Seq(Z)
  BY <1>5
<1>7. /\ \E Y : observed \in Seq(Y)
      /\ Distinctly(observed)
      /\ \A x : Holds(observed, x) <=>
            \E j : Holds(js, j) /\ j.kind = "link" /\ PairOf(j) = x /\ Contains(st.links, x)
  BY ONLY <1>Z, <1>o, ObservedHolds
<1>8. /\ connectors \in Seq(Z) /\ Distinctly(connectors)
      /\ \A x : Holds(connectors, x) <=> Holds(js, x) /\ x.kind # "link"
  <2>1. js \in Seq(Z) /\ Distinctly(js)
    BY <1>5, <1>Z
  <2> QED BY ONLY <1>o, <2>1, ConnectorsHold
<1>9. Draws(p, nodes, observed, connectors, R, budget)
  <2>1. PICK X : nodes \in Seq(X)
    BY <1>6
  <2>2. PICK Y : observed \in Seq(Y)
    BY <1>7
  <2>3. /\ nodes \in Seq(X) /\ Distinctly(nodes) /\ observed \in Seq(Y) /\ Distinctly(observed)
        /\ connectors \in Seq(Z) /\ Distinctly(connectors)
        /\ Len(routes) \in Nat /\ budget \in Nat /\ Len(routes) <= budget
        /\ p = Within(routes, tokens, joins, observed, connectors,
                      Take(nodes, Min({MaxNodes, budget - Len(routes)})), budget)
    BY <1>0, <1>4, <1>6, <1>7, <1>8, <1>R, <1>o, <2>1, <2>2
  <2>4. Draws(p, nodes, observed, connectors, Len(routes), budget)
    BY ONLY <2>3, DrawnHolds
  <2> QED BY <1>R, <2>4
<1>10. ShowsRoutes(p, routes, tokens, joins)
  <2>1. \E retained, links, spans : p = Kept(routes, tokens, joins, retained, links, spans)
    BY <1>4 DEF Within
  <2>2. PICK retained, links, spans : p = Kept(routes, tokens, joins, retained, links, spans)
    BY <2>1
  <2>3. \A k \in DOMAIN routes : /\ {"node_ids", "complete"} \subseteq DOMAIN routes[k]
                                 /\ routes[k].complete \in BOOLEAN
                                 /\ tokens[k] \in Seq(ToSet(tokens[k]))
    BY <1>2, <1>R DEF Described
  <2> QED BY ONLY <2>2, <2>3, RoutesShown
<1>11. ASSUME NEW x, NEW k \in D, NEW n, IsJoin(x, tokens, k, n), x.kind = "link"
       PROVE  \E i \in 1 .. Len(routes[k].node_ids) - 1 :
                 PairOf(x) = <<routes[k].node_ids[i], routes[k].node_ids[i + 1]>>
  <2>i. PICK ids, hops, t : ids = routes[k].node_ids /\ hops = keys[k] /\ t = tokens[k]
    OBVIOUS
  <2>1. /\ ids \in Seq(ToSet(ids)) /\ DOMAIN hops = DOMAIN ids
    BY <1>R, <2>i DEF Described
  <2>2. AreTokens(t, ids, hops, k, show)
    BY <1>1, <2>i
  <2>3. n \in 1 .. Len(t) - 1 /\ x = Join(t, n + 1, k) /\ Join(t, n + 1, k).kind = "link"
    BY <1>11, <2>i DEF IsJoin
  <2>4. \E i \in 1 .. Len(ids) - 1 : PairOf(Join(t, n + 1, k)) = <<ids[i], ids[i + 1]>>
    BY ONLY <2>1, <2>2, <2>3, LinkJoin
  <2> QED BY <2>3, <2>4, <2>i
<1>12. ASSUME NEW i \in DOMAIN p.links
       PROVE  /\ Contains(st.links, p.links[i])
              /\ \E k \in D : \E n \in 1 .. Len(routes[k].node_ids) - 1 :
                    p.links[i] = <<routes[k].node_ids[n], routes[k].node_ids[n + 1]>>
  <2>1. Holds(observed, p.links[i])
    BY <1>9 DEF Draws
  <2>2. PICK j : Holds(js, j) /\ j.kind = "link" /\ PairOf(j) = p.links[i] /\ Contains(st.links, p.links[i])
    BY <1>7, <2>1
  <2>3. PICK k \in D : \E n : IsJoin(j, tokens, k, n)
    BY <1>5, <2>2
  <2>4. PICK n : IsJoin(j, tokens, k, n)
    BY <2>3
  <2> QED BY <1>11, <2>2, <2>4
<1>13. ASSUME NEW i \in DOMAIN p.connectors, NEW j \in DOMAIN p.connectors,
              p.connectors[i].id = p.connectors[j].id
       PROVE  i = j
  <2>1. Holds(js, p.connectors[i]) /\ Holds(js, p.connectors[j])
    BY <1>8, <1>9 DEF Draws
  <2>2. PICK k \in D, l \in D : /\ \E n : IsJoin(p.connectors[i], tokens, k, n)
                                /\ \E n : IsJoin(p.connectors[j], tokens, l, n)
    BY <1>5, <2>1
  <2>3. PICK a, b : IsJoin(p.connectors[i], tokens, k, a) /\ IsJoin(p.connectors[j], tokens, l, b)
    BY <2>2
  <2>4. p.connectors[i].id = <<1, k, a + 1>> /\ p.connectors[j].id = <<1, l, b + 1>>
    BY <2>3 DEF IsJoin, Join
  <2>5. k = l /\ a + 1 = b + 1
    <3>1. <<1, k, a + 1>> = <<1, l, b + 1>>
      BY <1>13, <2>4
    <3> QED BY ONLY <3>1
  <2>6. p.connectors[i] = p.connectors[j]
    BY <2>3, <2>5 DEF IsJoin
  <2> QED BY <1>9, <2>6 DEF Draws, Distinctly
<1>14. ASSUME NEW k \in D, NEW n, n \in 2 .. Len(tokens[k])
       PROVE  /\ joins[k][n - 1] = Join(tokens[k], n, k)
              /\ n \in Nat /\ n > 1 /\ IsJoin(Join(tokens[k], n, k), tokens, k, n - 1)
  <2>t. PICK t : t = tokens[k]
    OBVIOUS
  <2>1. Len(t) \in Nat
    BY <1>2, <2>t
  <2>2. n \in Nat /\ n > 1 /\ n - 1 \in 1 .. Len(t) - 1 /\ (n - 1) + 1 = n
    BY <1>14, <2>1, <2>t
  <2>3. joins[k] = [h \in 1 .. Len(t) - 1 |-> Join(t, h + 1, k)]
    BY <1>j, <2>t DEF Joins
  <2>4. joins[k][n - 1] = Join(t, (n - 1) + 1, k)
    BY <2>2, <2>3
  <2>5. IsJoin(Join(t, n, k), tokens, k, n - 1)
    BY <2>2, <2>t DEF IsJoin
  <2> QED BY <2>2, <2>4, <2>5, <2>t
<1>15. ASSUME ~(y.omitted > 0), NEW k \in D
       PROVE  Reaches(tokens[k], joins[k], ToSet(p.nodes), ToSet(p.links), ToSet(p.connectors),
                      Len(tokens[k]))
  <2>1. /\ \A x : Holds(nodes, x) => x \in ToSet(p.nodes)
        /\ \A x : Holds(observed, x) => x \in ToSet(p.links)
        /\ \A x : Holds(connectors, x) => x \in ToSet(p.connectors)
    <3>1. /\ \A x : Holds(nodes, x) => Holds(p.nodes, x)
          /\ \A x : Holds(observed, x) => Holds(p.links, x)
          /\ \A x : Holds(connectors, x) => Holds(p.connectors, x)
      BY <1>4, <1>9, <1>15 DEF Draws
    <3> QED BY <3>1 DEF Holds, ToSet
  <2>t. PICK t : t = tokens[k]
    OBVIOUS
  <2>2. DOMAIN t = 1 .. Len(t) /\ Len(t) \in Nat
    BY <1>2, <2>t
  <2>3. ASSUME NEW n \in 1 .. Len(t)
        PROVE  /\ t[n].id \in ToSet(p.nodes)
               /\ n > 1 => IsDrawn(joins[k][n - 1], ToSet(p.links), ToSet(p.connectors))
    <3>1. t[n].id \in ToSet(p.nodes)
      BY <1>6, <2>1, <2>2, <2>t
    <3>2. ASSUME n > 1
          PROVE  IsDrawn(joins[k][n - 1], ToSet(p.links), ToSet(p.connectors))
      <4>1. n \in 2 .. Len(tokens[k])
        BY <2>2, <2>t, <3>2
      <4>x. PICK x : x = Join(tokens[k], n, k)
        OBVIOUS
      <4>2. x = joins[k][n - 1] /\ IsJoin(x, tokens, k, n - 1)
        BY <1>14, <4>1, <4>x
      <4>3. Holds(js, x)
        BY <1>5, <4>2
      <4>4. CASE x.kind = "link"
        <5>1. PICK i \in 1 .. Len(routes[k].node_ids) - 1 :
                 PairOf(x) = <<routes[k].node_ids[i], routes[k].node_ids[i + 1]>>
          BY <1>11, <4>2, <4>4
        <5>2. Contains(st.links, PairOf(x))
          BY <1>R, <5>1 DEF Described
        <5>3. PairOf(x) \in ToSet(p.links)
          BY <1>7, <2>1, <4>3, <4>4, <5>2
        <5> QED BY <4>2, <4>4, <5>3 DEF IsDrawn
      <4>5. CASE x.kind # "link"
        BY <1>8, <2>1, <4>2, <4>3, <4>5 DEF IsDrawn
      <4> QED BY <4>4, <4>5
    <3> QED BY <3>1, <3>2
  <2> QED BY <2>3, <2>t DEF Reaches
<1>16. Len(p.links) \in Nat /\ DOMAIN p.links = 1 .. Len(p.links)
  BY <1>9 DEF Draws
<1>17. ASSUME NEW k \in D
       PROVE  \E d \in 0 .. Len(tokens[k]) :
          /\ IsShown(p.routes[k], routes[k], tokens[k], d)
          /\ \A n \in 1 .. d : /\ tokens[k][n].id \in ToSet(p.nodes)
                               /\ n > 1 => Linked(p, tokens, k, n)
          /\ ~(y.omitted > 0) => d = Len(tokens[k])
  <2>1. PICK d \in 0 .. Len(tokens[k]) :
          /\ IsShown(p.routes[k], routes[k], tokens[k], d)
          /\ Reaches(tokens[k], joins[k], ToSet(p.nodes), ToSet(p.links), ToSet(p.connectors), d)
          /\ Reaches(tokens[k], joins[k], ToSet(p.nodes), ToSet(p.links), ToSet(p.connectors), Len(tokens[k]))
                => d = Len(tokens[k])
    BY <1>10, <1>R DEF ShowsRoutes
  <2>c. PICK c : c = Len(tokens[k])
    OBVIOUS
  <2>2. c \in Nat
    BY <1>2, <2>c
  <2>3. ASSUME NEW n \in 1 .. d
        PROVE  /\ tokens[k][n].id \in ToSet(p.nodes)
               /\ n > 1 => Linked(p, tokens, k, n)
    <3>1. tokens[k][n].id \in ToSet(p.nodes)
      BY <2>1 DEF Reaches
    <3>2. ASSUME n > 1
          PROVE  Linked(p, tokens, k, n)
      <4>1. n \in 2 .. Len(tokens[k])
        BY <2>2, <2>c, <3>2
      <4>2. IsDrawn(joins[k][n - 1], ToSet(p.links), ToSet(p.connectors))
        BY <2>1, <3>2 DEF Reaches
      <4>3. n \in Nat /\ n > 1 /\ IsDrawn(Join(tokens[k], n, k), ToSet(p.links), ToSet(p.connectors))
        BY <1>14, <4>1, <4>2
      <4> QED BY ONLY <1>16, <4>3, ReachLinked
    <3> QED BY <3>1, <3>2
  <2>4. ~(y.omitted > 0) => d = Len(tokens[k])
    BY <1>15, <2>1
  <2> QED BY <2>1, <2>3, <2>4
<1>18. DOMAIN p.routes = D /\ Len(p.routes) = R
  <2>q. PICK paths : paths = p.routes
    OBVIOUS
  <2>1. paths = [k \in 1 .. R |-> paths[k]]
    BY <1>0, <1>10, <1>R, <2>q DEF ShowsRoutes
  <2>2. DOMAIN paths = 1 .. R
    BY <2>1
  <2>3. Len(paths) = R
    BY ONLY <1>0, <2>1, <2>2, SeqOfValues
  <2> QED BY <1>0, <2>2, <2>3, <2>q
<1>19. Presents(p, y.omitted, st.links, routes, tokens, budget)
  BY <1>9, <1>12, <1>13, <1>17, <1>18, <1>R DEF Presents, Draws
<1>20. AllTokens(tokens, routes, keys, show)
  BY <1>1, <1>R DEF AllTokens
<1> QED BY <1>19, <1>20, <1>p

-----------------------------------------------------------------------------
(* The routes of a plan and the traces of the report.                      *)

(* The kind of a node is the one it has in the model. *)
LEMMA KindHolds ==
    ASSUME NEW m, DOMAIN m.nodes \in SUBSET Nat, IsFiniteSet(DOMAIN m.nodes), Numbered(m),
           {"nodes", "links", "routes"} \subseteq DOMAIN m, NEW selected,
           NEW fm, fm = FilterTopologyModel(m, selected),
           NEW x \in DOMAIN m.nodes, <<x>> \in PathIds(fm)
    PROVE  KindOf(fm, <<x>>) = m.nodes[x].key.kind
<1>r. PICK R : R = At(m.routes, {n \in DOMAIN m.routes : m.routes[n].result \in selected})
  OBVIOUS
<1>i. PICK ids, T, some, y : /\ ids = UNION {ToSet(R[n].node_ids) : n \in DOMAIN R}
                       /\ T = {n \in DOMAIN m.nodes : m.nodes[n].id \in ids}
                       /\ some = At(m.nodes, T)
                       /\ y = {l \in m.links : <<l.from, l.to>> \in
                                   UNION {Pairs(R[n].node_ids) : n \in DOMAIN R}}
  OBVIOUS
<1>1. fm = [m EXCEPT !.routes = R, !.nodes = some, !.links = y]
  BY <1>r, <1>i DEF FilterTopologyModel
<1>2. fm.nodes = some /\ fm.routes = R
  BY ONLY <1>1, {"nodes", "links", "routes"} \subseteq DOMAIN m
<1>3. x \in T
  <2>1. <<x>> \in ids
    BY <1>2, <1>i DEF PathIds
  <2>2. m.nodes[x].id = <<x>>
    BY DEF Numbered
  <2> QED BY <1>i, <2>1, <2>2
<1>c. PICK c, a : c = Cardinality(T) /\ a = Ascending(T)
  OBVIOUS
<1>4. T \in SUBSET Nat /\ IsFiniteSet(T) /\ T \subseteq DOMAIN m.nodes
  <2>1. T \subseteq DOMAIN m.nodes
    BY <1>i
  <2> QED BY <2>1, FS_Subset
<1>5. /\ a \in [1 .. c -> T] /\ c \in Nat
      /\ \A z \in T : \E n \in 1 .. c : a[n] = z
  BY <1>4, <1>c, AscendingHolds
<1>6. DOMAIN some = 1 .. c /\ \A n \in 1 .. c : some[n] = m.nodes[a[n]]
  BY <1>5, <1>i, <1>c DEF At
<1>7. \A n \in 1 .. c : some[n].id = <<a[n]>> /\ a[n] \in T
  BY <1>4, <1>5, <1>6 DEF Numbered
<1>8. PICK n \in 1 .. c : a[n] = x
  BY <1>3, <1>5
<1>9. some[n] \in ToSet(some) /\ some[n].id = <<x>>
  BY <1>6, <1>7, <1>8 DEF ToSet
<1>10. ASSUME NEW other \in ToSet(some), other.id = <<x>>
       PROVE  other = some[n]
  <2>1. PICK o \in 1 .. c : other = some[o]
    BY <1>6 DEF ToSet
  <2>2. <<a[o]>> = <<x>>
    BY <1>7, <1>10, <2>1
  <2>3. a[o] = x
    BY ONLY <2>2
  <2> QED BY <1>6, <1>8, <2>1, <2>3
<1>11. (CHOOSE o \in ToSet(some) : o.id = <<x>>) = some[n]
  BY <1>9, <1>10
<1> QED BY <1>2, <1>6, <1>8, <1>11 DEF KindOf

(* A planned route begins like its trace. *)
LEMMA CutBeginsToo ==
    ASSUME NEW m, NEW whole, NEW trace, Begins(m, whole, trace), NEW X, whole.node_ids \in Seq(X),
           Len(trace.keys) \in Nat, whole.complete \in BOOLEAN, NEW path, IsCut(path, whole)
    PROVE  Begins(m, path, trace)
<1>i. PICK ids, l : ids = whole.node_ids /\ l = Len(trace.keys)
  OBVIOUS
<1>1. PICK c \in 1 .. Len(ids) :
         /\ path.node_ids = SubSeq(ids, 1, c)
         /\ path.complete = (whole.complete /\ c = Len(ids))
  BY <1>i DEF IsCut
<1>2. /\ whole.result = trace.result /\ whole.attempt = trace.attempt
      /\ Len(ids) <= l /\ (whole.complete <=> Len(ids) = l)
      /\ \A n \in 1 .. Len(ids) : \E x \in DOMAIN m.nodes :
            ids[n] = <<x>> /\ m.nodes[x].key = trace.keys[n]
  BY <1>i DEF Begins
<1>3. Len(ids) \in Nat /\ l \in Nat /\ c \in Nat /\ c <= Len(ids)
  BY <1>i
<1>4. Len(path.node_ids) = c /\ \A n \in 1 .. c : path.node_ids[n] = ids[n]
  BY <1>1, <1>3, <1>i
<1>5. path.complete <=> c = l
  <2>w. PICK w \in BOOLEAN : w = whole.complete
    OBVIOUS
  <2>1. w /\ c = Len(ids) <=> c = l
    <3>1. w <=> Len(ids) = l
      BY <1>2, <2>w
    <3>2. Len(ids) <= l
      BY <1>2
    <3> QED BY ONLY <1>3, <3>1, <3>2
  <2>2. path.complete <=> w /\ c = Len(ids)
    BY <1>1, <2>w
  <2> QED BY ONLY <2>1, <2>2
<1>6. path.result = trace.result /\ path.attempt = trace.attempt
  BY <1>2 DEF IsCut
<1>7. \A n \in 1 .. c : \E x \in DOMAIN m.nodes :
         path.node_ids[n] = <<x>> /\ m.nodes[x].key = trace.keys[n]
  BY <1>2, <1>3, <1>4
<1>8. c <= l
  BY <1>2, <1>3
<1> QED BY <1>4, <1>5, <1>6, <1>7, <1>8, <1>i DEF Begins

(* The keys of the hops that are planned of a route. *)
TraceOf(path) == Trace(path.result, path.attempt)
PlannedKeys(path) == [n \in 1 .. Len(path.node_ids) |-> TraceOf(path)[n]]

OfTrace(path) ==
    /\ \E r \in input.selected : \E t \in ToSet(CompactRoutes(Told, r)) :
          t.keys = TraceOf(path) /\ t.result = path.result /\ t.attempt = path.attempt
    /\ TraceOf(path) \in Seq(Keys) /\ TraceOf(path) \in HopLists
    /\ Len(path.node_ids) <= Len(TraceOf(path))
    /\ path.complete <=> Len(path.node_ids) = Len(TraceOf(path))
    /\ \A n \in 1 .. Len(path.node_ids) : \E x \in DOMAIN model.nodes :
          path.node_ids[n] = <<x>> /\ model.nodes[x].key = TraceOf(path)[n]

LEMMA CutOfTrace ==
    ASSUME Told \in ReportSet, Plannable(model), Follows(model, Told),
           NEW i \in DOMAIN model.routes, model.routes[i].result \in input.selected,
           NEW path, IsCut(path, model.routes[i])
    PROVE  OfTrace(path)
<1>w. PICK whole : whole = model.routes[i]
  OBVIOUS
<1>1. PICK r \in DOMAIN Told : \E n \in DOMAIN CompactRoutes(Told, r) :
         Begins(model, whole, CompactRoutes(Told, r)[n])
  BY <1>w DEF Follows
<1>2. PICK n \in DOMAIN CompactRoutes(Told, r) : Begins(model, whole, CompactRoutes(Told, r)[n])
  BY <1>1
<1>t. PICK trace : trace = CompactRoutes(Told, r)[n]
  OBVIOUS
<1>3. /\ trace.result = r /\ trace.keys \in Seq(Keys)
      /\ (CHOOSE t \in ToSet(CompactRoutes(Told, r)) : t.attempt = trace.attempt) = trace
  BY <1>t, TraceOfAttempt
<1>4. whole.node_ids \in Seq(PathIds(model)) /\ whole.complete \in BOOLEAN
  BY <1>w DEF Plannable
<1>5. Begins(model, whole, trace) /\ IsCut(path, whole)
  BY <1>2, <1>t, <1>w
<1>6. Begins(model, path, trace)
  <2>1. Len(trace.keys) \in Nat
    BY <1>3
  <2> QED BY ONLY <1>4, <1>5, <2>1, CutBeginsToo
<1>7. path.result = trace.result /\ path.attempt = trace.attempt
  BY <1>6 DEF Begins
<1>8. TraceOf(path) = trace.keys
  BY <1>3, <1>7 DEF Trace, TraceOf
<1>9. r \in input.selected
  <2>1. path.result = whole.result
    BY <1>5 DEF IsCut
  <2> QED BY <1>3, <1>7, <1>w, <2>1
<1>10. trace \in ToSet(CompactRoutes(Told, r))
  BY <1>t DEF ToSet
<1>11. trace.keys \in HopLists
  <2>1. CompactRoutes(Told, r) \in Seq(TracesOf(Told))
    BY CompactRoutesHold
  <2>2. trace \in TracesOf(Told)
    BY <1>t, <2>1
  <2> QED BY <2>2 DEF TracesOf, TraceSet
<1>12. /\ Len(path.node_ids) <= Len(trace.keys)
       /\ path.complete <=> Len(path.node_ids) = Len(trace.keys)
       /\ \A k \in 1 .. Len(path.node_ids) : \E x \in DOMAIN model.nodes :
             path.node_ids[k] = <<x>> /\ model.nodes[x].key = trace.keys[k]
  BY <1>6 DEF Begins
<1>13. \E s \in input.selected : \E t \in ToSet(CompactRoutes(Told, s)) :
          t.keys = TraceOf(path) /\ t.result = path.result /\ t.attempt = path.attempt
  BY <1>7, <1>8, <1>9, <1>10
<1> QED BY <1>3, <1>8, <1>11, <1>12, <1>13 DEF OfTrace

-----------------------------------------------------------------------------
(* What of a plan is mounted.                                              *)

ItemKinds == {"canvas", "inspector", "legend", "node", "link", "connector", "route", "target", "list", "marker"}
ItemSet == [kind : ItemKinds, cost : Nat]
MountStates == [list : Seq(ItemSet), cost : Nat]

(* After n items: the first c of them are there, in place. *)
HasMounted(y, items, n, c) ==
    /\ y.list \in Seq(ItemSet) /\ y.cost \in Nat
    /\ n <= c => /\ Len(y.list) = n /\ y.cost = IF n < 2 THEN n ELSE n + 1
                 /\ \A i \in 1 .. n : y.list[i] = items[i]
    /\ n >= c => /\ Len(y.list) >= c
                 /\ \A i \in 1 .. c : y.list[i] = items[i]
                 /\ \A i \in c + 1 .. Len(y.list) : \E j \in c + 1 .. n : y.list[i] = items[j]

LEMMA MountHolds ==
    ASSUME NEW items \in Seq(ItemSet), NEW budget \in Nat, NEW c \in Nat, c <= Len(items),
           c = 0 \/ c + 1 <= budget,
           \A i \in 1 .. c : items[i].cost = IF i = 2 THEN 2 ELSE 1,
           NEW n \in Nat, n + 1 <= Len(items), NEW y \in MountStates, HasMounted(y, items, n, c)
    PROVE  /\ Mount(y, items[n + 1], budget) \in MountStates
           /\ HasMounted(Mount(y, items[n + 1], budget), items, n + 1, c)
<1>i. PICK k, item, z, s, l : /\ k = n + 1 /\ item = items[k] /\ z = Mount(y, item, budget)
                              /\ s = y.list /\ l = Len(y.list)
  OBVIOUS
<1>1. item \in ItemSet /\ k \in Nat /\ Len(items) \in Nat
  BY <1>i
<1>2. item.cost \in Nat /\ s \in Seq(ItemSet) /\ y.cost \in Nat /\ l \in Nat /\ DOMAIN s = 1 .. l
  BY <1>1, <1>i DEF ItemSet, MountStates
<1>a. PICK more : more = Append(s, item)
  OBVIOUS
<1>3. /\ more \in Seq(ItemSet) /\ Len(more) = l + 1 /\ more[l + 1] = item
      /\ \A i \in 1 .. l : more[i] = s[i]
  BY <1>1, <1>2, <1>a, <1>i
<1>4. z = IF y.cost + item.cost > budget THEN y ELSE [list |-> more, cost |-> y.cost + item.cost]
  BY <1>a, <1>i DEF Mount
<1>5. z \in MountStates
  <2>1. [list |-> more, cost |-> y.cost + item.cost] \in MountStates
    BY <1>2, <1>3 DEF MountStates
  <2> QED BY <1>4, <2>1
<1>6. CASE k <= c
  <2>1. /\ l = n /\ y.cost = (IF n < 2 THEN n ELSE n + 1)
        /\ \A i \in 1 .. n : s[i] = items[i]
    <3>1. n <= c
      BY <1>6, <1>i
    <3> QED BY <3>1, <1>i DEF HasMounted
  <2>2. item.cost = IF k = 2 THEN 2 ELSE 1
    <3>1. k \in 1 .. c
      BY <1>6, <1>i
    <3> QED BY <3>1, <1>i
  <2>3. y.cost + item.cost = (IF k < 2 THEN k ELSE k + 1) /\ ~(y.cost + item.cost > budget)
    <3>1. c + 1 <= budget
      BY <1>6, <1>i
    <3>2. y.cost + item.cost = (IF k < 2 THEN k ELSE k + 1)
      BY ONLY <1>i, <2>1, <2>2, n \in Nat
    <3> QED BY ONLY <1>1, <1>6, <3>1, <3>2, c \in Nat, budget \in Nat
  <2>4. z.list = more /\ z.cost = y.cost + item.cost
    BY <1>4, <2>3
  <2>5. Len(more) = k /\ \A i \in 1 .. k : more[i] = items[i]
    BY <1>3, <1>i, <2>1
  <2>6. \A i \in c + 1 .. Len(more) : i \in 1 .. 0 \/ k > c
    BY <1>1, <1>6, <2>5
  <2>7. /\ z.list \in Seq(ItemSet) /\ z.cost \in Nat
        /\ Len(z.list) = k /\ z.cost = IF k < 2 THEN k ELSE k + 1
        /\ \A i \in 1 .. k : z.list[i] = items[i]
    BY <1>2, <1>3, <2>3, <2>4, <2>5
  <2>8. k >= c => k = c
    BY <1>1, <1>6
  <2>9. c + 1 .. c = {}
    OBVIOUS
  <2>10. HasMounted(z, items, k, c)
    BY ONLY <1>6, <2>7, <2>8, <2>9, c \in Nat DEF HasMounted
  <2> QED BY <1>5, <1>i, <2>10
<1>7. CASE ~(k <= c)
  <2>1. n >= c
    BY <1>7, <1>i
  <2>2. /\ l >= c /\ \A i \in 1 .. c : s[i] = items[i]
        /\ \A i \in c + 1 .. l : \E j \in c + 1 .. n : s[i] = items[j]
    BY <2>1, <1>i DEF HasMounted
  <2>3. \A j \in c + 1 .. n : j \in c + 1 .. k
    BY <1>i
  <2>4. CASE y.cost + item.cost > budget
    <3>1. z = y
      BY <1>4, <2>4
    <3>2. \A i \in c + 1 .. l : \E j \in c + 1 .. k : s[i] = items[j]
      BY <2>2, <2>3
    <3>3. HasMounted(z, items, k, c)
      BY ONLY <1>2, <1>7, <1>i, <2>2, <3>1, <3>2 DEF HasMounted
    <3> QED BY <1>5, <1>i, <3>3
  <2>5. CASE ~(y.cost + item.cost > budget)
    <3>1. z.list = more /\ z.cost = y.cost + item.cost
      BY <1>4, <2>5
    <3>2. z.list \in Seq(ItemSet) /\ z.cost \in Nat /\ Len(z.list) = l + 1
      BY <1>2, <1>3, <3>1
    <3>3. Len(z.list) >= c
      BY <1>2, <2>2, <3>2
    <3>4. \A i \in 1 .. c : z.list[i] = items[i]
      BY <1>2, <1>3, <2>2, <3>1
    <3>5. ASSUME NEW i \in c + 1 .. l + 1
          PROVE  \E j \in c + 1 .. k : more[i] = items[j]
      <4>1. CASE i = l + 1
        <5>1. k \in c + 1 .. k
          BY <1>1, <1>7
        <5> QED BY <1>3, <1>i, <4>1, <5>1
      <4>2. CASE i # l + 1
        <5>1. i \in c + 1 .. l /\ i \in 1 .. l
          BY ONLY <1>2, <4>2, i \in c + 1 .. l + 1, c \in Nat
        <5> QED BY <1>3, <2>2, <2>3, <5>1
      <4> QED BY <4>1, <4>2
    <3>6. HasMounted(z, items, k, c)
      BY ONLY <1>7, <3>1, <3>2, <3>3, <3>4, <3>5 DEF HasMounted
    <3> QED BY <1>5, <1>i, <3>6
  <2> QED BY <2>4, <2>5
<1> QED BY <1>6, <1>7

MountsFirst(list, items, c) ==
    /\ list \in Seq(ItemSet) /\ Len(list) >= c
    /\ \A i \in 1 .. c : list[i] = items[i]
    /\ \A i \in c + 1 .. Len(list) : \E j \in c + 1 .. Len(items) : list[i] = items[j]

(* If the first c items fit, they are mounted, and nothing in their place. *)
LEMMA MountedHolds ==
    ASSUME NEW items \in Seq(ItemSet), NEW budget \in Nat, NEW c \in Nat, c <= Len(items),
           c = 0 \/ c + 1 <= budget,
           \A i \in 1 .. c : items[i].cost = IF i = 2 THEN 2 ELSE 1
    PROVE  MountsFirst(Mounted(items, budget), items, c)
<1>L. PICK L : L = Len(items)
  OBVIOUS
<1> DEFINE none == [list |-> <<>>, cost |-> 0]
           step == [o \in (1 .. L) \X MountStates |->
                       IF Mount(o[2], items[o[1]], budget) \in MountStates
                       THEN Mount(o[2], items[o[1]], budget) ELSE o[2]]
           is(f) == f = [n \in 0 .. Len(items) |->
                            IF n = 0 THEN none ELSE Mount(f[n - 1], items[n], budget)]
<1>0. L \in Nat /\ DOMAIN items = 1 .. L /\ \A n \in 1 .. L : items[n] \in ItemSet
  BY <1>L
<1>1. none \in MountStates /\ HasMounted(none, items, 0, c)
  <2>0. <<>> \in Seq(ItemSet) /\ Len(<<>>) = 0
    OBVIOUS
  <2>1. none \in MountStates /\ none.list = <<>> /\ none.cost = 0
    BY <2>0 DEF MountStates
  <2> HIDE DEF none
  <2>2. c = 0 \/ ~(0 >= c)
    OBVIOUS
  <2>3. Len(none.list) = 0 /\ none.list \in Seq(ItemSet)
    BY <2>0, <2>1
  <2>4. HasMounted(none, items, 0, c)
    BY ONLY <2>1, <2>2, <2>3, c \in Nat DEF HasMounted
  <2> QED BY <2>1, <2>4
<1>2. ASSUME NEW y \in MountStates, NEW n \in 1 .. L
      PROVE  Mount(y, items[n], budget) \in MountStates
  <2>i. PICK item, s : item = items[n] /\ s = y.list
    OBVIOUS
  <2>1. item \in ItemSet /\ item.cost \in Nat
    BY <1>0, <2>i DEF ItemSet
  <2>2. s \in Seq(ItemSet) /\ y.cost \in Nat
    BY <2>i DEF MountStates
  <2>3. Append(s, item) \in Seq(ItemSet) /\ y.cost + item.cost \in Nat
    BY <2>1, <2>2
  <2>4. [list |-> Append(s, item), cost |-> y.cost + item.cost] \in MountStates
    BY <2>3 DEF MountStates
  <2> QED BY <2>4, <2>i DEF Mount
<1>3. step \in [(1 .. L) \X MountStates -> MountStates]
  OBVIOUS
<1>4. PICK h : /\ h \in [0 .. L -> MountStates] /\ h[0] = none
               /\ \A n \in 1 .. L : h[n] = step[<<n, h[n - 1]>>]
  <2> HIDE DEF step, none
  <2>1. L \in Nat /\ none \in MountStates
    BY <1>0, <1>1
  <2>2. \E h : RunUpTo(h, MountStates, L, none, step)
    BY ONLY <1>3, <2>1, StepsUpTo
  <2> QED BY ONLY <2>2 DEF RunUpTo
<1>5. is(h)
  <2>1. ASSUME NEW n \in 0 .. L
        PROVE  h[n] = IF n = 0 THEN none ELSE Mount(h[n - 1], items[n], budget)
    <3>1. CASE n = 0
      BY <1>4, <3>1
    <3>2. CASE n # 0
      <4>1. n \in 1 .. L /\ n - 1 \in 0 .. L
        BY <1>0, <3>2
      <4>2. h[n - 1] \in MountStates
        BY <1>4, <4>1
      <4>o. PICK o : o = <<n, h[n - 1]>>
        OBVIOUS
      <4>3. o \in (1 .. L) \X MountStates /\ o[1] = n /\ o[2] = h[n - 1]
        BY <4>1, <4>2, <4>o
      <4>4. Mount(o[2], items[o[1]], budget) \in MountStates
        BY <1>2, <4>1, <4>2, <4>3
      <4>5. step[o] = Mount(o[2], items[o[1]], budget)
        BY <4>3, <4>4
      <4> HIDE DEF step, none
      <4> QED BY <1>4, <3>2, <4>1, <4>3, <4>5, <4>o
    <3> QED BY <3>1, <3>2
  <2>2. h = [n \in 0 .. L |-> h[n]]
    BY <1>4
  <2> HIDE DEF none
  <2> QED BY <1>L, <2>1, <2>2
<1>f. PICK f : f = CHOOSE g : is(g)
  OBVIOUS
<1>6. is(f)
  <2> HIDE DEF is
  <2> QED BY <1>5, <1>f
<1>7. Mounted(items, budget) = f[L].list
  BY <1>f, <1>L DEF Mounted
<1>8. f[0] = none
  BY <1>0, <1>6, <1>L
<1>9. ASSUME NEW n \in 1 .. L
      PROVE  f[n] = Mount(f[n - 1], items[n], budget)
  <2>1. n \in 0 .. Len(items) /\ n # 0
    BY <1>0, <1>L
  <2> HIDE DEF none
  <2> QED BY <1>6, <2>1
<1> HIDE DEF is, step, none
<1> DEFINE Good(n) == f[n] \in MountStates /\ HasMounted(f[n], items, n, c)
           G == {n \in Nat : n <= L => Good(n)}
<1>10. 0 \in G
  BY <1>1, <1>8
<1>11. ASSUME NEW n \in G
       PROVE  n + 1 \in G
  <2>1. SUFFICES ASSUME n + 1 <= L
                 PROVE  Good(n + 1)
    OBVIOUS
  <2>2. n \in Nat /\ n + 1 \in 1 .. L /\ (n + 1) - 1 = n /\ n <= L
    BY <1>0, <2>1
  <2>3. Good(n)
    BY <2>2
  <2>y. PICK y : y = f[n]
    OBVIOUS
  <2>4. y \in MountStates /\ HasMounted(y, items, n, c) /\ n \in Nat /\ n + 1 <= Len(items)
    BY <1>L, <2>1, <2>2, <2>3, <2>y
  <2>5. /\ Mount(y, items[n + 1], budget) \in MountStates
        /\ HasMounted(Mount(y, items[n + 1], budget), items, n + 1, c)
    BY <2>4, MountHolds
  <2>6. f[n + 1] = Mount(y, items[n + 1], budget)
    <3>m. PICK k : k = n + 1
      OBVIOUS
    <3>1. f[k] = Mount(f[k - 1], items[k], budget)
      BY <1>9, <2>2, <3>m
    <3> QED BY <2>2, <2>y, <3>1, <3>m
  <2> QED BY <2>5, <2>6
<1>12. L \in G
  <2>1. G \in SUBSET Nat
    OBVIOUS
  <2> HIDE DEF G
  <2>2. \A n \in Nat : n \in G
    BY ONLY <1>10, <1>11, <2>1, NumbersByStep
  <2> QED BY <1>0, <2>2
<1>13. HasMounted(f[L], items, L, c)
  BY <1>0, <1>12
<1>14. L >= c
  BY <1>0, <1>L
<1>l. PICK list : list = f[L].list
  OBVIOUS
<1>15. /\ list \in Seq(ItemSet) /\ Len(list) >= c
       /\ \A i \in 1 .. c : list[i] = items[i]
       /\ \A i \in c + 1 .. Len(list) : \E j \in c + 1 .. L : list[i] = items[j]
  BY ONLY <1>13, <1>14, <1>l DEF HasMounted
<1> QED BY ONLY <1>15, <1>7, <1>l, <1>L DEF MountsFirst

(* A list of items, extended by some of one kind. *)
Added(t, s, kind, n, cost) ==
    /\ t \in Seq(ItemSet) /\ Len(t) = Len(s) + n
    /\ \A i \in 1 .. Len(s) : t[i] = s[i]
    /\ \A i \in Len(s) + 1 .. Len(s) + n : t[i].kind = kind /\ t[i].cost = cost

LEMMA AddItems ==
    ASSUME NEW s \in Seq(ItemSet), NEW kind \in ItemKinds, NEW n \in Nat, NEW cost \in Nat,
           NEW t, t = s \o Items(kind, n, cost)
    PROVE  Added(t, s, kind, n, cost)
<1>m. PICK more, item, l : /\ more = Items(kind, n, cost) /\ item = [kind |-> kind, cost |-> cost]
                           /\ l = Len(s)
  OBVIOUS
<1>1. item \in ItemSet /\ item.kind = kind /\ item.cost = cost
  BY <1>m DEF ItemSet
<1>2. more = [i \in 1 .. n |-> item]
  BY <1>m DEF Items
<1>3. more \in Seq(ItemSet) /\ Len(more) = n /\ \A i \in 1 .. n : more[i] = item
  <2>1. more \in [1 .. n -> ItemSet]
    BY <1>1, <1>2
  <2> QED BY <1>2, <2>1
<1>4. l \in Nat /\ t = s \o more
  BY <1>m
<1>5. t \in Seq(ItemSet)
  BY <1>3, <1>4
<1>6. Len(t) = l + n
  <2>1. s \in Seq(ItemSet) /\ more \in Seq(ItemSet)
    BY <1>3
  <2>2. Len(s \o more) = Len(s) + Len(more)
    BY ONLY <2>1
  <2> QED BY ONLY <1>3, <1>4, <1>m, <2>2
<1>7. \A i \in 1 .. l : t[i] = s[i]
  BY <1>3, <1>4, <1>m
<1>8. ASSUME NEW i \in l + 1 .. l + n
      PROVE  t[i] = item
  <2>1. i - l \in 1 .. n /\ i \in 1 .. l + n /\ ~(i <= l)
    BY <1>4
  <2>2. t[i] = more[i - l]
    BY <1>3, <1>4, <1>m, <2>1
  <2> QED BY <1>3, <2>1, <2>2
<1> QED BY ONLY <1>1, <1>5, <1>6, <1>7, <1>8, <1>m DEF Added

(* The canvas comes first. *)
LEMMA CanvasAlone ==
    ASSUME NEW s, s = Items("canvas", 1, Canvas)
    PROVE  s \in Seq(ItemSet) /\ Len(s) = 1 /\ s[1].kind = "canvas" /\ s[1].cost = 1
<1>k. PICK kind : kind = "canvas"
  OBVIOUS
<1>1. PICK item : item = [kind |-> kind, cost |-> 1]
  OBVIOUS
<1>2. kind \in ItemKinds
  BY <1>k DEF ItemKinds
<1>3. item \in ItemSet /\ item.kind = kind /\ item.cost = 1
  BY <1>1, <1>2 DEF ItemSet
<1>4. s = [i \in 1 .. 1 |-> item]
  BY <1>1, <1>k DEF Items, Canvas
<1>5. s \in [1 .. 1 -> ItemSet]
  BY ONLY <1>3, <1>4
<1>6. s \in Seq(ItemSet) /\ Len(s) = 1
  BY ONLY <1>4, <1>5
<1> QED BY <1>3, <1>4, <1>6, <1>k

(* How many items are of a kind, if they are together. *)
PlacesOf(list, kind) == {n \in DOMAIN list : list[n].kind = kind}
Together(list, kind, lo, hi) == \A n \in 1 .. Len(list) : list[n].kind = kind <=> lo < n /\ n <= hi

LEMMA CountOfKind ==
    ASSUME NEW list \in Seq(ItemSet), NEW kind, NEW lo \in Nat, NEW hi \in Nat, lo <= hi, hi <= Len(list),
           Together(list, kind, lo, hi)
    PROVE  Cardinality(PlacesOf(list, kind)) = hi - lo
<1>1. DOMAIN list = 1 .. Len(list) /\ Len(list) \in Nat
  OBVIOUS
<1>k. PICK k : k = lo + 1
  OBVIOUS
<1>2. PlacesOf(list, kind) = k .. hi
  BY <1>1, <1>k DEF PlacesOf, Together
<1>3. Cardinality(k .. hi) = IF k > hi THEN 0 ELSE hi - k + 1
  <2>1. k \in Int /\ hi \in Int
    BY <1>k
  <2> QED BY ONLY <2>1, FS_Interval
<1>4. (IF k > hi THEN 0 ELSE hi - k + 1) = hi - lo
  <2>1. lo \in Nat /\ hi \in Nat /\ lo <= hi
    OBVIOUS
  <2> QED BY ONLY <1>k, <2>1
<1> QED BY ONLY <1>2, <1>3, <1>4

(* What a topology view has to mount: where its nodes, links, connectors   *)
(* and routes end in the list.                                             *)
TopologyLayout(items, nodes, links, connectors, routes) ==
    /\ items \in Seq(ItemSet) /\ Len(items) = routes
    /\ \A i \in 1 .. routes :
          /\ items[i].cost = IF i = 2 THEN 2 ELSE 1
          /\ i = 1 => items[i].kind = "canvas"
          /\ i = 2 => items[i].kind = "inspector"
          /\ 2 < i /\ i <= nodes => items[i].kind = "node"
          /\ nodes < i /\ i <= links => items[i].kind = "link"
          /\ links < i /\ i <= connectors => items[i].kind = "connector"
          /\ connectors < i => items[i].kind = "route"

LEMMA TopologyItemsHold ==
    ASSUME NEW p, NEW a \in Nat, NEW b \in Nat, NEW c \in Nat, NEW d \in Nat,
           a = Len(p.nodes), b = Len(p.links), c = Len(p.connectors), d = Len(p.routes),
           NEW k3 \in Nat, NEW k4 \in Nat, NEW k5 \in Nat, NEW k6 \in Nat,
           k3 = 2 + a, k4 = k3 + b, k5 = k4 + c, k6 = k5 + d
    PROVE  TopologyLayout(TopologyItems(p), k3, k4, k5, k6)
<1>s. PICK s1, s2, s3, s4, s5, s6 :
         /\ s1 = Items("canvas", 1, Canvas) /\ s2 = s1 \o Items("inspector", 1, Inspector)
         /\ s3 = s2 \o Items("node", a, 1) /\ s4 = s3 \o Items("link", b, 1)
         /\ s5 = s4 \o Items("connector", c, 1) /\ s6 = s5 \o Items("route", d, 1)
  OBVIOUS
<1>0. 1 \in Nat /\ Inspector = 2 /\ Inspector \in Nat
  BY DEF Inspector
<1>k. /\ a \in Nat /\ b \in Nat /\ c \in Nat /\ d \in Nat
      /\ k3 \in Nat /\ k4 \in Nat /\ k5 \in Nat /\ k6 \in Nat
      /\ k3 = 2 + a /\ k4 = k3 + b /\ k5 = k4 + c /\ k6 = k5 + d
  OBVIOUS
<1>1. s1 \in Seq(ItemSet) /\ Len(s1) = 1 /\ s1[1].kind = "canvas" /\ s1[1].cost = 1
  BY ONLY <1>s, CanvasAlone
<1>2. /\ s2 \in Seq(ItemSet) /\ Len(s2) = 2 /\ s2[1] = s1[1]
      /\ s2[2].kind = "inspector" /\ s2[2].cost = 2
  <2>s. "inspector" \in ItemKinds
    BY DEF ItemKinds
  <2>1. s1 \in Seq(ItemSet) /\ s2 = s1 \o Items("inspector", 1, Inspector)
    BY <1>1, <1>s
  <2>2. Added(s2, s1, "inspector", 1, Inspector)
    BY ONLY <1>0, <2>1, <2>s, AddItems
  <2> QED BY ONLY <1>0, <1>1, <2>2 DEF Added
<1>3. /\ s3 \in Seq(ItemSet) /\ Len(s3) = k3 /\ \A i \in 1 .. 2 : s3[i] = s2[i]
      /\ \A i \in 2 + 1 .. k3 : s3[i].kind = "node" /\ s3[i].cost = 1
  <2>s. "node" \in ItemKinds
    BY DEF ItemKinds
  <2>1. s2 \in Seq(ItemSet) /\ s3 = s2 \o Items("node", a, 1)
    BY <1>2, <1>s
  <2>2. Added(s3, s2, "node", a, 1)
    BY ONLY <1>0, <1>k, <2>1, <2>s, AddItems
  <2> QED BY ONLY <1>k, <1>2, <2>2 DEF Added
<1>4. /\ s4 \in Seq(ItemSet) /\ Len(s4) = k4 /\ \A i \in 1 .. k3 : s4[i] = s3[i]
      /\ \A i \in k3 + 1 .. k4 : s4[i].kind = "link" /\ s4[i].cost = 1
  <2>s. "link" \in ItemKinds
    BY DEF ItemKinds
  <2>1. s3 \in Seq(ItemSet) /\ s4 = s3 \o Items("link", b, 1)
    BY <1>3, <1>s
  <2>2. Added(s4, s3, "link", b, 1)
    BY ONLY <1>0, <1>k, <2>1, <2>s, AddItems
  <2> QED BY ONLY <1>k, <1>3, <2>2 DEF Added
<1>5. /\ s5 \in Seq(ItemSet) /\ Len(s5) = k5 /\ \A i \in 1 .. k4 : s5[i] = s4[i]
      /\ \A i \in k4 + 1 .. k5 : s5[i].kind = "connector" /\ s5[i].cost = 1
  <2>s. "connector" \in ItemKinds
    BY DEF ItemKinds
  <2>1. s4 \in Seq(ItemSet) /\ s5 = s4 \o Items("connector", c, 1)
    BY <1>4, <1>s
  <2>2. Added(s5, s4, "connector", c, 1)
    BY ONLY <1>0, <1>k, <2>1, <2>s, AddItems
  <2> QED BY ONLY <1>k, <1>4, <2>2 DEF Added
<1>6. /\ s6 \in Seq(ItemSet) /\ Len(s6) = k6 /\ \A i \in 1 .. k5 : s6[i] = s5[i]
      /\ \A i \in k5 + 1 .. k6 : s6[i].kind = "route" /\ s6[i].cost = 1
  <2>s. "route" \in ItemKinds
    BY DEF ItemKinds
  <2>1. s5 \in Seq(ItemSet) /\ s6 = s5 \o Items("route", d, 1)
    BY <1>5, <1>s
  <2>2. Added(s6, s5, "route", d, 1)
    BY ONLY <1>0, <1>k, <2>1, <2>s, AddItems
  <2> QED BY ONLY <1>k, <1>5, <2>2 DEF Added
<1>8. TopologyItems(p) = s6
  BY <1>s DEF TopologyItems
<1>9. ASSUME NEW i \in 1 .. k6
      PROVE  /\ s6[i].cost = IF i = 2 THEN 2 ELSE 1
             /\ i = 1 => s6[i].kind = "canvas"
             /\ i = 2 => s6[i].kind = "inspector"
             /\ 2 < i /\ i <= k3 => s6[i].kind = "node"
             /\ k3 < i /\ i <= k4 => s6[i].kind = "link"
             /\ k4 < i /\ i <= k5 => s6[i].kind = "connector"
             /\ k5 < i => s6[i].kind = "route"
  <2>i. i \in Nat /\ i >= 1 /\ i <= k6
    <3>1. i \in 1 .. k6 /\ k6 \in Nat
      BY ONLY <1>k, i \in 1 .. k6
    <3> QED BY ONLY <3>1
  <2>k. /\ i \in Nat /\ i >= 1 /\ i <= k6
        /\ k3 >= 2 /\ k4 >= k3 /\ k5 >= k4 /\ k6 >= k5
    BY ONLY <1>k, <2>i
  <2>1. CASE i = 1 \/ i = 2
    <3>1. i \in 1 .. 2 /\ i \in 1 .. k3 /\ i \in 1 .. k4 /\ i \in 1 .. k5
      BY ONLY <1>k, <2>k, <2>1
    <3>2. s6[i] = s2[i]
      BY ONLY <1>3, <1>4, <1>5, <1>6, <3>1
    <3>3. /\ i = 1 => s6[i].kind = "canvas" /\ s6[i].cost = 1
          /\ i = 2 => s6[i].kind = "inspector" /\ s6[i].cost = 2
      BY ONLY <1>1, <1>2, <3>2
    <3> QED BY ONLY <1>k, <2>k, <2>1, <3>3
  <2>3. CASE 2 < i /\ i <= k3
    <3>1. i \in 2 + 1 .. k3 /\ i \in 1 .. k3 /\ i \in 1 .. k4 /\ i \in 1 .. k5
      BY ONLY <1>k, <2>k, <2>3
    <3>2. s6[i].kind = "node" /\ s6[i].cost = 1
      BY ONLY <1>3, <1>4, <1>5, <1>6, <3>1
    <3> QED BY ONLY <1>k, <2>k, <2>3, <3>2
  <2>4. CASE k3 < i /\ i <= k4
    <3>1. i \in k3 + 1 .. k4 /\ i \in 1 .. k4 /\ i \in 1 .. k5
      BY ONLY <1>k, <2>k, <2>4
    <3>2. s6[i].kind = "link" /\ s6[i].cost = 1
      BY ONLY <1>4, <1>5, <1>6, <3>1
    <3> QED BY ONLY <1>k, <2>k, <2>4, <3>2
  <2>5. CASE k4 < i /\ i <= k5
    <3>1. i \in k4 + 1 .. k5 /\ i \in 1 .. k5
      BY ONLY <1>k, <2>k, <2>5
    <3>2. s6[i].kind = "connector" /\ s6[i].cost = 1
      BY ONLY <1>5, <1>6, <3>1
    <3> QED BY ONLY <1>k, <2>k, <2>5, <3>2
  <2>6. CASE k5 < i
    <3>1. i \in k5 + 1 .. k6
      BY ONLY <1>k, <2>k, <2>6
    <3>2. s6[i].kind = "route" /\ s6[i].cost = 1
      BY ONLY <1>6, <3>1
    <3> QED BY ONLY <1>k, <2>k, <2>6, <3>2
  <2>7. \/ i = 1 \/ i = 2 \/ (2 < i /\ i <= k3) \/ (k3 < i /\ i <= k4)
        \/ (k4 < i /\ i <= k5) \/ k5 < i
    BY ONLY <1>k, <2>k
  <2> QED BY ONLY <2>1, <2>3, <2>4, <2>5, <2>6, <2>7
<1> QED BY ONLY <1>6, <1>8, <1>9 DEF TopologyLayout


KindsCounted(list, a, b, c, d) ==
    /\ Cardinality(PlacesOf(list, "node")) = a
    /\ Cardinality(PlacesOf(list, "link")) = b
    /\ Cardinality(PlacesOf(list, "connector")) = c
    /\ Cardinality(PlacesOf(list, "route")) = d

LEMMA TopologyMounts ==
    ASSUME NEW p, NEW a \in Nat, NEW b \in Nat, NEW c \in Nat, NEW d \in Nat,
           a = Len(p.nodes), b = Len(p.links), c = Len(p.connectors), d = Len(p.routes),
           NEW dynamic \in Nat, a + b + c + d <= Max({0, dynamic - Canvas - Inspector})
    PROVE  KindsCounted(Mounted(TopologyItems(p), dynamic), a, b, c, d)
<1>i. PICK items, list, k3, k4, k5, k6 :
         /\ items = TopologyItems(p) /\ list = Mounted(items, dynamic)
         /\ k3 = 2 + a /\ k4 = k3 + b /\ k5 = k4 + c /\ k6 = k5 + d
  OBVIOUS
<1>t. /\ a \in Nat /\ b \in Nat /\ c \in Nat /\ d \in Nat /\ dynamic \in Nat
  OBVIOUS
<1>k. /\ k3 \in Nat /\ k4 \in Nat /\ k5 \in Nat /\ k6 \in Nat
      /\ 2 <= k3 /\ k3 <= k4 /\ k4 <= k5 /\ k5 <= k6
      /\ k3 = 2 + a /\ k4 = k3 + b /\ k5 = k4 + c /\ k6 = k5 + d
  BY ONLY <1>i, <1>t
<1>1. TopologyLayout(items, k3, k4, k5, k6)
  <2>1. a = Len(p.nodes) /\ b = Len(p.links) /\ c = Len(p.connectors) /\ d = Len(p.routes)
    OBVIOUS
  <2>2. TopologyLayout(TopologyItems(p), k3, k4, k5, k6)
    BY ONLY <1>t, <1>k, <2>1, TopologyItemsHold
  <2> QED BY ONLY <1>i, <2>2
<1>2. /\ items \in Seq(ItemSet) /\ Len(items) = k6
      /\ \A i \in 1 .. k6 : items[i].cost = IF i = 2 THEN 2 ELSE 1
      /\ \A i \in 1 .. k6 :
          /\ i = 1 => items[i].kind = "canvas"
          /\ i = 2 => items[i].kind = "inspector"
          /\ 2 < i /\ i <= k3 => items[i].kind = "node"
          /\ k3 < i /\ i <= k4 => items[i].kind = "link"
          /\ k4 < i /\ i <= k5 => items[i].kind = "connector"
          /\ k5 < i => items[i].kind = "route"
  BY ONLY <1>1 DEF TopologyLayout
<1>m. PICK budget : budget = Max({0, dynamic - Canvas - Inspector})
  OBVIOUS
<1>3. budget \in {0, dynamic - 3} /\ a + b + c + d <= budget
  <2>1. dynamic - Canvas - Inspector \in Int /\ dynamic - Canvas - Inspector = dynamic - 3
    BY DEF Canvas, Inspector
  <2> QED BY <1>m, <2>1, MaxOfZero
<1>4. CASE k6 + 1 <= dynamic
  <2>1. /\ k6 <= Len(items) /\ (k6 = 0 \/ k6 + 1 <= dynamic) /\ k6 \in Nat
        /\ items \in Seq(ItemSet) /\ dynamic \in Nat
        /\ \A i \in 1 .. k6 : items[i].cost = IF i = 2 THEN 2 ELSE 1
    BY ONLY <1>2, <1>4, <1>k, <1>t
  <2>m. MountsFirst(Mounted(items, dynamic), items, k6)
    BY ONLY <2>1, MountedHolds
  <2>2. /\ list \in Seq(ItemSet) /\ Len(list) >= k6
        /\ \A i \in 1 .. k6 : list[i] = items[i]
        /\ \A i \in k6 + 1 .. Len(list) : \E j \in k6 + 1 .. k6 : list[i] = items[j]
    BY ONLY <1>2, <1>i, <2>m DEF MountsFirst
  <2>3. Len(list) = k6
    <3>1. k6 + 1 .. k6 = {}
      BY ONLY <1>k
    <3>2. k6 + 1 .. Len(list) = {}
      BY ONLY <2>2, <3>1
    <3>3. Len(list) \in Nat
      BY ONLY <2>2
    <3> QED BY ONLY <1>k, <2>2, <3>2, <3>3
  <2>4. ASSUME NEW i \in 1 .. Len(list)
        PROVE  /\ list[i].kind = "node" <=> 2 < i /\ i <= k3
               /\ list[i].kind = "link" <=> k3 < i /\ i <= k4
               /\ list[i].kind = "connector" <=> k4 < i /\ i <= k5
               /\ list[i].kind = "route" <=> k5 < i /\ i <= k6
    <3>k. PICK kind : kind = list[i].kind
      OBVIOUS
    <3>1. i \in 1 .. k6 /\ list[i] = items[i]
      BY <2>2, <2>3
    <3>2. /\ i = 1 => kind = "canvas"
          /\ i = 2 => kind = "inspector"
          /\ 2 < i /\ i <= k3 => kind = "node"
          /\ k3 < i /\ i <= k4 => kind = "link"
          /\ k4 < i /\ i <= k5 => kind = "connector"
          /\ k5 < i => kind = "route"
      BY ONLY <1>2, <3>1, <3>k
    <3>3. /\ i \in Nat /\ i >= 1 /\ i <= k6
      BY ONLY <1>k, <3>1
    <3>4. i = 1 \/ i = 2 \/ (2 < i /\ i <= k3) \/ (k3 < i /\ i <= k4) \/ (k4 < i /\ i <= k5) \/ k5 < i
      BY ONLY <1>k, <3>3
    <3> QED BY ONLY <3>2, <3>3, <3>4, <3>k, <1>k
  <2>5. /\ k5 <= Len(list) /\ k6 <= Len(list) /\ k4 <= Len(list) /\ k3 <= Len(list) /\ 2 \in Nat
        /\ list \in Seq(ItemSet)
    BY ONLY <1>k, <2>2, <2>3
  <2>6. Cardinality(PlacesOf(list, "node")) = k3 - 2
    <3>1. Together(list, "node", 2, k3)
      BY ONLY <2>4 DEF Together
    <3> QED BY ONLY <1>k, <2>5, <3>1, CountOfKind
  <2>7. Cardinality(PlacesOf(list, "link")) = k4 - k3
    <3>1. Together(list, "link", k3, k4)
      BY ONLY <2>4 DEF Together
    <3> QED BY ONLY <1>k, <2>5, <3>1, CountOfKind
  <2>8. Cardinality(PlacesOf(list, "connector")) = k5 - k4
    <3>1. Together(list, "connector", k4, k5)
      BY ONLY <2>4 DEF Together
    <3> QED BY ONLY <1>k, <2>5, <3>1, CountOfKind
  <2>9. Cardinality(PlacesOf(list, "route")) = k6 - k5
    <3>1. Together(list, "route", k5, k6)
      BY ONLY <2>4 DEF Together
    <3> QED BY ONLY <1>k, <2>5, <3>1, CountOfKind
  <2>10. k3 - 2 = a /\ k4 - k3 = b /\ k5 - k4 = c /\ k6 - k5 = d
    BY ONLY <1>k, <1>t
  <2>11. KindsCounted(list, a, b, c, d)
    BY ONLY <2>6, <2>7, <2>8, <2>9, <2>10 DEF KindsCounted
  <2> QED BY ONLY <1>i, <2>11
<1>5. CASE ~(k6 + 1 <= dynamic)
  <2>1. a = 0 /\ b = 0 /\ c = 0 /\ d = 0 /\ k6 = 2 /\ k5 = 2 /\ k4 = 2 /\ k3 = 2
    <3>1. budget = 0
      BY ONLY <1>3, <1>5, <1>k, <1>t
    <3> QED BY ONLY <1>3, <1>k, <1>t, <3>1
  <2>m. MountsFirst(Mounted(items, dynamic), items, 0)
    <3>1. /\ 0 \in Nat /\ 0 <= Len(items) /\ \A i \in 1 .. 0 : items[i].cost = IF i = 2 THEN 2 ELSE 1
          /\ items \in Seq(ItemSet) /\ dynamic \in Nat /\ (0 = 0 \/ 0 + 1 <= dynamic)
      BY ONLY <1>2, <1>k, <1>t
    <3> QED BY ONLY <3>1, MountedHolds
  <2>2. /\ list \in Seq(ItemSet)
        /\ \A i \in 1 .. Len(list) : \E j \in 1 .. 2 : list[i] = items[j]
    <3>1. 0 + 1 = 1 /\ Len(items) = 2
      BY <1>2, <2>1
    <3> QED BY ONLY <1>i, <2>m, <3>1 DEF MountsFirst
  <2>3. ASSUME NEW i \in 1 .. Len(list)
        PROVE  list[i].kind \in {"canvas", "inspector"}
    <3>1. PICK j \in 1 .. 2 : list[i] = items[j]
      BY <2>2
    <3>2. j = 1 \/ j = 2
      OBVIOUS
    <3>3. j \in 1 .. k6
      BY <2>1, <3>1
    <3> QED BY <1>2, <3>1, <3>2, <3>3
  <2>4. ASSUME NEW kind, kind \notin {"canvas", "inspector"}
        PROVE  Cardinality(PlacesOf(list, kind)) = 0
    <3>1. DOMAIN list = 1 .. Len(list)
      BY <2>2
    <3>2. PlacesOf(list, kind) = {}
      BY <2>3, <2>4, <3>1 DEF PlacesOf
    <3> QED BY <3>2, FS_EmptySet
  <2>5. KindsCounted(list, a, b, c, d)
    BY <2>1, <2>4 DEF KindsCounted
  <2> QED BY ONLY <1>i, <2>5
<1> QED BY <1>4, <1>5

(* A map mounts every target, or there are none. *)
LEMMA GeoMounts ==
    ASSUME NEW targets, IsFiniteSet(targets), NEW markers, IsFiniteSet(markers),
           NEW dynamic \in Nat,
           targets # {} => dynamic >= Canvas + Legend + Cardinality(targets),
           NEW list, list = Mounted(GeoItems(targets, markers), dynamic)
    PROVE  Cardinality(PlacesOf(list, "target")) = Cardinality(targets)
<1>t. PICK t, l, k, items : /\ t = Cardinality(targets) /\ l = Min({1, t})
                            /\ k = Min({MaxListed, Cardinality(markers)})
                            /\ items = GeoItems(targets, markers)
  OBVIOUS
<1>0. /\ t \in Nat /\ 1 \in Nat /\ Canvas = 1 /\ Legend = 2 /\ Legend \in Nat /\ dynamic \in Nat
      /\ (t = 0 <=> targets = {})
  BY <1>t, FS_CardinalityType, FS_EmptySet DEF Canvas, Legend
<1>1. l = IF 1 <= t THEN 1 ELSE t
  <2>1. 1 \in Int /\ t \in Int
    BY <1>0
  <2> QED BY ONLY <1>t, <2>1, MinOfTwo
<1>2. k \in Nat
  <2>1. MaxListed \in Nat /\ Cardinality(markers) \in Nat
    BY FS_CardinalityType, PlanAssumption
  <2>2. MaxListed \in Int /\ Cardinality(markers) \in Int
    BY <2>1
  <2>3. k = IF MaxListed <= Cardinality(markers) THEN MaxListed ELSE Cardinality(markers)
    BY ONLY <1>t, <2>2, MinOfTwo
  <2> QED BY <2>1, <2>3
<1>s. PICK s1, s2, s3, s4, s5, k2, k3, k4, k5 :
         /\ s1 = Items("canvas", 1, Canvas) /\ s2 = s1 \o Items("legend", l, Legend)
         /\ s3 = s2 \o Items("target", t, 1) /\ s4 = s3 \o Items("list", 1, 1)
         /\ s5 = s4 \o Items("marker", k, 1)
         /\ k2 = 1 + l /\ k3 = k2 + t /\ k4 = k3 + 1 /\ k5 = k4 + k
  OBVIOUS
<1>k. /\ t \in Nat /\ l \in Nat /\ k \in Nat /\ k2 \in Nat /\ k3 \in Nat /\ k4 \in Nat /\ k5 \in Nat
      /\ k2 = 1 + l /\ k3 = k2 + t /\ k4 = k3 + 1 /\ k5 = k4 + k
      /\ 1 <= k2 /\ k2 <= k3 /\ k3 <= k4 /\ k4 <= k5
  BY ONLY <1>0, <1>1, <1>2, <1>s
<1>4. s1 \in Seq(ItemSet) /\ Len(s1) = 1 /\ s1[1].kind = "canvas" /\ s1[1].cost = 1
  BY ONLY <1>s, CanvasAlone
<1>5. /\ s2 \in Seq(ItemSet) /\ Len(s2) = k2 /\ s2[1] = s1[1]
      /\ \A i \in 1 + 1 .. k2 : s2[i].kind = "legend" /\ s2[i].cost = 2
  <2>s. "legend" \in ItemKinds
    BY DEF ItemKinds
  <2>1. s1 \in Seq(ItemSet) /\ s2 = s1 \o Items("legend", l, Legend)
    BY <1>4, <1>s
  <2>2. Added(s2, s1, "legend", l, Legend)
    BY ONLY <1>0, <1>k, <2>1, <2>s, AddItems
  <2> QED BY ONLY <1>0, <1>k, <1>4, <2>2 DEF Added
<1>6. /\ s3 \in Seq(ItemSet) /\ Len(s3) = k3 /\ \A i \in 1 .. k2 : s3[i] = s2[i]
      /\ \A i \in k2 + 1 .. k3 : s3[i].kind = "target" /\ s3[i].cost = 1
  <2>s. "target" \in ItemKinds
    BY DEF ItemKinds
  <2>1. s2 \in Seq(ItemSet) /\ s3 = s2 \o Items("target", t, 1)
    BY <1>5, <1>s
  <2>2. Added(s3, s2, "target", t, 1)
    BY ONLY <1>0, <1>k, <2>1, <2>s, AddItems
  <2> QED BY ONLY <1>k, <1>5, <2>2 DEF Added
<1>7. /\ s4 \in Seq(ItemSet) /\ Len(s4) = k4 /\ \A i \in 1 .. k3 : s4[i] = s3[i]
      /\ \A i \in k3 + 1 .. k4 : s4[i].kind = "list" /\ s4[i].cost = 1
  <2>s. "list" \in ItemKinds
    BY DEF ItemKinds
  <2>1. s3 \in Seq(ItemSet) /\ s4 = s3 \o Items("list", 1, 1)
    BY <1>6, <1>s
  <2>2. Added(s4, s3, "list", 1, 1)
    BY ONLY <1>0, <1>k, <2>1, <2>s, AddItems
  <2> QED BY ONLY <1>k, <1>6, <2>2 DEF Added
<1>8. /\ s5 \in Seq(ItemSet) /\ Len(s5) = k5 /\ \A i \in 1 .. k4 : s5[i] = s4[i]
      /\ \A i \in k4 + 1 .. k5 : s5[i].kind = "marker" /\ s5[i].cost = 1
  <2>s. "marker" \in ItemKinds
    BY DEF ItemKinds
  <2>1. s4 \in Seq(ItemSet) /\ s5 = s4 \o Items("marker", k, 1)
    BY <1>7, <1>s
  <2>2. Added(s5, s4, "marker", k, 1)
    BY ONLY <1>0, <1>k, <2>1, <2>s, AddItems
  <2> QED BY ONLY <1>k, <1>7, <2>2 DEF Added
<1>9. items = s5
  BY ONLY <1>s, <1>t DEF GeoItems
<1>11. ASSUME NEW i \in 1 .. k5
       PROVE  /\ s5[i].kind = "target" <=> k2 < i /\ i <= k3
              /\ i <= k3 => s5[i].cost = IF i = 1 THEN 1 ELSE IF i <= k2 THEN 2 ELSE 1
  <2>i. i \in Nat /\ i >= 1 /\ i <= k5
    <3>1. i \in 1 .. k5 /\ k5 \in Nat
      BY ONLY <1>k, i \in 1 .. k5
    <3> QED BY ONLY <3>1
  <2>1. CASE i = 1
    <3>1. i \in 1 .. k2 /\ i \in 1 .. k3 /\ i \in 1 .. k4
      BY ONLY <1>k, <2>1
    <3>2. s5[i] = s1[1]
      BY ONLY <1>5, <1>6, <1>7, <1>8, <3>1, <2>1
    <3> QED BY ONLY <1>k, <1>4, <2>1, <3>2
  <2>2. CASE 1 < i /\ i <= k2
    <3>1. i \in 1 + 1 .. k2 /\ i \in 1 .. k2 /\ i \in 1 .. k3 /\ i \in 1 .. k4
      BY ONLY <1>k, <2>2, <2>i
    <3>2. s5[i].kind = "legend" /\ s5[i].cost = 2
      BY ONLY <1>5, <1>6, <1>7, <1>8, <3>1
    <3> QED BY ONLY <1>k, <2>2, <2>i, <3>2
  <2>3. CASE k2 < i /\ i <= k3
    <3>1. i \in k2 + 1 .. k3 /\ i \in 1 .. k3 /\ i \in 1 .. k4
      BY ONLY <1>k, <2>3, <2>i
    <3>2. s5[i].kind = "target" /\ s5[i].cost = 1
      BY ONLY <1>6, <1>7, <1>8, <3>1
    <3> QED BY ONLY <1>k, <2>3, <2>i, <3>2
  <2>4. CASE k3 < i /\ i <= k4
    <3>1. i \in k3 + 1 .. k4 /\ i \in 1 .. k4
      BY ONLY <1>k, <2>4, <2>i
    <3>2. s5[i].kind = "list"
      BY ONLY <1>7, <1>8, <3>1
    <3> QED BY ONLY <1>k, <2>4, <2>i, <3>2
  <2>5. CASE k4 < i
    <3>1. i \in k4 + 1 .. k5
      BY ONLY <1>k, <2>5, <2>i
    <3>2. s5[i].kind = "marker"
      BY ONLY <1>8, <3>1
    <3> QED BY ONLY <1>k, <2>5, <2>i, <3>2
  <2>6. i = 1 \/ (1 < i /\ i <= k2) \/ (k2 < i /\ i <= k3) \/ (k3 < i /\ i <= k4) \/ k4 < i
    BY ONLY <1>k, <2>i
  <2> QED BY ONLY <2>1, <2>2, <2>3, <2>4, <2>5, <2>6
<1>c. PICK c : c = IF t = 0 THEN 0 ELSE k3
  OBVIOUS
<1>12. /\ c \in Nat /\ c <= k5 /\ c <= k3 /\ (c = 0 \/ c + 1 <= dynamic)
       /\ ((c = 0 /\ t = 0 /\ l = 0) \/ (c = k3 /\ l = 1))
  <2>1. CASE t = 0
    <3>1. c = 0 /\ l = 0
      BY ONLY <1>c, <1>1, <2>1
    <3> QED BY ONLY <1>k, <2>1, <3>1
  <2>2. CASE t # 0
    <3>1. dynamic >= 3 + t
      BY <1>0, <1>t, <2>2
    <3> QED BY ONLY <1>c, <1>k, <1>0, <1>1, <2>2, <3>1
  <2> QED BY ONLY <2>1, <2>2
<1>13. ASSUME NEW i \in 1 .. c
       PROVE  s5[i].cost = IF i = 2 THEN 2 ELSE 1
  <2>1. c # 0 /\ i \in Nat /\ i >= 1 /\ i <= c
    <3>1. i \in 1 .. c /\ c \in Nat
      BY ONLY <1>12, i \in 1 .. c
    <3> QED BY ONLY <3>1
  <2>2. i \in 1 .. k5 /\ i <= k3 /\ k2 = 2
    BY ONLY <1>12, <1>k, <2>1
  <2> QED BY ONLY <1>11, <2>1, <2>2
<1>m. MountsFirst(Mounted(s5, dynamic), s5, c)
  <2>1. /\ s5 \in Seq(ItemSet) /\ dynamic \in Nat /\ c \in Nat /\ c <= Len(s5)
        /\ (c = 0 \/ c + 1 <= dynamic)
        /\ \A i \in 1 .. c : s5[i].cost = IF i = 2 THEN 2 ELSE 1
    BY ONLY <1>0, <1>12, <1>13, <1>8
  <2> QED BY ONLY <2>1, MountedHolds
<1>14. /\ list \in Seq(ItemSet) /\ Len(list) >= c /\ Len(list) \in Nat
       /\ \A i \in 1 .. c : list[i] = s5[i]
       /\ \A i \in c + 1 .. Len(list) : \E j \in c + 1 .. k5 : list[i] = s5[j]
  <2>0. list = Mounted(s5, dynamic)
    BY <1>t, <1>9
  <2>1. list \in Seq(ItemSet)
    BY ONLY <1>m, <2>0 DEF MountsFirst
  <2>2. Len(list) \in Nat
    BY ONLY <2>1
  <2> QED BY ONLY <1>m, <1>8, <2>0, <2>2 DEF MountsFirst
<1>15. PICK lo : lo = c - t
  OBVIOUS
<1>16. lo \in Nat /\ lo <= c /\ c <= Len(list) /\ c \in Nat /\ c - lo = t
  BY ONLY <1>0, <1>k, <1>12, <1>14, <1>15
<1>17. ASSUME NEW i \in 1 .. Len(list)
       PROVE  list[i].kind = "target" <=> lo < i /\ i <= c
  <2>i. i \in Nat /\ i >= 1 /\ i <= Len(list)
    <3>1. i \in 1 .. Len(list) /\ Len(list) \in Nat
      BY ONLY <1>14, i \in 1 .. Len(list)
    <3> QED BY ONLY <3>1
  <2>1. CASE i <= c
    <3>1. i \in 1 .. c /\ i \in 1 .. k5 /\ c = k3 /\ lo = k2
      BY ONLY <1>k, <1>12, <1>15, <2>i, <2>1
    <3> QED BY ONLY <1>11, <1>14, <3>1
  <2>2. CASE ~(i <= c)
    <3>1. i \in c + 1 .. Len(list)
      BY ONLY <2>2, <2>i, <1>12
    <3>2. PICK j \in c + 1 .. k5 : list[i] = s5[j]
      BY ONLY <1>14, <3>1
    <3>3. j \in 1 .. k5 /\ ~(k2 < j /\ j <= k3)
      <4>1. j \in c + 1 .. k5
        BY ONLY <3>2
      <4> QED BY ONLY <1>12, <1>k, <4>1
    <3>4. s5[j].kind # "target"
      BY ONLY <1>11, <3>3
    <3> QED BY ONLY <2>2, <3>2, <3>4
  <2> QED BY <2>1, <2>2
<1>18. Cardinality(PlacesOf(list, "target")) = c - lo
  <2>1. Together(list, "target", lo, c) /\ list \in Seq(ItemSet)
    BY ONLY <1>14, <1>17 DEF Together
  <2> QED BY ONLY <1>16, <2>1, CountOfKind
<1> QED BY ONLY <1>16, <1>18, <1>t

-----------------------------------------------------------------------------
(* What is shown of a plan is of the report.                               *)

LEMMA NodesAreNumbered ==
    ASSUME NEW rep \in ReportSet, NEW limit \in Int, NEW t, Selects(t, rep, limit)
    PROVE  DOMAIN t.nodes \in SUBSET Nat /\ IsFiniteSet(DOMAIN t.nodes) /\ Numbered(t)
<1>k. PICK routes, st, ks, c : /\ routes = RoutesOf(rep) /\ st = Chosen(rep, limit)
                               /\ ks = SelectedKeys(st, routes) /\ c = Len(ks)
  OBVIOUS
<1>1. routes \in Seq(TraceSet) /\ SelectionInv(st, routes)
  BY <1>k, ChosenHolds
<1>2. ks \in Seq(Keys)
  BY <1>1, <1>k, SelectedKeysHold
<1>3. c \in Nat /\ DOMAIN ks = 1 .. c
  BY <1>2, <1>k
<1>4. DOMAIN t.nodes = 1 .. c /\ Numbered(t)
  BY <1>3, <1>k DEF Selects
<1>5. IsFiniteSet(1 .. c)
  <2>1. 1 \in Int /\ c \in Int
    BY <1>3
  <2> QED BY ONLY <2>1, FS_Interval
<1> QED BY <1>3, <1>4, <1>5

(* The routes of a plan are of traces, and their hops are those it has the *)
(* nodes and links of.                                                     *)
RouteKeys(routes) == [k \in DOMAIN routes |-> PlannedKeys(routes[k])]

RoutesOfTraces(routes) ==
    /\ DOMAIN routes = 1 .. Len(routes) /\ Len(routes) \in Nat
    /\ \A k \in DOMAIN routes :
          /\ OfTrace(routes[k]) /\ routes[k].complete \in BOOLEAN
          /\ routes[k].node_ids \in Seq(ToSet(routes[k].node_ids))

LEMMA PlannedRoutesFollow ==
    ASSUME PipelineInv, ModelInv, phase = "planned",
           NEW fm, fm = FilterTopologyModel(model, input.selected), NEW st, NEW p, CutsOf(p, fm, st),
           NEW budget, PlanInv(st, fm, budget)
    PROVE  RoutesOfTraces(p.routes) /\ Described(fm, st, p.routes, RouteKeys(p.routes))
<1>1. Told \in ReportSet /\ {"nodes", "links", "routes"} \subseteq DOMAIN model
  BY ModelSelects
<1>l. PICK limit \in Int : Selects(model, Told, limit)
  BY ModelSelects
<1>2. Plannable(model) /\ Follows(model, Told)
  BY <1>1, <1>l, SelectsPlannable, SelectionFollows
<1>3. DOMAIN model.nodes \in SUBSET Nat /\ IsFiniteSet(DOMAIN model.nodes) /\ Numbered(model)
  BY <1>1, <1>l, NodesAreNumbered
<1>4. /\ Plannable(fm)
      /\ \A k \in DOMAIN fm.routes : \E i \in DOMAIN model.routes :
            fm.routes[k] = model.routes[i] /\ model.routes[i].result \in input.selected
  BY <1>1, <1>2, FilterKeeps
<1>5. DOMAIN p.routes = 1 .. Len(p.routes) /\ Len(p.routes) = Len(st.taken) /\ Len(p.routes) \in Nat
  <2>1. Len(st.taken) \in Nat
    BY PlanTypes
  <2> QED BY <2>1 DEF CutsOf
<1>6. ASSUME NEW k \in DOMAIN p.routes
      PROVE  LET path == p.routes[k]
                 ids == path.node_ids
             IN  /\ OfTrace(path) /\ {"node_ids", "complete"} \subseteq DOMAIN path
                 /\ path.complete \in BOOLEAN /\ ids \in Seq(ToSet(ids))
                 /\ DOMAIN PlannedKeys(path) = DOMAIN ids
                 /\ \A i \in DOMAIN ids : KindOf(fm, ids[i]) = PlannedKeys(path)[i].kind
                 /\ \A i \in 1 .. Len(ids) - 1 : Contains(st.links, <<ids[i], ids[i + 1]>>)
  <2>o. PICK own, path, all, ids, c :
           /\ own = st.taken[k] /\ path = p.routes[k] /\ all = fm.routes[own.route].node_ids
           /\ ids = path.node_ids /\ c = own.cursor
    BY Zenon
  <2>1. /\ own.route \in DOMAIN fm.routes /\ IsCut(path, fm.routes[own.route])
        /\ ids = [n \in 1 .. c |-> all[n]] /\ Len(ids) = c /\ c \in 1 .. Len(all)
        /\ all \in Seq(PathIds(fm))
        /\ {"node_ids", "complete"} \subseteq DOMAIN path /\ path.complete \in BOOLEAN
    BY <2>o, Zenon DEF CutsOf
  <2>2. PICK i \in DOMAIN model.routes :
           fm.routes[own.route] = model.routes[i] /\ model.routes[i].result \in input.selected
    BY <1>4, <2>1
  <2>3. OfTrace(path)
    BY <1>1, <1>2, <2>1, <2>2, CutOfTrace
  <2>4. c \in Nat /\ DOMAIN ids = 1 .. c /\ ids \in Seq(ToSet(ids))
    <3>1. c \in Nat /\ DOMAIN ids = 1 .. c /\ ids = [n \in 1 .. c |-> ids[n]]
      BY <2>1
    <3> QED BY ONLY <3>1, SeqOfValues
  <2>5. PICK keys : keys = PlannedKeys(path)
    BY Zenon
  <2>6. DOMAIN keys = 1 .. c /\ \A n \in 1 .. c : keys[n] = TraceOf(path)[n]
    BY <2>1, <2>5, <2>o, Zenon DEF PlannedKeys
  <2>7. ASSUME NEW n \in 1 .. c
        PROVE  KindOf(fm, ids[n]) = keys[n].kind
    <3>1. PICK x \in DOMAIN model.nodes : ids[n] = <<x>> /\ model.nodes[x].key = TraceOf(path)[n]
      <4>1. n \in 1 .. Len(path.node_ids)
        BY <2>1, <2>o, Zenon
      <4>2. \A m \in 1 .. Len(path.node_ids) : \E x \in DOMAIN model.nodes :
               path.node_ids[m] = <<x>> /\ model.nodes[x].key = TraceOf(path)[m]
        BY ONLY <2>3 DEF OfTrace
      <4> QED BY ONLY <2>o, <4>1, <4>2, Zenon
    <3>2. <<x>> \in PathIds(fm)
      <4>1. n \in DOMAIN all /\ ids[n] = all[n] /\ \A y \in DOMAIN all : all[y] \in PathIds(fm)
        BY <2>1
      <4> QED BY <3>1, <4>1
    <3>3. KindOf(fm, <<x>>) = model.nodes[x].key.kind
      BY <1>1, <1>3, <3>2, KindHolds
    <3> QED BY <2>6, <3>1, <3>3
  <2>8. ASSUME NEW n \in 1 .. c - 1
        PROVE  Contains(st.links, <<ids[n], ids[n + 1]>>)
    <3>1. Along(st.nodes, st.links, all, c)
      <4>1. k \in DOMAIN st.taken
        BY <1>5, PlanTypes
      <4> QED BY <2>o, <4>1 DEF PlanInv
    <3>2. Holds(st.links, <<all[n], all[n + 1]>>)
      BY <3>1 DEF Along
    <3>3. DOMAIN st.links = 1 .. Len(st.links)
      <4>1. st.links \in Seq(LinkPairs(fm))
        BY PlanTypes
      <4> QED BY <4>1
    <3>4. ids[n] = all[n] /\ ids[n + 1] = all[n + 1]
      <4>1. n \in 1 .. c /\ n + 1 \in 1 .. c
        BY <2>4
      <4> QED BY <2>1, <4>1
    <3> QED BY <3>2, <3>3, <3>4 DEF Holds, Contains
  <2>9. /\ OfTrace(path) /\ {"node_ids", "complete"} \subseteq DOMAIN path
        /\ path.complete \in BOOLEAN /\ ids \in Seq(ToSet(ids))
        /\ DOMAIN keys = DOMAIN ids
        /\ \A n \in DOMAIN ids : KindOf(fm, ids[n]) = keys[n].kind
        /\ \A n \in 1 .. Len(ids) - 1 : Contains(st.links, <<ids[n], ids[n + 1]>>)
    BY ONLY <2>1, <2>3, <2>4, <2>6, <2>7, <2>8
  <2> QED BY ONLY <2>5, <2>9, <2>o
<1>7. RoutesOfTraces(p.routes)
  BY <1>5, <1>6 DEF RoutesOfTraces
<1>8. \A k \in DOMAIN p.routes : RouteKeys(p.routes)[k] = PlannedKeys(p.routes[k])
  BY DEF RouteKeys
<1>9. Described(fm, st, p.routes, RouteKeys(p.routes))
  BY ONLY <1>6, <1>8 DEF Described
<1> QED BY <1>7, <1>9

(* What a view shows, in the terms of what it is made of. *)
Vacant == Max({0, input.remaining - ViewReserve})
Targets == {plan.routes[k].result : k \in DOMAIN plan.routes}

Pictured(tokens, omitted, budget) ==
    /\ input.remaining \in Nat /\ input.show \in BOOLEAN
    /\ ValidateTopology(plan.nodes, plan.links, plan.routes)
    /\ \E X : plan.nodes \in Seq(X)
    /\ DOMAIN plan.links = 1 .. Len(plan.links)
    /\ \A n \in DOMAIN plan.links : plan.links[n][1] # plan.links[n][2]
    /\ RoutesOfTraces(plan.routes)
    /\ AllTokens(tokens, plan.routes, RouteKeys(plan.routes), input.show)
    /\ Presents(plan.presentation, omitted, plan.links, plan.routes, tokens, budget)
    /\ omitted > 0 => "presentation_budget" \in plan.reasons
    /\ plan.view = "topology" => budget = Max({0, Vacant - Canvas - Inspector})
    /\ plan.renderable => /\ Renderable(plan.view, Targets, input.remaining, Vacant)
                          /\ \E markers \in SUBSET ToSet(plan.nodes) :
                                plan.mount = Mounted(IF plan.view = "topology" THEN TopologyItems(plan.presentation)
                                                     ELSE GeoItems(Targets, markers), Vacant)

LEMMA PlanIsPictured ==
    ASSUME PipelineInv, ModelInv, IsPlanned, phase = "planned"
    PROVE  \E tokens, omitted, budget : Pictured(tokens, omitted, budget)
<1>m. PICK fm, show, remaining : /\ fm = FilterTopologyModel(model, input.selected)
                                 /\ show = input.show /\ remaining = input.remaining
  OBVIOUS
<1>1. PICK view : /\ plan = PlanTopologyDOM(fm, view, show, remaining)
                  /\ remaining \in Nat /\ show \in BOOLEAN
  BY <1>m DEF IsPlanned
<1>2. Plannable(fm)
  <2>1. Told \in ReportSet /\ {"nodes", "links", "routes"} \subseteq DOMAIN model
    BY ModelSelects
  <2>2. Plannable(model)
    BY <2>1, ModelSelects, SelectsPlannable
  <2> QED BY <1>m, <2>1, <2>2, FilterKeeps
<1>3. PlanParts(plan, fm, view, show, remaining)
  BY <1>1, PlanFields
<1>b. PICK budget, st : budget = ElementBudget(fm, view, remaining) /\ st = Admitted(fm, budget)
  OBVIOUS
<1>4. budget \in Nat /\ PlanInv(st, fm, budget) /\ CutsOf(plan, fm, st)
  BY <1>1, <1>2, <1>3, <1>b, PlanRoutesHold
<1>5. RoutesOfTraces(plan.routes) /\ Described(fm, st, plan.routes, RouteKeys(plan.routes))
  BY <1>4, <1>m, PlannedRoutesFollow
<1>y. PICK y : y = PresentTopology(fm, st, plan.routes, show, budget)
  BY Zenon
<1>6. /\ plan.view = view /\ plan.nodes = st.nodes /\ plan.links = st.links
      /\ plan.presentation = y.shown
      /\ plan.renderable <=> Renderable(view, Targets, remaining, Vacant)
      /\ plan.renderable => \E markers \in SUBSET ToSet(st.nodes) :
              plan.mount = Mounted(IF view = "topology" THEN TopologyItems(y.shown)
                                ELSE GeoItems(Targets, markers), Vacant)
      /\ plan.reasons = PlanReasons(fm, st, plan.routes, plan.renderable, y)
  BY ONLY <1>3, <1>b, <1>m, <1>y, Zenon DEF PlanParts, Targets, Vacant
<1>7. st.links \in Seq(LinkPairs(fm)) /\ st.nodes \in Seq(PathIds(fm)) /\ st.cost \in Nat
      /\ Len(st.taken) \in Nat /\ Len(st.nodes) \in Nat /\ Len(st.links) \in Nat
  BY <1>4, PlanTypes
<1>8. DOMAIN st.links = 1 .. Len(st.links)
  BY <1>7
<1>9. Len(plan.routes) <= budget /\ Len(plan.routes) \in Nat /\ DOMAIN plan.routes = 1 .. Len(plan.routes)
  <2>1. Len(plan.routes) = Len(st.taken)
    BY <1>4 DEF CutsOf
  <2>2. st.cost = Len(st.nodes) + Len(st.links) + Len(st.taken) /\ st.cost <= budget
    BY <1>4 DEF PlanInv
  <2>3. DOMAIN plan.routes = 1 .. Len(plan.routes)
    BY <1>5 DEF RoutesOfTraces
  <2>4. Len(st.taken) <= budget
    <3>n. PICK a, b, c, d : /\ a = Len(st.nodes) /\ b = Len(st.links) /\ c = Len(st.taken)
                            /\ d = st.cost
      OBVIOUS
    <3>1. a \in Nat /\ b \in Nat /\ c \in Nat /\ budget \in Nat /\ d = a + b + c /\ d <= budget
      BY <1>4, <1>7, <2>2, <3>n
    <3>2. c <= budget
      BY ONLY <3>1
    <3> QED BY ONLY <3>2, <3>n
  <2> QED BY ONLY <1>7, <2>1, <2>3, <2>4
<1>10. PICK tokens : /\ AllTokens(tokens, plan.routes, RouteKeys(plan.routes), show)
                     /\ Presents(y.shown, y.omitted, st.links, plan.routes, tokens, budget)
  <2>1. show \in BOOLEAN /\ budget \in Nat
    BY <1>1, <1>4
  <2> QED BY ONLY <1>5, <1>8, <1>9, <1>y, <2>1, PresentedHolds
<1>11. Presents(plan.presentation, y.omitted, plan.links, plan.routes, tokens, budget)
  BY ONLY <1>6, <1>10
<1>12. y.omitted > 0 => "presentation_budget" \in plan.reasons
  BY ONLY <1>6 DEF PlanReasons
<1>13. ValidateTopology(plan.nodes, plan.links, plan.routes)
  <2>1. PlanOf(plan, fm, view, remaining)
    BY <1>1, <1>2, PlanHolds
  <2> QED BY <2>1 DEF PlanOf
<1>14. plan.view = "topology" => budget = Max({0, Vacant - Canvas - Inspector})
  BY <1>6, <1>b, <1>m DEF ElementBudget, Vacant
<1>15. \A n \in DOMAIN plan.links : plan.links[n][1] # plan.links[n][2]
  BY ONLY <1>13 DEF ValidateTopology
<1>16. \E X : plan.nodes \in Seq(X)
  BY <1>6, <1>7
<1>17. plan.renderable => /\ Renderable(plan.view, Targets, input.remaining, Vacant)
                          /\ \E markers \in SUBSET ToSet(plan.nodes) :
                                plan.mount = Mounted(IF plan.view = "topology" THEN TopologyItems(plan.presentation)
                                                     ELSE GeoItems(Targets, markers), Vacant)
  BY ONLY <1>6, <1>m
<1>18. DOMAIN plan.links = 1 .. Len(plan.links)
  BY ONLY <1>6, <1>8
<1>19. /\ AllTokens(tokens, plan.routes, RouteKeys(plan.routes), input.show)
       /\ input.remaining \in Nat /\ input.show \in BOOLEAN
  BY ONLY <1>1, <1>10, <1>m
<1>20. Pictured(tokens, y.omitted, budget)
  BY ONLY <1>5, <1>11, <1>12, <1>13, <1>14, <1>15, <1>16, <1>17, <1>18, <1>19 DEF Pictured
<1> QED BY <1>20

(* It passes the checks that are made before it is drawn. *)
LEMMA PicturedProjects ==
    ASSUME NEW tokens, NEW omitted, NEW budget, Pictured(tokens, omitted, budget)
    PROVE  ProjectTopology(plan)
<1>p. PICK p : p = plan.presentation
  OBVIOUS
<1>1. /\ ValidateTopology(plan.nodes, plan.links, plan.routes)
      /\ DOMAIN plan.links = 1 .. Len(plan.links)
      /\ \A n \in DOMAIN plan.links : plan.links[n][1] # plan.links[n][2]
      /\ Presents(p, omitted, plan.links, plan.routes, tokens, budget)
      /\ RoutesOfTraces(plan.routes)
  BY <1>p DEF Pictured
<1>2. /\ Distinctly(p.nodes) /\ Distinctly(p.links)
      /\ Len(p.nodes) \in Nat /\ Len(p.links) \in Nat /\ Len(p.connectors) \in Nat
      /\ Len(p.nodes) <= MaxNodes /\ Len(p.links) + Len(p.connectors) <= MaxLinks
      /\ \A i \in DOMAIN p.links :
            /\ {p.links[i][1], p.links[i][2]} \subseteq ToSet(p.nodes)
            /\ Contains(plan.links, p.links[i])
      /\ \A i, j \in DOMAIN p.connectors : p.connectors[i].id = p.connectors[j].id => i = j
      /\ \A i \in DOMAIN p.connectors : {p.connectors[i].from, p.connectors[i].to} \subseteq ToSet(p.nodes)
      /\ DOMAIN p.routes = DOMAIN plan.routes
      /\ \A k \in DOMAIN plan.routes : \E d \in 0 .. Len(tokens[k]) :
          /\ IsShown(p.routes[k], plan.routes[k], tokens[k], d)
          /\ \A n \in 1 .. d : tokens[k][n].id \in ToSet(p.nodes)
  BY ONLY <1>1 DEF Presents
<1>3. \A i \in DOMAIN p.links : p.links[i] \in ToSet(plan.links) /\ p.links[i][1] # p.links[i][2]
  <2>1. SUFFICES ASSUME NEW i \in DOMAIN p.links
                 PROVE  p.links[i] \in ToSet(plan.links) /\ p.links[i][1] # p.links[i][2]
    OBVIOUS
  <2>2. PICK n \in 1 .. Len(plan.links) : plan.links[n] = p.links[i]
    BY <1>2 DEF Contains
  <2>3. n \in DOMAIN plan.links
    BY <1>1
  <2> QED BY <1>1, <2>2, <2>3 DEF ToSet
<1>4. Len(p.links) <= MaxLinks
  <2>n. PICK a, b : a = Len(p.links) /\ b = Len(p.connectors)
    OBVIOUS
  <2>1. a \in Nat /\ b \in Nat /\ MaxLinks \in Nat /\ a + b <= MaxLinks
    BY <1>2, <2>n, PrefixAssumption
  <2>2. a <= MaxLinks
    BY ONLY <2>1
  <2> QED BY ONLY <2>2, <2>n
<1>5. ValidateTopology(p.nodes, p.links, <<>>)
  <2>1. IsInjective(p.nodes) /\ IsInjective(p.links)
    BY ONLY <1>2 DEF IsInjective, Distinctly
  <2>2. DOMAIN <<>> = {}
    OBVIOUS
  <2> QED BY ONLY <1>2, <1>3, <1>4, <2>1, <2>2 DEF ValidateTopology
<1>6. ToSet(p.links) \subseteq ToSet(plan.links)
  BY <1>3 DEF ToSet
<1>7. ASSUME NEW k \in DOMAIN p.routes
      PROVE  ToSet(p.routes[k].node_ids) \subseteq ToSet(p.nodes)
  <2>1. PICK d \in 0 .. Len(tokens[k]) :
          /\ IsShown(p.routes[k], plan.routes[k], tokens[k], d)
          /\ \A n \in 1 .. d : tokens[k][n].id \in ToSet(p.nodes)
    BY <1>2
  <2>i. PICK ids : ids = p.routes[k].node_ids
    OBVIOUS
  <2>2. ids = [n \in 1 .. d |-> tokens[k][n].id]
    BY <2>1, <2>i DEF IsShown
  <2>3. DOMAIN ids = 1 .. d /\ \A n \in 1 .. d : ids[n] \in ToSet(p.nodes)
    BY <2>1, <2>2
  <2>4. ToSet(ids) \subseteq ToSet(p.nodes)
    BY ONLY <2>3 DEF ToSet
  <2> QED BY <2>4, <2>i
<1>8. IsInjective([i \in DOMAIN p.connectors |-> p.connectors[i].id])
  <2>f. PICK f : f = [i \in DOMAIN p.connectors |-> p.connectors[i].id]
    OBVIOUS
  <2>1. DOMAIN f = DOMAIN p.connectors /\ \A i \in DOMAIN f : f[i] = p.connectors[i].id
    BY <2>f
  <2>2. IsInjective(f)
    BY ONLY <1>2, <2>1 DEF IsInjective
  <2> QED BY <2>2, <2>f
<1> QED BY ONLY <1>1, <1>2, <1>5, <1>6, <1>7, <1>8, <1>p DEF ProjectTopology

(* A route it shows begins like the trace of its attempt, and every step   *)
(* is drawn.                                                               *)
ShowsTrace(k, whole) ==
    LET p == plan.presentation
        path == p.routes[k]
        shown == KeysOf(path.node_ids)
        trace == Trace(path.result, path.attempt)
    IN  /\ path.result = plan.routes[k].result /\ path.attempt = plan.routes[k].attempt
        /\ IsPrefix(shown, Folded(trace, input.show))
        /\ \A i \in 1 .. Len(shown) - 1 :
              \/ Contains(p.links, <<path.node_ids[i], path.node_ids[i + 1]>>)
              \/ <<1, k, i + 1>> \in {p.connectors[c].id : c \in DOMAIN p.connectors}
        /\ path.complete => shown = Folded(trace, input.show)
        /\ whole /\ plan.routes[k].complete => shown = Folded(trace, input.show)

LEMMA PicturedRoutes ==
    ASSUME NEW tokens, NEW omitted, NEW budget, Pictured(tokens, omitted, budget),
           NEW k \in DOMAIN plan.routes
    PROVE  ShowsTrace(k, ~(omitted > 0))
<1>p. PICK p, show : p = plan.presentation /\ show = input.show
  OBVIOUS
<1>w. PICK path, own, toks, ids, keys, trace, c :
         /\ path = p.routes[k] /\ own = plan.routes[k] /\ toks = tokens[k]
         /\ ids = own.node_ids /\ keys = PlannedKeys(own) /\ trace = TraceOf(own) /\ c = Len(ids)
  OBVIOUS
<1>1. /\ Presents(p, omitted, plan.links, plan.routes, tokens, budget)
      /\ RoutesOfTraces(plan.routes) /\ AllTokens(tokens, plan.routes, RouteKeys(plan.routes), show)
      /\ show \in BOOLEAN
  BY <1>p DEF Pictured
<1>2. OfTrace(own) /\ own.complete \in BOOLEAN /\ ids \in Seq(ToSet(ids))
  BY <1>1, <1>w DEF RoutesOfTraces
<1>3. c \in Nat /\ DOMAIN ids = 1 .. c
  BY <1>2, <1>w
<1>4. /\ trace \in Seq(Keys) /\ trace \in HopLists /\ c <= Len(trace)
      /\ own.complete <=> c = Len(trace)
      /\ \A n \in 1 .. c : \E x \in DOMAIN model.nodes : ids[n] = <<x>> /\ model.nodes[x].key = trace[n]
  BY ONLY <1>2, <1>w DEF OfTrace
<1>5. /\ keys = [n \in 1 .. c |-> trace[n]] /\ keys \in Seq(Keys) /\ DOMAIN keys = DOMAIN ids
  <2>1. keys = [n \in 1 .. c |-> trace[n]]
    BY <1>w DEF PlannedKeys
  <2>2. keys \in [1 .. c -> Keys]
    <3>1. \A n \in 1 .. c : n \in DOMAIN trace /\ trace[n] \in Keys
      BY <1>3, <1>4
    <3> QED BY ONLY <2>1, <3>1
  <2> QED BY <1>3, <2>1, <2>2
<1>6. AreTokens(toks, ids, keys, k, show)
  <2>1. RouteKeys(plan.routes)[k] = keys
    BY <1>w DEF RouteKeys
  <2> QED BY <1>1, <1>w, <2>1 DEF AllTokens
<1>S. PICK S, all : S = ShownPlaces(keys, show) /\ all = At(Masked(keys), S)
  OBVIOUS
<1>7. DOMAIN toks = 1 .. Cardinality(S) /\ Len(toks) = Cardinality(S) /\ Cardinality(S) \in Nat
  BY <1>6, <1>S DEF AreTokens
<1>8. \A n \in DOMAIN toks : KeyOf(toks[n].id) = all[n]
  <2>1. \A i \in DOMAIN ids : \E x \in DOMAIN model.nodes : ids[i] = <<x>> /\ model.nodes[x].key = keys[i]
    BY <1>3, <1>4, <1>5
  <2>2. \A n \in DOMAIN toks : KeyOf(toks[n].id) = At(Masked(keys), ShownPlaces(keys, show))[n]
    <3>X. PICK X : X = ToSet(ids)
      OBVIOUS
    <3>1. ids \in Seq(X) /\ keys \in Seq(Keys) /\ DOMAIN keys = DOMAIN ids /\ show \in BOOLEAN
      BY ONLY <1>1, <1>2, <1>5, <3>X
    <3> QED BY ONLY <1>6, <2>1, <3>1, TokenKeys
  <2> QED BY <1>S, <2>2
<1>9. PICK d \in 0 .. Len(toks) :
         /\ IsShown(path, own, toks, d)
         /\ \A n \in 1 .. d : n > 1 => Linked(p, tokens, k, n)
         /\ ~(omitted > 0) => d = Len(toks)
  BY ONLY <1>1, <1>w, k \in DOMAIN plan.routes DEF Presents
<1>10. /\ path.result = own.result /\ path.attempt = own.attempt
       /\ path.node_ids = [n \in 1 .. d |-> toks[n].id]
       /\ path.complete <=> own.complete /\ d = Len(toks)
  BY ONLY <1>9 DEF IsShown
<1>11. d \in Nat /\ d <= Cardinality(S) /\ \A n \in 1 .. d : n \in DOMAIN toks
  BY <1>7, <1>9
<1>s. PICK shown : shown = KeysOf(path.node_ids)
  OBVIOUS
<1>12. shown = [n \in 1 .. d |-> all[n]]
  <2>i. PICK drawn : drawn = path.node_ids
    OBVIOUS
  <2>1. DOMAIN drawn = 1 .. d /\ \A n \in 1 .. d : drawn[n] = toks[n].id
    BY <1>10, <2>i
  <2>2. shown = [n \in DOMAIN drawn |-> KeyOf(drawn[n])]
    BY <1>s, <2>i DEF KeysOf
  <2>3. \A n \in 1 .. d : KeyOf(drawn[n]) = all[n]
    BY <1>8, <1>11, <2>1
  <2> QED BY ONLY <2>1, <2>2, <2>3
<1>13. Folded(trace, show) = At(Masked(trace), ShownPlaces(trace, show))
  <2>1. \A n \in 1 .. Len(trace) - 1 : trace[n] # trace[n + 1]
    BY <1>4 DEF HopLists
  <2> QED BY ONLY <1>1, <1>4, <2>1, FoldedHolds
<1>14. /\ IsPrefix(shown, Folded(trace, show))
       /\ c = Len(trace) /\ d = Cardinality(S) => shown = Folded(trace, show)
  <2>1. shown = [n \in 1 .. d |-> At(Masked(keys), ShownPlaces(keys, show))[n]]
    BY ONLY <1>12, <1>S
  <2>2. d \in Nat /\ d <= Cardinality(ShownPlaces(keys, show))
    BY <1>11, <1>S
  <2>3. /\ IsPrefix(shown, At(Masked(trace), ShownPlaces(trace, show)))
        /\ c = Len(trace) /\ d = Cardinality(ShownPlaces(keys, show)) =>
              shown = At(Masked(trace), ShownPlaces(trace, show))
    BY ONLY <1>1, <1>3, <1>4, <1>5, <2>1, <2>2, FoldedBegins
  <2> QED BY ONLY <1>13, <1>S, <2>3
<1>15. Trace(path.result, path.attempt) = trace
  BY <1>10, <1>w DEF TraceOf
<1>16. path.complete => shown = Folded(trace, show)
  BY <1>4, <1>7, <1>10, <1>14
<1>17. ~(omitted > 0) /\ own.complete => shown = Folded(trace, show)
  BY <1>4, <1>7, <1>9, <1>14
<1>18. ASSUME NEW i \in 1 .. Len(shown) - 1
       PROVE  \/ Contains(p.links, <<path.node_ids[i], path.node_ids[i + 1]>>)
              \/ <<1, k, i + 1>> \in {p.connectors[n].id : n \in DOMAIN p.connectors}
  <2>1. Len(shown) = d
    BY <1>11, <1>12
  <2>n. PICK n : n = i + 1
    OBVIOUS
  <2>2. i \in 1 .. d /\ n \in 1 .. d /\ n > 1 /\ n - 1 = i
    BY <1>11, <2>1, <2>n
  <2>3. Linked(p, tokens, k, n)
    BY <1>9, <2>2
  <2>4. path.node_ids[i] = toks[i].id /\ path.node_ids[n] = toks[n].id
    BY <1>10, <2>2
  <2>5. \/ Contains(p.links, <<path.node_ids[i], path.node_ids[n]>>)
        \/ <<1, k, n>> \in {p.connectors[m].id : m \in DOMAIN p.connectors}
    BY ONLY <1>w, <2>2, <2>3, <2>4 DEF Linked
  <2> QED BY <2>5, <2>n
<1> QED BY ONLY <1>10, <1>14, <1>15, <1>16, <1>17, <1>18, <1>p, <1>s, <1>w, Zenon DEF ShowsTrace

(* A link it shows joins hops that answered one after the other. *)
LEMMA PicturedLinks ==
    ASSUME NEW tokens, NEW omitted, NEW budget, Pictured(tokens, omitted, budget),
           NEW i \in DOMAIN plan.presentation.links
    PROVE  \E r \in input.selected : \E t \in ToSet(CompactRoutes(Told, r)) :
              KeysOf(plan.presentation.links[i]) \in Pairs(t.keys)
<1>p. PICK p, pair : p = plan.presentation /\ pair = p.links[i]
  OBVIOUS
<1>1. /\ Presents(p, omitted, plan.links, plan.routes, tokens, budget)
      /\ RoutesOfTraces(plan.routes)
  BY <1>p DEF Pictured
<1>2. PICK k \in DOMAIN plan.routes : \E n \in 1 .. Len(plan.routes[k].node_ids) - 1 :
         p.links[i] = <<plan.routes[k].node_ids[n], plan.routes[k].node_ids[n + 1]>>
  <2>1. i \in DOMAIN p.links
    BY <1>p
  <2>2. \A j \in DOMAIN p.links :
           \E k \in DOMAIN plan.routes : \E n \in 1 .. Len(plan.routes[k].node_ids) - 1 :
              p.links[j] = <<plan.routes[k].node_ids[n], plan.routes[k].node_ids[n + 1]>>
    BY ONLY <1>1 DEF Presents
  <2> QED BY ONLY <2>1, <2>2
<1>w. PICK own, ids, trace, c : /\ own = plan.routes[k] /\ ids = own.node_ids /\ trace = TraceOf(own)
                                /\ c = Len(ids)
  OBVIOUS
<1>3. OfTrace(own) /\ ids \in Seq(ToSet(ids))
  BY <1>1, <1>2, <1>w DEF RoutesOfTraces
<1>4. /\ trace \in Seq(Keys) /\ c <= Len(trace) /\ c \in Nat
      /\ \A n \in 1 .. c : \E x \in DOMAIN model.nodes : ids[n] = <<x>> /\ model.nodes[x].key = trace[n]
  <2>1. c \in Nat
    BY <1>3, <1>w
  <2> QED BY ONLY <1>3, <1>w, <2>1 DEF OfTrace
<1>5. PICK n \in 1 .. c - 1 : pair = <<ids[n], ids[n + 1]>>
  BY <1>2, <1>p, <1>w
<1>6. n \in 1 .. c /\ n + 1 \in 1 .. c /\ n \in 1 .. Len(trace) - 1
  BY <1>4
<1>7. \A m \in 1 .. c : KeyOf(ids[m]) = trace[m]
  <2>1. SUFFICES ASSUME NEW m \in 1 .. c
                 PROVE  KeyOf(ids[m]) = trace[m]
    OBVIOUS
  <2>2. PICK x \in DOMAIN model.nodes : ids[m] = <<x>> /\ model.nodes[x].key = trace[m]
    BY <1>4
  <2>3. Len(<<x>>) = 1 /\ <<x>>[1] = x
    OBVIOUS
  <2> QED BY <2>2, <2>3 DEF KeyOf
<1>8. KeysOf(pair) = <<trace[n], trace[n + 1]>>
  <2>a. PICK a, b : a = ids[n] /\ b = ids[n + 1]
    OBVIOUS
  <2>1. pair = <<a, b>> /\ KeyOf(a) = trace[n] /\ KeyOf(b) = trace[n + 1]
    BY <1>5, <1>6, <1>7, <2>a
  <2>2. KeysOf(pair) = [m \in DOMAIN pair |-> KeyOf(pair[m])]
    BY DEF KeysOf
  <2>3. DOMAIN pair = 1 .. 2 /\ pair[1] = a /\ pair[2] = b
    BY ONLY <2>1
  <2>4. KeysOf(pair) = [m \in 1 .. 2 |-> IF m = 1 THEN trace[n] ELSE trace[n + 1]]
    <3>1. \A m \in 1 .. 2 : KeyOf(pair[m]) = IF m = 1 THEN trace[n] ELSE trace[n + 1]
      <4>1. \A m \in 1 .. 2 : m = 1 \/ m = 2
        OBVIOUS
      <4> QED BY ONLY <2>1, <2>3, <4>1
    <3> QED BY ONLY <2>2, <2>3, <3>1
  <2> QED BY ONLY <2>4
<1>9. PICK r \in input.selected : \E t \in ToSet(CompactRoutes(Told, r)) : t.keys = trace
  BY ONLY <1>3, <1>w DEF OfTrace
<1>10. PICK t \in ToSet(CompactRoutes(Told, r)) : t.keys = trace
  BY <1>9
<1>11. KeysOf(pair) \in Pairs(t.keys)
  BY ONLY <1>6, <1>8, <1>10 DEF Pairs
<1> QED BY ONLY <1>11, <1>p, r \in input.selected, t \in ToSet(CompactRoutes(Told, r))

(* What is planned is mounted. *)
LEMMA PicturedMounts ==
    ASSUME NEW tokens, NEW omitted, NEW budget, Pictured(tokens, omitted, budget), plan.renderable
    PROVE  /\ plan.view = "topology" =>
                 KindsCounted(plan.mount, Len(plan.presentation.nodes), Len(plan.presentation.links),
                              Len(plan.presentation.connectors), Len(plan.presentation.routes))
           /\ plan.view = "geo" => Cardinality(PlacesOf(plan.mount, "target")) = Cardinality(Targets)
<1>p. PICK p, dynamic : p = plan.presentation /\ dynamic = Vacant
  OBVIOUS
<1>1. /\ input.remaining \in Nat /\ RoutesOfTraces(plan.routes)
      /\ \E X : plan.nodes \in Seq(X)
      /\ Presents(p, omitted, plan.links, plan.routes, tokens, budget)
      /\ plan.view = "topology" => budget = Max({0, dynamic - Canvas - Inspector})
      /\ Renderable(plan.view, Targets, input.remaining, dynamic)
      /\ \E markers \in SUBSET ToSet(plan.nodes) :
            plan.mount = Mounted(IF plan.view = "topology" THEN TopologyItems(p)
                                 ELSE GeoItems(Targets, markers), dynamic)
  BY <1>p DEF Pictured
<1>2. dynamic \in Nat
  <2>1. input.remaining - ViewReserve \in Int
    BY <1>1, PlanAssumption
  <2> QED BY <1>p, <2>1, MaxOfZero DEF Vacant
<1>3. PICK markers \in SUBSET ToSet(plan.nodes) :
         plan.mount = Mounted(IF plan.view = "topology" THEN TopologyItems(p)
                              ELSE GeoItems(Targets, markers), dynamic)
  BY <1>1
<1>r. DOMAIN plan.routes = 1 .. Len(plan.routes) /\ Len(plan.routes) \in Nat
  BY <1>1 DEF RoutesOfTraces
<1>4. CASE plan.view = "topology"
  <2>n. PICK a, b, c, d : /\ a = Len(p.nodes) /\ b = Len(p.links) /\ c = Len(p.connectors)
                          /\ d = Len(p.routes)
    OBVIOUS
  <2>1. a \in Nat /\ b \in Nat /\ c \in Nat /\ d \in Nat /\ a + b + c + d <= budget
    BY ONLY <1>1, <1>r, <2>n DEF Presents
  <2>2. a + b + c + d <= Max({0, dynamic - Canvas - Inspector})
    BY ONLY <1>1, <1>4, <2>1
  <2>3. plan.mount = Mounted(TopologyItems(p), dynamic)
    BY <1>3, <1>4
  <2>4. KindsCounted(Mounted(TopologyItems(p), dynamic), a, b, c, d)
    BY ONLY <1>2, <2>1, <2>2, <2>n, TopologyMounts
  <2>5. plan.view # "geo"
    BY <1>4
  <2> QED BY ONLY <1>p, <2>3, <2>4, <2>5, <2>n
<1>5. CASE plan.view = "geo"
  <2>1. IsFiniteSet(Targets)
    <3>f. PICK f, D : D = 1 .. Len(plan.routes) /\ f = [k \in D |-> plan.routes[k].result]
      OBVIOUS
    <3>1. IsFiniteSet(D)
      <4>1. 1 \in Int /\ Len(plan.routes) \in Int
        BY <1>r
      <4> QED BY ONLY <3>f, <4>1, FS_Interval
    <3>2. f \in [D -> Targets] /\ \A x \in Targets : \E k \in D : f[k] = x
      BY <1>r, <3>f DEF Targets
    <3> QED BY ONLY <3>1, <3>2, ImageSize
  <2>2. IsFiniteSet(markers)
    <3>1. PICK X : plan.nodes \in Seq(X)
      BY <1>1
    <3>f. PICK f, D, T : D = 1 .. Len(plan.nodes) /\ f = plan.nodes /\ T = ToSet(plan.nodes)
      OBVIOUS
    <3>2. f \in [D -> T] /\ \A x \in T : \E k \in D : f[k] = x
      <4>1. DOMAIN f = D /\ f = [k \in D |-> f[k]]
        BY <3>1, <3>f
      <4> QED BY ONLY <3>f, <4>1 DEF ToSet
    <3>3. IsFiniteSet(D)
      <4>1. 1 \in Int /\ Len(plan.nodes) \in Int
        BY <3>1
      <4> QED BY ONLY <3>f, <4>1, FS_Interval
    <3>4. IsFiniteSet(T)
      BY ONLY <3>2, <3>3, ImageSize
    <3> QED BY <3>4, <3>f, FS_Subset
  <2>3. Targets # {} => dynamic >= Canvas + Legend + Cardinality(Targets)
    BY ONLY <1>1, <1>5 DEF Renderable
  <2>4. plan.view # "topology"
    BY <1>5
  <2>5. plan.mount = Mounted(GeoItems(Targets, markers), dynamic)
    BY <1>3, <2>4
  <2>6. Cardinality(PlacesOf(plan.mount, "target")) = Cardinality(Targets)
    BY ONLY <1>2, <2>1, <2>2, <2>3, <2>5, GeoMounts
  <2> QED BY ONLY <2>4, <2>6
<1> QED BY <1>4, <1>5

(* With no reason for an omission, every trace of a selected target is     *)
(* shown.                                                                  *)
LEMMA PicturedWholly ==
    ASSUME PipelineInv, ModelInv, IsPlanned, PlanIsSelected, phase = "planned",
           NEW tokens, NEW omitted, NEW budget, Pictured(tokens, omitted, budget),
           model.reasons \cup plan.reasons = {}, NEW r \in input.selected,
           NEW t \in ToSet(CompactRoutes(Told, r))
    PROVE  \E k \in DOMAIN plan.routes :
              LET path == plan.presentation.routes[k]
              IN  /\ path.result = t.result /\ path.attempt = t.attempt
                  /\ KeysOf(path.node_ids) = Folded(t.keys, input.show)
<1>1. Told \in ReportSet /\ r \in DOMAIN Told
  <2>1. report \in ReportSet /\ Told \in ReportSet
    BY ModelSelects
  <2> QED BY <2>1, ToldHolds DEF IsPlanned
<1>2. PICK n \in DOMAIN CompactRoutes(Told, r) : t = CompactRoutes(Told, r)[n]
  BY DEF ToSet
<1>3. /\ t.result = r
      /\ (CHOOSE x \in ToSet(CompactRoutes(Told, r)) : x.attempt = t.attempt) = t
  BY <1>1, <1>2, TraceOfAttempt
<1>4. PICK k \in DOMAIN plan.routes :
         /\ plan.routes[k].result = t.result /\ plan.routes[k].attempt = t.attempt
         /\ KeysOf(plan.routes[k].node_ids) = t.keys
  BY DEF PlanIsSelected
<1>w. PICK own, ids : own = plan.routes[k] /\ ids = own.node_ids
  OBVIOUS
<1>5. TraceOf(own) = t.keys
  BY <1>3, <1>4, <1>w DEF TraceOf, Trace
<1>6. RoutesOfTraces(plan.routes)
  BY DEF Pictured
<1>7. OfTrace(own) /\ ids \in Seq(ToSet(ids))
  BY <1>4, <1>6, <1>w DEF RoutesOfTraces
<1>8. Len(KeysOf(ids)) = Len(ids)
  <2>1. DOMAIN ids = 1 .. Len(ids) /\ Len(ids) \in Nat
    BY <1>7
  <2>2. KeysOf(ids) = [i \in 1 .. Len(ids) |-> KeyOf(ids[i])]
    BY <2>1 DEF KeysOf
  <2> QED BY ONLY <2>1, <2>2
<1>9. own.complete
  BY <1>4, <1>5, <1>7, <1>8, <1>w DEF OfTrace
<1>10. ~(omitted > 0)
  <2>1. omitted > 0 => "presentation_budget" \in plan.reasons
    BY DEF Pictured
  <2> QED BY <2>1
<1>11. ShowsTrace(k, ~(omitted > 0))
  BY <1>4, PicturedRoutes
<1>p. PICK path : path = plan.presentation.routes[k]
  OBVIOUS
<1>12. /\ path.result = own.result /\ path.attempt = own.attempt
       /\ KeysOf(path.node_ids) = Folded(Trace(path.result, path.attempt), input.show)
  BY ONLY <1>9, <1>10, <1>11, <1>p, <1>w DEF ShowsTrace
<1>13. Trace(path.result, path.attempt) = t.keys
  BY <1>5, <1>12 DEF TraceOf
<1> QED BY <1>4, <1>12, <1>13, <1>p, <1>w

LEMMA PlannedIsTruthful ==
    ASSUME PipelineInv, ModelInv, IsPlanned, PlanIsSelected, phase = "planned"
    PROVE  PlanIsTruthful
<1>1. PICK tokens, omitted, budget : Pictured(tokens, omitted, budget)
  BY PlanIsPictured
<1> DEFINE p == plan.presentation
           traces == UNION {ToSet(CompactRoutes(Told, r)) : r \in input.selected}
<1>2. ProjectTopology(plan)
  BY <1>1, PicturedProjects
<1>3. DOMAIN p.routes = DOMAIN plan.routes
  <2>1. Presents(p, omitted, plan.links, plan.routes, tokens, budget)
    BY <1>1 DEF Pictured
  <2> QED BY ONLY <2>1 DEF Presents
<1>4. \A k \in DOMAIN p.routes : ShowsTrace(k, ~(omitted > 0))
  BY <1>1, <1>3, PicturedRoutes
<1>5. ASSUME NEW k \in DOMAIN p.routes
      PROVE  LET path == p.routes[k]
                 shown == KeysOf(path.node_ids)
                 trace == Trace(path.result, path.attempt)
             IN  /\ IsPrefix(shown, Folded(trace, input.show))
                 /\ \A i \in 1 .. Len(shown) - 1 :
                       \/ Contains(p.links, <<path.node_ids[i], path.node_ids[i + 1]>>)
                       \/ <<1, k, i + 1>> \in {p.connectors[c].id : c \in DOMAIN p.connectors}
                 /\ path.complete => shown = Folded(trace, input.show)
  BY ONLY <1>4, k \in DOMAIN p.routes DEF ShowsTrace
<1>6. \A i \in DOMAIN p.links : \E t \in traces : KeysOf(p.links[i]) \in Pairs(t.keys)
  BY <1>1, PicturedLinks
<1>7. plan.renderable /\ plan.view = "topology" =>
         /\ Cardinality({n \in DOMAIN plan.mount : plan.mount[n].kind = "node"}) = Len(p.nodes)
         /\ Cardinality({n \in DOMAIN plan.mount : plan.mount[n].kind = "link"}) = Len(p.links)
         /\ Cardinality({n \in DOMAIN plan.mount : plan.mount[n].kind = "connector"}) = Len(p.connectors)
         /\ Cardinality({n \in DOMAIN plan.mount : plan.mount[n].kind = "route"}) = Len(p.routes)
  <2>1. plan.renderable /\ plan.view = "topology" =>
           KindsCounted(plan.mount, Len(p.nodes), Len(p.links), Len(p.connectors), Len(p.routes))
    BY <1>1, PicturedMounts
  <2> QED BY ONLY <2>1 DEF KindsCounted, PlacesOf
<1>8. plan.renderable /\ plan.view = "geo" =>
         Cardinality({n \in DOMAIN plan.mount : plan.mount[n].kind = "target"})
            = Cardinality({plan.routes[k].result : k \in DOMAIN plan.routes})
  <2>1. plan.renderable /\ plan.view = "geo" =>
           Cardinality(PlacesOf(plan.mount, "target")) = Cardinality(Targets)
    BY <1>1, PicturedMounts
  <2> QED BY ONLY <2>1 DEF PlacesOf, Targets
<1>9. model.reasons \cup plan.reasons = {} =>
         \A t \in traces : \E k \in DOMAIN p.routes :
            /\ p.routes[k].result = t.result /\ p.routes[k].attempt = t.attempt
            /\ KeysOf(p.routes[k].node_ids) = Folded(t.keys, input.show)
  <2>1. ASSUME model.reasons \cup plan.reasons = {}, NEW r \in input.selected,
               NEW t \in ToSet(CompactRoutes(Told, r))
        PROVE  \E k \in DOMAIN plan.routes :
                  LET path == plan.presentation.routes[k]
                  IN  /\ path.result = t.result /\ path.attempt = t.attempt
                      /\ KeysOf(path.node_ids) = Folded(t.keys, input.show)
    BY <1>1, <2>1, PicturedWholly
  <2> QED BY ONLY <1>3, <2>1
<1> QED BY ONLY <1>2, <1>5, <1>6, <1>7, <1>8, <1>9 DEF PlanIsTruthful

(* Whatever the report, the limit of its length, the selection and the     *)
(* place left in the document: what the client shows is what it was told,  *)
(* the completed attempts and of a whole report the partial ones, too.     *)
(* The plan is of what was selected, the view shows of a trace what it is  *)
(* cut to, hop for hop, with every step drawn and every link observed, and *)
(* nothing of it is missing without a reason; and the two forms of a       *)
(* report give the same topology but for the partial attempts.             *)
THEOREM ClientShowsTheReportHolds == PipelineSpec => []ClientShowsTheReport
<1>1. PipelineSpec => /\ []PipelineInv /\ []ModelInv /\ []PlanIsSelected
                      /\ [](phase = "modelled" => FormsAgree)
  BY PipelineInvariant, ModelInvariant, PlanIsSelectedHolds, FormsAlwaysAgree, PTL
<1>2. PipelineInit => IsPlanned
  BY DEF PipelineInit, IsPlanned
<1>3. IsPlanned /\ [PipelineNext]_pipelineVars => IsPlanned'
  BY PlannedStep
<1>4. PipelineInv /\ ModelInv /\ IsPlanned /\ PlanIsSelected => PlanIsTruthful
  <2>1. CASE phase = "planned"
    BY <2>1, PlannedIsTruthful
  <2>2. CASE phase # "planned"
    BY <2>2 DEF PlanIsTruthful
  <2> QED BY <2>1, <2>2
<1>5. PlanIsSelected /\ PlanIsTruthful /\ (phase = "modelled" => FormsAgree) => ClientShowsTheReport
  BY DEF ClientShowsTheReport
<1> QED BY <1>1, <1>2, <1>3, <1>4, <1>5, PTL DEF PipelineSpec

=============================================================================
