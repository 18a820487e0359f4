-------------------------- MODULE TopologyPipeline --------------------------
(***************************************************************************)
(* A topology from the traceroutes of a report to the elements of a page.  *)
(* The server fits a compact topology into a response of limited length by *)
(* two binary searches (marshalCompactResponseRetainingSnapshot in         *)
(* api/server.go), or sends the report whole; the client checks what it    *)
(* received, builds its model, and plans a view of it again whenever the   *)
(* user changes the targets, the view or what is shown of silent hops, and *)
(* whenever another part of the page has taken or freed elements.          *)
(***************************************************************************)
EXTENDS TopologyPlan

CONSTANTS
    Reports,        \* what the checkers found
    Rooms,          \* lengths a response must stay below, less what else is in it
    Remainings      \* elements left in the document

ASSUME PipelineAssumption ==
    /\ Rooms \cup Remainings \subseteq Nat
    /\ \A report \in Reports : report \in Seq([kind : STRING, attempts : Seq(Attempts)])

VARIABLES
    phase, report,
    room,       \* the length this response must stay below
    initial,    \* the compact topology as it was first built
    search,     \* a binary search: its bounds and the best candidate so far
    sent,       \* the topology of the response, None in a whole report
    model, plan,
    input       \* what the user and the page chose for the plan

pipelineVars == <<phase, report, room, initial, search, sent, model, plan, input>>

None == [none |-> TRUE]

PipelineInit ==
    /\ phase = "idle"
    /\ report = <<>> /\ room = 0
    /\ initial = None /\ search = None /\ sent = None
    /\ model = None /\ plan = None /\ input = None

Fits(topology) == Size(topology) < room

Search(low, high) == [low |-> low, high |-> high, best |-> None]

Middle == search.low + (search.high - search.low) \div 2

-----------------------------------------------------------------------------
(* The server. *)

(* The checkers have ended. *)
Check(rep, limit) ==
    /\ phase = "idle"
    /\ phase' = "checked"
    /\ report' = rep /\ room' = limit
    /\ UNCHANGED <<initial, search, sent, model, plan, input>>

(* A report in the full mode: its results, no compact topology. *)
SendWhole ==
    /\ phase = "checked"
    /\ phase' = "sent"
    /\ UNCHANGED <<report, room, initial, search, sent, model, plan, input>>

MarshalWith(built) ==
    /\ initial' = built
    /\ IF Fits(built)
       THEN phase' = "sent" /\ sent' = built /\ UNCHANGED search
       ELSE phase' = "geo" /\ search' = Search(1, BundleCount(built)) /\ UNCHANGED sent

MarshalInitial ==
    /\ phase = "checked"
    /\ MarshalWith(Build(report, -1, TRUE))
    /\ UNCHANGED <<report, room, model, plan, input>>

(* One probe: how few of the last bundles have to go. *)
ProbeGeo ==
    LET candidate == Limited(WithoutLastGeoBundles(initial, Middle), TRUE)
    IN  /\ phase = "geo" /\ search.low <= search.high
        /\ search' = IF Fits(candidate)
                     THEN [search EXCEPT !.best = candidate, !.high = Middle - 1]
                     ELSE [search EXCEPT !.low = Middle + 1]
        /\ UNCHANGED <<phase, report, room, initial, sent, model, plan, input>>

(* One probe: how many accepted hops fit without any bundle. *)
ProbeTransactions ==
    LET candidate == Limited(Build(report, Middle, FALSE), BundleCount(initial) > 0)
    IN  /\ phase = "transactions" /\ search.low <= search.high
        /\ search' = IF Fits(candidate)
                     THEN [search EXCEPT !.best = candidate, !.low = Middle + 1]
                     ELSE [search EXCEPT !.high = Middle - 1]
        /\ UNCHANGED <<phase, report, room, initial, sent, model, plan, input>>

SearchEnds ==
    /\ phase \in {"geo", "transactions"} /\ search.low > search.high
    /\ \/ /\ search.best # None
          /\ phase' = "sent" /\ sent' = search.best
          /\ UNCHANGED search
       \/ /\ search.best = None /\ phase = "geo"
          /\ phase' = "transactions" /\ search' = Search(0, initial.accepted - 1)
          /\ UNCHANGED sent
       \/ /\ search.best = None /\ phase = "transactions"
          /\ phase' = "too_large"
          /\ UNCHANGED <<search, sent>>
    /\ UNCHANGED <<report, room, initial, model, plan, input>>

-----------------------------------------------------------------------------
(* The client. *)

(* topologyModelFromReport: a topology that fails a check fails the report. *)
Receive ==
    /\ phase = "sent"
    /\ IF sent = None
       THEN phase' = "modelled" /\ model' = AdaptLegacyTopology(report)
       ELSE IF NormalizeCompactTopology(sent, report)
       THEN phase' = "modelled" /\ model' = CompactModel(sent)
       ELSE phase' = "refused" /\ UNCHANGED model
    /\ UNCHANGED <<report, room, initial, search, sent, plan, input>>

Plan(selected, view, show, remaining) ==
    /\ phase = "modelled"
    /\ phase' = "planned"
    /\ input' = [selected |-> selected, show |-> show, remaining |-> remaining]
    /\ plan' = PlanTopologyDOM(FilterTopologyModel(model, selected), view, show, remaining)
    /\ UNCHANGED <<report, room, initial, search, sent, model>>

(* The render of a plan is given up for the next one of the same model. *)
Replan ==
    /\ phase = "planned"
    /\ phase' = "modelled"
    /\ plan' = None /\ input' = None
    /\ UNCHANGED <<report, room, initial, search, sent, model>>

(* The page is cleared for the next report. *)
Clear ==
    /\ phase \in {"modelled", "refused", "too_large"}
    /\ phase' = "idle"
    /\ report' = <<>> /\ room' = 0
    /\ initial' = None /\ search' = None /\ sent' = None /\ model' = None
    /\ UNCHANGED <<plan, input>>

PipelineNext ==
    \/ \E rep \in Reports, limit \in Rooms : Check(rep, limit)
    \/ SendWhole \/ MarshalInitial \/ ProbeGeo \/ ProbeTransactions \/ SearchEnds
    \/ Receive \/ Replan \/ Clear
    \/ \E selected \in SUBSET {r \in DOMAIN report : report[r].kind = "traceroute"},
          view \in {"topology", "geo"}, show \in BOOLEAN, remaining \in Remainings :
          Plan(selected, view, show, remaining)

PipelineSpec == PipelineInit /\ [][PipelineNext]_pipelineVars

-----------------------------------------------------------------------------
(* A compact topology that is sent passes the client's modelled checks,    *)
(* however it was cut; it stays below the length it was cut for; and no    *)
(* more was cut than had to be: with one bundle more, or one hop more, it  *)
(* would not have fitted.                                                  *)
SentIsSound ==
    /\ phase # "refused"
    /\ phase = "sent" /\ sent # None =>
          /\ Fits(sent)
          /\ \/ sent = initial
             \/ /\ sent.accepted = initial.accepted /\ BundleCount(sent) < BundleCount(initial)
                /\ Size(sent) + BundleSize >= room
             \/ /\ BundleCount(sent) = 0
                /\ sent.accepted < initial.accepted
                /\ ~Fits(Build(report, sent.accepted + 1, FALSE))

(* What the client was told: a whole report has the partial traces, too.   *)
Told == IF sent = None THEN AsCompleted(report) ELSE report

(* What it was told of attempt j of result r, silent runs as one mark or   *)
(* not at all.                                                             *)
Trace(r, j) == (CHOOSE t \in ToSet(CompactRoutes(Told, r)) : t.attempt = j).keys

Silence == [kind |-> "unknown", at |-> <<>>]

Folded(keys, show) ==
    LET runs == Merged([i \in DOMAIN keys |-> IF keys[i].kind = "unknown" THEN Silence ELSE keys[i]])
    IN  At(runs, {n \in DOMAIN runs : show \/ runs[n] # Silence})

KeyOf(id) == IF Len(id) > 1 THEN Silence ELSE model.nodes[id[1]].key
KeysOf(ids) == [i \in DOMAIN ids |-> KeyOf(ids[i])]

(* Without a cut for length, the client has the same topology whether the  *)
(* server or the client itself selected it, but for the partial traces:    *)
(* the server leaves them out of a compact topology (traceAttemptEligible) *)
(* and the client draws those of a whole report (legacyRoutes).  It draws  *)
(* them like the others: it has the topology that the server would build   *)
(* if their commands had completed.                                        *)
SameTopology(own, theirs) ==
    /\ own.links = theirs.links /\ own.routes = theirs.routes
    /\ [n \in DOMAIN own.nodes |-> own.nodes[n].key] = [n \in DOMAIN theirs.nodes |-> theirs.nodes[n].key]

FormsAgree == SameTopology(AdaptLegacyTopology(report), Build(AsCompleted(report), -1, TRUE))

(* What is selected for a view passes the checks of validateTopology and   *)
(* keeps to the budget of the view.  No link of a route is missing.  A     *)
(* route is one of a selected target, begins like the trace of its         *)
(* attempt, hop for hop, and is called complete only if it is all of it.   *)
(* If anything of a selected target is left out, some reason is reported.  *)
PlanIsSelected ==
    LET trace(k) == Trace(plan.routes[k].result, plan.routes[k].attempt)
        begins(k) == IsPrefix(KeysOf(plan.routes[k].node_ids), trace(k))
        whole(t) == \E k \in DOMAIN plan.routes :
                        /\ plan.routes[k].result = t.result /\ plan.routes[k].attempt = t.attempt
                        /\ KeysOf(plan.routes[k].node_ids) = t.keys
    IN  phase = "planned" =>
            /\ ValidateTopology(plan.nodes, plan.links, plan.routes)
            /\ plan.view = "topology" =>
                  Len(plan.nodes) + Len(plan.links) + Len(plan.routes)
                      <= Max({0, Max({0, input.remaining - ViewReserve}) - Canvas - Inspector})
            /\ "missing_link" \notin plan.reasons
            /\ \A k \in DOMAIN plan.routes :
                  /\ plan.routes[k].result \in input.selected /\ begins(k)
                  /\ plan.routes[k].complete => KeysOf(plan.routes[k].node_ids) = trace(k)
            /\ model.reasons \cup plan.reasons = {} =>
                  \A r \in input.selected : \A t \in ToSet(CompactRoutes(Told, r)) : whole(t)

(* A planned view passes the checks that are made before it is drawn.  A   *)
(* route it shows begins like the trace of its attempt, hop for hop, with  *)
(* every step drawn as an observed link or as a connector of that route;   *)
(* it is called complete only if nothing of the trace is missing; a link   *)
(* joins hops that answered one after the other; what was planned is       *)
(* mounted; a map names every target or is not drawn.  And if anything of  *)
(* a selected target is not shown, some reason for that is reported.       *)
PlanIsTruthful ==
    LET p == plan.presentation
        drawn(k, i) == \/ Contains(p.links, <<p.routes[k].node_ids[i], p.routes[k].node_ids[i + 1]>>)
                       \/ <<1, k, i + 1>> \in {p.connectors[c].id : c \in DOMAIN p.connectors}
        trace(k) == Trace(p.routes[k].result, p.routes[k].attempt)
        shown(k) == KeysOf(p.routes[k].node_ids)
        count(kind) == Cardinality({n \in DOMAIN plan.mount : plan.mount[n].kind = kind})
        traces == UNION {ToSet(CompactRoutes(Told, r)) : r \in input.selected}
        whole(t) == \E k \in DOMAIN p.routes :
                        /\ p.routes[k].result = t.result /\ p.routes[k].attempt = t.attempt
                        /\ shown(k) = Folded(t.keys, input.show)
    IN  phase = "planned" =>
            /\ ProjectTopology(plan)
            /\ \A k \in DOMAIN p.routes :
                  /\ IsPrefix(shown(k), Folded(trace(k), input.show))
                  /\ \A i \in 1 .. Len(shown(k)) - 1 : drawn(k, i)
                  /\ p.routes[k].complete => shown(k) = Folded(trace(k), input.show)
            /\ \A i \in DOMAIN p.links :
                  \E t \in traces : KeysOf(p.links[i]) \in Pairs(t.keys)
            /\ plan.renderable /\ plan.view = "topology" =>
                  /\ count("node") = Len(p.nodes) /\ count("link") = Len(p.links)
                  /\ count("connector") = Len(p.connectors) /\ count("route") = Len(p.routes)
            /\ plan.renderable /\ plan.view = "geo" =>
                  count("target") = Cardinality({plan.routes[k].result : k \in DOMAIN plan.routes})
            /\ model.reasons \cup plan.reasons = {} => \A t \in traces : whole(t)

(* What the client shows is what it was told of the report, in either form *)
(* of it.                                                                  *)
ClientShowsTheReport ==
    PlanIsSelected /\ PlanIsTruthful /\ (phase = "modelled" => FormsAgree)
=============================================================================
