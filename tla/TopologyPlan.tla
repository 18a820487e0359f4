---------------------------- MODULE TopologyPlan ----------------------------
(***************************************************************************)
(* The plan of a topology or map view (planTopologyDOM in                  *)
(* frontend/topology-model.js), its presentation (presentTopology in       *)
(* topology-presentation.js) and the checks before it is drawn             *)
(* (projectTopology in topology-visualizer.js).  Every node, link, route   *)
(* and list entry is one element of the document.  Labels, colours, ASN    *)
(* annotations and the geometry of the drawing are left out.               *)
(***************************************************************************)
EXTENDS TopologyModel

CONSTANTS
    ViewReserve,    \* elements kept free in a view (chromeReserve, fixedReserve)
    MaxListed       \* markers in the list of a map (100 in the code)

ASSUME PlanAssumption == {ViewReserve, MaxListed} \subseteq Nat

Canvas == 1
Inspector == 2
Legend == 2

(* fairRouteOrder: the first attempt of every target, then the second. *)
FairRouteOrder(routes) ==
    LET before(j, i) == \/ routes[j].attempt < routes[i].attempt
                        \/ routes[j].attempt = routes[i].attempt /\ j < i
        offset(i) == Cardinality({j \in DOMAIN routes :
                        routes[j].result = routes[i].result /\ before(j, i)})
        round(n) == {i \in DOMAIN routes : offset(i) = n - 1}
        targets(n) == Ascending({routes[i].result : i \in round(n)})
    IN  FlattenSeq([n \in DOMAIN routes |->
            [k \in DOMAIN targets(n) |->
                CHOOSE i \in round(n) : routes[i].result = targets(n)[k]]])

-----------------------------------------------------------------------------
(* The selection within an element budget: first the first hop of every    *)
(* route, then one hop of each route in turn.  A route that meets a        *)
(* missing link or the budget goes no further.                             *)

Unplanned == [nodes |-> <<>>, links |-> <<>>, taken |-> <<>>, cost |-> 0, missing |-> FALSE]

Enroll(st, routes, i, budget) ==
    LET first == routes[i].node_ids[1]
        added == IF Contains(st.nodes, first) THEN <<>> ELSE <<first>>
        cost == st.cost + 1 + Len(added)
    IN  IF cost > budget THEN st
        ELSE [st EXCEPT !.nodes = @ \o added, !.cost = cost,
                        !.taken = Append(@, [route |-> i, cursor |-> 1, blocked |-> FALSE])]

Extend(st, model, k, budget) ==
    LET own == st.taken[k]
        ids == model.routes[own.route].node_ids
        edge == <<ids[own.cursor], ids[own.cursor + 1]>>
        nodes == IF Contains(st.nodes, edge[2]) THEN <<>> ELSE <<edge[2]>>
        links == IF Contains(st.links, edge) THEN <<>> ELSE <<edge>>
        cost == st.cost + Len(nodes) + Len(links)
    IN  IF own.blocked \/ own.cursor = Len(ids) THEN st
        ELSE IF edge \notin {<<l.from, l.to>> : l \in model.links}
        THEN [st EXCEPT !.taken[k].blocked = TRUE, !.missing = TRUE]
        ELSE IF cost > budget THEN [st EXCEPT !.taken[k].blocked = TRUE]
        ELSE [st EXCEPT !.nodes = @ \o nodes, !.links = @ \o links, !.cost = cost,
                        !.taken[k].cursor = @ + 1]

Enrolled(routes, order, budget) ==
    LET after[n \in 0 .. Len(order)] ==
            IF n = 0 THEN Unplanned ELSE Enroll(after[n - 1], routes, order[n], budget)
    IN  after[Len(order)]

(* Turns of the routes until a pass over them gets none of them further. *)
Extended(enrolled, model, turns, budget) ==
    LET after[n \in 0 .. turns] ==
            IF n = 0 THEN enrolled
            ELSE Extend(after[n - 1], model, 1 + ((n - 1) % Len(enrolled.taken)), budget)
    IN  after[turns]

Admitted(model, budget) ==
    LET enrolled == Enrolled(model.routes, FairRouteOrder(model.routes), budget)
        passes == Max({0} \cup {Len(model.routes[i].node_ids) : i \in DOMAIN model.routes})
    IN  Extended(enrolled, model, passes * Len(enrolled.taken), budget)

PlannedRoute(model, own) ==
    LET route == model.routes[own.route]
    IN  [route EXCEPT !.node_ids = SubSeq(@, 1, own.cursor),
                      !.complete = @ /\ own.cursor = Len(route.node_ids)]

-----------------------------------------------------------------------------
(* presentTopology: a run of silent hops becomes one node of its route, or *)
(* is skipped; what joins it to its neighbours is never an observed link.  *)

KindOf(model, id) == (CHOOSE n \in ToSet(model.nodes) : n.id = id).key.kind

(* The tokens of the route at this place of the list. *)
Tokens(model, route, occurrence, show) ==
    LET ids == route.node_ids
        silent(i) == KindOf(model, ids[i]) = "unknown"
        starts == Ascending({i \in DOMAIN ids : ~silent(i) \/ (show /\ (i = 1 \/ ~silent(i - 1)))})
        end(i) == IF ~silent(i) THEN i
                  ELSE Max({j \in i .. Len(ids) : \A h \in i .. j : silent(h)})
    IN  [n \in DOMAIN starts |->
            LET i == starts[n]
            IN  [id |-> IF silent(i) THEN <<0, occurrence, i>> ELSE ids[i],
                 start |-> i, end |-> end(i), group |-> silent(i)]]

(* Mutant: the neighbours of a skipped hop are taken to be adjacent. *)
JoinAdjacent(tokens, i, occurrence) ==
    LET from == tokens[i - 1]
        to == tokens[i]
    IN  [from |-> from.id, to |-> to.id, id |-> <<1, occurrence, i>>,
         kind |-> IF from.group \/ to.group THEN "fold" ELSE "link"]

(* How a token is joined to the one before it. *)
Join(tokens, i, occurrence) ==
    LET from == tokens[i - 1]
        to == tokens[i]
    IN  [from |-> from.id, to |-> to.id, id |-> <<1, occurrence, i>>,
         kind |-> IF to.start > from.end + 1 THEN "bypass"
                  ELSE IF from.group \/ to.group THEN "fold" ELSE "link"]

Joins(tokens, occurrence) == [n \in 1 .. Len(tokens) - 1 |-> Join(tokens, n + 1, occurrence)]

Distinct(s) == At(s, {i \in DOMAIN s : \A j \in 1 .. i - 1 : s[j] # s[i]})
Take(s, n) == SubSeq(s, 1, Min({Len(s), Max({0, n})}))
PairOf(join) == <<join.from, join.to>>

(* A route is kept as far as its nodes and what joins them are. *)
KeptTokens(tokens, joins, retained, links, connectors) ==
    LET drawn(join) == IF join.kind = "link" THEN PairOf(join) \in links ELSE join \in connectors
        lost == {i \in DOMAIN tokens : tokens[i].id \notin retained \/ (i > 1 /\ ~drawn(joins[i - 1]))}
    IN  IF lost = {} THEN tokens ELSE SubSeq(tokens, 1, Min(lost) - 1)

Kept(routes, tokens, joins, retained, links, connectors) ==
    [nodes |-> retained, links |-> links, connectors |-> connectors,
     routes |-> [n \in DOMAIN routes |->
        LET shown == KeptTokens(tokens[n], joins[n], ToSet(retained), ToSet(links), ToSet(connectors))
        IN  [routes[n] EXCEPT !.node_ids = [i \in DOMAIN shown |-> shown[i].id],
                              !.complete = @ /\ Len(shown) = Len(tokens[n])]]]

(* Nodes first, then observed links, then connectors, in what the routes   *)
(* leave of the budget.                                                    *)
Within(routes, tokens, joins, observed, connectors, retained, budget) ==
    LET room == Min({MaxLinks, budget - Len(routes) - Len(retained)})
        in(pair) == {pair[1], pair[2]} \subseteq ToSet(retained)
        links == Take(At(observed, {i \in DOMAIN observed : in(observed[i])}), room)
        spans == At(connectors, {i \in DOMAIN connectors : in(PairOf(connectors[i]))})
    IN  Kept(routes, tokens, joins, retained, links, Take(spans, room - Len(links)))

Observed(st, joins) ==
    LET pairs == [i \in DOMAIN joins |-> PairOf(joins[i])]
    IN  Distinct(At(pairs, {i \in DOMAIN joins : joins[i].kind = "link" /\ Contains(st.links, pairs[i])}))

Connectors(joins) == At(joins, {i \in DOMAIN joins : joins[i].kind # "link"})

Omitted(p, nodes, observed, connectors) ==
    Len(nodes) + Len(observed) + Len(connectors) - Len(p.nodes) - Len(p.links) - Len(p.connectors)

Presented(routes, tokens, joins, nodes, observed, connectors, budget) ==
    LET p == Within(routes, tokens, joins, observed, connectors,
                    Take(nodes, Min({MaxNodes, budget - Len(routes)})), budget)
    IN  [shown |-> p, omitted |-> Omitted(p, nodes, observed, connectors)]

Joined(st, routes, tokens, joins, budget) ==
    Presented(routes, tokens, joins,
              Distinct(FlattenSeq([n \in DOMAIN routes |->
                                    [i \in DOMAIN tokens[n] |-> tokens[n][i].id]])),
              Observed(st, FlattenSeq(joins)),
              Connectors(FlattenSeq(joins)), budget)

Tokenized(st, routes, tokens, budget) ==
    Joined(st, routes, tokens, [n \in DOMAIN routes |-> Joins(tokens[n], n)], budget)

PresentTopology(model, st, routes, show, budget) ==
    Tokenized(st, routes, [n \in DOMAIN routes |-> Tokens(model, routes[n], n, show)], budget)

-----------------------------------------------------------------------------
(* planTopologyDOM for a view with this many elements left in the document. *)

Items(kind, n, cost) == [i \in 1 .. n |-> [kind |-> kind, cost |-> cost]]

Mount(mounted, item, budget) ==
    IF mounted.cost + item.cost > budget THEN mounted
    ELSE [list |-> Append(mounted.list, item), cost |-> mounted.cost + item.cost]

(* What no longer fits is left out. *)
Mounted(items, budget) ==
    LET after[n \in 0 .. Len(items)] ==
            IF n = 0 THEN [list |-> <<>>, cost |-> 0] ELSE Mount(after[n - 1], items[n], budget)
    IN  after[Len(items)].list

(* What a view mounts, in this order. *)
TopologyItems(p) ==
    Items("canvas", 1, Canvas) \o Items("inspector", 1, Inspector)
        \o Items("node", Len(p.nodes), 1) \o Items("link", Len(p.links), 1)
        \o Items("connector", Len(p.connectors), 1) \o Items("route", Len(p.routes), 1)

GeoItems(targets, markers) ==
    Items("canvas", 1, Canvas) \o Items("legend", Min({1, Cardinality(targets)}), Legend)
        \o Items("target", Cardinality(targets), 1) \o Items("list", 1, 1)
        \o Items("marker", Min({MaxListed, Cardinality(markers)}), 1)

(* The canvas and the whole legend of a map are mounted, or nothing is. *)
Renderable(view, targets, remaining, dynamic) ==
    /\ remaining >= ViewReserve
    /\ view = "geo" /\ targets # {} => dynamic >= Canvas + Legend + Cardinality(targets)

PlanReasons(model, st, routes, renderable, presentation) ==
    {r \in {"element_budget"} :
        \/ Len(model.nodes) > Len(st.nodes) \/ Cardinality(model.links) > Len(st.links)
        \/ Len(model.routes) > Len(routes) \/ \E k \in DOMAIN routes : ~routes[k].complete}
    \cup {r \in {"missing_link"} : st.missing}
    \cup {r \in {"dom_budget"} : ~renderable}
    \cup {r \in {"presentation_budget"} : presentation.omitted > 0}

Assembled(model, view, st, routes, presentation, markers, dynamic, renderable) ==
    [view |-> view, renderable |-> renderable, presentation |-> presentation.shown,
     nodes |-> st.nodes, links |-> st.links, routes |-> routes,
     mount |-> IF ~renderable THEN <<>>
               ELSE Mounted(IF view = "topology" THEN TopologyItems(presentation.shown)
                            ELSE GeoItems({routes[k].result : k \in DOMAIN routes}, markers), dynamic),
     reasons |-> PlanReasons(model, st, routes, renderable, presentation)]

Routed(model, view, show, st, routes, budget, remaining, dynamic) ==
    Assembled(model, view, st, routes, PresentTopology(model, st, routes, show, budget),
              {id \in ToSet(st.nodes) : \E n \in ToSet(model.nodes) : n.id = id /\ n.geo}, dynamic,
              Renderable(view, {routes[k].result : k \in DOMAIN routes}, remaining, dynamic))

Planned(model, view, show, st, budget, remaining, dynamic) ==
    Routed(model, view, show, st, [k \in DOMAIN st.taken |-> PlannedRoute(model, st.taken[k])],
           budget, remaining, dynamic)

Budgeted(model, view, show, budget, remaining, dynamic) ==
    Planned(model, view, show, Admitted(model, budget), budget, remaining, dynamic)

PlanTopologyDOM(model, view, show, remaining) ==
    LET dynamic == Max({0, remaining - ViewReserve})
    IN  Budgeted(model, view, show,
                 IF view = "topology" THEN Max({0, dynamic - Canvas - Inspector})
                 ELSE MaxNodes + MaxLinks + Len(model.routes),
                 remaining, dynamic)

-----------------------------------------------------------------------------
(* validateTopology and the checks of projectTopology, which throw. *)

ValidateTopology(nodes, links, routes) ==
    /\ IsInjective(nodes) /\ IsInjective(links)
    /\ Len(nodes) <= MaxNodes /\ Len(links) <= MaxLinks
    /\ \A i \in DOMAIN links : {links[i][1], links[i][2]} \subseteq ToSet(nodes)
                                    /\ links[i][1] # links[i][2]
    /\ \A k \in DOMAIN routes : /\ ToSet(routes[k].node_ids) \subseteq ToSet(nodes)
                                /\ Pairs(routes[k].node_ids) \subseteq ToSet(links)

ProjectTopology(plan) ==
    LET p == plan.presentation
    IN  /\ ValidateTopology(plan.nodes, plan.links, plan.routes)
        /\ ValidateTopology(p.nodes, p.links, <<>>)
        /\ Len(p.links) + Len(p.connectors) <= MaxLinks
        /\ ToSet(p.links) \subseteq ToSet(plan.links)
        /\ \A k \in DOMAIN p.routes : ToSet(p.routes[k].node_ids) \subseteq ToSet(p.nodes)
        /\ IsInjective([i \in DOMAIN p.connectors |-> p.connectors[i].id])
        /\ \A i \in DOMAIN p.connectors : {p.connectors[i].from, p.connectors[i].to} \subseteq ToSet(p.nodes)
=============================================================================
