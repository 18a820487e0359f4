--------------------------- MODULE TopologyModel ---------------------------
(***************************************************************************)
(* What the web client makes of a report's topology (frontend/state.js,    *)
(* topology-model.js, topology-presentation.js, topology-visualizer.js):   *)
(* it checks a compact topology or builds its own from a whole report,     *)
(* keeps the selected targets, plans what the document has room for, folds *)
(* or skips the silent hops, and checks the result before it is drawn.     *)
(***************************************************************************)
EXTENDS CompactTopology

(* normalizeCompactTopology: what is checked of a topology, except         *)
(*  - the types and ranges of its texts and numbers;                       *)
(*  - the maxima of the routes (10 for each result) and of the counts of   *)
(*    observations (8192 and 16384): 20 results of 10 attempts with at     *)
(*    most 32 nodes stay below them;                                       *)
(*  - "reached" against the status of a route: an attempt is eligible only *)
(*    with the status of its topology (traceAttemptEligible);              *)
(*  - hop_min against hop_max, the order of the reasons, and "truncated",  *)
(*    which is set from the reasons (setCompactTruncationReasons).         *)
CountAgrees(count) == count.omitted >= 0 /\ count.total = count.displayed + count.omitted

StatsAgree(stats) ==
    /\ \A field \in {"routes", "node_observations", "link_observations"} : CountAgrees(stats[field])
    /\ stats.routes.displayed = stats.complete + stats.partial

(* validateResultAttemptReference *)
AttemptReference(report, route) ==
    /\ route.result \in DOMAIN report /\ report[route.result].kind = "traceroute"
    /\ route.attempt \in DOMAIN report[route.result].attempts

RoutesAccepted(t, report) ==
    LET pairs == {<<l.from, l.to>> : l \in t.links}
    IN  \A n \in DOMAIN t.routes :
            LET route == t.routes[n]
            IN  /\ route.node_ids # <<>> /\ Len(route.node_ids) <= MaxRouteNodes
                /\ ToSet(route.node_ids) \subseteq {t.nodes[i].id : i \in DOMAIN t.nodes}
                /\ \A i \in 2 .. Len(route.node_ids) : route.node_ids[i] # route.node_ids[i - 1]
                /\ Pairs(route.node_ids) \subseteq pairs
                /\ AttemptReference(report, route)

StatsAccepted(t, report) ==
    LET complete(S) == {n \in S : t.routes[n].complete}
        all == DOMAIN t.routes
    IN  /\ CountAgrees(t.nodeStats) /\ CountAgrees(t.linkStats) /\ StatsAgree(t.stats)
        /\ t.nodeStats.displayed = Len(t.nodes) /\ t.linkStats.displayed = Cardinality(t.links)
        /\ t.stats.routes.displayed = Len(t.routes)
        /\ t.stats.complete = Cardinality(complete(all))
        /\ t.stats.link_observations.displayed = Total([l \in t.links |-> l.observations])
        /\ \A r \in DOMAIN t.result_stats :
              LET own == {n \in all : t.routes[n].result = r}
                  stats == t.result_stats[r]
              IN  /\ StatsAgree(stats) /\ r \in DOMAIN report
                  /\ report[r].kind # "traceroute" =>
                        stats.routes.total + stats.node_observations.total
                            + stats.link_observations.total = 0
                  /\ stats.routes.displayed = Cardinality(own)
                  /\ stats.complete = Cardinality(complete(own))
                  /\ stats.node_observations.displayed =
                        Total([n \in own |-> Len(t.routes[n].node_ids)])
                  /\ stats.link_observations.displayed =
                        Total([n \in own |-> Len(t.routes[n].node_ids) - 1])
        /\ \A field \in {"routes", "node_observations", "link_observations"},
              part \in {"total", "displayed", "omitted"} :
              Total([r \in DOMAIN t.result_stats |-> t.result_stats[r][field][part]])
                  = t.stats[field][part]
        /\ Total([r \in DOMAIN t.result_stats |-> t.result_stats[r].complete]) = t.stats.complete

(* The geo facts of a node are a public address's, and compactGeoBundleBytes *)
(* finds them within the limit the server keeps to.                          *)
GeoBundleAccepted(node) == node.geo => node.public /\ BundleOf(node.key) = "fits"

GeoAccepted(t) ==
    /\ t.geo.eligible = Cardinality({n \in DOMAIN t.nodes : t.nodes[n].public})
    /\ t.geo.included = Cardinality({n \in DOMAIN t.nodes : t.nodes[n].geo})
    /\ t.geo.eligible = t.geo.available + t.geo.unavailable
    /\ t.geo.available = t.geo.included + t.geo.omitted
    /\ {t.geo.eligible, t.geo.available, t.geo.included, t.geo.omitted, t.geo.unavailable}
            \subseteq 0 .. MaxNodes

NormalizeCompactTopology(t, report) ==
    /\ Len(t.nodes) <= MaxNodes /\ Cardinality(t.links) <= MaxLinks
    /\ IsInjective([n \in DOMAIN t.nodes |-> t.nodes[n].id])
    /\ \A n \in DOMAIN t.nodes : GeoBundleAccepted(t.nodes[n])
    /\ \A l \in t.links :
          /\ {l.from, l.to} \subseteq {t.nodes[n].id : n \in DOMAIN t.nodes}
          /\ l.from # l.to /\ l.observations >= 1
    /\ \A l1, l2 \in t.links : <<l1.from, l1.to>> = <<l2.from, l2.to>> => l1 = l2
    /\ RoutesAccepted(t, report) /\ StatsAccepted(t, report) /\ GeoAccepted(t)

CompactModel(t) ==
    [nodes |-> t.nodes, links |-> t.links, routes |-> t.routes, reasons |-> t.reasons]

-----------------------------------------------------------------------------
(* legacyRoutes: an attempt is walked along its links, from its first hop. *)
Walk(hops, links) ==
    LET next(h) == {j \in hops : <<h, j>> \in links /\ j > h}
        onward(h) == IF next(h) = {} THEN h ELSE Min(next(h))
        at[n \in Nat] == IF n = 0 THEN Min(hops) ELSE onward(at[n - 1])
    IN  Ascending({at[n] : n \in 0 .. Cardinality(hops) - 1})

(* The links of an attempt join its neighbouring hops; hop 0 is local. *)
Path(attempt) ==
    Walk(0 .. Len(attempt.hops), {<<h, h + 1>> : h \in 0 .. Len(attempt.hops) - 1})

Whole(attempt) == Last(Path(attempt)) = Len(attempt.hops)

(* An attempt is left out if it has no topology; its error code is not     *)
(* looked at.  (A result of this server has attempts whenever it has a     *)
(* topology, so the topology of a result without them is not modelled.)    *)
LegacyRoutes(report, r) ==
    LET attempts == report[r].attempts
        traced == Ascending({j \in DOMAIN attempts : attempts[j].output # "none"})
        key(j, h) == IF h = 0 THEN Local ELSE NodeKey(attempts[j].hops[h], r, j, h)
        keys(j, path) == Merged([i \in DOMAIN path |-> key(j, path[i])])
    IN  IF report[r].kind # "traceroute" THEN <<>>
        ELSE [n \in DOMAIN traced |-> [result |-> r, attempt |-> traced[n],
                                       reached |-> attempts[traced[n]].reached,
                                       keys |-> keys(traced[n], Path(attempts[traced[n]]))]]

(* A report as if the commands had not failed whose output was parsed.     *)
AsCompleted(rep) ==
    [r \in DOMAIN rep |->
        [kind |-> rep[r].kind,
         attempts |-> [j \in DOMAIN rep[r].attempts |->
            [hops |-> rep[r].attempts[j].hops, reached |-> rep[r].attempts[j].reached,
             output |-> IF rep[r].attempts[j].output = "none" THEN "none" ELSE "completed"]]]]

(* The server looks up the addresses of completed attempts only: a node    *)
(* that no such attempt shows is not known to be public.                   *)
Enriched(report, routes, st, shown) ==
    UNION {ToSet(Prefix(st, routes, i)) : i \in {j \in ToSet(shown) :
              report[routes[j].result].attempts[routes[j].attempt].output = "completed"}}

AdaptedModel(report, routes, st, shown, keys) ==
    [nodes |-> [n \in DOMAIN keys |->
        LET bundle == IF keys[n] \in Enriched(report, routes, st, shown)
                      THEN BundleOf(keys[n]) ELSE "private"
        IN  [id |-> <<n>>, key |-> keys[n], public |-> bundle # "private",
             geo |-> bundle \in {"fits", "large"}]],
     links |-> SelectedLinks(st, routes, keys),
     routes |-> [n \in DOMAIN shown |->
        LET route == routes[shown[n]]
        IN  RouteOf(st, route, Prefix(st, routes, shown[n]), keys,
                    /\ Whole(report[route.result].attempts[route.attempt])
                    /\ AcceptedWhole(st, routes, shown[n]))],
     reasons |-> st.limited]

Adapted(report, routes, st) ==
    AdaptedModel(report, routes, st, Shown(st, routes), SelectedKeys(st, routes))

AdaptedRoutes(report, routes) == Adapted(report, routes, Select(routes, -1))

AdaptLegacyTopology(report) ==
    AdaptedRoutes(report, FlattenSeq([r \in DOMAIN report |-> LegacyRoutes(report, r)]))

(* filterTopologyModel: the selected targets' part of a model. *)
FilterTopologyModel(model, selected) ==
    LET routes == At(model.routes, {n \in DOMAIN model.routes : model.routes[n].result \in selected})
        ids == UNION {ToSet(routes[n].node_ids) : n \in DOMAIN routes}
        pairs == UNION {Pairs(routes[n].node_ids) : n \in DOMAIN routes}
    IN  [model EXCEPT !.routes = routes,
                      !.nodes = At(@, {n \in DOMAIN @ : @[n].id \in ids}),
                      !.links = {l \in @ : <<l.from, l.to>> \in pairs}]
=============================================================================
