-------------------------- MODULE CompactTopology --------------------------
(***************************************************************************)
(* The compact topology the server puts into a report                      *)
(* (BuildCompactTopologyWithOptions in diagnostic/compact_topology.go) and *)
(* the pieces of the response fitting that cut it (api/server.go).         *)
(* Statuses, latencies, hop ranges and names are left out.                 *)
(***************************************************************************)
EXTENDS FairPrefix, FiniteSetsExt, Functions

CONSTANTS
    MaxTraceHops,   \* 30, the largest hop number of a trace
    Public,         \* addresses the network policy calls public
    Bundle,         \* what the lookup found of each: "none", "fits", "large"
    BundleSize      \* of a bundle in a response, in elements

ASSUME CompactAssumption ==
    /\ MaxTraceHops \in Nat
    /\ Public \subseteq Nat \ {Silent}
    /\ Bundle \in [Public -> {"none", "fits", "large"}]
    /\ BundleSize \in Nat \ {0}

(* What parseTraceroute and the checker make of an attempt: the hops after *)
(* the local node, the last of them the destination, whether it answered   *)
(* ("reached") or was added as the hop that failed.  The output of the     *)
(* command is "completed"; or "partial", parsed although the command       *)
(* failed, so that the attempt has an error code beside its topology; or   *)
(* there is "none".  The status of a completed attempt is that of its      *)
(* topology, "unreachable" when it was not reached.                        *)
Attempts ==
    {a \in [hops : Seq(Nat), reached : BOOLEAN, output : {"completed", "partial", "none"}] :
        Len(a.hops) <= MaxTraceHops + (IF a.reached THEN 0 ELSE 1)}

(* CompactTopologyMaxRouteNodes: the local node, the hops, the destination. *)
MaxRouteNodes == MaxTraceHops + 2

(* The attempts of result r that are eligible, in their order. *)
CompactRoutes(report, r) ==
    LET attempts == report[r].attempts
        traced == Ascending({j \in DOMAIN attempts : attempts[j].output = "completed"})
        keys(j) == Merged(<<Local>> \o [h \in DOMAIN attempts[j].hops |->
                                            NodeKey(attempts[j].hops[h], r, j, h)])
    IN  IF report[r].kind # "traceroute" THEN <<>>
        ELSE [n \in DOMAIN traced |-> [result |-> r, attempt |-> traced[n],
                                       reached |-> attempts[traced[n]].reached,
                                       keys |-> keys(traced[n])]]

Count(total, displayed) ==
    [total |-> total, displayed |-> displayed, omitted |-> total - displayed]

(* routes, node_observations and link_observations of a set of attempts. *)
ObservationStats(st, routes, S) ==
    LET shown == {i \in S : Displayed(st, routes, i) > 0}
        whole == {i \in shown : AcceptedWhole(st, routes, i)}
    IN  [routes |-> Count(Cardinality(S), Cardinality(shown)),
         complete |-> Cardinality(whole), partial |-> Cardinality(shown \ whole),
         node_observations |-> Count(Total([i \in S |-> Len(routes[i].keys)]),
                                     Total([i \in shown |-> Displayed(st, routes, i)])),
         link_observations |-> Count(Total([i \in S |-> Len(routes[i].keys) - 1]),
                                     Total([i \in shown |-> st.accepted[i]]))]

(* The Geo bundle of a node and how it is counted. *)
BundleOf(key) ==
    IF key.kind = "ip" /\ key.at[1] \in Public THEN Bundle[key.at[1]] ELSE "private"

GeoCounts(keys, geo) ==
    LET with(bundles) == Cardinality({n \in DOMAIN keys : BundleOf(keys[n]) \in bundles})
        included == IF geo THEN with({"fits"}) ELSE 0
    IN  [eligible |-> with({"none", "fits", "large"}),
         available |-> with({"fits", "large"}), included |-> included,
         omitted |-> with({"fits", "large"}) - included, unavailable |-> with({"none"})]

Reasons(st, counts) ==
    st.limited \cup (IF counts.omitted > 0 THEN {"geo_metadata_limit"} ELSE {})

Projection(report, routes, st, shown, keys, geo) ==
    [nodes |-> [n \in DOMAIN keys |->
        [id |-> <<n>>, key |-> keys[n], public |-> BundleOf(keys[n]) # "private",
         geo |-> geo /\ BundleOf(keys[n]) = "fits"]],
     links |-> SelectedLinks(st, routes, keys),
     routes |-> [n \in DOMAIN shown |->
        RouteOf(st, routes[shown[n]], Prefix(st, routes, shown[n]), keys,
                AcceptedWhole(st, routes, shown[n]))],
     nodeStats |-> Count(Cardinality(UNION {ToSet(routes[i].keys) : i \in DOMAIN routes}), Len(keys)),
     linkStats |-> Count(Cardinality(UNION {Pairs(routes[i].keys) : i \in DOMAIN routes}),
                         Cardinality(UNION {Pairs(Prefix(st, routes, i)) : i \in DOMAIN routes})),
     stats |-> ObservationStats(st, routes, DOMAIN routes),
     result_stats |-> [r \in DOMAIN report |->
        ObservationStats(st, routes, {i \in DOMAIN routes : routes[i].result = r})],
     geo |-> GeoCounts(keys, geo),
     reasons |-> Reasons(st, GeoCounts(keys, geo)),
     accepted |-> st.taken]

Projected(report, routes, st, geo) ==
    Projection(report, routes, st, Shown(st, routes), SelectedKeys(st, routes), geo)

Built(report, routes, limit, geo) == Projected(report, routes, Select(routes, limit), geo)

(* BuildCompactTopologyWithOptions *)
Build(report, limit, geo) ==
    Built(report, FlattenSeq([r \in DOMAIN report |-> CompactRoutes(report, r)]), limit, geo)

-----------------------------------------------------------------------------
(* The fitting: the length of a response, and what may be cut from it. *)

BundleCount(topology) == Cardinality({n \in DOMAIN topology.nodes : topology.nodes[n].geo})

Size(topology) ==
    Len(topology.nodes) + Cardinality(topology.links)
        + Total([n \in DOMAIN topology.routes |-> Len(topology.routes[n].node_ids)])
        + BundleSize * BundleCount(topology)

(* The bundles after node n. *)
Later(topology, n) == Cardinality({m \in DOMAIN topology.nodes : m > n /\ topology.nodes[m].geo})

NodesWithout(topology, removed) ==
    [n \in DOMAIN topology.nodes |->
        [topology.nodes[n] EXCEPT !.geo = @ /\ Later(topology, n) >= removed]]

(* Mutant: the removed bundles are not counted as omitted. *)
WithoutLastUncounted(topology, removed) ==
    [topology EXCEPT !.nodes = NodesWithout(topology, removed),
                     !.geo.included = @ - removed]

(* compactTopologyWithoutLastGeoBundles *)
WithoutLastGeoBundles(topology, removed) ==
    [topology EXCEPT !.nodes = NodesWithout(topology, removed),
                     !.geo.included = @ - removed, !.geo.omitted = @ + removed]

(* setCompactTruncationReasons *)
Limited(topology, geo) ==
    [topology EXCEPT !.reasons = @ \cup {"response_size"}
                                   \cup (IF geo THEN {"geo_metadata_limit"} ELSE {})]
=============================================================================
