----------------------------- MODULE FairPrefix -----------------------------
(***************************************************************************)
(* The selection "fair-complete-prefix-v1": of many traceroute attempts,   *)
(* which hops and links fit a topology of limited size.  The targets take  *)
(* turns, a target's attempts take turns within it, and a turn accepts the *)
(* next hop of one attempt or blocks that attempt for good.                *)
(*                                                                         *)
(* The server (diagnostic/compact_topology.go) and the web client, for a   *)
(* report that came whole (adaptLegacyTopology in topology-model.js), each *)
(* have an implementation; this module is what both of them do.            *)
(*                                                                         *)
(* A report is a sequence of results, a result has attempts, an attempt    *)
(* the addresses of its hops, Silent for a hop that did not answer.        *)
(***************************************************************************)
EXTENDS Integers, Sequences, FiniteSets, SequencesExt

CONSTANTS
    MaxNodes, MaxLinks      \* 500 and 1000 in both implementations

ASSUME PrefixAssumption == {MaxNodes, MaxLinks} \subseteq Nat \ {0}

Silent == 0

(* compactCanonicalNode: what makes two hops the same node.  A silent hop  *)
(* is a node of its own.                                                   *)
Local == [kind |-> "local", at |-> <<>>]

NodeKey(address, result, attempt, hop) ==
    IF address = Silent THEN [kind |-> "unknown", at |-> <<result, attempt, hop>>]
    ELSE [kind |-> "ip", at |-> <<address>>]

(* A finite set of numbers in ascending order, and what a sequence has at  *)
(* these places.                                                           *)
Ascending(S) ==
    [n \in 1 .. Cardinality(S) |-> CHOOSE x \in S : Cardinality({y \in S : y < x}) = n - 1]

At(s, S) == LET places == Ascending(S) IN [n \in DOMAIN places |-> s[places[n]]]

(* The sum of a function's values, which are natural numbers: how many     *)
(* units they have.                                                        *)
Units(f) == UNION {{x} \X (1 .. f[x]) : x \in DOMAIN f}
Total(f) == Cardinality(Units(f))

(* Neighbours with one key are one observation of the route. *)
Merged(keys) == At(keys, {i \in DOMAIN keys : i = 1 \/ keys[i] # keys[i - 1]})

Pairs(s) == {<<s[i], s[i + 1]>> : i \in 1 .. Len(s) - 1}

-----------------------------------------------------------------------------
(* The selection's state before its first turn: only the local node. *)
Start(routes) ==
    [nodes |-> IF \E i \in DOMAIN routes : routes[i].keys[1] = Local THEN <<Local>> ELSE <<>>,
     links |-> {},
     accepted |-> [i \in DOMAIN routes |-> 0],
     blocked |-> {},
     cursor |-> [r \in {routes[i].result : i \in DOMAIN routes} |-> 0],
     limited |-> {},
     taken |-> 0]

Open(st, routes, i) == i \notin st.blocked /\ st.accepted[i] < Len(routes[i].keys) - 1

(* Hop n of attempt i is a link to the hop after it. *)
Edge(routes, i, n) == <<routes[i].keys[n], routes[i].keys[n + 1]>>

With(nodes, key) == IF Contains(nodes, key) THEN nodes ELSE Append(nodes, key)

(* The next hop of attempt i is accepted, or the attempt is blocked. *)
Accept(st, routes, i) ==
    LET edge == Edge(routes, i, st.accepted[i] + 1)
        nodes == With(With(st.nodes, edge[1]), edge[2])
        links == st.links \cup {edge}
    IN  IF Len(nodes) > MaxNodes
        THEN [st EXCEPT !.blocked = @ \cup {i}, !.limited = @ \cup {"node_limit"}]
        ELSE IF Cardinality(links) > MaxLinks
        THEN [st EXCEPT !.blocked = @ \cup {i}, !.limited = @ \cup {"link_limit"}]
        ELSE [st EXCEPT !.nodes = nodes, !.links = links, !.accepted[i] = @ + 1, !.taken = @ + 1]

(* A turn of result r.  limit bounds the accepted hops; below zero there   *)
(* is no such bound.                                                       *)
Turn(st, routes, r, limit) ==
    LET group == Ascending({i \in DOMAIN routes : routes[i].result = r})
        at(k) == (st.cursor[r] + k) % Len(group)
        offered == {k \in 0 .. Len(group) - 1 : Open(st, routes, group[at(k) + 1])}
        first == CHOOSE k \in offered : \A other \in offered : k <= other
    IN  IF offered = {} \/ (limit >= 0 /\ st.taken >= limit) THEN st
        ELSE Accept([st EXCEPT !.cursor[r] = (at(first) + 1) % Len(group)],
                    routes, group[at(first) + 1])

(* Rounds of turns until no attempt is open: a turn leaves an attempt one  *)
(* hop further or blocked, so there are no more than this many rounds.     *)
Results(routes) == Ascending({routes[i].result : i \in DOMAIN routes})

Turns(routes, limit) ==
    LET after[n \in Nat] ==
            IF n = 0 THEN Start(routes)
            ELSE Turn(after[n - 1], routes,
                      Results(routes)[1 + ((n - 1) % Len(Results(routes)))], limit)
    IN  after

Select(routes, limit) ==
    Turns(routes, limit)[Total([i \in DOMAIN routes |-> Len(routes[i].keys)]) * Len(Results(routes))]

(* How many hops of attempt i are displayed, and which. *)
Displayed(st, routes, i) ==
    IF st.accepted[i] > 0 THEN st.accepted[i] + 1
    ELSE IF Len(routes[i].keys) = 1 /\ Contains(st.nodes, routes[i].keys[1]) THEN 1 ELSE 0

Prefix(st, routes, i) == SubSeq(routes[i].keys, 1, Displayed(st, routes, i))

(* The attempts that are displayed, and the nodes they have, in the order  *)
(* in which they were selected.                                            *)
Shown(st, routes) == Ascending({i \in DOMAIN routes : Displayed(st, routes, i) > 0})

SelectedKeys(st, routes) ==
    At(st.nodes, {n \in DOMAIN st.nodes :
                    \E i \in DOMAIN routes : Contains(Prefix(st, routes, i), st.nodes[n])})

IdOf(keys, k) == <<CHOOSE n \in DOMAIN keys : keys[n] = k>>

LinkOf(st, routes, keys, edge) ==
    [from |-> IdOf(keys, edge[1]), to |-> IdOf(keys, edge[2]),
     observations |-> Cardinality({o \in Units(st.accepted) : Edge(routes, o[1], o[2]) = edge})]

SelectedLinks(st, routes, keys) ==
    {LinkOf(st, routes, keys, edge) : edge \in UNION {Pairs(Prefix(st, routes, i)) : i \in DOMAIN routes}}

RouteOf(st, route, prefix, keys, complete) ==
    [result |-> route.result, attempt |-> route.attempt, reached |-> route.reached,
     complete |-> complete, node_ids |-> [m \in DOMAIN prefix |-> IdOf(keys, prefix[m])]]

AcceptedWhole(st, routes, i) == st.accepted[i] = Len(routes[i].keys) - 1
=============================================================================
