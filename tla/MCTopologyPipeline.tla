------------------------- MODULE MCTopologyPipeline -------------------------
(***************************************************************************)
(* An instance of TopologyPipeline for TLC: a target traced twice, another *)
(* traced once, and a check that is no trace.                              *)
(***************************************************************************)
EXTENDS TopologyPipeline

Traced(hops, reached) == [hops |-> hops, reached |-> reached, output |-> "completed"]
Partial(hops, reached) == [hops |-> hops, reached |-> reached, output |-> "partial"]
Untraced == [hops |-> <<>>, reached |-> FALSE, output |-> "none"]
Result(kind, attempts) == [kind |-> kind, attempts |-> attempts]

(* One hop or several, silent ones, alone and in a row, an address seen    *)
(* twice in a row and twice with another between; as many hops as a trace  *)
(* may have, with the failed destination and without; partial output that  *)
(* adds nodes of its own.                                                  *)
FirstTraces == {Traced(<<1, 2>>, TRUE), Traced(<<1, 0, 2>>, TRUE), Traced(<<0, 0, 2>>, FALSE),
                Traced(<<1, 1, 2>>, TRUE), Traced(<<3, 1, 3, 2>>, FALSE)}
SecondTraces == {Traced(<<2>>, TRUE), Traced(<<0, 2>>, TRUE), Traced(<<1, 0, 1, 2>>, FALSE), Untraced,
                 Partial(<<4, 2>>, TRUE), Partial(<<0, 2>>, FALSE)}
OtherTraces == {Traced(<<1, 3>>, TRUE), Traced(<<0, 1, 0, 3>>, FALSE), Traced(<<3, 2, 3>>, FALSE)}

MCReports ==
    {<<Result("traceroute", <<a, b>>), Result("dns", <<>>), Result("traceroute", <<c>>)>> :
        a \in FirstTraces, b \in SecondTraces, c \in OtherTraces}

MCBundle == [a \in {1, 2, 3, 4} |-> IF a = 3 THEN "large" ELSE "fits"]
=============================================================================
