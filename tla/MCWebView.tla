----------------------------- MODULE MCWebView -----------------------------
(* An instance of WebView for TLC: two saved labels, of three addresses,    *)
(* and lists with more addresses than are analysed, with equal addresses    *)
(* and one that is none, and with one address of each family.               *)
EXTENDS WebView

MCLabels == [ip \in IPs |-> IF ip < 3 THEN CHOOSE l \in Labels : TRUE ELSE NoLabel]
MCImports == {{1, 3}}

MCWidth == [v4 |-> 2, v6 |-> 3]
MCPow2 == [k \in 0 .. MCWidth["v6"] |-> 2 ^ k]

Text(form, value) == [form |-> form, value |-> value]

MCCommonInputs ==
    {<<Text("v4", 2), Text("mapped", 3), Text("v4", 2), Text("v4", 0)>>,
     <<Text("v4", 1), Text("v4", 1), Text("invalid", 0)>>,
     <<Text("v6", 5), Text("v4", 1)>>}
=============================================================================
