---------------------------- MODULE MCHttpRecording ----------------------------
(* Paths, a router and segments for TLC. *)
EXTENDS HttpRecording

Metrics == <<"metrics">>
Item == <<"items", "42">>
Sku == <<"shop", "ORD-9981">>
Deep == <<"wp", "7", "a", "b", "c", "d">>

MCPaths == {Metrics, Item, Sku, Deep}
\* One request for any path, and one more in Next, where requests share labels and patch.
MCAsks == [l \in Lanes |-> [r \in Requests |->
    IF r = "r1" THEN MCPaths ELSE IF l = "next" THEN {Item} ELSE {}]]
MCKind == [t \in UNION {Range(p) : p \in MCPaths} |->
    CASE t \in {"42", "7"} -> "numeric" [] t = "ORD-9981" -> "other" [] OTHER -> "safe"]
\* One path has a route, one is under middleware on "/wp/*".
MCTemplate == [p \in Paths |-> IF p = Item THEN <<"items", "<id>">> ELSE <<"__unmatched__">>]
MCRoutePath == [p \in Paths |->
    CASE p = Item -> <<"items", "<id>">> [] p = Deep -> <<"wp", "*">> [] OTHER -> <<"*">>]
MCCatchAll == {<<"*">>}
MCOverrides == [p \in Paths \cap {Sku} |-> <<"shop", ":sku">>]
MCUnmatched == <<"__unmatched__">>
MCOverflow == <<"__overflow__">>

\* A method in lower case, and one that no standard has.
MCMethod == [r \in Requests |-> IF r = "r1" THEN "get" ELSE "ASDF"]
MCUpper == [m \in {"get", "ASDF"} |-> IF m = "get" THEN "GET" ELSE m]
=============================================================================
