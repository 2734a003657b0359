---------------------------- MODULE MCPyInstall ------------------------------
(* PyInstall for TLC: two spellings of one service and another service.     *)
EXTENDS PyInstall, TLC

CONSTANTS c1, c2, c3, fast, multi, flask, foo, fooPadded, bar

MCStrip == (foo :> foo) @@ (fooPadded :> foo) @@ (bar :> bar)
PlainStrip == (foo :> foo) @@ (bar :> bar)

NoHostHooks == [a \in Apps |-> 0]
FlaskHostHooks == [a \in Apps |-> IF a \in Flask THEN 1 ELSE 0]
SomeHostHooks == [a \in Apps |-> 1]

NoPartialRegistration == Fallible \ {"construct", "register"}
AnyRaise == Fallible
FooStrip == foo :> foo
ConstructRaises == {"construct"}
WiringRaises == {"wire", "expose"}
=============================================================================
