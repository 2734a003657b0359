--------------------------- MODULE MCNodeInstall -----------------------------
(* NodeInstall for TLC: an Express app, a Hono app and the prototype that  *)
(* installNext patches.                                                    *)
EXTENDS NodeInstall, TLC

CONSTANTS exp, hono, srv, foo, fooPadded, bar

MCStrip == (foo :> foo) @@ (fooPadded :> foo) @@ (bar :> bar)
PlainStrip == (foo :> foo) @@ (bar :> bar)

\* The methods that the tests of install() look for.
MCHas == [a \in Apps |->
    CASE a = exp -> {"use", "get", "handle", "listen", "route"}
      [] a = hono -> {"use", "get", "route", "fetch"}
      [] OTHER -> {"listen"}]

\* Two metrics paths, to retry with the other one; installNext mounts no route.
TwoPaths == [a \in Apps |-> IF a = srv THEN {"/api/metrics"} ELSE {"/metrics", "/m"}]
OnePath == [a \in Apps |-> {"/metrics"}]

\* Hono's handlers are never removed, so those of the host do not matter there.
OneHandler == [a \in Apps |-> IF a = hono THEN 0 ELSE 1]
NoHandler == [a \in Apps |-> 0]

AnyFault == Statements
NoHalf == {}
AnyHalf == {"process", "build"}
=============================================================================
