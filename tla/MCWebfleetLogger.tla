--------------------------- MODULE MCWebfleetLogger ---------------------------
(***************************************************************************)
(* The logger for TLC: the singleton and one child, WEBFLEET_LOG_LEVEL     *)
(* unset or "DEBUG" (upper case, which the constructor lower-cases), a     *)
(* child whose base context carries a requestId, and two asynchronous      *)
(* operations.                                                             *)
(***************************************************************************)
EXTENDS WebfleetLogger

MCEnvLogLevels == {Unset, <<"D", "E", "B", "U", "G">>}

MCBaseContexts == {"requestId" :> "r0"}

\* No context, or a context with its own requestId.
MCCallContexts == {<<>>, "requestId" :> "r1"}

MCRequestIds == {Undefined, "r2"}

====
