------------------------- MODULE MCWebfleetConfig -------------------------
(***************************************************************************)
(* WebfleetConfig instantiated for TLC: one group with a numeric rule and  *)
(* a sibling (api), one with an enum rule (logging), one unregistered      *)
(* boolean (cache); environment strings that exercise each branch of       *)
(* parseEnvValue; and the update/init objects the code ships (presets)     *)
(* plus the two shapes Partial<WebfleetConfig> allows that drop values.    *)
(***************************************************************************)
EXTENDS WebfleetConfig

Timeout == <<"api", "timeout">>
Retry   == <<"api", "retryAttempts">>
Level   == <<"logging", "level">>
Cache   == <<"cache", "enabled">>

MCPaths == {Timeout, Retry, Level, Cache}

MCEnvVars == {"WEBFLEET_API_TIMEOUT", "WEBFLEET_LOG_LEVEL", "WEBFLEET_CACHE_ENABLED"}

MCEnvChoices ==
       "WEBFLEET_API_TIMEOUT" :> {Unset, <<"2", "0", "0", "0", "0">>, <<"5", "e", "3">>, <<>>}
    @@ "WEBFLEET_LOG_LEVEL" :> {Unset, LvDebug, <<"I", "N", "F", "O">>}
    @@ "WEBFLEET_CACHE_ENABLED" :> {Unset, <<"F", "A", "L", "S", "E">>, <<"1", "e", "1">>}

\* For the safety runs: the empty string, which parseEnvValue turns into NaN.
MCEnvChoicesSafety ==
       "WEBFLEET_API_TIMEOUT" :> {Unset, <<>>}
    @@ "WEBFLEET_LOG_LEVEL" :> {Unset}
    @@ "WEBFLEET_CACHE_ENABLED" :> {Unset}

MCSetInputs ==
       Timeout :> {Num(15000), Num(500), NaN, Undefined}
    @@ Retry :> {Num(5)}
    @@ Level :> {Str(LvDebug), Str(<<"I", "N", "F", "O">>)}
    @@ Cache :> {Bool(FALSE), Undefined}

MCPartials ==
    { Exercised(ConfigPresets.development),
      Exercised(ConfigPresets.production),
      Exercised(ConfigPresets.testing),
      <<>>,                                  \* {}
      "api" :> Undefined,                    \* { api: undefined }
      "api" :> (Timeout :> Undefined) }      \* { api: { timeout: undefined } }

\* For the refinement run: environment strings that the code's parse and the
\* documented one read alike, set() values that are numbers or undefined,
\* and the update/init objects that leave every group an object.  The
\* inputs on which the two parses or the two validators differ are the
\* subject of the other runs.
MCEnvChoicesAgreeing ==
       "WEBFLEET_API_TIMEOUT" :> {Unset, <<"2", "0", "0", "0", "0">>}
    @@ "WEBFLEET_LOG_LEVEL" :> {Unset, LvDebug}
    @@ "WEBFLEET_CACHE_ENABLED" :> {Unset, <<"F", "A", "L", "S", "E">>}

MCSetInputsDefined ==
       Timeout :> {Num(15000), Num(500), Undefined}
    @@ Retry :> {Num(5)}
    @@ Level :> {Str(LvDebug), Str(<<"I", "N", "F", "O">>)}
    @@ Cache :> {Bool(FALSE), Undefined}

MCPartialsDefined ==
    { Exercised(ConfigPresets.development),
      Exercised(ConfigPresets.production),
      Exercised(ConfigPresets.testing),
      <<>> }

=============================================================================
