--------------------------- MODULE WebfleetConfig ---------------------------
(***************************************************************************)
(* ConfigManager, the process-wide configuration singleton of              *)
(* src/packages/webfleet-connector/src/config/index.ts.                    *)
(*                                                                         *)
(* The configuration is a tree: groups (api, logging, cache, ...) holding  *)
(* leaves.  A configuration object is modelled as a record                 *)
(*   leaf  : [Paths -> value]  the leaf values                             *)
(*   group : [Groups -> "object" | "undefined" | "absent"]                 *)
(* where a group whose key holds undefined ("undefined") and a group whose *)
(* key is missing ("absent") both read as undefined but differ for         *)
(* setNestedProperty.  Leaves of a group that is not an object are kept at *)
(* Undefined.                                                              *)
(*                                                                         *)
(* Object identity matters in this code: the constructor makes            *)
(* this.config the defaultConfig object itself, and reset() makes it a     *)
(* shallow copy whose groups are defaultConfig's groups.  While that is so *)
(* (aliased = TRUE) set() writes through into defaultConfig.  init() and   *)
(* update() build a deep copy (JSON clone) and end the sharing.            *)
(***************************************************************************)
EXTENDS JsValues, FiniteSets

CONSTANTS
    Paths,       \* the configuration paths exercised, as <<group, key>>
    EnvVars,     \* the environment variables exercised
    EnvChoices,  \* EnvChoices[e]: the raw strings e may hold, and Unset
    Unset,       \* model value: the variable is not in process.env
    SetInputs,   \* SetInputs[p]: the values passed to set(p, value)
    Partials,    \* the objects passed to update() and init()
    NoOverride   \* model value: init() called without an argument

(***************************************************************************)
(* The tables of config/index.ts.                                          *)
(***************************************************************************)
LvError == <<"e", "r", "r", "o", "r">>
LvWarn  == <<"w", "a", "r", "n">>
LvInfo  == <<"i", "n", "f", "o">>
LvDebug == <<"d", "e", "b", "u", "g">>

DefaultBaseUrl == <<"h", "t", "t", "p", "s", ":", "/", "/", "c", "o", "n", "n", "e",
                    "c", "t", ".", "w", "e", "b", "f", "l", "e", "e", "t", ".", "c",
                    "o", "m">>

\* defaultConfig
DefaultConfig ==
       <<"api", "baseUrl">> :> Str(DefaultBaseUrl)
    @@ <<"api", "timeout">> :> Num(30000)
    @@ <<"api", "retryAttempts">> :> Num(3)
    @@ <<"api", "retryDelay">> :> Num(1000)
    @@ <<"api", "rateLimit", "maxRequests">> :> Num(100)
    @@ <<"api", "rateLimit", "windowMs">> :> Num(60000)
    @@ <<"logging", "level">> :> Str(LvInfo)
    @@ <<"logging", "maxLogs">> :> Num(1000)
    @@ <<"logging", "enableConsoleOutput">> :> Bool(TRUE)
    @@ <<"cache", "enabled">> :> Bool(TRUE)
    @@ <<"cache", "ttl">> :> Num(300)
    @@ <<"cache", "maxSize">> :> Num(500)
    @@ <<"transform", "enableDataValidation">> :> Bool(TRUE)
    @@ <<"transform", "enableTimestampNormalization">> :> Bool(TRUE)
    @@ <<"transform", "enableAddressGeocoding">> :> Bool(FALSE)
    @@ <<"security", "enableRequestSigning">> :> Bool(FALSE)
    @@ <<"security", "enableResponseValidation">> :> Bool(TRUE)
    @@ <<"security", "maxResponseSize">> :> Num(10485760)
    @@ <<"performance", "enableMetrics">> :> Bool(TRUE)
    @@ <<"performance", "enablePerformanceLogging">> :> Bool(TRUE)
    @@ <<"performance", "slowQueryThreshold">> :> Num(5000)

\* envVarMappings
EnvVarMappings ==
       "WEBFLEET_API_BASE_URL" :> <<"api", "baseUrl">>
    @@ "WEBFLEET_API_TIMEOUT" :> <<"api", "timeout">>
    @@ "WEBFLEET_API_RETRY_ATTEMPTS" :> <<"api", "retryAttempts">>
    @@ "WEBFLEET_API_RETRY_DELAY" :> <<"api", "retryDelay">>
    @@ "WEBFLEET_API_RATE_LIMIT_MAX_REQUESTS" :> <<"api", "rateLimit", "maxRequests">>
    @@ "WEBFLEET_API_RATE_LIMIT_WINDOW_MS" :> <<"api", "rateLimit", "windowMs">>
    @@ "WEBFLEET_LOG_LEVEL" :> <<"logging", "level">>
    @@ "WEBFLEET_LOG_MAX_LOGS" :> <<"logging", "maxLogs">>
    @@ "WEBFLEET_LOG_ENABLE_CONSOLE" :> <<"logging", "enableConsoleOutput">>
    @@ "WEBFLEET_CACHE_ENABLED" :> <<"cache", "enabled">>
    @@ "WEBFLEET_CACHE_TTL" :> <<"cache", "ttl">>
    @@ "WEBFLEET_CACHE_MAX_SIZE" :> <<"cache", "maxSize">>
    @@ "WEBFLEET_TRANSFORM_ENABLE_VALIDATION" :> <<"transform", "enableDataValidation">>
    @@ "WEBFLEET_TRANSFORM_ENABLE_TIMESTAMP_NORMALIZATION" :> <<"transform", "enableTimestampNormalization">>
    @@ "WEBFLEET_TRANSFORM_ENABLE_ADDRESS_GEOCODING" :> <<"transform", "enableAddressGeocoding">>
    @@ "WEBFLEET_SECURITY_ENABLE_REQUEST_SIGNING" :> <<"security", "enableRequestSigning">>
    @@ "WEBFLEET_SECURITY_ENABLE_RESPONSE_VALIDATION" :> <<"security", "enableResponseValidation">>
    @@ "WEBFLEET_SECURITY_MAX_RESPONSE_SIZE" :> <<"security", "maxResponseSize">>
    @@ "WEBFLEET_PERFORMANCE_ENABLE_METRICS" :> <<"performance", "enableMetrics">>
    @@ "WEBFLEET_PERFORMANCE_ENABLE_LOGGING" :> <<"performance", "enablePerformanceLogging">>
    @@ "WEBFLEET_PERFORMANCE_SLOW_QUERY_THRESHOLD" :> <<"performance", "slowQueryThreshold">>

NumberRule(lo, hi) == [kind |-> "range", lo |-> lo, hi |-> hi]

\* validationRules: one rule per registered path.
ValidationRules ==
       <<"api", "baseUrl">> :> [kind |-> "http"]
    @@ <<"api", "timeout">> :> NumberRule(1000, 300000)
    @@ <<"api", "retryAttempts">> :> NumberRule(0, 10)
    @@ <<"api", "retryDelay">> :> NumberRule(100, 10000)
    @@ <<"api", "rateLimit", "maxRequests">> :> NumberRule(1, 1000)
    @@ <<"api", "rateLimit", "windowMs">> :> NumberRule(1000, 3600000)
    @@ <<"logging", "level">> :> [kind |-> "oneOf", values |-> {LvError, LvWarn, LvInfo, LvDebug}]
    @@ <<"logging", "maxLogs">> :> NumberRule(100, 10000)
    @@ <<"cache", "ttl">> :> NumberRule(10, 86400)
    @@ <<"cache", "maxSize">> :> NumberRule(10, 10000)
    @@ <<"security", "maxResponseSize">> :> NumberRule(1024, 104857600)
    @@ <<"performance", "slowQueryThreshold">> :> NumberRule(100, 60000)

\* A validator returns instead of throwing.  typeof NaN is 'number' and
\* every comparison with NaN is false, so a range rule accepts NaN.
RuleAccepts(rule, v) ==
    CASE rule.kind = "range" -> v = NaN \/ (IsNum(v) /\ rule.lo <= v.num /\ v.num <= rule.hi)
      [] rule.kind = "http"  -> IsStr(v) /\ IsPrefix(<<"h", "t", "t", "p">>, v.str)
      [] rule.kind = "oneOf" -> \E l \in rule.values : v = Str(l)

ASSUME \A p \in Paths : Len(p) = 2 /\ p \in DOMAIN DefaultConfig
ASSUME \A e \in EnvVars : EnvVarMappings[e] \in Paths

Groups == {p[1] : p \in Paths}
Registered == Paths \cap DOMAIN ValidationRules
GroupStates == {"object", "undefined", "absent"}

\* The configuration object whose groups are all objects holding d.
ObjectOf(d) == [leaf |-> d, group |-> [g \in Groups |-> "object"]]

\* getNestedProperty
GetNestedProperty(c, p) == IF c.group[p[1]] = "object" THEN c.leaf[p] ELSE Undefined

(***************************************************************************)
(* mergeConfig: a JSON deep clone of base, into which deepMerge copies the *)
(* override.  A partial is a function from groups to Undefined (the group  *)
(* key set to undefined) or to a function from some of the group's paths   *)
(* to values.  An object override into a group the clone lacks starts from *)
(* a fresh {}: the group's other leaves are gone.                          *)
(***************************************************************************)
MergeConfig(base, override) ==
    LET IsObject(g) == g \in DOMAIN override /\ override[g] # Undefined
        group == [g \in Groups |->
                    CASE IsObject(g)              -> "object"
                      [] g \in DOMAIN override    -> "undefined"
                      [] base.group[g] = "object" -> "object"
                      [] OTHER                    -> "absent"]
        leaf(p) == CASE group[p[1]] # "object"                           -> Undefined
                     [] IsObject(p[1]) /\ p \in DOMAIN override[p[1]]    -> override[p[1]][p]
                     [] base.group[p[1]] = "object"                      -> JsonClone(base.leaf[p])
                     [] OTHER                                            -> Undefined
    IN  [leaf |-> [p \in Paths |-> leaf(p)], group |-> group]

\* validateConfig: every registered path whose value is not undefined.
ValidateConfig(c) ==
    \A p \in Registered :
        GetNestedProperty(c, p) # Undefined => RuleAccepts(ValidationRules[p], GetNestedProperty(c, p))

\* parseEnvValue: Number.isInteger holds of every number the modelled
\* strings denote, so a numeric string is read back with parseInt(value, 10).
ParseEnvValue(s) ==
    CASE ToLowerCase(s) = <<"t", "r", "u", "e">>      -> Bool(TRUE)
      [] ToLowerCase(s) = <<"f", "a", "l", "s", "e">> -> Bool(FALSE)
      [] StringToNumber(s) # NaN                      -> ParseInt10(s)
      [] OTHER                                        -> Str(s)

EnvVarOf(p) == CHOOSE e \in EnvVars : EnvVarMappings[e] = p

\* The variables present in env.
PresentEnvVars(env) == {e \in EnvVars : env[e] # Unset}

\* loadConfigFromEnv as a partial: setNestedProperty of each present
\* variable's parsed value at its mapped path.
EnvPartial(env, parsed) ==
    LET present == {EnvVarMappings[e] : e \in PresentEnvVars(env)}
    IN  [g \in {p[1] : p \in present} |->
            [p \in {q \in present : q[1] = g} |-> parsed[EnvVarOf(p)]]]

LoadConfigFromEnv(env) ==
    EnvPartial(env, [e \in PresentEnvVars(env) |-> ParseEnvValue(env[e])])

\* The configuration init(override) validates: default -> env -> override.
InitCandidate(defaults, env, over) ==
    LET merged == MergeConfig(ObjectOf(defaults), LoadConfigFromEnv(env))
    IN  IF over = NoOverride THEN merged ELSE MergeConfig(merged, over)

EnvAssignments == {f \in [EnvVars -> UNION {EnvChoices[e] : e \in EnvVars}] :
                      \A e \in EnvVars : f[e] \in EnvChoices[e]}


(***************************************************************************)
(* State.                                                                  *)
(***************************************************************************)
VARIABLES
    config,         \* this.config
    defaults,       \* the defaultConfig object, [Paths -> value]
    aliased,        \* this.config's groups are defaultConfig's groups
    isInitialized,  \* this.isInitialized
    env,            \* process.env, read by every init
    lastOp          \* the last call and whether it returned or threw

vars == <<config, defaults, aliased, isInitialized, env, lastOp>>

Ops == {"construct", "init", "initOverride", "get", "getAll", "set", "update", "reset"}

Returned(op) == lastOp' = [op |-> op, ok |-> TRUE]
Threw(op)    == lastOp' = [op |-> op, ok |-> FALSE]

\* constructor: this.config = defaultConfig, the object itself.
Init ==
    /\ defaults = [p \in Paths |-> DefaultConfig[p]]
    /\ config = ObjectOf(defaults)
    /\ aliased = TRUE
    /\ isInitialized = FALSE
    /\ env \in EnvAssignments
    /\ lastOp = [op |-> "construct", ok |-> TRUE]

\* init(overrideConfig): validation runs on the fully merged candidate
\* before anything is assigned.
InitWith(over, op) ==
    LET c == InitCandidate(defaults, env, over) IN
    /\ \/ /\ ValidateConfig(c)
          /\ config' = c
          /\ aliased' = FALSE
          /\ isInitialized' = TRUE
          /\ Returned(op)
       \/ /\ ~ValidateConfig(c)
          /\ Threw(op)
          /\ UNCHANGED <<config, aliased, isInitialized>>
    /\ UNCHANGED <<defaults, env>>

ConfigInit(over) ==
    InitWith(over, IF over = NoOverride THEN "init" ELSE "initOverride")

\* get(path): lazily init() first; the read changes no state.
Get ==
    \/ /\ isInitialized
       /\ Returned("get")
       /\ UNCHANGED <<config, defaults, aliased, isInitialized, env>>
    \/ /\ ~isInitialized
       /\ InitWith(NoOverride, "get")

\* getAll(): the same lazy init, then a shallow copy for the caller.
GetAll ==
    \/ /\ isInitialized
       /\ Returned("getAll")
       /\ UNCHANGED <<config, defaults, aliased, isInitialized, env>>
    \/ /\ ~isInitialized
       /\ InitWith(NoOverride, "getAll")

(***************************************************************************)
(* Mutants: plausible bugs of the code below, each breaking a property.    *)
(***************************************************************************)
\* set() without the path's validation rule.
SetUnvalidated(p, v) ==
    LET g == p[1] IN
    /\ \/ /\ config.group[g] = "undefined"
          /\ Threw("set")
          /\ UNCHANGED <<config, defaults>>
       \/ /\ config.group[g] = "absent"
          /\ config' = [leaf  |-> [q \in Paths |-> CASE q = p    -> v
                                                   [] q[1] = g -> Undefined
                                                   [] OTHER    -> config.leaf[q]],
                        group |-> [config.group EXCEPT ![g] = "object"]]
          /\ Returned("set")
          /\ UNCHANGED defaults
       \/ /\ config.group[g] = "object"
          /\ config' = [config EXCEPT !.leaf[p] = v]
          /\ defaults' = IF aliased THEN [defaults EXCEPT ![p] = v] ELSE defaults
          /\ Returned("set")
    /\ UNCHANGED <<aliased, isInitialized, env>>

\* update() assigning the merged object before validating it.
UpdateCommitThenValidate(part) ==
    LET c == MergeConfig(config, part) IN
    /\ config' = c
    /\ aliased' = FALSE
    /\ lastOp' = [op |-> "update", ok |-> ValidateConfig(c)]
    /\ UNCHANGED <<defaults, isInitialized, env>>

\* reset() that forgets to clear isInitialized.
ResetKeepsInitialized ==
    /\ config' = ObjectOf(defaults)
    /\ aliased' = TRUE
    /\ Returned("reset")
    /\ UNCHANGED <<defaults, env, isInitialized>>

\* set(path, value): the exact path's rule, then setNestedProperty, which
\* creates a missing group, throws a TypeError on a group holding undefined,
\* and writes through into defaultConfig while the groups are shared.
Set(p, v) ==
    LET g == p[1]
        accepted == p \in DOMAIN ValidationRules => RuleAccepts(ValidationRules[p], v)
    IN
    /\ \/ /\ ~accepted
          /\ Threw("set")
          /\ UNCHANGED <<config, defaults>>
       \/ /\ accepted
          /\ config.group[g] = "undefined"
          /\ Threw("set")
          /\ UNCHANGED <<config, defaults>>
       \/ /\ accepted
          /\ config.group[g] = "absent"
          /\ config' = [leaf  |-> [q \in Paths |-> CASE q = p    -> v
                                                   [] q[1] = g -> Undefined
                                                   [] OTHER    -> config.leaf[q]],
                        group |-> [config.group EXCEPT ![g] = "object"]]
          /\ Returned("set")
          /\ UNCHANGED defaults
       \/ /\ accepted
          /\ config.group[g] = "object"
          /\ config' = [config EXCEPT !.leaf[p] = v]
          /\ defaults' = IF aliased THEN [defaults EXCEPT ![p] = v] ELSE defaults
          /\ Returned("set")
    /\ UNCHANGED <<aliased, isInitialized, env>>

\* update(partialConfig): merge into a clone, validate it, then commit.
Update(part) ==
    LET c == MergeConfig(config, part) IN
    /\ \/ /\ ValidateConfig(c)
          /\ config' = c
          /\ aliased' = FALSE
          /\ Returned("update")
       \/ /\ ~ValidateConfig(c)
          /\ Threw("update")
          /\ UNCHANGED <<config, aliased>>
    /\ UNCHANGED <<defaults, isInitialized, env>>

\* reset(): this.config = { ...defaultConfig }, a copy of the top level only.
Reset ==
    /\ config' = ObjectOf(defaults)
    /\ aliased' = TRUE
    /\ isInitialized' = FALSE
    /\ Returned("reset")
    /\ UNCHANGED <<defaults, env>>

Next ==
    \/ \E over \in Partials \cup {NoOverride} : ConfigInit(over)
    \/ Get
    \/ GetAll
    \/ \E p \in Paths : \E v \in SetInputs[p] : Set(p, v)
    \/ \E part \in Partials : Update(part)
    \/ Reset

Spec == Init /\ [][Next]_vars

(***************************************************************************)
(* configPresets, as partials over the full set of paths, and their        *)
(* restriction to the groups and paths the model exercises.               *)
(***************************************************************************)
ConfigPresets ==
    [development |->
        "logging" :> (<<"logging", "level">> :> Str(LvDebug)
                      @@ <<"logging", "enableConsoleOutput">> :> Bool(TRUE))
     @@ "cache" :> (<<"cache", "enabled">> :> Bool(FALSE))
     @@ "performance" :> (<<"performance", "enableMetrics">> :> Bool(TRUE)
                          @@ <<"performance", "enablePerformanceLogging">> :> Bool(TRUE)),
     production |->
        "logging" :> (<<"logging", "level">> :> Str(LvWarn)
                      @@ <<"logging", "enableConsoleOutput">> :> Bool(FALSE))
     @@ "cache" :> (<<"cache", "enabled">> :> Bool(TRUE) @@ <<"cache", "ttl">> :> Num(600))
     @@ "api" :> (<<"api", "timeout">> :> Num(15000) @@ <<"api", "retryAttempts">> :> Num(5))
     @@ "performance" :> (<<"performance", "enableMetrics">> :> Bool(TRUE)
                          @@ <<"performance", "enablePerformanceLogging">> :> Bool(FALSE)),
     testing |->
        "logging" :> (<<"logging", "level">> :> Str(LvError)
                      @@ <<"logging", "enableConsoleOutput">> :> Bool(FALSE))
     @@ "cache" :> (<<"cache", "enabled">> :> Bool(FALSE))
     @@ "api" :> (<<"api", "timeout">> :> Num(5000) @@ <<"api", "retryAttempts">> :> Num(1))
     @@ "performance" :> (<<"performance", "enableMetrics">> :> Bool(FALSE)
                          @@ <<"performance", "enablePerformanceLogging">> :> Bool(FALSE))]

Exercised(part) ==
    [g \in DOMAIN part \cap Groups |->
        IF part[g] = Undefined THEN Undefined
        ELSE [p \in DOMAIN part[g] \cap Paths |-> part[g][p]]]

(***************************************************************************)
(* Properties.                                                             *)
(***************************************************************************)
\* Every registered path of this.config, and of defaultConfig that reset()
\* and init() start from, is undefined or accepted by its rule, whatever
\* mix of init, set (writing through the shared groups), update and reset
\* reached the state.
ConfigAndDefaultsValid ==
    /\ ValidateConfig(config)
    /\ ValidateConfig(ObjectOf(defaults))

\* A call of init, get, getAll, set or update that throws leaves this.config,
\* defaultConfig and the initialized flag as they were (validate, then
\* commit: no half-merged object survives a failed call).
FailedCallChangesNothing ==
    [][~lastOp'.ok => UNCHANGED <<config, defaults, aliased, isInitialized>>]_vars

\* While the manager is initialized no call changes defaultConfig: set()
\* can only write through into it between construction or reset() and the
\* next init.
DefaultsFrozenOnceInitialized ==
    [][isInitialized => UNCHANGED defaults]_vars

\* Every registered numeric path holds undefined or a number inside the
\* documented bounds (api.timeout in [1000, 300000], ...).
ValuesWithinDocumentedBounds ==
    \A p \in Registered :
        ValidationRules[p].kind = "range" =>
            LET v == GetNestedProperty(config, p)
            IN  v = Undefined
                \/ (IsNum(v) /\ ValidationRules[p].lo <= v.num /\ v.num <= ValidationRules[p].hi)

\* The documented parse of an environment string: "true"/"false" in any
\* case, else the number the whole string denotes, else the string.
DocumentedParseEnvValue(s) ==
    CASE ToLowerCase(s) = <<"t", "r", "u", "e">>      -> Bool(TRUE)
      [] ToLowerCase(s) = <<"f", "a", "l", "s", "e">> -> Bool(FALSE)
      [] StringToNumber(s) # NaN                      -> StringToNumber(s)
      [] OTHER                                        -> Str(s)

DocumentedEnvConfig ==
    MergeConfig(ObjectOf([p \in Paths |-> DefaultConfig[p]]),
                EnvPartial(env, [e \in PresentEnvVars(env) |-> DocumentedParseEnvValue(env[e])]))

\* An init without override (explicit, or the lazy one of get/getAll) from
\* untouched defaults succeeds exactly when the documented parse of the
\* environment gives a valid configuration, and then yields that parse.
EnvInitAsDocumented ==
    [][ (/\ ~isInitialized
         /\ lastOp'.op \in {"init", "get", "getAll"}
         /\ defaults = [p \in Paths |-> DefaultConfig[p]])
        => /\ lastOp'.ok = ValidateConfig(DocumentedEnvConfig)
           /\ lastOp'.ok => config' = DocumentedEnvConfig ]_vars

=============================================================================
