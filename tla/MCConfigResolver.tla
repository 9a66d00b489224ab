-------------------------- MODULE MCConfigResolver --------------------------
(***************************************************************************)
(* Refinement: the ConfigManager (WebfleetConfig) implements the Config    *)
(* Resolver of the specification (ConfigResolver).  The resolver sees each *)
(* path's value as get() reads it, the initialized flag, and the           *)
(* environment through the documented parse; its rules are the documented *)
(* ones, under which a range holds numbers only.                           *)
(*                                                                         *)
(* envView is an auxiliary variable: it holds the documented parse of the  *)
(* environment, fixed in Init, so that the mapping does not parse the      *)
(* environment again at every step.  It constrains nothing.                *)
(***************************************************************************)
EXTENDS MCWebfleetConfig

VARIABLE envView

\* The documented rule of a registered path: a range rule holds numbers
\* within bounds (NaN is not one of them), the others as in the code.
DocumentedAccepts(p, v) ==
    LET r == ValidationRules[p]
    IN  IF r.kind = "range" THEN IsNum(v) /\ r.lo <= v.num /\ v.num <= r.hi
        ELSE RuleAccepts(r, v)

\* The environment's overrides under the documented parse.
DocumentedEnvOverrides(a) ==
    [p \in {EnvVarMappings[e] : e \in PresentEnvVars(a)} |->
        DocumentedParseEnvValue(a[EnvVarOf(p)])]

DefaultsOfPaths == [p \in Paths |-> DefaultConfig[p]]

SpecWithEnvView ==
    /\ Init /\ envView = DocumentedEnvOverrides(env)
    /\ [][Next /\ UNCHANGED envView]_<<vars, envView>>

Resolver == INSTANCE ConfigResolver
    WITH cfg         <- [p \in Paths |-> GetNestedProperty(config, p)],
         initialized <- isInitialized,
         envConfig   <- envView,
         Defaults    <- DefaultsOfPaths,
         Accepts     <- DocumentedAccepts

\* Every behaviour of the ConfigManager, seen through get(), is one the
\* specification (§4.1) allows: init() and the lazy init of get()/getAll()
\* build defaults -> environment -> overrides, reset() brings the defaults
\* back, a failed call changes nothing and every committed value satisfies
\* the documented rules.
ImplementsConfigResolver == Resolver!Spec

=============================================================================
