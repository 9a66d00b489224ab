--------------------------- MODULE ConfigResolver ---------------------------
(***************************************************************************)
(* The Config Resolver as the specification promises it (spec §3, §4.1,   *)
(* §8): a configuration of leaf values and an initialized flag.            *)
(*   - init(overrides?) validates the fully merged candidate defaults ->   *)
(*     environment -> overrides and commits it only if it is valid;        *)
(*   - get/getAll read, running init() first when not initialized;         *)
(*   - set(path, value) checks the exact path's rule, then mutates;        *)
(*   - update(partial) merges, validates everything, then commits;         *)
(*   - reset() returns to the defaults and clears the initialized flag.    *)
(* A failed call changes nothing.  Every leaf of a committed configuration *)
(* satisfies the rule registered for its path.                             *)
(***************************************************************************)
EXTENDS JsValues

CONSTANTS
    Paths,        \* the configuration leaves
    Defaults,     \* the hardcoded defaults, [Paths -> value]
    Registered,   \* the paths with a validation rule
    Accepts(_, _),\* Accepts(p, v): v satisfies the rule of p
    Partials,     \* the objects passed to update() and init()
    NoOverride,   \* init() called without an argument
    SetInputs     \* SetInputs[p]: the values passed to set(p, value)

VARIABLES
    cfg,          \* the configuration, [Paths -> value]
    initialized,  \* init() has committed since construction or reset()
    envConfig     \* the environment's overrides, a function on some Paths

vars == <<cfg, initialized, envConfig>>

\* The leaves a partial object writes: a group set to undefined makes all
\* its leaves undefined, an object group the leaves it lists.
Writes(part) ==
    LET g(p) == p[1]
        touched == {p \in Paths : g(p) \in DOMAIN part /\
                                  (part[g(p)] = Undefined \/ p \in DOMAIN part[g(p)])}
    IN  [p \in touched |-> IF part[g(p)] = Undefined THEN Undefined ELSE part[g(p)][p]]

\* deepMerge at the level of leaves.
DeepMerge(c, w) == [p \in Paths |-> IF p \in DOMAIN w THEN w[p] ELSE c[p]]

Valid(c) == \A p \in Registered : Accepts(p, c[p])

Candidate(over) ==
    LET base == DeepMerge(Defaults, envConfig)
    IN  IF over = NoOverride THEN base ELSE DeepMerge(base, Writes(over))

\* Validate the candidate; commit it, or change nothing.
Commit(c, init) ==
    \/ /\ Valid(c)
       /\ cfg' = c
       /\ initialized' = (initialized \/ init)
    \/ /\ ~Valid(c)
       /\ UNCHANGED <<cfg, initialized>>

Init ==
    /\ cfg = Defaults
    /\ initialized = FALSE
    /\ DOMAIN envConfig \subseteq Paths

InitR(over) == Commit(Candidate(over), TRUE) /\ UNCHANGED envConfig

Get ==
    \/ initialized /\ UNCHANGED vars
    \/ ~initialized /\ InitR(NoOverride)

SetR(p, v) ==
    /\ IF p \in Registered => Accepts(p, v)
       THEN cfg' = [cfg EXCEPT ![p] = v]
       ELSE UNCHANGED cfg
    /\ UNCHANGED <<initialized, envConfig>>

UpdateR(part) == Commit(DeepMerge(cfg, Writes(part)), FALSE) /\ UNCHANGED envConfig

ResetR ==
    /\ cfg' = Defaults
    /\ initialized' = FALSE
    /\ UNCHANGED envConfig

Next ==
    \/ \E over \in Partials \cup {NoOverride} : InitR(over)
    \/ Get
    \/ \E p \in Paths : \E v \in SetInputs[p] : SetR(p, v)
    \/ \E part \in Partials : UpdateR(part)
    \/ ResetR

Spec == Init /\ [][Next]_vars

====
