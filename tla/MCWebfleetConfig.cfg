CONSTANTS
    NaN = NaN
    Null = Null
    Undefined = Undefined
    Unset = Unset
    NoOverride = NoOverride
    Paths <- MCPaths
    EnvVars <- MCEnvVars
    EnvChoices <- MCEnvChoicesSafety
    SetInputs <- MCSetInputs
    Partials <- MCPartials

SPECIFICATION Spec

INVARIANT ConfigAndDefaultsValid
PROPERTY FailedCallChangesNothing
PROPERTY DefaultsFrozenOnceInitialized
