CONSTANTS
    NaN = NaN
    Null = Null
    Undefined = Undefined
    Unset = Unset
    NoOverride = NoOverride
    Paths <- MCPaths
    EnvVars <- MCEnvVars
    EnvChoices <- MCEnvChoices
    SetInputs <- MCSetInputs
    Partials <- MCPartials

SPECIFICATION Spec

PROPERTY EnvInitAsDocumented
