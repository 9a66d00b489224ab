CONSTANTS
    NaN = NaN
    Null = Null
    Undefined = Undefined
    Unset = Unset
    NoOverride = NoOverride
    Paths <- MCPaths
    EnvVars <- MCEnvVars
    EnvChoices <- MCEnvChoicesAgreeing
    SetInputs <- MCSetInputsDefined
    Partials <- MCPartialsDefined

SPECIFICATION SpecWithEnvView

PROPERTY ImplementsConfigResolver
