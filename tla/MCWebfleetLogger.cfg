CONSTANTS
    NaN = NaN
    Null = Null
    Undefined = Undefined
    Unset = Unset
    Root = Root
    Children = {C1}
    AsyncOps = {O1, O2}
    MaxLogs = 2
    MaxCalls = 3
    EnvLogLevels <- MCEnvLogLevels
    BaseContexts <- MCBaseContexts
    CallContexts <- MCCallContexts
    RequestIds <- MCRequestIds

SPECIFICATION Spec

INVARIANT TypeOK
INVARIANT BufferHoldsNewestAccepted
