CONSTANTS
    MaxItems = 3
    HostBinding = "instance"
    Parameters <- MCParameters
    Responses <- MCResponses

SPECIFICATION Spec

\* execute() returns or throws: the node really stops.
CHECK_DEADLOCK FALSE

INVARIANT TypeOK
INVARIANT ExecuteResult
PROPERTY ImplementsBatchExecution
PROPERTY ExecuteEnds
