CONSTANTS
    MaxItems = 3
    HostBinding = "context"
    Parameters <- MCParameters
    Responses <- MCResponses

SPECIFICATION Spec

\* execute() returns or throws: the node really stops.
CHECK_DEADLOCK FALSE


INVARIANT ItemsReachUpstream
