----------------------------- MODULE WebfleetNode -----------------------------
(***************************************************************************)
(* The Webfleet node's execute() (src/packages/nodes-base/nodes/Webfleet/  *)
(* Webfleet.node.ts): the sequential loop over the input items, the        *)
(* resource/operation dispatch, makeWebfleetRequest, and continueOnFail.   *)
(*                                                                         *)
(* One execution is modelled.  Each item goes through the code segments    *)
(* between its suspension points: the dispatch up to `await                *)
(* getCredentials`, then up to `await helpers.request`, then the handling  *)
(* of the response.  Request parameters and messages are abstracted: an    *)
(* output record keeps its item, whether it is data, `undefined` or an     *)
(* error, and which error.                                                 *)
(***************************************************************************)
EXTENDS Naturals, Sequences, SequencesExt

CONSTANTS
    MaxItems,     \* bound on items.length
    Parameters,   \* [resource, operation] pairs the node parameters may hold
    Responses,    \* what helpers.request may resolve to, or "reject"
    HostBinding   \* what `this` is in execute(): "instance" (an object with the
                  \* node's private methods) or "context" (the host's
                  \* IExecuteFunctions, which has none of them)

ASSUME MaxItems \in Nat /\ HostBinding \in {"instance", "context"}

(***************************************************************************)
(* The dispatch: execute<Resource>Operation's switch, as the upstream      *)
(* action each supported operation requests.                              *)
(***************************************************************************)
VehicleActions ==
    [getAll |-> "showVehicleList", get |-> "showVehicleInfo", getPosition |-> "showObjectData",
     getTrips |-> "showTrips", getWorkingTimes |-> "showWorkingTimes"]

DriverActions ==
    [getAll |-> "showDriverList", get |-> "showDriverInfo",
     getWorkingTimes |-> "showDriverWorkingTimes", getLogbook |-> "showLogbook"]

OrderActions ==
    [getAll |-> "showOrderList", create |-> "insertOrder", update |-> "updateOrder",
     delete |-> "deleteOrder", send |-> "sendOrderToVehicle"]

TripActions == [getSummary |-> "showTripSummary", getDetails |-> "showTripDetails"]

EventActions ==
    [getAll |-> "showEventList", getSpeedingEvents |-> "showSpeedingEvents",
     getIdlingEvents |-> "showIdlingEvents", getDrivingTimeEvents |-> "showDrivingTimeEvents"]

GeofenceActions ==
    [getAll |-> "showGeofenceList", create |-> "insertGeofence",
     update |-> "updateGeofence", delete |-> "deleteGeofence"]

ReportActions ==
    [fleetUtilization |-> "getFleetUtilizationReport", fuelConsumption |-> "getFuelConsumptionReport",
     drivingBehaviour |-> "getDrivingBehaviourReport", mileage |-> "getMileageReport"]

\* The resource if-chain of execute().
UpstreamAction ==
    [vehicle |-> VehicleActions, driver |-> DriverActions, order |-> OrderActions,
     trip |-> TripActions, event |-> EventActions, geofence |-> GeofenceActions,
     report |-> ReportActions]

Resources == DOMAIN UpstreamAction

Supported(p) == p.resource \in Resources /\ p.operation \in DOMAIN UpstreamAction[p.resource]

(***************************************************************************)
(* The node description: the operations the editor offers per resource,   *)
(* and when it displays each parameter (displayOptions.show).  A hidden    *)
(* parameter is not in the saved node's parameters.                        *)
(***************************************************************************)
OfferedOperations ==
    [vehicle  |-> {"getAll", "get", "getPosition", "getTrips", "getWorkingTimes"},
     driver   |-> {"getAll", "get", "getWorkingTimes", "getLogbook"},
     order    |-> {"getAll", "create", "update", "delete", "send"},
     trip     |-> {"getSummary", "getDetails"},
     event    |-> {"getAll", "getSpeedingEvents", "getIdlingEvents", "getDrivingTimeEvents"},
     geofence |-> {"getAll", "create", "update", "delete"},
     report   |-> {"fleetUtilization", "fuelConsumption", "drivingBehaviour", "mileage"}]

RangeOperations == {"getTrips", "getWorkingTimes", "getLogbook", "getSummary", "getDetails", "getAll"}

\* additionalParameters has no displayOptions and is always displayed.
Displayed(x, p) ==
    CASE x = "vehicleObjectName" -> p.resource = "vehicle" /\ p.operation \in {"get", "getPosition", "getTrips", "getWorkingTimes"}
      [] x = "driverObjectName"  -> p.resource = "driver" /\ p.operation \in {"get", "getWorkingTimes", "getLogbook"}
      [] x = "objectNames"       -> p.resource \in {"vehicle", "driver"} /\ p.operation = "getAll"
      [] x \in {"rangeFrom", "rangeTo"} -> p.operation \in RangeOperations

\* The parameters execute<Resource>Operation reads with getNodeParameter
\* besides additionalParameters: trip, event and report read the range
\* before their switch, vehicle and driver inside their cases.
ParameterReads(p) ==
    CASE p.resource \in {"trip", "event", "report"} -> {"rangeFrom", "rangeTo"}
      [] p.resource = "vehicle" /\ p.operation = "getAll" -> {"objectNames"}
      [] p.resource = "vehicle" /\ p.operation \in {"get", "getPosition"} -> {"vehicleObjectName"}
      [] p.resource = "vehicle" /\ p.operation \in {"getTrips", "getWorkingTimes"} ->
            {"vehicleObjectName", "rangeFrom", "rangeTo"}
      [] p.resource = "driver" /\ p.operation = "getAll" -> {"objectNames"}
      [] p.resource = "driver" /\ p.operation = "get" -> {"driverObjectName"}
      [] p.resource = "driver" /\ p.operation \in {"getWorkingTimes", "getLogbook"} ->
            {"driverObjectName", "rangeFrom", "rangeTo"}
      [] OTHER -> {}

HiddenReads(p) == {x \in ParameterReads(p) : ~Displayed(x, p)}

(***************************************************************************)
(* The responses helpers.request may resolve to: an array of 0 or 2        *)
(* records, an object without errorCode, with errorCode 0, or with a       *)
(* nonzero errorCode.  "reject" is a failed request.                       *)
(***************************************************************************)
ArrayLength == [list0 |-> 0, list2 |-> 2]

\* response.errorCode && response.errorCode !== 0
HasApiError(r) == r = "code10"

VARIABLES
    n,               \* items.length
    param,           \* getNodeParameter('resource'/'operation', 0)
    continueOnFail,  \* this.continueOnFail()
    i,               \* the loop index
    pc,              \* where execute() is: "dispatch", "credentials",
                     \* "request", "done" (returned) or "threw"
    returnData,      \* the output records pushed so far
    requests,        \* the upstream requests issued, in order
    failure,         \* the error execute() threw, or "none"
    result           \* history: how each item ended

vars == <<n, param, continueOnFail, i, pc, returnData, requests, failure, result>>

Output(k, json, err) == [item |-> k, json |-> json, err |-> err]

\* Mutant: the loop test is i <= items.length.
NextItemPastEnd == /\ i' = i + 1
                   /\ pc' = IF i + 1 <= n THEN "dispatch" ELSE "done"

\* The item i is finished: go on with the next one, or return.
NextItem == /\ i' = i + 1
            /\ pc' = IF i + 1 < n THEN "dispatch" ELSE "done"

\* Mutant: the catch pushes the error record but lacks the `continue`, so
\* it falls through to the rethrow.
FailWithoutContinue(e) ==
    /\ result' = [result EXCEPT ![i] = [end |-> "failed", err |-> e]]
    /\ pc' = "threw"
    /\ failure' = e
    /\ returnData' = IF continueOnFail THEN Append(returnData, Output(i, "error", e)) ELSE returnData
    /\ UNCHANGED i

\* Mutant: the catch retries the failed item (the loop index is not advanced
\* past it) instead of recording it and going on.
FailRetryingItem(e) ==
    /\ result' = [result EXCEPT ![i] = [end |-> "failed", err |-> e]]
    /\ IF continueOnFail
       THEN /\ pc' = "dispatch"
            /\ UNCHANGED <<i, returnData, failure>>
       ELSE /\ pc' = "threw"
            /\ failure' = e
            /\ UNCHANGED <<i, returnData>>

\* catch (error): an error record and `continue` under continueOnFail, or
\* rethrow, which ends execute() and discards returnData.
Fail(e) ==
    /\ result' = [result EXCEPT ![i] = [end |-> "failed", err |-> e]]
    /\ IF continueOnFail
       THEN /\ returnData' = Append(returnData, Output(i, "error", e))
            /\ NextItem
            /\ UNCHANGED failure
       ELSE /\ pc' = "threw"
            /\ failure' = e
            /\ UNCHANGED <<i, returnData>>

\* Mutant: an array response is pushed as one record (no spread).
PushWhole(count, json) ==
    /\ returnData' = Append(returnData, Output(i, json, "-"))
    /\ result' = [result EXCEPT ![i] = [end |-> "pushed", count |-> count, json |-> json]]
    /\ NextItem
    /\ UNCHANGED failure

\* Push the response: one record per element of an array, else one record.
Push(count, json) ==
    /\ returnData' = returnData \o [j \in 1..count |-> Output(i, json, "-")]
    /\ result' = [result EXCEPT ![i] = [end |-> "pushed", count |-> count, json |-> json]]
    /\ NextItem
    /\ UNCHANGED failure

Init ==
    /\ n \in 0..MaxItems
    /\ param \in Parameters
    /\ continueOnFail \in BOOLEAN
    /\ i = 0
    /\ pc = IF n > 0 THEN "dispatch" ELSE "done"
    /\ returnData = <<>>
    /\ requests = <<>>
    /\ failure = "none"
    /\ result = [k \in 0..MaxItems - 1 |-> [end |-> "none"]]

(***************************************************************************)
(* The loop body up to `await this.getCredentials(...)`: the resource      *)
(* if-chain, then execute<Resource>Operation's switch.  With `this` the    *)
(* host's context, `this.execute<Resource>Operation` is undefined and the  *)
(* call throws a TypeError.  An unknown resource leaves responseData       *)
(* undefined, which is pushed.  getNodeParameter of a parameter the        *)
(* description hides is up to the host: it throws "Could not get           *)
(* parameter" when the saved node lacks it, and returns a value an         *)
(* imported workflow still carries; both are allowed.                      *)
(***************************************************************************)
\* The operation switch, once the parameters are read.
DispatchOperation ==
    IF ~Supported(param)
    THEN Fail("unsupported") /\ UNCHANGED requests
    ELSE /\ pc' = "credentials"
         /\ UNCHANGED <<i, returnData, requests, failure, result>>

Dispatch ==
    /\ pc = "dispatch"
    /\ CASE param.resource \notin Resources ->
              /\ Push(1, "undefined")
              /\ UNCHANGED requests
         [] HostBinding = "context" ->
              /\ Fail("typeError")
              /\ UNCHANGED requests
         [] OTHER ->
              \/ /\ HiddenReads(param) # {}
                 /\ Fail("parameter")
                 /\ UNCHANGED requests
              \/ DispatchOperation
    /\ UNCHANGED <<n, param, continueOnFail>>

\* makeWebfleetRequest up to `await this.helpers.request(options)`: the
\* credentials arrive, and the GET is sent; or getCredentials rejects,
\* outside the helper's try.
Credentials ==
    /\ pc = "credentials"
    /\ \/ /\ pc' = "request"
          /\ requests' = Append(requests, [item |-> i,
                                           action |-> UpstreamAction[param.resource][param.operation]])
          /\ UNCHANGED <<i, returnData, failure, result>>
       \/ /\ Fail("credentials")
          /\ UNCHANGED requests
    /\ UNCHANGED <<n, param, continueOnFail>>

\* The rest of makeWebfleetRequest and of the loop body: a nonzero
\* errorCode throws inside the helper's try and is rewrapped by its catch,
\* as is a rejected request; otherwise the response is returned and pushed.
Respond ==
    /\ pc = "request"
    /\ \E r \in Responses :
         CASE r = "reject"       -> Fail("transport")
           [] HasApiError(r)     -> Fail("api")
           [] r \in DOMAIN ArrayLength -> Push(ArrayLength[r], "record")
           [] OTHER              -> Push(1, "record")
    /\ UNCHANGED <<n, param, continueOnFail, requests>>

Next == Dispatch \/ Credentials \/ Respond

\* Dispatch is synchronous code that runs once the previous item's await
\* has settled, so it is weakly fair.  Credentials and Respond wait on
\* promises of the host (getCredentials, helpers.request) that the code
\* gives no timeout: they get no fairness.  execute() stops when it
\* returns or throws.
Spec == Init /\ [][Next]_vars /\ WF_vars(Dispatch)

(***************************************************************************)
(* Properties.                                                             *)
(***************************************************************************)
Errors == {"typeError", "parameter", "unsupported", "credentials", "transport", "api"}

TypeOK ==
    /\ n \in 0..MaxItems /\ i \in 0..MaxItems
    /\ pc \in {"dispatch", "credentials", "request", "done", "threw"}
    /\ \A k \in DOMAIN returnData :
         /\ returnData[k].item \in 0..n - 1
         /\ returnData[k].json \in {"record", "undefined", "error"}
         /\ returnData[k].err \in Errors \cup {"-"}
    /\ failure \in Errors \cup {"none"}

\* The records item k contributes when execute() returns: its response's
\* records, or its error record.
ItemOutputs(k) ==
    IF result[k].end = "pushed"
    THEN [j \in 1..result[k].count |-> Output(k, result[k].json, "-")]
    ELSE <<Output(k, "error", result[k].err)>>

\* The batch semantics of the specification (§5, §7): items are processed
\* strictly in sequence, one request each and in item order; when execute()
\* returns, its output is, item after item, each item's records or its single
\* error record (continueOnFail), nothing lost or repeated; when it throws,
\* continueOnFail is off, the item that failed is the last one processed, and
\* no later item sent a request.
ExecuteResult ==
    /\ \A a, b \in DOMAIN requests : a < b => requests[a].item < requests[b].item
    /\ pc = "done" =>
         /\ \A k \in 0..n - 1 : result[k].end # "none"
         /\ returnData = FlattenSeq([k \in 1..n |-> ItemOutputs(k - 1)])
    /\ pc = "threw" =>
         /\ ~continueOnFail
         /\ result[i].end = "failed" /\ failure = result[i].err
         /\ \A k \in 0..i - 1 : result[k].end = "pushed"
         /\ \A k \in DOMAIN requests : requests[k].item <= i

\* For a supported resource and operation, an item fails only because of
\* its credentials, the transport or the upstream API: every such item
\* reaches makeWebfleetRequest (spec §1: one HTTP call per operation).
ItemsReachUpstream ==
    Supported(param) =>
        \A k \in 0..n - 1 :
            result[k].end = "failed" => result[k].err \in {"credentials", "transport", "api"}

\* The host settles every promise execute() awaits: getCredentials and
\* helpers.request each resolve or reject.
HostSettles == WF_vars(Credentials) /\ WF_vars(Respond)

\* execute() ends, returning or throwing, in every run in which the host
\* settles what it awaits: the loop takes each item through at most one
\* request and never comes back to an item (Webfleet.node.ts:445-496, the
\* request at :505 with no timeout).  Without HostSettles one request that
\* never answers stalls the whole batch.
ExecuteEnds == HostSettles => <>(pc \in {"done", "threw"})

(***************************************************************************)
(* Refinement: execute() implements the batch semantics of the            *)
(* specification (BatchExecution).  The item index is the number of items *)
(* finished; a request is outstanding while the loop awaits                *)
(* helpers.request; an output record is data (a response element, an      *)
(* object or undefined) or an error record.                               *)
(***************************************************************************)
Batch == INSTANCE BatchExecution
    WITH tolerant   <- continueOnFail,
         done       <- i,
         out        <- [k \in DOMAIN returnData |->
                           [item |-> returnData[k].item,
                            kind |-> IF returnData[k].json = "error" THEN "error" ELSE "data"]],
         inflight   <- IF pc = "request" THEN i ELSE -1,
         status     <- CASE pc = "done"  -> "returned"
                         [] pc = "threw" -> "threw"
                         [] OTHER        -> "running",
         None       <- -1,
         MaxRecords <- Max({1} \cup {ArrayLength[r] : r \in DOMAIN ArrayLength})

\* Every run of execute() is a batch run of the specification (§5, §7):
\* strictly sequential items, at most one request outstanding and only for
\* the current item, each item ending with its records or, under
\* continueOnFail only, one error record, and a failure without it ending
\* the batch with no further output.
ImplementsBatchExecution == Batch!Spec

====
