----------------------------- MODULE DomainTypes -----------------------------
(***************************************************************************)
(* The record types of src/types/webfleet.types.ts that the normalizer's   *)
(* transforms are declared to return, as values: a field's type is         *)
(* string, number, boolean, a union of string literals, an optional type   *)
(* (the field may be undefined), an object type or an array type.  Types  *)
(* are erased at run time: nothing in the code checks them.                *)
(***************************************************************************)
EXTENDS Normalizer

TString  == [t |-> "string"]
TNumber  == [t |-> "number"]
TBoolean == [t |-> "boolean"]
TUnion(lits)  == [t |-> "union", lits |-> lits]
TOptional(ty) == [t |-> "optional", of |-> ty]
TObject(fs)   == [t |-> "object", fields |-> fs]
TArray(ty)    == [t |-> "array", of |-> ty]

\* { latitude: number; longitude: number; address: string }
TLocation == TObject([latitude |-> TNumber, longitude |-> TNumber, address |-> TString])

WebfleetVehicle ==
  [objectNo |-> TString, objectName |-> TString, objectType |-> TString,
   registrationNo |-> TString, vin |-> TString, brand |-> TString, model |-> TString,
   year |-> TNumber, fuelType |-> TString, odometer |-> TNumber, engineHours |-> TNumber,
   driverNo |-> TOptional(TString), driverName |-> TOptional(TString),
   status |-> TString, isActive |-> TBoolean]

WebfleetVehiclePosition ==
  [objectNo |-> TString, objectName |-> TString, latitude |-> TNumber, longitude |-> TNumber,
   altitude |-> TNumber, heading |-> TNumber, speed |-> TNumber, timestamp |-> TString,
   address |-> TString, city |-> TString, country |-> TString, postalCode |-> TString,
   isMoving |-> TBoolean, isEngineOn |-> TBoolean, odometer |-> TNumber, engineHours |-> TNumber,
   fuelLevel |-> TOptional(TNumber), batteryVoltage |-> TOptional(TNumber)]

WebfleetTrip ==
  [tripId |-> TString, objectNo |-> TString, objectName |-> TString, startTime |-> TString,
   endTime |-> TString, duration |-> TNumber, distance |-> TNumber,
   startLocation |-> TLocation, endLocation |-> TLocation,
   avgSpeed |-> TNumber, maxSpeed |-> TNumber,
   fuelConsumed |-> TOptional(TNumber), co2Emission |-> TOptional(TNumber),
   driverNo |-> TOptional(TString), driverName |-> TOptional(TString)]

WebfleetDriver ==
  [driverNo |-> TString, driverName |-> TString, firstName |-> TString, lastName |-> TString,
   email |-> TString, phone |-> TString, licenseNumber |-> TString, licenseClass |-> TString,
   licenseExpiryDate |-> TString, isActive |-> TBoolean,
   vehicleNo |-> TOptional(TString), vehicleName |-> TOptional(TString)]

WebfleetViolation ==
  [violationType |-> TUnion({"driving_time", "rest_time", "break_time", "weekly_rest", "daily_driving"}),
   severity |-> TUnion({"low", "medium", "high"}),
   timestamp |-> TString, duration |-> TNumber, description |-> TString]

WebfleetDriverWorkingTime ==
  [driverNo |-> TString, driverName |-> TString, date |-> TString,
   workingTime |-> TNumber, drivingTime |-> TNumber, breakTime |-> TNumber,
   restTime |-> TNumber, availableTime |-> TNumber, dutyTime |-> TNumber,
   violations |-> TArray(TObject(WebfleetViolation))]

WebfleetLogbookEntry ==
  [logId |-> TString, driverNo |-> TString, driverName |-> TString, timestamp |-> TString,
   activity |-> TUnion({"driving", "work", "available", "break", "rest"}),
   duration |-> TNumber, location |-> TOptional(TLocation),
   vehicleNo |-> TOptional(TString), vehicleName |-> TOptional(TString)]

WebfleetOrder ==
  [orderId |-> TString, orderNo |-> TString,
   status |-> TUnion({"planned", "sent", "accepted", "started", "finished", "cancelled"}),
   priority |-> TUnion({"low", "normal", "high", "urgent"}),
   type |-> TUnion({"pickup", "delivery", "service", "other"}),
   vehicleNo |-> TOptional(TString), vehicleName |-> TOptional(TString),
   driverNo |-> TOptional(TString), driverName |-> TOptional(TString),
   customer |-> TObject([name |-> TString, address |-> TString,
                         phone |-> TOptional(TString), email |-> TOptional(TString)]),
   destination |-> TObject([latitude |-> TNumber, longitude |-> TNumber, address |-> TString,
                            city |-> TString, postalCode |-> TString, country |-> TString]),
   plannedDate |-> TString, actualStartTime |-> TOptional(TString),
   actualEndTime |-> TOptional(TString), estimatedDuration |-> TNumber,
   actualDuration |-> TOptional(TNumber), description |-> TString, notes |-> TOptional(TString)]

WebfleetEvent ==
  [eventId |-> TString,
   eventType |-> TUnion({"speeding", "idling", "harsh_braking", "harsh_acceleration", "geofence",
                         "panic", "maintenance", "other"}),
   severity |-> TUnion({"low", "medium", "high", "critical"}),
   objectNo |-> TString, objectName |-> TString,
   driverNo |-> TOptional(TString), driverName |-> TOptional(TString),
   timestamp |-> TString, location |-> TLocation, description |-> TString,
   value |-> TOptional(TNumber), unit |-> TOptional(TString)]

WebfleetGeofence ==
  [geofenceId |-> TString, geofenceName |-> TString, type |-> TUnion({"circle", "polygon"}),
   isActive |-> TBoolean, description |-> TOptional(TString),
   center |-> TOptional(TObject([latitude |-> TNumber, longitude |-> TNumber])),
   radius |-> TOptional(TNumber),
   vertices |-> TOptional(TArray(TObject([latitude |-> TNumber, longitude |-> TNumber]))),
   alertOnEntry |-> TBoolean, alertOnExit |-> TBoolean, speedLimit |-> TOptional(TNumber)]

\* The declared return type of each transform<Entity>Data.
DeclaredType ==
  [vehicle |-> WebfleetVehicle, position |-> WebfleetVehiclePosition, trip |-> WebfleetTrip,
   driver |-> WebfleetDriver, workingTime |-> WebfleetDriverWorkingTime,
   logbook |-> WebfleetLogbookEntry, order |-> WebfleetOrder, event |-> WebfleetEvent,
   geofence |-> WebfleetGeofence]

\* The kinds of leaf type.
LeafKinds == {"string", "number", "boolean", "union"}

\* A leaf type: a string is a string value, among them the ISO and
\* yyyy-MM-dd texts the formatters return; a number may be NaN.
LeafHasType(ty, v) ==
    CASE ty.t = "string"  -> IsStr(v) \/ IsA(v, "iso") \/ IsA(v, "ymd")
      [] ty.t = "number"  -> IsNumberType(v)
      [] ty.t = "boolean" -> v \in {Bool(TRUE), Bool(FALSE)}
      [] ty.t = "union"   -> \E l \in ty.lits : v = S(l)

\* The value v has type ty, TypeScript's structural check, at the leaves
\* whose kind is in kinds; a leaf of another kind may hold anything.
RECURSIVE HasType(_, _, _)
HasType(ty, v, kinds) ==
    CASE ty.t \in LeafKinds -> ty.t \in kinds => LeafHasType(ty, v)
      [] ty.t = "optional" -> v = Undefined \/ HasType(ty.of, v, kinds)
      [] ty.t = "object"   -> IsA(v, "obj") /\
                              \A f \in DOMAIN ty.fields :
                                  HasType(ty.fields[f], IF f \in DOMAIN v.obj THEN v.obj[f] ELSE Undefined, kinds)
      [] ty.t = "array"    -> IsA(v, "arr") /\ \A k \in DOMAIN v.arr : HasType(ty.of, v.arr[k], kinds)

====
