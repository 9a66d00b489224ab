------------------------------ MODULE Normalizer ------------------------------
(***************************************************************************)
(* The response normalizer (src/packages/webfleet-connector/src/utils/     *)
(* dataTransformer.ts): pure functions, written as operators over the      *)
(* JavaScript values of JsValues.  Besides those, the normalizer handles   *)
(*   Obj(f)          a plain object, f its own enumerable properties      *)
(*   Arr(s)          an array                                              *)
(*   IsoString(t)    the string toISOString() returns for the instant t    *)
(*   DateString(d)   the string format(.., 'yyyy-MM-dd') returns for day d *)
(* and a thrown exception Throw(e), which propagates out of the object     *)
(* literal being built.  Numbers are integral: parseFloat and parseInt     *)
(* agree on every input the model gives them.                              *)
(***************************************************************************)
EXTENDS JsValues, FiniteSets

CONSTANTS
    Now,        \* Date.now(), as the string of its decimal digits
    IsoTexts    \* the strings parseISO accepts, among those the model feeds it

\* A string literal, as a JS string value.
Chars(t) == [k \in 1..Len(t) |-> SubSeq(t, k, k)]
S(t)     == Str(Chars(t))
Empty    == Str(<<>>)

Obj(f)        == [obj |-> f]
Arr(s)        == [arr |-> s]
IsoString(t)  == [iso |-> t]
DateString(d) == [ymd |-> d]
Throw(e)      == [throw |-> e]

IsA(v, tag) == v \notin {Undefined, Null, NaN} /\ DOMAIN v = {tag}

\* !v
Falsy(v)  == v \in {Undefined, Null, NaN, Num(0), Empty, Bool(FALSE)}
Truthy(v) == ~Falsy(v)

\* a || b
Or(a, b) == IF Truthy(a) THEN a ELSE b

\* v1 || v2 || ... || vn: the first truthy value, else the last one.
RECURSIVE OrChain(_)
OrChain(vs) == IF Len(vs) = 1 THEN Head(vs) ELSE Or(Head(vs), OrChain(Tail(vs)))

\* o.k1?.k2 ... : a property path; optional chaining past undefined/null.
RECURSIVE Field(_, _)
Field(o, path) ==
    LET v == IF IsA(o, "obj") /\ Head(path) \in DOMAIN o.obj THEN o.obj[Head(path)] ELSE Undefined
    IN  IF Len(path) = 1 THEN v
        ELSE IF v \in {Undefined, Null} THEN Undefined
        ELSE Field(v, Tail(path))

\* raw.a || raw.b || ...
Chain(raw, paths) == OrChain([k \in DOMAIN paths |-> Field(raw, paths[k])])

\* Top-level property names, as one-step paths.
Keys(ns) == [k \in DOMAIN ns |-> <<ns[k]>>]

\* The decimal digits of a natural number.
RECURSIVE Digits(_)
Digits(n) ==
    LET c == CHOOSE d \in DOMAIN DigitValue : DigitValue[d] = n % 10
    IN  IF n < 10 THEN <<c>> ELSE Digits(n \div 10) \o <<c>>

\* String(v), for the values the normalizer stringifies.
JsToString(v) ==
    CASE IsStr(v)          -> v.str
      [] IsNum(v)          -> IF v.num < 0 THEN <<"-">> \o Digits(-v.num) ELSE Digits(v.num)
      [] v = Bool(TRUE)    -> Chars("true")
      [] v = Bool(FALSE)   -> Chars("false")
      [] v = NaN           -> Chars("NaN")
      [] IsA(v, "obj")     -> Chars("[object Object]")

\* parseFloat(v) and parseInt(v): the leading integer of String(v).
ParseNumber(v) ==
    CASE IsNum(v) -> v
      [] IsStr(v) -> ParseInt10(v.str)
      [] OTHER    -> NaN

(***************************************************************************)
(* The classifiers.  Each lower-cases its argument (mapOrderPriority and   *)
(* mapEventSeverity stringify it first) and tests it with includes() and   *)
(* === in a fixed order.                                                   *)
(***************************************************************************)
\* s.includes(w)
Includes(s, w) == \E k \in 0..Len(s) - Len(w) : SubSeq(s, k + 1, k + Len(w)) = Chars(w)

\* x?.toLowerCase() || '', or x?.toString().toLowerCase() || '': a number
\* or boolean has no toLowerCase, and calling it throws a TypeError.
ClassifierInput(x, stringify) ==
    CASE x \in {Undefined, Null} -> [text |-> <<>>]
      [] IsStr(x)                -> [text |-> ToLowerCase(x.str)]
      [] stringify               -> [text |-> ToLowerCase(JsToString(x))]
      [] OTHER                   -> Throw("TypeError")

MapActivityType(type) ==
    IF Includes(type, "driv") THEN "driving"
    ELSE IF Includes(type, "work") THEN "work"
    ELSE IF Includes(type, "avail") THEN "available"
    ELSE IF Includes(type, "break") THEN "break"
    ELSE IF Includes(type, "rest") THEN "rest"
    ELSE "work"

MapOrderStatus(s) ==
    IF Includes(s, "plan") THEN "planned"
    ELSE IF Includes(s, "sent") THEN "sent"
    ELSE IF Includes(s, "accept") THEN "accepted"
    ELSE IF Includes(s, "start") THEN "started"
    ELSE IF Includes(s, "finish") \/ Includes(s, "complet") THEN "finished"
    ELSE IF Includes(s, "cancel") THEN "cancelled"
    ELSE "planned"

MapOrderPriority(p) ==
    IF Includes(p, "low") \/ p = Chars("1") THEN "low"
    ELSE IF Includes(p, "high") \/ p = Chars("3") THEN "high"
    ELSE IF Includes(p, "urgent") \/ p = Chars("4") THEN "urgent"
    ELSE "normal"

MapOrderType(t) ==
    IF Includes(t, "pickup") \/ Includes(t, "collect") THEN "pickup"
    ELSE IF Includes(t, "deliver") \/ Includes(t, "drop") THEN "delivery"
    ELSE IF Includes(t, "service") \/ Includes(t, "maintain") THEN "service"
    ELSE "other"

\* Mutant: harsh braking is tested before speeding.
MapEventTypeBrakingFirst(type) ==
    IF Includes(type, "harsh") /\ Includes(type, "brak") THEN "harsh_braking"
    ELSE IF Includes(type, "speed") THEN "speeding"
    ELSE IF Includes(type, "idl") \/ Includes(type, "idle") THEN "idling"
    ELSE IF Includes(type, "harsh") /\ Includes(type, "accel") THEN "harsh_acceleration"
    ELSE IF Includes(type, "geofence") \/ Includes(type, "fence") THEN "geofence"
    ELSE IF Includes(type, "panic") \/ Includes(type, "sos") THEN "panic"
    ELSE IF Includes(type, "mainten") \/ Includes(type, "service") THEN "maintenance"
    ELSE "other"

MapEventType(type) ==
    IF Includes(type, "speed") THEN "speeding"
    ELSE IF Includes(type, "idl") \/ Includes(type, "idle") THEN "idling"
    ELSE IF Includes(type, "harsh") /\ Includes(type, "brak") THEN "harsh_braking"
    ELSE IF Includes(type, "harsh") /\ Includes(type, "accel") THEN "harsh_acceleration"
    ELSE IF Includes(type, "geofence") \/ Includes(type, "fence") THEN "geofence"
    ELSE IF Includes(type, "panic") \/ Includes(type, "sos") THEN "panic"
    ELSE IF Includes(type, "mainten") \/ Includes(type, "service") THEN "maintenance"
    ELSE "other"

MapEventSeverity(s) ==
    IF Includes(s, "low") \/ s = Chars("1") THEN "low"
    ELSE IF Includes(s, "medium") \/ s = Chars("2") THEN "medium"
    ELSE IF Includes(s, "high") \/ s = Chars("3") THEN "high"
    ELSE IF Includes(s, "critical") \/ s = Chars("4") THEN "critical"
    ELSE "medium"

\* The classifier of a categorical field, on its lower-cased text.
Classify(kind, s) ==
    CASE kind = "activityType"  -> MapActivityType(s)
      [] kind = "orderStatus"   -> MapOrderStatus(s)
      [] kind = "orderPriority" -> MapOrderPriority(s)
      [] kind = "orderType"     -> MapOrderType(s)
      [] kind = "eventType"     -> MapEventType(s)
      [] kind = "eventSeverity" -> MapEventSeverity(s)

Stringified == {"orderPriority", "eventSeverity"}

\* mapX(v) as a field of a record: the class, as a string, or the throw.
MapCategory(kind, v) ==
    LET s == ClassifierInput(v, kind \in Stringified)
    IN  IF IsA(s, "throw") THEN s ELSE S(Classify(kind, s.text))

(***************************************************************************)
(* Timestamps and dates.  parseISO is a table: IsoTexts, the ISO strings   *)
(* toISOString and format produced, and nothing else, parse; any other     *)
(* string is an Invalid Date.  An instant is known by the text it came     *)
(* from; new Date(ms) is invalid beyond 8.64e15 ms from the epoch.         *)
(***************************************************************************)
\* parseISO(s): the instant, or [invalid |-> TRUE].
ParseISO(v) ==
    CASE IsStr(v) /\ v.str \in IsoTexts -> [text |-> v.str]
      [] IsA(v, "iso")                  -> v.iso
      [] IsA(v, "ymd")                  -> [midnight |-> v.ymd]
      [] OTHER                          -> [invalid |-> TRUE]

\* The calendar day, in local time, of an instant.
DayOf(t) == IF "midnight" \in DOMAIN t THEN t.midnight ELSE [dayOf |-> t]

\* parseInt(s) * (s.length === 10 ? 1000 : 1) is beyond 8.64e15, for the
\* string s of an integer.
EpochOutOfRange(s) ==
    LET u == Unsigned(s)
        lead == DigitsValue(SubSeq(u, 1, 9), 10, DigitValue)
    IN  Len(s) # 10
        /\ \/ Len(u) > 16
           \/ /\ Len(u) = 16
              /\ \/ lead > 864000000
                 \/ lead = 864000000 /\ DigitsValue(SubSeq(u, 10, 16), 10, DigitValue) > 0

\* formatWebfleetTimestamp: '' for a falsy value; a number or digit string is
\* an epoch in seconds (10 digits) or milliseconds, and toISOString throws a
\* RangeError, outside the try, for one out of range; any other string goes
\* through parseISO, whose Invalid Date makes toISOString throw inside the
\* try, so the string itself is returned.
FormatWebfleetTimestamp(timestamp) ==
    LET s == JsToString(timestamp) IN
    CASE Falsy(timestamp) -> Empty
      [] IsNum(timestamp) \/ (IsStr(timestamp) /\ IsDigits(s, DigitValue)) ->
           IF EpochOutOfRange(s) THEN Throw("RangeError")
           ELSE IsoString([epoch |-> s, unit |-> IF Len(s) = 10 THEN "s" ELSE "ms"])
      [] ~("invalid" \in DOMAIN ParseISO(timestamp)) -> IsoString(ParseISO(timestamp))
      [] OTHER -> Str(s)

\* formatWebfleetDate: '' for a falsy value; format throws a RangeError on
\* an Invalid Date (and parseISO rejects a non-string), caught: the argument
\* is returned as it came.
FormatWebfleetDate(date) ==
    CASE Falsy(date) -> Empty
      [] ~("invalid" \in DOMAIN ParseISO(date)) -> DateString(DayOf(ParseISO(date)))
      [] OTHER -> date

\* generateTripId, generateLogId, generateEventId: `${a}_${b}...`, each key
\* the first truthy of its names, else its fallback ('unknown' or Date.now()).
GeneratedId(raw, parts) ==
    LET Part(p) == LET v == Chain(raw, p.names)
                   IN  IF Truthy(v) THEN JsToString(v) ELSE Chars(p.fallback)
    IN  Str(FoldLeft(LAMBDA acc, p : acc \o <<"_">> \o Part(p), Part(Head(parts)), Tail(parts)))

IdPart(names, fallback) == [names |-> Keys(names), fallback |-> fallback]

(***************************************************************************)
(* Field rules.  Every field of an entity transform is one of a few forms  *)
(* of expression over the raw record; a rule names the form and the        *)
(* property paths it reads, in the order of its || chain.                  *)
(***************************************************************************)
Text(ns)         == [kind |-> "pick", names |-> Keys(ns), dflt |-> <<Empty>>]     \* a || b || ''
TextOr(ns, d)    == [kind |-> "pick", names |-> Keys(ns), dflt |-> <<S(d)>>]      \* a || b || 'd'
Opt(ns)          == [kind |-> "pick", names |-> Keys(ns), dflt |-> <<>>]          \* a || b
Number0(ns)      == [kind |-> "number", names |-> Keys(ns), zero |-> TRUE]        \* parseX(a || b) || 0
\* Mutant: a numeric field copied as sent, without parseFloat.
NumberUnparsed(ns) == Opt(ns)
Number(ns)       == [kind |-> "number", names |-> Keys(ns), zero |-> FALSE]       \* parseX(a || b)
Flag(lower, cml) == [kind |-> "flag", names |-> Keys(<<lower, cml>>)]             \* a === '1' || b === true
Time(ns)         == [kind |-> "time", names |-> Keys(ns)]                         \* formatWebfleetTimestamp(a || b)
Date(ns)         == [kind |-> "date", names |-> Keys(ns)]                         \* formatWebfleetDate(a || b)
Class(c, ns)     == [kind |-> "class", of |-> c, names |-> Keys(ns)]              \* mapX(a || b)
Id(ns, parts)    == [kind |-> "id", names |-> Keys(ns), parts |-> parts]          \* a || b || generateX(raw)
Group(fields)    == [kind |-> "group", fields |-> fields]                         \* { ... }
When(ns, fields) == [kind |-> "when", names |-> Keys(ns), fields |-> fields]      \* a && b ? { ... } : undefined
List(ns, item)   == [kind |-> "list", names |-> Keys(ns), item |-> item]          \* (a || []).map(transform)

\* The same forms, over property paths that go into nested objects.
TextP(ps)    == [Text(<<"-">>) EXCEPT !.names = ps]
OptP(ps)     == [Opt(<<"-">>) EXCEPT !.names = ps]
Number0P(ps) == [Number0(<<"-">>) EXCEPT !.names = ps]

\* Mutant: only the lower-case name is tested (for '1' or true).
IsFlagSetLowerOnly(raw, names) ==
    Field(raw, names[1]) \in {S("1"), Bool(TRUE)}

\* raw.lower === '1' || raw.camel === true
IsFlagSet(raw, names) ==
    Field(raw, names[1]) = S("1") \/ Field(raw, names[2]) = Bool(TRUE)

\* Reading a property of undefined or null throws a TypeError.
RECURSIVE Eval(_, _), Build(_, _)
Build(fields, raw) ==
    IF raw \in {Undefined, Null} THEN Throw("TypeError")
    ELSE Obj([f \in DOMAIN fields |-> Eval(fields[f], raw)])

Eval(rule, raw) ==
    LET v == IF "names" \in DOMAIN rule THEN Chain(raw, rule.names) ELSE Undefined
    IN  CASE rule.kind = "pick"   -> OrChain([k \in DOMAIN rule.names |-> Field(raw, rule.names[k])] \o rule.dflt)
          [] rule.kind = "number" -> IF rule.zero THEN Or(ParseNumber(v), Num(0)) ELSE ParseNumber(v)
          [] rule.kind = "flag"   -> Bool(IsFlagSet(raw, rule.names))
          [] rule.kind = "time"   -> FormatWebfleetTimestamp(v)
          [] rule.kind = "date"   -> FormatWebfleetDate(v)
          [] rule.kind = "class"  -> MapCategory(rule.of, v)
          [] rule.kind = "id"     -> Or(v, GeneratedId(raw, rule.parts))
          [] rule.kind = "group"  -> Build(rule.fields, raw)
          [] rule.kind = "when"   -> IF \A k \in DOMAIN rule.names : Truthy(Field(raw, rule.names[k]))
                                     THEN Build(rule.fields, raw) ELSE Undefined
          [] rule.kind = "list"   -> LET l == Or(v, Arr(<<>>))
                                     IN  IF IsA(l, "arr")
                                         THEN Arr([k \in DOMAIN l.arr |-> Build(rule.item, l.arr[k])])
                                         ELSE Throw("TypeError")

(***************************************************************************)
(* The entity transforms, field by field.                                  *)
(***************************************************************************)
TransformVehicleData ==
  [objectNo |-> Text(<<"objectno", "objectNo">>), objectName |-> Text(<<"objectname", "objectName">>),
   objectType |-> Text(<<"objecttype", "objectType">>),
   registrationNo |-> Text(<<"registrationno", "registrationNo">>),
   vin |-> Text(<<"vin">>), brand |-> Text(<<"brand">>), model |-> Text(<<"model">>),
   year |-> Number0(<<"year">>), fuelType |-> Text(<<"fueltype", "fuelType">>),
   odometer |-> Number0(<<"odometer">>), engineHours |-> Number0(<<"enginehours", "engineHours">>),
   driverNo |-> Opt(<<"driverno", "driverNo">>), driverName |-> Opt(<<"drivername", "driverName">>),
   status |-> TextOr(<<"status">>, "unknown"), isActive |-> Flag("isactive", "isActive")]

TransformVehiclePositionData ==
  [objectNo |-> Text(<<"objectno", "objectNo">>), objectName |-> Text(<<"objectname", "objectName">>),
   latitude |-> Number0(<<"latitude", "lat">>), longitude |-> Number0(<<"longitude", "lng", "lon">>),
   altitude |-> Number0(<<"altitude">>), heading |-> Number0(<<"heading", "course">>),
   speed |-> Number0(<<"speed">>), timestamp |-> Time(<<"timestamp", "time">>),
   address |-> Text(<<"address">>), city |-> Text(<<"city">>), country |-> Text(<<"country">>),
   postalCode |-> Text(<<"postalcode", "postalCode">>),
   isMoving |-> Flag("ismoving", "isMoving"), isEngineOn |-> Flag("isengineon", "isEngineOn"),
   odometer |-> Number0(<<"odometer">>), engineHours |-> Number0(<<"enginehours", "engineHours">>),
   fuelLevel |-> Number(<<"fuellevel", "fuelLevel">>),
   batteryVoltage |-> Number(<<"batteryvoltage", "batteryVoltage">>)]

Location(lat, lon, address) ==
    Group([latitude |-> Number0(lat), longitude |-> Number0(lon), address |-> Text(address)])

TransformTripData ==
  [tripId |-> Id(<<"tripid", "tripId">>, <<IdPart(<<"objectno", "objectNo">>, "unknown"),
                                           IdPart(<<"starttime", "startTime">>, Now)>>),
   objectNo |-> Text(<<"objectno", "objectNo">>), objectName |-> Text(<<"objectname", "objectName">>),
   startTime |-> Time(<<"starttime", "startTime">>), endTime |-> Time(<<"endtime", "endTime">>),
   duration |-> Number0(<<"duration">>), distance |-> Number0(<<"distance">>),
   startLocation |-> Location(<<"startlat", "startLatitude">>, <<"startlon", "startLongitude">>,
                              <<"startaddress", "startAddress">>),
   endLocation |-> Location(<<"endlat", "endLatitude">>, <<"endlon", "endLongitude">>,
                            <<"endaddress", "endAddress">>),
   avgSpeed |-> Number0(<<"avgspeed", "avgSpeed">>), maxSpeed |-> Number0(<<"maxspeed", "maxSpeed">>),
   fuelConsumed |-> Number(<<"fuelconsumed", "fuelConsumed">>),
   co2Emission |-> Number(<<"co2emission", "co2Emission">>),
   driverNo |-> Opt(<<"driverno", "driverNo">>), driverName |-> Opt(<<"drivername", "driverName">>)]

TransformDriverData ==
  [driverNo |-> Text(<<"driverno", "driverNo">>), driverName |-> Text(<<"drivername", "driverName">>),
   firstName |-> Text(<<"firstname", "firstName">>), lastName |-> Text(<<"lastname", "lastName">>),
   email |-> Text(<<"email">>), phone |-> Text(<<"phone">>),
   licenseNumber |-> Text(<<"licenseno", "licenseNumber">>),
   licenseClass |-> Text(<<"licenseclass", "licenseClass">>),
   licenseExpiryDate |-> Date(<<"licenseexpiry", "licenseExpiryDate">>),
   isActive |-> Flag("isactive", "isActive"),
   vehicleNo |-> Opt(<<"vehicleno", "vehicleNo">>), vehicleName |-> Opt(<<"vehiclename", "vehicleName">>)]

TransformViolationData ==
  [violationType |-> TextOr(<<"violationtype", "type">>, "other"),
   severity |-> Class("eventSeverity", <<"severity">>),
   timestamp |-> Time(<<"timestamp", "time">>), duration |-> Number0(<<"duration">>),
   description |-> Text(<<"description">>)]

TransformDriverWorkingTimeData ==
  [driverNo |-> Text(<<"driverno", "driverNo">>), driverName |-> Text(<<"drivername", "driverName">>),
   date |-> Date(<<"date">>),
   workingTime |-> Number0(<<"workingtime", "workingTime">>),
   drivingTime |-> Number0(<<"drivingtime", "drivingTime">>),
   breakTime |-> Number0(<<"breaktime", "breakTime">>), restTime |-> Number0(<<"resttime", "restTime">>),
   availableTime |-> Number0(<<"availabletime", "availableTime">>),
   dutyTime |-> Number0(<<"dutytime", "dutyTime">>),
   violations |-> List(<<"violations">>, TransformViolationData)]

TransformLogbookEntryData ==
  [logId |-> Id(<<"logid", "logId">>, <<IdPart(<<"driverno", "driverNo">>, "unknown"),
                                        IdPart(<<"timestamp", "time">>, Now)>>),
   driverNo |-> Text(<<"driverno", "driverNo">>), driverName |-> Text(<<"drivername", "driverName">>),
   timestamp |-> Time(<<"timestamp", "time">>),
   activity |-> Class("activityType", <<"activity", "activitytype">>),
   duration |-> Number0(<<"duration">>),
   location |-> When(<<"latitude", "longitude">>,
                     [latitude |-> Number(<<"latitude">>), longitude |-> Number(<<"longitude">>),
                      address |-> Text(<<"address">>)]),
   vehicleNo |-> Opt(<<"vehicleno", "vehicleNo">>), vehicleName |-> Opt(<<"vehiclename", "vehicleName">>)]

\* A flat name, then a path into a nested object: rawOrder.a || rawOrder.g?.b
Nested(flat, group, key) == <<<<flat>>, <<group, key>>>>

TransformOrderData ==
  [orderId |-> Text(<<"orderid", "orderId">>), orderNo |-> Text(<<"orderno", "orderNo">>),
   status |-> Class("orderStatus", <<"status">>), priority |-> Class("orderPriority", <<"priority">>),
   type |-> Class("orderType", <<"type", "ordertype">>),
   vehicleNo |-> Opt(<<"vehicleno", "vehicleNo">>), vehicleName |-> Opt(<<"vehiclename", "vehicleName">>),
   driverNo |-> Opt(<<"driverno", "driverNo">>), driverName |-> Opt(<<"drivername", "driverName">>),
   customer |-> Group([name |-> TextP(Nested("customername", "customer", "name")),
                       address |-> TextP(Nested("customeraddress", "customer", "address")),
                       phone |-> OptP(Nested("customerphone", "customer", "phone")),
                       email |-> OptP(Nested("customeremail", "customer", "email"))]),
   destination |-> Group([latitude |-> Number0P(Nested("destlat", "destination", "latitude")),
                          longitude |-> Number0P(Nested("destlon", "destination", "longitude")),
                          address |-> TextP(Nested("destaddress", "destination", "address")),
                          city |-> TextP(Nested("destcity", "destination", "city")),
                          postalCode |-> TextP(Nested("destpostal", "destination", "postalCode")),
                          country |-> TextP(Nested("destcountry", "destination", "country"))]),
   plannedDate |-> Time(<<"planneddate", "plannedDate">>),
   actualStartTime |-> Time(<<"actualstart", "actualStartTime">>),
   actualEndTime |-> Time(<<"actualend", "actualEndTime">>),
   estimatedDuration |-> Number0(<<"estimatedduration", "estimatedDuration">>),
   actualDuration |-> Number(<<"actualduration", "actualDuration">>),
   description |-> Text(<<"description">>), notes |-> Opt(<<"notes">>)]

TransformEventData ==
  [eventId |-> Id(<<"eventid", "eventId">>, <<IdPart(<<"objectno", "objectNo">>, "unknown"),
                                              IdPart(<<"eventtype", "eventType">>, "unknown"),
                                              IdPart(<<"timestamp", "time">>, Now)>>),
   eventType |-> Class("eventType", <<"eventtype", "eventType">>),
   severity |-> Class("eventSeverity", <<"severity">>),
   objectNo |-> Text(<<"objectno", "objectNo">>), objectName |-> Text(<<"objectname", "objectName">>),
   driverNo |-> Opt(<<"driverno", "driverNo">>), driverName |-> Opt(<<"drivername", "driverName">>),
   timestamp |-> Time(<<"timestamp", "time">>),
   location |-> Location(<<"latitude", "lat">>, <<"longitude", "lng", "lon">>, <<"address">>),
   description |-> Text(<<"description">>), value |-> Number(<<"value">>), unit |-> Opt(<<"unit">>)]

\* The fields of transformGeofenceData that do not depend on its type.
GeofenceScalarRules ==
  [geofenceId |-> Text(<<"geofenceid", "geofenceId">>),
   geofenceName |-> Text(<<"geofencename", "geofenceName">>),
   isActive |-> Flag("isactive", "isActive"),
   alertOnEntry |-> Flag("alertonentry", "alertOnEntry"),
   alertOnExit |-> Flag("alertonexit", "alertOnExit"),
   speedLimit |-> Number(<<"speedlimit", "speedLimit">>)]

\* transformGeofenceData: the type is settled first, and the shape fields
\* follow it.
TransformGeofenceData(raw) ==
    LET type     == Or(Field(raw, <<"type">>),
                       IF Truthy(Field(raw, <<"radius">>)) THEN S("circle") ELSE S("polygon"))
        lat      == Field(raw, <<"latitude">>)
        lon      == Field(raw, <<"longitude">>)
        vertices == Field(raw, <<"vertices">>)
        Vertex(x) == IF x \in {Undefined, Null} THEN Throw("TypeError")
                     ELSE Obj([latitude |-> ParseNumber(Chain(x, Keys(<<"latitude", "lat">>))),
                               longitude |-> ParseNumber(Chain(x, Keys(<<"longitude", "lng", "lon">>)))])
        f == Build(GeofenceScalarRules, raw)
    IN  IF raw \in {Undefined, Null} THEN Throw("TypeError")
        ELSE Obj(f.obj @@
               [type |-> type,
                description |-> Field(raw, <<"description">>),
                center |-> IF type = S("circle") /\ Truthy(lat) /\ Truthy(lon)
                           THEN Obj([latitude |-> ParseNumber(lat), longitude |-> ParseNumber(lon)])
                           ELSE Undefined,
                radius |-> IF type = S("circle") THEN ParseNumber(Field(raw, <<"radius">>)) ELSE Undefined,
                vertices |-> IF type = S("polygon") /\ Truthy(vertices)
                             THEN IF IsA(vertices, "arr")
                                  THEN Arr([k \in DOMAIN vertices.arr |-> Vertex(vertices.arr[k])])
                                  ELSE Throw("TypeError")
                             ELSE Undefined])

Entities == {"vehicle", "position", "trip", "driver", "workingTime", "logbook", "order",
             "event", "geofence"}

EntityRules ==
    [vehicle |-> TransformVehicleData, position |-> TransformVehiclePositionData,
     trip |-> TransformTripData, driver |-> TransformDriverData,
     workingTime |-> TransformDriverWorkingTimeData, logbook |-> TransformLogbookEntryData,
     order |-> TransformOrderData, event |-> TransformEventData]

\* The exceptions inside a value under construction.
RECURSIVE Thrown(_)
Thrown(v) ==
    CASE IsA(v, "throw") -> {v}
      [] IsA(v, "obj")   -> UNION {Thrown(v.obj[f]) : f \in DOMAIN v.obj}
      [] IsA(v, "arr")   -> UNION {Thrown(v.arr[k]) : k \in DOMAIN v.arr}
      [] OTHER           -> {}

\* A value under construction raises the exceptions inside it.
Raises(v) == Thrown(v) # {}

\* transform<Entity>Data(raw): the record, which raises if an exception is
\* inside it.
Transform(e, raw) ==
    IF e = "geofence" THEN TransformGeofenceData(raw) ELSE Build(EntityRules[e], raw)

\* Array.isArray(data) ? data.map(transformFn) : transformFn(data), when
\* transformFn && data.
ApplyTransform(raw, e) ==
    IF e = "none" \/ Falsy(raw) THEN raw
    ELSE IF IsA(raw, "arr") THEN Arr([k \in DOMAIN raw.arr |-> Transform(e, raw.arr[k])])
    ELSE Transform(e, raw)

\* The success envelope, with its record count.
Success(data) ==
    [success |-> TRUE, data |-> data,
     metadata |-> [totalRecords |-> IF IsA(data, "arr") THEN Len(data.arr) ELSE 1, hasMore |-> FALSE]]

Failure(raw, code) ==
    [success |-> FALSE,
     error |-> [code |-> code,
                message |-> Or(Field(raw, <<"errorMsg">>), S("Unknown Webfleet API error")),
                details |-> raw]]

\* Mutant: the error test is errorCode !== 0 alone.
TransformApiResponseStrictCode(raw, e) ==
    CASE raw \in {Undefined, Null}                -> Throw("TypeError")
      [] Field(raw, <<"errorCode">>) # Num(0)    -> Failure(raw, Field(raw, <<"errorCode">>))
      [] OTHER                                   -> Success(ApplyTransform(raw, e))

(***************************************************************************)
(* transformApiResponse(rawResponse, transformFn): e is the entity whose   *)
(* transform is passed, or "none".  Reading errorCode of undefined or null *)
(* throws; a success envelope raises what its data raise (the map or the   *)
(* transform threw).  The envelope's timestamp, new Date().toISOString(),  *)
(* is left out.                                                            *)
(***************************************************************************)
TransformApiResponse(raw, e) ==
    CASE raw \in {Undefined, Null} -> Throw("TypeError")
      [] Truthy(Field(raw, <<"errorCode">>)) /\ Field(raw, <<"errorCode">>) # Num(0) ->
           Failure(raw, Field(raw, <<"errorCode">>))
      [] OTHER -> Success(ApplyTransform(raw, e))

(***************************************************************************)
(* The documented contracts (spec §4.2, §2).                               *)
(***************************************************************************)
\* A classifier is an ordered list of candidates; an alternative of a
\* candidate is a set of substrings that must all occur, or an exact text.
All(ws)  == [all |-> ws]
Eq(d)    == [eq |-> d]
Cand(class, alts) == [class |-> class, alts |-> alts]

Matches(s, alt) == IF "eq" \in DOMAIN alt THEN s = Chars(alt.eq) ELSE \A w \in alt.all : Includes(s, w)

Candidates ==
  [activityType |-> [default |-> "work", list |->
     <<Cand("driving", {All({"driv"})}), Cand("work", {All({"work"})}),
       Cand("available", {All({"avail"})}), Cand("break", {All({"break"})}),
       Cand("rest", {All({"rest"})})>>],
   orderStatus |-> [default |-> "planned", list |->
     <<Cand("planned", {All({"plan"})}), Cand("sent", {All({"sent"})}),
       Cand("accepted", {All({"accept"})}), Cand("started", {All({"start"})}),
       Cand("finished", {All({"finish"}), All({"complet"})}), Cand("cancelled", {All({"cancel"})})>>],
   orderPriority |-> [default |-> "normal", list |->
     <<Cand("low", {All({"low"}), Eq("1")}), Cand("high", {All({"high"}), Eq("3")}),
       Cand("urgent", {All({"urgent"}), Eq("4")})>>],
   orderType |-> [default |-> "other", list |->
     <<Cand("pickup", {All({"pickup"}), All({"collect"})}),
       Cand("delivery", {All({"deliver"}), All({"drop"})}),
       Cand("service", {All({"service"}), All({"maintain"})})>>],
   eventType |-> [default |-> "other", list |->
     <<Cand("speeding", {All({"speed"})}), Cand("idling", {All({"idl"}), All({"idle"})}),
       Cand("harsh_braking", {All({"harsh", "brak"})}),
       Cand("harsh_acceleration", {All({"harsh", "accel"})}),
       Cand("geofence", {All({"geofence"}), All({"fence"})}),
       Cand("panic", {All({"panic"}), All({"sos"})}),
       Cand("maintenance", {All({"mainten"}), All({"service"})})>>],
   eventSeverity |-> [default |-> "medium", list |->
     <<Cand("low", {All({"low"}), Eq("1")}), Cand("medium", {All({"medium"}), Eq("2")}),
       Cand("high", {All({"high"}), Eq("3")}), Cand("critical", {All({"critical"}), Eq("4")})>>]]

\* First match wins; no match gives the field's default.
FirstMatch(kind, s) ==
    LET cs   == Candidates[kind].list
        hits == {k \in DOMAIN cs : \E alt \in cs[k].alts : Matches(s, alt)}
    IN  IF hits = {} THEN Candidates[kind].default ELSE cs[Min(hits)].class

Kinds == DOMAIN Candidates

\* The substrings the contract of a classifier names.
CandidateWords(kind) ==
    UNION {UNION {IF "all" \in DOMAIN alt THEN alt.all ELSE {alt.eq} : alt \in c.alts}
           : c \in {Candidates[kind].list[k] : k \in DOMAIN Candidates[kind].list}}

\* The fields of each entity that the spec's boolean rule governs.
ScalarRules(e) == IF e = "geofence" THEN GeofenceScalarRules ELSE EntityRules[e]

FlagFields(e) == {f \in DOMAIN ScalarRules(e) : ScalarRules(e)[f].kind = "flag"}

====
