----------------------------- MODULE MCNormalizer -----------------------------
(***************************************************************************)
(* The normalizer for TLC.  The normalizer is a set of pure functions: a   *)
(* state is one call, its arguments drawn from the sets below; the         *)
(* invariants state what the call must return.                             *)
(*                                                                         *)
(* Entity records are built one field rule at a time: every property path  *)
(* a rule reads gets a value from the set for its kind of field, the       *)
(* others are absent.  The fields of a record do not read each other's     *)
(* properties, except the shape fields of a geofence, which get a set of   *)
(* their own.                                                              *)
(***************************************************************************)
EXTENDS DomainTypes, UsageExamples

VARIABLE input

MCIsoTexts == {Chars("2024-01-01T10:00:00Z"), Chars("2024-01-01")}

TextValues   == {Undefined, Empty, S("ab"), Num(7)}
NumberValues == {Undefined, S("7"), S("ab"), Num(0), Num(-7)}
FlagValues   == {Undefined, S("1"), S("0"), Bool(TRUE), Bool(FALSE)}
\* Epochs in seconds and in milliseconds, the last millisecond new Date
\* accepts, one past it and a 17-digit string; an ISO text and a non-date.
TimeValues   == {Undefined, S("1700000000"), S("1700000000000"), S("8640000000000000"),
                 S("8640000000000001"), S("12345678901234567"), S("2024-01-01T10:00:00Z"),
                 S("ab"), Num(7), Num(1700000000)}
DateValues   == {Undefined, S("2024-01-01"), S("2024-01-01T10:00:00Z"), S("ab"), Num(7)}
ClassValues  == {Undefined, S("Harsh Braking"), S("speed"), S("High"), S("3"), Num(3)}
IdValues     == {Undefined, S("t1")}
PartValues   == {Undefined, S("ab"), Num(7)}
ListValues   == {Undefined, Arr(<<>>), S("ab"),
                 Arr(<<Obj(("violationtype" :> S("ab")) @@ ("severity" :> S("3")))>>)}
WhenValues   == {Undefined, S("7"), Num(0)}

ValuesOf(kind) ==
    CASE kind = "pick"   -> TextValues
      [] kind = "number" -> NumberValues
      [] kind = "flag"   -> FlagValues
      [] kind = "time"   -> TimeValues
      [] kind = "date"   -> DateValues
      [] kind = "class"  -> ClassValues

\* The raw record with the given values at the given paths (of one or two
\* steps).
RawOf(a) ==
    LET top == {p[1] : p \in DOMAIN a}
        Inner(k) == {q \in DOMAIN a : Len(q) = 2 /\ q[1] = k}
    IN  Obj([k \in top |-> IF <<k>> \in DOMAIN a THEN a[<<k>>]
                           ELSE Obj([j \in {q[2] : q \in Inner(k)} |-> a[<<k, j>>]])])

RECURSIVE RawsFor(_)
RawsFor(rule) ==
    CASE rule.kind = "group" -> UNION {RawsFor(rule.fields[f]) : f \in DOMAIN rule.fields}
      [] rule.kind = "when"  -> {RawOf(a) : a \in [Range(rule.names) -> WhenValues]}
                                \cup UNION {RawsFor(rule.fields[f]) : f \in DOMAIN rule.fields}
      [] rule.kind = "list"  -> {RawOf(a) : a \in [Range(rule.names) -> ListValues]}
      [] rule.kind = "id"    ->
           LET parts == UNION {Range(rule.parts[k].names) : k \in DOMAIN rule.parts}
           IN  {RawOf(a @@ b) : a \in [Range(rule.names) -> IdValues], b \in [parts -> PartValues]}
      [] OTHER               -> {RawOf(a) : a \in [Range(rule.names) -> ValuesOf(rule.kind)]}

GeofenceShapes ==
    {Obj(f) : f \in [type : {Undefined, S("circle"), S("polygon"), S("Circle")},
                     radius : {Undefined, S("7"), Num(0)},
                     latitude : {Undefined, S("7")}, longitude : {Undefined, S("7")},
                     vertices : {Undefined, S("ab"), Arr(<<Null>>), Arr(<<Obj("lat" :> S("7"))>>)}]}

RawsOf(e) ==
    UNION {RawsFor(ScalarRules(e)[f]) : f \in DOMAIN ScalarRules(e)}
    \cup (IF e = "geofence" THEN GeofenceShapes ELSE {})

EntityInputs == UNION {{[fn |-> "entity", entity |-> e, raw |-> r] : r \in RawsOf(e)} : e \in Entities}

\* A letter string with its first letter in upper case.
Capitalized(w) ==
    (CHOOSE u \in DOMAIN LowerOf : LowerOf[u] = SubSeq(w, 1, 1)) \o SubSeq(w, 2, Len(w))

\* Each candidate substring and canonical class alone, capitalized, and
\* every two of them, so that an input can match several candidates.
ClassifierTexts(kind) ==
    LET ws == CandidateWords(kind) \cup {Candidates[kind].list[k].class : k \in DOMAIN Candidates[kind].list}
    IN  ws \cup {Capitalized(w) : w \in {x \in ws : SubSeq(x, 1, 1) \in Range(LowerOf)}}
           \cup {w1 \o " " \o w2 : w1, w2 \in ws}

ClassifyInputs ==
    UNION {{[fn |-> "classify", kind |-> k, v |-> S(w)] : w \in ClassifierTexts(k)}
           \cup (IF k \in Stringified THEN {[fn |-> "classify", kind |-> k, v |-> Num(n)] : n \in 1..4}
                 ELSE {})
           : k \in Kinds}

VehicleRaw == Obj(("objectno" :> S("ab")) @@ ("isactive" :> S("1")))

EnvelopeRaws ==
    {Undefined, Null, Empty, Obj("errorCode" :> Num(8011)), Obj("errorCode" :> Num(-1)),
     Obj(("errorCode" :> Num(8011)) @@ ("errorMsg" :> S("ab"))), Obj("errorCode" :> Num(0)),
     Obj("errorCode" :> S("0")), VehicleRaw, Arr(<<>>), Arr(<<VehicleRaw, Obj("objectNo" :> Num(7))>>),
     Arr(<<VehicleRaw, Null>>), Obj("starttime" :> S("12345678901234567"))}

EnvelopeInputs ==
    {[fn |-> "envelope", raw |-> r, entity |-> e] : r \in EnvelopeRaws, e \in {"none", "vehicle", "trip"}}

\* Weekly fuel reports for the "Analyze Efficiency" example: fleets of up
\* to three vehicles, with tied and distinct efficiencies, no fuel or no
\* distance; with and without reportPeriod; and no fuelData at all.
FuelRows == [eff : {1, 3}, fuel : {0, 2}, dist : {0, 4}]

Fleets == UNION {{[j \in 1..k |-> [name |-> j] @@ f[j]] : f \in [1..k -> FuelRows]} : k \in 0..3}

FuelInputs ==
    {[fn |-> "fuel", report |-> [hasFuelData |-> TRUE, fuelData |-> d, hasPeriod |-> p]] :
        d \in Fleets, p \in BOOLEAN}
    \cup {[fn |-> "fuel", report |-> [hasFuelData |-> FALSE, fuelData |-> <<>>, hasPeriod |-> TRUE]]}

Init == input \in ClassifyInputs \cup EntityInputs \cup EnvelopeInputs \cup FuelInputs

Next == UNCHANGED input

Spec == Init /\ [][Next]_input

(***************************************************************************)
(* Properties.                                                             *)
(***************************************************************************)

\* The categorical mappers (mapActivityType ... mapEventSeverity) classify
\* as the spec documents them: the first candidate in the documented order
\* that the lower-cased text contains wins, else the field's default; and a
\* canonical class, fed back, maps to itself.
ClassifiersAsDocumented ==
    input.fn = "classify" =>
        LET c == MapCategory(input.kind, input.v)
        IN  /\ c = S(FirstMatch(input.kind, ClassifierInput(input.v, input.kind \in Stringified).text))
            /\ MapCategory(input.kind, c) = c

\* Round-trip idempotence (spec §6) for the entities whose canonical field
\* names transformVehicleData, transformVehiclePositionData,
\* transformDriverData and transformOrderData read back: normalizing a
\* record they produced reproduces it.
RoundTripFlatRecords ==
    input.fn = "entity" /\ input.entity \in {"vehicle", "position", "driver", "order"} =>
        LET r == Transform(input.entity, input.raw)
        IN  Raises(r) \/ Transform(input.entity, r) = r

\* Round-trip idempotence (spec §6) for every entity transform.
RoundTripIdempotent ==
    input.fn = "entity" =>
        LET r == Transform(input.entity, input.raw)
        IN  Raises(r) \/ Transform(input.entity, r) = r

\* Malformed fields are never raised (spec §4.2, §5(c)): no entity transform
\* throws on a record of strings, numbers, booleans and arrays.
NormalizationNeverThrows ==
    input.fn = "entity" => ~Raises(Transform(input.entity, input.raw))

\* transformApiResponse's envelope (spec §2, §4.2): when it returns, exactly
\* one of data and error is present, and success says which; a response with
\* no errorCode is a success whose data are the transformed records, one per
\* element and in order, counted in totalRecords; one with a nonzero numeric
\* errorCode is a failure that carries the code and the raw response.
EnvelopeWellFormed ==
    input.fn = "envelope" =>
        LET r    == TransformApiResponse(input.raw, input.entity)
            code == Field(input.raw, <<"errorCode">>)
            Tf(x) == IF input.entity = "none" THEN x ELSE Transform(input.entity, x)
        IN  IsA(r, "throw") \/ ("data" \in DOMAIN r /\ Raises(r.data)) \/
            /\ ("data" \in DOMAIN r) # ("error" \in DOMAIN r)
            /\ r.success = ("data" \in DOMAIN r)
            /\ code = Undefined /\ IsA(input.raw, "arr") =>
                 /\ r.success /\ r.metadata.totalRecords = Len(input.raw.arr)
                 /\ r.data = Arr([k \in DOMAIN input.raw.arr |-> Tf(input.raw.arr[k])])
            /\ code = Undefined /\ IsA(input.raw, "obj") => r.success /\ r.data = Tf(input.raw)
            /\ IsNum(code) /\ code # Num(0) => ~r.success /\ r.error.code = code /\ r.error.details = input.raw

\* The weekly fuel report (examples/basic-usage.js:271-320) ranks the fleet:
\* for a report with a period, vehicles and fuel used, the best performer
\* is the first vehicle, in report order, of the highest efficiency and the
\* worst the last of the lowest; the alerts are exactly the vehicles below
\* 80% of the fleet's distance per unit of fuel, most efficient first.
PerformersRanked ==
    input.fn = "fuel" /\ input.report.hasPeriod /\ input.report.fuelData # <<>> =>
        LET rows  == input.report.fuelData
            fuel  == SumOf(rows, "fuel")
            dist  == SumOf(rows, "dist")
            effs  == {rows[k].eff : k \in DOMAIN rows}
            first(e) == Min({k \in DOMAIN rows : rows[k].eff = e})
            last(e)  == Max({k \in DOMAIN rows : rows[k].eff = e})
            r == AnalyzeEfficiency(input.report)
        IN  fuel > 0 =>
            /\ r.best = [vehicle |-> first(Max(effs)), efficiency |-> Max(effs)]
            /\ r.worst = [vehicle |-> last(Min(effs)), efficiency |-> Min(effs)]
            /\ {a.name : a \in Range(r.alerts)} = {rows[k].name : k \in {k \in DOMAIN rows : 5 * rows[k].eff * fuel < 4 * dist}}
            /\ \A a, b \in DOMAIN r.alerts : a < b => r.alerts[a].efficiency >= r.alerts[b].efficiency

\* Every number- and boolean-typed field a transform returns, nested ones
\* and the elements of arrays included, has its declared type, whatever the
\* upstream sent: the parseInt/parseFloat coercions (with or without the 0
\* fallback) and the flag tests are what make the text the upstream sends
\* into the numbers and booleans webfleet.types.ts declares.
CoercedFieldsTyped ==
    input.fn = "entity" =>
        LET r == Transform(input.entity, input.raw)
        IN  Raises(r) \/ HasType(TObject(DeclaredType[input.entity]), r, {"number", "boolean"})

\* Spec 4.2: free-text upstream enums are mapped "to a closed canonical
\* set".  Every field webfleet.types.ts declares as a union of literals (an
\* activity, an order's status, priority and type, an event's type and
\* severity, a violation's type and severity, a geofence's type) holds a
\* member of its union in every record a transform returns.
ClassesInDeclaredSets ==
    input.fn = "entity" =>
        LET r == Transform(input.entity, input.raw)
        IN  Raises(r) \/ HasType(TObject(DeclaredType[input.entity]), r, {"union"})

====
