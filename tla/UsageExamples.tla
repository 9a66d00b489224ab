---------------------------- MODULE UsageExamples ----------------------------
(***************************************************************************)
(* The function code of the usage examples (examples/basic-usage.js) that *)
(* consumes the node's output: the "Analyze Efficiency" node of the weekly *)
(* fuel report workflow.  A report is [hasFuelData, fuelData, hasPeriod]: *)
(* whether fuelData is present, its sequence of vehicle rows [name, eff,   *)
(* fuel, dist], and whether reportPeriod is present.  Quantities are       *)
(* naturals; for the bounds the MC module uses (distance sums up to 12,    *)
(* fuel sums up to 6, efficiencies up to 7) the float test                 *)
(* eff < (dist / fuel) * 0.8 gives the same answer as the integer test     *)
(* below.                                                                  *)
(***************************************************************************)
EXTENDS Integers, Sequences, SequencesExt

\* The comparator of vehicles.sort: (a, b) => b.fuelEfficiency - a.fuelEfficiency.
\* Mutant: the comparator is written the other way round.
EfficiencyOrderAscending(a, b) == a.eff - b.eff

EfficiencyOrder(a, b) == b.eff - a.eff

\* Array.prototype.sort (stable): a row goes before the first row it sorts
\* strictly ahead of, after every row it ties with.
RECURSIVE InsertSorted(_, _)
InsertSorted(v, s) ==
    IF s = <<>> \/ EfficiencyOrder(v, Head(s)) < 0
    THEN <<v>> \o s
    ELSE <<Head(s)>> \o InsertSorted(v, Tail(s))

SortByEfficiency(s) == FoldLeft(LAMBDA acc, v : InsertSorted(v, acc), <<>>, s)

SumOf(s, field) == FoldLeft(LAMBDA acc, v : acc + v[field], 0, s)

\* v.fuelEfficiency < averageEfficiency * 0.8 with averageEfficiency =
\* totalDistance / totalFuel: Infinity when no fuel was used but some
\* distance driven, NaN (never greater) when neither.
BelowThreshold(eff, dist, fuel) ==
    IF fuel > 0 THEN 5 * eff * fuel < 4 * dist ELSE dist > 0

(***************************************************************************)
(* The "Analyze Efficiency" function node: "TypeError" when it throws.     *)
(* vehicles.sort sorts report.fuelData in place, so the filter that        *)
(* follows sees the sorted rows.  The result object is built in source     *)
(* order: reportPeriod.from is read before bestPerformer.vehicleName.      *)
(***************************************************************************)
AnalyzeEfficiency(report) ==
    LET vehicles == IF report.hasFuelData THEN report.fuelData ELSE <<>>
        totalFuel == SumOf(vehicles, "fuel")
        totalDistance == SumOf(vehicles, "dist")
        sorted == SortByEfficiency(vehicles)
        needsAttention == SelectSeq(sorted, LAMBDA v : BelowThreshold(v.eff, totalDistance, totalFuel))
    IN  IF ~report.hasPeriod \/ sorted = <<>>
        THEN "TypeError"
        ELSE [totalVehicles |-> Len(vehicles),
              totalFuel     |-> totalFuel,
              totalDistance |-> totalDistance,
              best          |-> [vehicle |-> sorted[1].name, efficiency |-> sorted[1].eff],
              worst         |-> [vehicle |-> sorted[Len(sorted)].name,
                                 efficiency |-> sorted[Len(sorted)].eff],
              alerts        |-> [k \in 1..Len(needsAttention) |->
                                   [name |-> needsAttention[k].name, efficiency |-> needsAttention[k].eff]]]

====
