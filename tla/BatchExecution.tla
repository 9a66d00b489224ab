--------------------------- MODULE BatchExecution ---------------------------
(***************************************************************************)
(* The batch semantics the specification gives an operation over n input  *)
(* items (spec §5, §7): items are processed strictly in sequence, with at *)
(* most one request outstanding, for the item being processed; an item    *)
(* ends with its records (any number, one per element of the response),  *)
(* or, in the tolerant mode, with one error record for it, and processing  *)
(* goes on; otherwise its failure aborts the rest of the batch.            *)
(***************************************************************************)
EXTENDS Naturals, Sequences

CONSTANTS
    MaxRecords,   \* bound on the records one item yields
    None          \* no request outstanding

VARIABLES
    n,            \* the number of items
    tolerant,     \* the continue-on-failure mode
    done,         \* items finished
    out,          \* the output records so far: [item, kind]
    inflight,     \* the item whose request is outstanding, or None
    status        \* "running", "returned" or "threw"

vars == <<n, tolerant, done, out, inflight, status>>

Record(k, kind) == [item |-> k, kind |-> kind]

Init ==
    /\ n \in Nat
    /\ tolerant \in BOOLEAN
    /\ done = 0
    /\ out = <<>>
    /\ inflight = None
    /\ status = IF n > 0 THEN "running" ELSE "returned"

\* The current item is finished: on to the next one, or return.
Finish ==
    /\ done' = done + 1
    /\ inflight' = None
    /\ status' = IF done + 1 < n THEN "running" ELSE "returned"

\* The one request of the current item is issued.
Send ==
    /\ status = "running" /\ inflight = None
    /\ inflight' = done
    /\ UNCHANGED <<n, tolerant, done, out, status>>

\* The current item yields its records.
Complete ==
    /\ status = "running" /\ inflight \in {None, done}
    /\ \E c \in 0..MaxRecords : out' = out \o [j \in 1..c |-> Record(done, "data")]
    /\ Finish
    /\ UNCHANGED <<n, tolerant>>

\* Tolerant mode: the failed item becomes one error record.
Recover ==
    /\ status = "running" /\ tolerant
    /\ out' = Append(out, Record(done, "error"))
    /\ Finish
    /\ UNCHANGED <<n, tolerant>>

\* Otherwise the failure aborts the batch.
Abort ==
    /\ status = "running" /\ ~tolerant
    /\ status' = "threw"
    /\ inflight' = None
    /\ UNCHANGED <<n, tolerant, done, out>>

Next == Send \/ Complete \/ Recover \/ Abort

Spec == Init /\ [][Next]_vars

====
