---------------------------- MODULE MCWebfleetNode ----------------------------
(***************************************************************************)
(* The node for TLC: up to three items; every operation the description   *)
(* offers, an operation the resource does not have and an unknown          *)
(* resource (both reachable from an imported workflow, whose parameters    *)
(* the editor never checked); every response shape makeWebfleetRequest     *)
(* tells apart.                                                            *)
(***************************************************************************)
EXTENDS WebfleetNode

\* Every operation the editor offers, and two that only an imported
\* workflow can hold.
MCParameters ==
    UNION {{[resource |-> r, operation |-> o] : o \in OfferedOperations[r]} : r \in DOMAIN OfferedOperations}
    \cup { [resource |-> "trip",     operation |-> "getAll"],
          [resource |-> "customer", operation |-> "getAll"] }

MCResponses == {"list0", "list2", "record", "code0", "code10", "reject"}

====
