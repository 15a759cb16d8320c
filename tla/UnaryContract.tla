--------------------------- MODULE UnaryContract ---------------------------
(* The abstract unary call: what the doc of UnaryCall promises of its four   *)
(* promises, whichever transport settles them. "await call" (promiseFinished)*)
(* is Promise.all over the four.                                             *)
VARIABLE outcome   \* of the headers, the response message, status, trailers

Parts == {"header", "message", "status", "trailer"}

ContractInit == outcome = [d \in Parts |-> "pending"]

\* Some promises settle. What is settled stays; the message never comes before
\* the headers; status and trailers come last, and together; OK means that
\* everything is there, so that the await of the call resolves.
Settle ==
    /\ outcome' \in [Parts -> {"pending", "resolved", "rejected"}]
    /\ \A d \in Parts : outcome[d] # "pending" => outcome'[d] = outcome[d]
    /\ outcome'["message"] = "resolved" => outcome'["header"] = "resolved"
    /\ outcome'["trailer"] = outcome'["status"]
    /\ outcome'["status"] # "pending" => \A d \in Parts : outcome'[d] # "pending"
    /\ outcome'["status"] = "resolved" => \A d \in Parts : outcome'[d] = "resolved"

ContractSpec == ContractInit /\ [][Settle]_outcome
=============================================================================
