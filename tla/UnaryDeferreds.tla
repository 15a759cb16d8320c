--------------------------- MODULE UnaryDeferreds ---------------------------
(* The four Deferreds out of which a transport makes the promises of a       *)
(* UnaryCall, and what `await`ing the call promises.                         *)
EXTENDS TLC

VARIABLE def   \* defHeader, defMessage, defStatus, defTrailer, by name

Deferreds == {"header", "message", "status", "trailer"}

DeferredsInit == def = [d \in Deferreds |-> "pending"]

\* Deferred.resolve.
Resolve(ds) == def' = [d \in Deferreds |-> IF d \in ds THEN "resolved" ELSE def[d]]

\* Mutant: a promise that is settled is rejected all the same.
RejectAll(ds) == def' = [d \in ds |-> "rejected"] @@ def

\* Deferred.rejectPending: ignored unless pending.
RejectPending(ds) ==
    def' = [d \in Deferreds |->
              IF d \in ds /\ def[d] = "pending" THEN "rejected" ELSE def[d]]

(* Promises settle once (resolve and reject of a settled one throw), and in  *)
(* an order that the reader of a call can rely on.                           *)
Contract == INSTANCE UnaryContract WITH outcome <- def

KeepsContract == Contract!ContractSpec
=============================================================================
