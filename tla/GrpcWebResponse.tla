-------------------------- MODULE GrpcWebResponse --------------------------
(* How grpc-web-format.ts reads the status out of a response: the status and *)
(* error codes that decide what becomes of a call. A status code is a name   *)
(* of the GrpcStatusCode enum; "ERR" stands for any error a server may send, *)
(* "none" for the absence of a code (undefined).                             *)

\* The grpc-status header: absent, a known code, or not a known code (or sent
\* twice).
HeaderStatus == {"none", "OK", "ERR", "invalid"}

\* The error that carries a code, thrown by the transport or by its runtime.
ErrorCodes == {"ERR", "UNKNOWN", "INTERNAL", "DATA_LOSS", "CANCELLED"}

\* parseStatus: an invalid status is an INTERNAL error.
ParseStatus(s) == IF s = "invalid" THEN "INTERNAL" ELSE s

\* httpStatusToGrpc, for the codes it is asked about: those that are not 2xx
\* never map to OK.
HttpStatusToGrpc == {"ERR", "UNKNOWN", "CANCELLED"}

\* readGrpcWebResponseHeader for a response that is not an error response: a
\* failed HTTP status overrides a missing or OK grpc-status.
ReadHeader(httpOk, s) ==
    LET code == ParseStatus(s) IN
    IF code \in {"none", "OK"} /\ ~httpOk THEN HttpStatusToGrpc ELSE {code}

\* readGrpcWebResponseTrailer: `code ?? GrpcStatusCode.OK`.
ReadTrailer(s) == IF s = "none" THEN "OK" ELSE ParseStatus(s)
=============================================================================
