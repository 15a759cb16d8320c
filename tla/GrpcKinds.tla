----------------------------- MODULE GrpcKinds -----------------------------
(* The four kinds of methods, shared by both ends of a gRPC call.            *)

VARIABLE kind    \* the kind of the method that is called

Kinds == {"unary", "serverStreaming", "clientStreaming", "duplex"}

\* The kinds with a request stream, and those with a response stream.
Requesting == {"clientStreaming", "duplex"}
Responding == {"serverStreaming", "duplex"}
=============================================================================
