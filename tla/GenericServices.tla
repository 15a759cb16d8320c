-------------------------- MODULE GenericServices --------------------------
(* service-client-generator-generic.ts: the methods of a generated client    *)
(* for any RpcTransport, and what becomes of a call that is made with one:   *)
(* its options are merged with those of the transport (rpc-options.ts), and  *)
(* it goes through the interceptors (rpc-interceptor.ts) to the transport.   *)
(* service-server-generator-generic.ts, service-server-generator-grpc.ts and *)
(* grpc-adapter.ts: the two interfaces a service can be implemented by, the  *)
(* definition generated for @grpc/grpc-js, and the one that the adapter of   *)
(* grpc-backend makes of a service type, with what it calls.                 *)
(*                                                                           *)
(* Options are a function of the names of those that are given. A method `m` *)
(* is one of the proto file, `info` its MethodInfo.                          *)
EXTENDS GrpcClients

-----------------------------------------------------------------------------
(* The generated methods: the signature, and what stackIntercept gets.       *)

RpcOptions == Optional({CallOptions})

CallClass(class, m) == [is |-> class, of |-> <<m.I, m.O>>]

GenericUnary(m) ==
    [signature |-> Signature(<<Input(m), RpcOptions>>, CallClass("UnaryCall", m)),
     kind |-> "unary", input |-> TRUE]

GenericServerStreaming(m) ==
    [signature |-> Signature(<<Input(m), RpcOptions>>, CallClass("ServerStreamingCall", m)),
     kind |-> "serverStreaming", input |-> TRUE]

GenericClientStreaming(m) ==
    [signature |-> Signature(<<RpcOptions>>, CallClass("ClientStreamingCall", m)),
     kind |-> "clientStreaming", input |-> FALSE]

GenericDuplex(m) ==
    [signature |-> Signature(<<RpcOptions>>, CallClass("DuplexStreamingCall", m)),
     kind |-> "duplex", input |-> FALSE]

GenericMethod(m) ==
    CASE m.streams = "unary" -> GenericUnary(m)
      [] m.streams = "serverStreaming" -> GenericServerStreaming(m)
      [] m.streams = "clientStreaming" -> GenericClientStreaming(m)
      [] m.streams = "duplex" -> GenericDuplex(m)

\* The functions of a transport: whether they take a message, what they return.
RpcTransport ==
    LET Function(input, class) == [input |-> input, returns |-> class]
    IN  [unary |-> Function(TRUE, "UnaryCall"),
         serverStreaming |-> Function(TRUE, "ServerStreamingCall"),
         clientStreaming |-> Function(FALSE, "ClientStreamingCall"),
         duplex |-> Function(FALSE, "DuplexStreamingCall")]

-----------------------------------------------------------------------------
(* mergeOptions of a transport                                               *)

OptionOf(options, name) == IF name \in DOMAIN options THEN options[name] ELSE <<>>

\* Later values override earlier values. Type registries are merged.
mergeJsonOptions(a, b) ==
    [typeRegistry |-> OptionOf(a, "typeRegistry") \o OptionOf(b, "typeRegistry")] @@ b @@ a

mergeBinaryOptions(a, b) == b @@ a

mergeRpcOptions(defaults, options) ==
    [name \in DOMAIN defaults \cup DOMAIN options |->
        CASE name \notin DOMAIN options -> defaults[name]
          [] name = "jsonOptions" /\ name \in DOMAIN options ->
                 mergeJsonOptions(OptionOf(defaults, name), options[name])
          [] name = "binaryOptions" /\ name \in DOMAIN options ->
                 mergeBinaryOptions(OptionOf(defaults, name), options[name])
          [] name = "meta" /\ name \in DOMAIN options -> options[name] @@ OptionOf(defaults, name)
          [] name = "interceptors" /\ name \in DOMAIN options ->
                 OptionOf(defaults, name) \o options[name]
          [] OTHER -> options[name]]

-----------------------------------------------------------------------------
(* stackIntercept. An interceptor has a name, the kinds of calls it has a    *)
(* function for, and what this does: it "passes" the call on to `next`, it   *)
(* "answers" the call itself, or it "retries", that is calls `next` twice.   *)
(* What comes of a call is who is called, one after the other.               *)

Intercept(curr, next) ==
    <<curr.name>> \o CASE curr.does = "passes" -> next
                       [] curr.does = "retries" -> next \o next
                       [] curr.does = "answers" -> <<>>

\* The tail is the transport; the last interceptor is put in front of it, and
\* so on to the first.
stackIntercept(kind, options) ==
    FoldRight(Intercept,
              SelectSeq(OptionOf(options, "interceptors"), LAMBDA i : kind \in i.intercepts),
              <<kind>>)

-----------------------------------------------------------------------------
(* The generic interface                                                     *)

Context == Plainly("context")
ResponseStream(m) == [is |-> "RpcInputStream", of |-> <<m.O>>]
RequestStream(m) == [is |-> "RpcOutputStream", of |-> <<m.I>>]
PromiseOf(types) == [is |-> "Promise", of |-> types]

ServerUnary(m) == Signature(<<Input(m), Demanded({Context})>>, PromiseOf(<<m.O>>))

ServerServerStreaming(m) ==
    Signature(<<Input(m)>> \o AllOf(<<ResponseStream(m), Context>>), PromiseOf(<<>>))

ServerClientStreaming(m) == Signature(AllOf(<<RequestStream(m), Context>>), PromiseOf(<<m.O>>))

ServerBidi(m) == Signature(AllOf(<<RequestStream(m), ResponseStream(m), Context>>), PromiseOf(<<>>))

GenericServerMethod(m) ==
    CASE m.streams = "unary" -> ServerUnary(m)
      [] m.streams = "serverStreaming" -> ServerServerStreaming(m)
      [] m.streams = "clientStreaming" -> ServerClientStreaming(m)
      [] m.streams = "duplex" -> ServerBidi(m)

-----------------------------------------------------------------------------
(* For @grpc/grpc-js: the types of the handlers and the definition           *)

Handler(info) ==
    CASE info.serverStreaming /\ info.clientStreaming -> "handleBidiStreamingCall"
      [] info.serverStreaming /\ ~info.clientStreaming -> "handleServerStreamingCall"
      [] ~info.serverStreaming /\ info.clientStreaming -> "handleClientStreamingCall"
      [] ~info.serverStreaming /\ ~info.clientStreaming -> "handleUnaryCall"

createMethodPropertySignature(info) == [is |-> Handler(info), of |-> <<info.I, info.O>>]

makeDefinitionProperty(service, info) ==
    [path |-> Path(service, info), originalName |-> info.name,
     requestStream |-> info.clientStreaming, responseStream |-> info.serverStreaming,
     responseDeserialize |-> info.O, requestDeserialize |-> info.I,
     responseSerialize |-> info.O, requestSerialize |-> info.I]

-----------------------------------------------------------------------------
(* The adapter                                                               *)

createDefinition(service, info) ==
    [path |-> <<service, info.name>>, originalName |-> info.name,
     requestStream |-> info.clientStreaming, responseStream |-> info.serverStreaming,
     responseDeserialize |-> info.O, requestDeserialize |-> info.I,
     responseSerialize |-> info.O, requestSerialize |-> info.I]

\* The handler that mapService makes, and what it gives to and awaits from the
\* method of the implementation.
Mapped(handles, calls, awaits) ==
    [handles |-> handles, calls |-> calls, awaits |-> PromiseOf(awaits)]

mapService(info) ==
    LET request == MessageArgument(info.I)
    IN  CASE info.serverStreaming /\ info.clientStreaming ->
               Mapped("handleBidiStreamingCall", <<RequestStream(info), ResponseStream(info), Context>>, <<>>)
          [] info.serverStreaming /\ ~info.clientStreaming ->
               Mapped("handleServerStreamingCall", <<request, ResponseStream(info), Context>>, <<>>)
          [] ~info.serverStreaming /\ info.clientStreaming ->
               Mapped("handleClientStreamingCall", <<RequestStream(info), Context>>, <<info.O>>)
          [] ~info.serverStreaming /\ ~info.clientStreaming ->
               Mapped("handleUnaryCall", <<request, Context>>, <<info.O>>)

\* Server.addService of @grpc/grpc-js: the handler it expects for a definition.
GrpcJsHandler ==
    [request \in BOOLEAN, response \in BOOLEAN |->
        CASE request /\ response -> "handleBidiStreamingCall"
          [] ~request /\ response -> "handleServerStreamingCall"
          [] request /\ ~response -> "handleClientStreamingCall"
          [] ~request /\ ~response -> "handleUnaryCall"]
=============================================================================
