---------------------------- MODULE GrpcClients ----------------------------
(* service-client-generator-grpc.ts: the methods of a generated client for   *)
(* @grpc/grpc-js. The interface has an overload for each way to leave out    *)
(* arguments; the class has one method for all of them, which hands its      *)
(* arguments, wherever they stand, on to the request method of grpc.Client.  *)
(*                                                                           *)
(* A type of an argument, or of what is returned, is [is, of]: what it is    *)
(* and the message types it mentions. A parameter takes a union of types.    *)
EXTENDS GeneratedNames

Plainly(kind) == [is |-> kind, of |-> <<>>]

MessageArgument(d) == [is |-> "message", of |-> <<d>>]
Metadata == Plainly("metadata")
CallOptions == Plainly("options")
Callback(d) == [is |-> "callback", of |-> <<d>>]

Demanded(types) == [takes |-> types, optional |-> FALSE]
Optional(types) == [takes |-> types, optional |-> TRUE]

Signature(params, returns) == [params |-> params, returns |-> returns]

-----------------------------------------------------------------------------
(* The interface                                                             *)

ClientUnaryCall == Plainly("ClientUnaryCall")
ClientReadableStream(m) == [is |-> "ClientReadableStream", of |-> <<m.O>>]
ClientWritableStream(m) == [is |-> "ClientWritableStream", of |-> <<m.I>>]
ClientDuplexStream(m) == [is |-> "ClientDuplexStream", of |-> <<m.I, m.O>>]

Input(m) == Demanded({MessageArgument(m.I)})
AllOf(types) == [k \in DOMAIN types |-> Demanded({types[k]})]

UnaryWithBoth(m) ==
    Signature(<<Input(m)>> \o AllOf(<<Metadata, CallOptions, Callback(m.O)>>), ClientUnaryCall)

UnaryWithMetadata(m) ==
    Signature(<<Input(m)>> \o AllOf(<<Metadata, Callback(m.O)>>), ClientUnaryCall)

UnaryWithOptions(m) ==
    Signature(<<Input(m)>> \o AllOf(<<CallOptions, Callback(m.O)>>), ClientUnaryCall)

UnaryPlain(m) == Signature(<<Input(m)>> \o AllOf(<<Callback(m.O)>>), ClientUnaryCall)

ServerStreamingWithMetadata(m) ==
    Signature(<<Input(m), Optional({Metadata}), Optional({CallOptions})>>, ClientReadableStream(m))

ServerStreamingWithOptions(m) ==
    Signature(<<Input(m), Optional({CallOptions})>>, ClientReadableStream(m))

ClientStreamingWithBoth(m) ==
    Signature(AllOf(<<Metadata, CallOptions, Callback(m.O)>>), ClientWritableStream(m))

ClientStreamingWithMetadata(m) ==
    Signature(AllOf(<<Metadata, Callback(m.O)>>), ClientWritableStream(m))

ClientStreamingWithOptions(m) ==
    Signature(AllOf(<<CallOptions, Callback(m.O)>>), ClientWritableStream(m))

ClientStreamingPlain(m) == Signature(AllOf(<<Callback(m.O)>>), ClientWritableStream(m))

DuplexWithMetadata(m) ==
    Signature(<<Optional({Metadata}), Optional({CallOptions})>>, ClientDuplexStream(m))

DuplexWithOptions(m) == Signature(<<Optional({CallOptions})>>, ClientDuplexStream(m))

GrpcSignatures(m) ==
    CASE m.streams = "unary" ->
           <<UnaryWithBoth(m), UnaryWithMetadata(m), UnaryWithOptions(m), UnaryPlain(m)>>
      [] m.streams = "serverStreaming" ->
           <<ServerStreamingWithMetadata(m), ServerStreamingWithOptions(m)>>
      [] m.streams = "clientStreaming" ->
           <<ClientStreamingWithBoth(m), ClientStreamingWithMetadata(m),
             ClientStreamingWithOptions(m), ClientStreamingPlain(m)>>
      [] m.streams = "duplex" -> <<DuplexWithMetadata(m), DuplexWithOptions(m)>>

-----------------------------------------------------------------------------
(* The class. A request is the method of grpc.Client, the type arguments,    *)
(* and which parameters are handed on, the message apart.                    *)

OnlyLastCallback(m) ==  \* Mutant: the callback may not stand in for the options.
    <<Demanded({Metadata, CallOptions, Callback(m.O)}),
      Optional({CallOptions}), Optional({Callback(m.O)})>>

MetadataOptionsCallback(m) ==
    <<Demanded({Metadata, CallOptions, Callback(m.O)}),
      Optional({CallOptions, Callback(m.O)}), Optional({Callback(m.O)})>>

MetadataOptions == <<Optional({Metadata, CallOptions}), Optional({CallOptions})>>

UnaryMethod(m) == Signature(<<Input(m)>> \o MetadataOptionsCallback(m), ClientUnaryCall)

UnaryRequest(m) == [calls |-> "makeUnaryRequest", types |-> <<m.I, m.O>>, passes |-> <<2, 3, 4>>]

ServerStreamingMethod(m) == Signature(<<Input(m)>> \o MetadataOptions, ClientReadableStream(m))

ServerStreamingRequest(m) ==
    [calls |-> "makeServerStreamRequest", types |-> <<m.I, m.O>>, passes |-> <<2, 3>>]

ClientStreamingMethod(m) == Signature(MetadataOptionsCallback(m), ClientWritableStream(m))

ClientStreamingRequest(m) ==
    [calls |-> "makeClientStreamRequest", types |-> <<m.I, m.O>>, passes |-> <<1, 2, 3>>]

DuplexMethod(m) == Signature(MetadataOptions, ClientDuplexStream(m))

DuplexRequest(m) ==
    [calls |-> "makeBidiStreamRequest", types |-> <<m.I, m.O>>, passes |-> <<1, 2>>]

GrpcMethod(m) ==
    CASE m.streams = "unary" -> UnaryMethod(m)
      [] m.streams = "serverStreaming" -> ServerStreamingMethod(m)
      [] m.streams = "clientStreaming" -> ClientStreamingMethod(m)
      [] m.streams = "duplex" -> DuplexMethod(m)

GrpcRequest(m) ==
    CASE m.streams = "unary" -> UnaryRequest(m)
      [] m.streams = "serverStreaming" -> ServerStreamingRequest(m)
      [] m.streams = "clientStreaming" -> ClientStreamingRequest(m)
      [] m.streams = "duplex" -> DuplexRequest(m)

\* The generated code sends to the path of method k of the service type, whose
\* types read and write the messages.
Path(service, info) == <<service, info.name>>

-----------------------------------------------------------------------------
(* Calls                                                                     *)

Omitted == Plainly("undefined")

\* Arguments are left out at the end only.
FitsAt(params, args, k) ==
    IF k <= Len(args) THEN args[k] \in params[k].takes ELSE params[k].optional

Fits(params, args) == /\ Len(args) <= Len(params)
                      /\ \A k \in DOMAIN params : FitsAt(params, args, k)

CallsOf(signature) ==
    LET types == UNION {p.takes : p \in ToSet(signature.params)}
    IN  {args \in UNION {[1 .. n -> types] : n \in 0 .. Len(signature.params)} :
            Fits(signature.params, args)}

Passed(args, request) ==
    [k \in DOMAIN request.passes |->
        IF request.passes[k] <= Len(args) THEN args[request.passes[k]] ELSE Omitted]

\* grpc.Client makes metadata and options that are missing, and tells the
\* arguments apart by what they are. "none": it throws.
New(kind) == Plainly("new " \o kind)

GrpcUnaryArguments(a) ==
    CASE a[1].is = "callback" -> <<New("metadata"), New("options"), a[1]>>
      [] a[2].is = "callback" /\ a[1].is = "metadata" -> <<a[1], New("options"), a[2]>>
      [] a[2].is = "callback" /\ a[1].is # "metadata" -> <<New("metadata"), a[1], a[2]>>
      [] a[3].is = "callback" /\ a[1].is = "metadata" /\ a[2].is = "options" -> a
      [] OTHER -> <<>>

GrpcStreamArguments(a) ==
    LET Options(x) == IF x = Omitted THEN New("options") ELSE x
    IN  IF a[1].is = "metadata" THEN <<a[1], Options(a[2])>>
        ELSE <<New("metadata"), Options(a[1])>>

GrpcArguments(request, a) ==
    IF request.calls \in {"makeUnaryRequest", "makeClientStreamRequest"}
    THEN GrpcUnaryArguments(a) ELSE GrpcStreamArguments(a)
=============================================================================
