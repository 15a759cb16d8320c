------------------------- MODULE GeneratedReflection -------------------------
(* What the generated message types, enums and service types mean to the     *)
(* runtime, against what the proto files say: the way goes through the       *)
(* interpreter, the printed literals with their omissions, and the runtime   *)
(* that fills the omissions in.                                              *)
EXTENDS ProtobuftsPlugin

Registry == request.files

MessagesMade == {d \in DOMAIN messageTypes : ~isSyntheticElement(TypeOf(d))}

FieldNumber(d, no) ==
    CHOOSE f \in ToSet(TypeOf(d).fields) : f.no = no

-----------------------------------------------------------------------------
(* Fields, enums and methods mean what the proto file says                   *)

LocalOf(name) ==
    LET plain == IF options.useProtoFieldName THEN name ELSE lowerCamelCase(name)
    IN  IF plain \in ReservedProperties \cup {oneofKind} THEN Append(plain, "$") ELSE plain

Packable(f) == f.type \notin {"string", "bytes", "message", "group"}

IsPacked(d, f) ==
    f.packed = "true" \/ (f.packed = "unset" /\ Proto(d[1]).syntax = "proto3")

\* "oneof": the presence is the group's. A message has presence of its own.
Presence(d, f) ==
    CASE isUserDeclaredOneof(f) -> "oneof"
      [] ~isUserDeclaredOneof(f) /\ (f.label = "repeated" \/ isMapField(Registry, f)) -> "implicit"
      [] ~isUserDeclaredOneof(f) /\ isMessageField(Registry, f) /\ f.label # "repeated" -> "explicit"
      [] OTHER -> IF f.proto3Optional \/ (Proto(d[1]).syntax = "proto2" /\ f.label = "optional")
                  THEN "explicit" ELSE "implicit"

PresenceIn(info) ==
    IF IsMember(info) THEN "oneof" ELSE IF info.opt THEN "explicit" ELSE "implicit"

LongTypeWanted(jstype) ==
    CASE jstype = "JS_STRING" -> "STRING"
      [] jstype = "JS_NUMBER" -> "NUMBER"
      [] jstype = "JS_NORMAL" -> "BIGINT"
      [] OTHER -> options.normalLongType

TypeAgrees(info, f, jstype) ==
    CASE isScalarField(f) ->
           info.kind = "scalar" /\ info.T = f.type
           /\ (f.type \in LongValueTypes => LongTypeOf(info) = LongTypeWanted(jstype))
      [] isEnumField(f) -> info.kind = "enum" /\ info.of = f.of
      [] OTHER -> info.kind = "message" /\ info.of = f.of

Agrees(d, info, f) ==
    /\ info.localName = LocalOf(f.name)
    /\ info.jsonName = IF f.json = <<>> THEN lowerCamelCase(f.name) ELSE f.json
    /\ PresenceIn(info) = Presence(d, f)
    /\ IsMember(info) => info.oneof = LocalOf(TypeOf(d).oneofDecl[f.oneof])
    /\ IsRepeated(info) <=> f.label = "repeated" /\ ~isMapField(Registry, f)
    /\ IsRepeated(info) /\ Packable(f) => (info.repeat = "PACKED" <=> IsPacked(d, f))
    /\ f.type \in {"string", "bytes"} => info.repeat # "PACKED"
    /\ IF isMapField(Registry, f)
       THEN info.kind = "map" /\ TypeAgrees(info.V, MapValue(Registry, f), f.jstype)
       ELSE TypeAgrees(info, f, f.jstype)

\* The JSON name of a value is its name in the proto file, and the number comes
\* back from it; names that share a number stand for each other. A zero that
\* the proto file lacks is added under a name of its own.
EnumAgrees(t) ==
    LET info == buildEnumInfo(options, t)
        names == {v.name : v \in ToSet(t.values)}
        hasZero == \E v \in ToSet(t.values) : v.number = 0
        JsonName(x) == info.prefix \o info.object.names[x]
        Number(name) ==
            info.object.numbers[SubSeq(name, Len(info.prefix) + 1, Len(name))]
    IN  /\ isEnumObject(info.object)
        /\ \A v \in ToSet(t.values) :
              /\ Number(v.name) = v.number
              /\ JsonName(v.number) \in names /\ Number(JsonName(v.number)) = v.number
        /\ Cardinality(DOMAIN info.object.numbers)
             = Cardinality(names) + (IF hasZero THEN 0 ELSE 1)

MethodsAgree(d) ==
    LET methods == MethodsOf(Registry, options, d)
        Declares(info, m) ==
            /\ info.name = m.letters /\ info.I = m.I /\ info.O = m.O
            /\ info.serverStreaming <=> m.streams \in {"serverStreaming", "duplex"}
            /\ info.clientStreaming <=> m.streams \in {"clientStreaming", "duplex"}
            /\ info.localName \notin ReservedMethods
            /\ info.idempotency = IF m.idempotency = "IDEMPOTENCY_UNKNOWN" THEN "undefined"
                                  ELSE m.idempotency
    IN  /\ \A k \in DOMAIN methods : Declares(methods[k], TypeOf(d).methods[k])
        /\ \A k, l \in DOMAIN methods :
              methods[k].localName = methods[l].localName
                  => lowerCamelCase(methods[k].name) = lowerCamelCase(methods[l].name)

\* The reflection information of the generated code, as the runtime completes
\* it, says of every field, enum value and method what the proto file says:
\* number, names, presence, oneof, repetition, packing and type. Groups are not
\* supported and left out. (interpreter.ts, field-info-generator.ts,
\* reflection-info.ts of both runtimes)
ReflectionMeansDescriptor ==
    pc = "done" =>
        /\ \A d \in MessagesMade :
              LET fields == FieldsOf(messageTypes[d])
                  declared == Interpreted(TypeOf(d).fields)
              IN  /\ Len(fields) = Len(declared)
                  /\ \A k \in DOMAIN fields :
                        /\ fields[k].no = declared[k].no
                        /\ Agrees(d, fields[k], declared[k])
        /\ \A i \in Protos : \A d \in ToSet(Descriptors(i)) :
              CASE TypeOf(d).sort = "enum" -> EnumAgrees(TypeOf(d))
                [] TypeOf(d).sort = "service" -> MethodsAgree(d)
                [] OTHER -> TRUE

-----------------------------------------------------------------------------
(* Interfaces and the objects that have them                                 *)

Members(fields) == generateMessageInterface(fields)

\* What TypeScript demands of an object literal of the interface.
MemberTakes(m, v) ==
    IF m.type # "group" THEN v = Plain(m.type)
    ELSE v.kind = <<>> \/ \E c \in m.cases : v.kind = c.name /\ v.value = c.type

Conforms(members, message) ==
    /\ DOMAIN message \subseteq {m.name : m \in members}
    /\ \A m \in members :
          IF m.name \in DOMAIN message THEN MemberTakes(m, message[m.name]) ELSE m.optional

JsTypes == {"number", "bigint", "string", "boolean", "Uint8Array", "array", "object"}

\* The values that are tried for a property. The kind of a oneof is none or one
\* of its members: the check would also accept fields outside of the oneof.
ValuesFor(fields, m) ==
    IF m.type = "group"
    THEN {Nothing} \cup {[kind |-> c.name, value |-> v] : c \in m.cases, v \in JsTypes \cup {"undefined"}}
    ELSE {Plain(v) : v \in JsTypes \ (IF m.type = "object" THEN {"array", "Uint8Array"} ELSE {})}

\* Objects with some of the properties, and with one that no message has.
Objects(fields) ==
    LET members == Members(fields)
        Member(n) == CHOOSE m \in members : m.name = n
        Extra == [n \in {<<"$">>} |-> Plain("number")]
    IN  (UNION {{o \in [names -> UNION {ValuesFor(fields, m) : m \in members}] :
                   \A n \in names : o[n] \in ValuesFor(fields, Member(n))} :
               names \in SUBSET {m.name : m \in members}})
        \cup {reflectionCreate(fields) ++ Extra}

\* An object has the interface that is generated for a message exactly if the
\* runtime's check says that it is one, and the object that create() makes,
\* and the generated create() with it, does. (message-interface-generator.ts,
\* reflection-type-check.ts, reflection-create.ts, create.ts)
InterfaceIsChecked ==
    pc = "done" => \A d \in MessagesMade :
        LET fields == FieldsOf(messageTypes[d])
            members == Members(fields)
        IN  /\ \A m, n \in members : m.name = n.name => m = n
            /\ \A o \in Objects(fields) : Conforms(members, o) <=> is(fields, o)
            /\ Conforms(members, reflectionCreate(fields))

\* In a message no two properties have one name, and no two fields either. protoc
\* sees to this only in part: it knows nothing of the names of oneofs, and of
\* proto2 it accepts names that differ in capitals and "_" alone.
PropertiesDiffer ==
    \A d \in MessagesMade : LET t == TypeOf(d) IN
        /\ \A f, g \in ToSet(t.fields) : LocalOf(f.name) = LocalOf(g.name) => f = g
        /\ \A f, g \in ToSet(t.fields) : isUserDeclaredOneof(f) /\ ~isUserDeclaredOneof(g) =>
              LocalOf(t.oneofDecl[f.oneof]) # LocalOf(g.name)

-----------------------------------------------------------------------------
(* Custom options                                                            *)

Visible(e) == e.in[2] = 0 \/ Len(TypeOf(e.in).path) = 1

\* A pattern that begins the name; and one that stands further on in it, which
\* leaves out the option as well.
Begins(p, n) == IF p.wild THEN IsPrefix(p.scope, n.scope) ELSE Matches(p, n)

NamesOfOptions(set) ==
    {getExtensionName(Registry, ExtensionOf(Registry, s)) :
     s \in {s \in ToSet(set) : Visible(s.ext)}}

Allowed(d, set) ==
    {n \in NamesOfOptions(set) : ~\E p \in Proto(d[1]).excludeOptions : Begins(p, n)}

MustBeThere(d, set) ==
    {n \in Allowed(d, set) : ~\E p \in Proto(d[1]).excludeOptions : Matches(p, n)}

OptionsAgree(d, made, set) ==
    IF options.forceExcludeAllOptions THEN made = {}
    ELSE MustBeThere(d, set) \subseteq made /\ made \subseteq Allowed(d, set)

HasGroups(t) == \E f \in ToSet(t.fields) : isGroupField(f)

\* A message type that is not being made is complete: its options, and those of
\* each of its fields, are the ones that the proto file sets there and does not
\* exclude, and so are those of the methods of a service. A type may be met
\* incomplete only in its own making, and none is made twice. Excepted are
\* messages with groups, whose fields get the options of other fields, and
\* extensions in nested messages, which are not found.
\* (interpreter.ts: getMessageType, readOptions)
OptionsAreTheirs ==
    /\ \A k, l \in DOMAIN calls : calls[k].of = calls[l].of => k = l
    /\ \A d \in MessagesMade :
          LET type == messageTypes[d]
          IN  (\A k \in DOMAIN calls : calls[k].of # d) =>
                  /\ OptionsAgree(d, type.options, TypeOf(d).options)
                  /\ HasGroups(TypeOf(d)) \/
                     \A k \in DOMAIN type.fields :
                        OptionsAgree(d, type.fieldOptions[k],
                                     FieldNumber(d, type.fields[k].no).options)
    /\ pc = "done" =>
          \A i \in Protos : \A d \in ToSet(Descriptors(i)) :
             LET methods == MethodsOf(Registry, options, d)
             IN  \A k \in DOMAIN methods :
                    OptionsAgree(d, methods[k].options, TypeOf(d).methods[k].options)

-----------------------------------------------------------------------------
(* Calls of the generated clients                                            *)

ArgumentOf(args, kind) ==
    IF \E k \in DOMAIN args : args[k].is = kind
    THEN CHOOSE x \in ToSet(args) : x.is = kind ELSE New(kind)

\* What grpc.Client has to be given for a method.
Wanting(m, args) ==
    [k \in 1 .. IF m.streams \in {"unary", "clientStreaming"} THEN 3 ELSE 2 |->
        ArgumentOf(args, <<"metadata", "options", "callback">>[k])]

RequestFor == [unary |-> "makeUnaryRequest", serverStreaming |-> "makeServerStreamRequest",
               clientStreaming |-> "makeClientStreamRequest", duplex |-> "makeBidiStreamRequest"]

\* However a caller picks an overload of the interface and leaves out arguments,
\* the method of the class takes them, returns what the overload promises, and
\* grpc.Client gets, in the right places, the metadata, the options and the
\* callback that were given, with the path and the types of the method in the
\* proto file.
GrpcIsReached(d, m, info) ==
    /\ GrpcRequest(m).calls = RequestFor[m.streams]
    /\ GrpcRequest(m).types = <<info.I, info.O>>
    /\ Path(d, info) = <<d, m.letters>>
    /\ \A o \in ToSet(GrpcSignatures(m)) : \A args \in CallsOf(o) :
          /\ Fits(GrpcMethod(m).params, args)
          /\ GrpcMethod(m).returns = o.returns
          /\ GrpcArguments(GrpcRequest(m), Passed(args, GrpcRequest(m))) = Wanting(m, args)

\* A generic client calls the function of the transport for the kind of the
\* method, gives it a message if it takes one, and returns the call it makes.
TransportIsReached(m, info) ==
    LET method == GenericMethod(m)
        function == RpcTransport[m.streams]
        takes == \E p \in ToSet(method.signature.params) : p.takes = {MessageArgument(info.I)}
    IN  /\ Last(stackIntercept(method.kind, <<>>)) = m.streams
        /\ method.input = takes /\ takes = function.input
        /\ method.signature.returns = [is |-> function.returns, of |-> <<info.I, info.O>>]

\* However a service is implemented, grpc-js has one definition for a method: a
\* client's path and types lead to it, its handler is of the kind that grpc-js
\* expects, and the adapter calls a method of the generic interface by its name,
\* with the arguments it takes, and awaits what it returns.
MethodIsReached(d, m, info) ==
    LET made == normalizeMethodInfo(buildMethodInfo(Registry, options, d, m))
        definition == createDefinition(d, info)
        handler == GrpcJsHandler[definition.requestStream, definition.responseStream]
        mapped == mapService(info)
        method == GenericServerMethod(m)
    IN  /\ makeDefinitionProperty(d, made) = definition
        /\ <<definition.requestDeserialize, definition.responseSerialize>> = GrpcRequest(m).types
        /\ definition.path = Path(d, info)
        /\ createMethodPropertySignature(made) = [is |-> handler, of |-> GrpcRequest(m).types]
        /\ mapped.handles = handler
        /\ made.localName = info.localName
        /\ Len(mapped.calls) = Len(method.params) /\ Fits(method.params, mapped.calls)
        /\ mapped.awaits = method.returns

\* Options of a transport, and of a call. Interceptors are numbered in the order
\* that RpcOptions promise: "from defaults first, then from options".
Streaming == {"unary", "serverStreaming", "clientStreaming", "duplex"}

Interceptor(n, kinds, does) ==
    [name |-> <<"first", "second", "third", "fourth">>[n], at |-> n, intercepts |-> kinds,
     does |-> does]

DefaultsOfTransport ==
    {<<>>, [meta |-> [a |-> 1, b |-> 1], timeout |-> 1, abort |-> "defaults",
            jsonOptions |-> [typeRegistry |-> <<"A">>, emitDefaultValues |-> TRUE],
            binaryOptions |-> [readUnknownField |-> TRUE, writeUnknownFields |-> TRUE]]}
    \cup {[interceptors |-> <<Interceptor(1, {"unary", "duplex"}, "passes"),
                              Interceptor(2, Streaming, does)>>] : does \in {"passes", "retries", "answers"}}

OptionsOfCall ==
    {<<>>, [meta |-> [b |-> 2, c |-> 2]], [timeout |-> 2, abort |-> "call", more |-> 2],
     [jsonOptions |-> [typeRegistry |-> <<"B">>, emitDefaultValues |-> FALSE]],
     [jsonOptions |-> [ignoreUnknownFields |-> TRUE],
      binaryOptions |-> [readUnknownField |-> FALSE, binary |-> 2]],
     [interceptors |-> <<>>]}
    \cup {[interceptors |-> <<Interceptor(3, {"unary", "clientStreaming"}, both[1]),
                              Interceptor(4, {"unary", "serverStreaming"}, both[2])>>] :
               both \in {<<"passes", "retries">>, <<"retries", "answers">>, <<"answers", "passes">>}}

\* The interceptors that see a call of a kind: those for it, up to the first
\* one that answers. One that retries is followed twice by all behind it.
SeenBy(kind, all, i) ==
    kind \in i.intercepts
    /\ \A j \in all : kind \in j.intercepts /\ j.does = "answers" => j.at >= i.at

TimesSeen(kind, all, i) ==
    IF ~SeenBy(kind, all, i) THEN 0
    ELSE 2 ^ Cardinality({j \in all : j.at < i.at /\ j.does = "retries" /\ kind \in j.intercepts})

InterceptorsInTurn(kind, defaults, given) ==
    LET all == ToSet(OptionOf(defaults, "interceptors")) \cup ToSet(OptionOf(given, "interceptors"))
        called == stackIntercept(kind, mergeRpcOptions(defaults, given))
        Calls(i) == {k \in DOMAIN called : called[k] = i.name}
    IN  /\ \A i \in all : Cardinality(Calls(i)) = TimesSeen(kind, all, i)
        /\ \A i, j \in all : i.at < j.at /\ Calls(i) # {} /\ Calls(j) # {}
               => Min(Calls(i)) < Min(Calls(j))

\* Every option has the value of the call, or else that of the defaults; meta,
\* jsonOptions and binaryOptions so for each of their keys. The registries are
\* the exception: they are joined, no type lost or made up, in either order.
\* The doc of mergeRpcOptions has the types of the call first, its code those
\* of the defaults, which then win a lookup.
OptionsAreMerged(defaults, given) ==
    LET opt == mergeRpcOptions(defaults, given)
        Nested == {"meta", "jsonOptions", "binaryOptions"}
        Latest(a, b, key) == IF key \in DOMAIN b THEN b[key] ELSE a[key]
        Types(o) == ToSet(OptionOf(OptionOf(o, "jsonOptions"), "typeRegistry"))
    IN  /\ DOMAIN opt = DOMAIN defaults \cup DOMAIN given
        /\ \A name \in DOMAIN opt \ (Nested \cup {"interceptors"}) :
              opt[name] = Latest(defaults, given, name)
        /\ \A name \in DOMAIN opt \cap Nested :
              LET a == OptionOf(defaults, name)
                  b == OptionOf(given, name)
              IN  /\ DOMAIN a \cup DOMAIN b \subseteq DOMAIN opt[name]
                  /\ \A key \in DOMAIN opt[name] \ {"typeRegistry"} :
                        opt[name][key] = Latest(a, b, key)
        /\ Types(opt) = Types(defaults) \cup Types(given)

\* A generated client does what its method is for: the one for @grpc/grpc-js
\* whatever arguments are left out at the end, the generic one whatever
\* interceptors and options the call and the transport have; and what it sends
\* arrives at the method of the service. The options are merged as OptionsAreMerged
\* says, with the order of the type registries left open. (service-client-generator-grpc.ts,
\* service-client-generator-generic.ts, rpc-interceptor.ts, rpc-options.ts,
\* service-server-generator-grpc.ts, service-server-generator-generic.ts,
\* grpc-adapter.ts)
CallsReachMethods ==
    pc = "done" => \A i \in Protos : \A d \in ToSet(Descriptors(i)) :
        LET methods == TypeOf(d).methods
            infos == MethodsOf(Registry, options, d)
        IN  /\ \A k \in DOMAIN infos : GrpcIsReached(d, methods[k], infos[k])
                                    /\ TransportIsReached(methods[k], infos[k])
                                    /\ MethodIsReached(d, methods[k], infos[k])
            /\ \A kind \in {m.streams : m \in ToSet(methods)} :
                  \A defaults \in DefaultsOfTransport, given \in OptionsOfCall :
                      /\ InterceptorsInTurn(kind, defaults, given)
                      /\ OptionsAreMerged(defaults, given)

-----------------------------------------------------------------------------
(* Parameters                                                                *)

Given(p) == p \in request.parameters

\* A parameter that another one undoes, although the two are accepted together:
\* both servers are asked for, both ways to optimize, or a client, a server or
\* methods for speed where nothing is generated that could have them. The second
\* of a pair wins. The descriptions of the parameters tell none of this, but that
\* only_interface and only_http let nothing else be generated.
Undone(p) ==
    \/ p = "server_generic" /\ Given("server_grpc1")
    \/ p = "optimize_speed" /\ Given("optimize_code_size")
    \/ /\ p \in {"client_generic", "client_grpc1", "server_generic", "server_grpc1",
                 "optimize_speed", "force_optimize_speed"}
       /\ Given("only_interface") \/ Given("only_http")

Followed(p) == Given(p) /\ ~Undone(p)

Returned(i) == <<i, "default">> \in tsFiles

Declared(d) ==
    UNION {{x.is.kind : x \in {x \in ToSet(outs[s].declares) : x.is.of = d}} : s \in tsFiles}

ServicesReturned ==
    {d \in UNION {ToSet(Descriptors(i)) : i \in Protos} :
        TypeOf(d).sort = "service" /\ Returned(d[1])}

ClientKinds == {"call-client", "client", "grpc1-client"}
ServerKinds == {"generic-server-interface", "grpc-server-interface", "grpc-server-definition"}

NoneOf(d, kinds) == Declared(d) \cap kinds = {}

ClientsAsAsked(d) ==
    /\ TypeOf(d).client = {} =>
          /\ Given("client_none") => NoneOf(d, ClientKinds)
          /\ Followed("client_generic") => "call-client" \in Declared(d)
          /\ Followed("client_grpc1") => "grpc1-client" \in Declared(d)
          /\ Given("client_generic") /\ Given("only_http") => "client" \in Declared(d)
    /\ Given("force_client_none") => NoneOf(d, ClientKinds)

ServersAsAsked(d) ==
    /\ TypeOf(d).server = {} =>
          /\ Given("server_none") => NoneOf(d, ServerKinds)
          /\ Followed("server_generic") => "generic-server-interface" \in Declared(d)
          /\ Followed("server_grpc1") => "grpc-server-interface" \in Declared(d)
    /\ Given("force_server_none") => NoneOf(d, ServerKinds)

ServicesAsAsked ==
    \A d \in ServicesReturned :
        /\ ClientsAsAsked(d) /\ ServersAsAsked(d)
        /\ Given("force_disable_services") => Declared(d) = {}
        /\ Given("only_interface") => Declared(d) = {}
        /\ Given("only_http") => Declared(d) \subseteq {"default", "client", "client-interface"}

\* The methods for speed are in the main file.
Speed(i) == \E u \in outs[<<i, "default">>].uses : u.is = External(Runtime, "IBinaryReader")

HasMessages(i) ==
    \E t \in ToSet(Proto(i).types) : t.sort = "message" /\ ~isSyntheticElement(t)

SpeedAsAsked(i) ==
    /\ Followed("force_optimize_speed") /\ HasMessages(i) => Speed(i)
    /\ Given("force_optimize_code_size") => ~Speed(i)
    /\ Proto(i).optimizeFor = "unset" /\ ~Given("force_optimize_code_size") =>
          /\ Followed("optimize_speed") /\ HasMessages(i) => Speed(i)
          /\ Given("optimize_code_size") => ~Speed(i)

\* CommonJS is for JavaScript: for TypeScript it changes nothing.
OutputAsAsked ==
    /\ Given("output_typescript") => options.transpileTarget = "unset"
    /\ Given("output_javascript") => options.transpileTarget = "es2020"
    /\ \A y \in Years : Given("output_javascript_" \o y) => options.transpileTarget = y
    /\ Given("output_legacy_commonjs") => options.transpileModule = "CommonJS"
    /\ \A r \in response :
          /\ r.extension = ".ts" <=> options.transpileTarget = "unset"
          /\ Given("ts_nocheck") => r.noCheck
          /\ Given("disable_ts_nocheck") => ~r.noCheck
          /\ Given("eslint_disable") => r.esLintDisable
          /\ Given("no_eslint_disable") => ~r.esLintDisable

\* Every file that is made of a proto file has the suffix; http-client and the
\* indexes of the packages are left without it.
FilesAsAsked ==
    /\ Given("generate_dependencies") =>
          \A i \in Protos : i \in request.requested \/ isFileUsed(i, Protos) => Returned(i)
    /\ Given("add_pb_suffix") =>
          \A s \in DOMAIN outs : \E k \in 0 .. Cardinality(DOMAIN outs) :
              outs[s].name = ClashName(Proto(s[1]).name \o "_pb" \o Suffix[s[2]], k)

TypesAsAsked ==
    /\ Given("long_type_string") => options.normalLongType = "STRING"
    /\ Given("long_type_number") => options.normalLongType = "NUMBER"
    /\ Given("long_type_bigint") => options.normalLongType = "BIGINT"
    /\ options.forceExcludeAllOptions <=> Given("force_exclude_all_options")
    /\ options.keepEnumPrefix <=> Given("keep_enum_prefix")
    /\ options.useProtoFieldName <=> Given("use_proto_field_name")

\* Of the parameters that are accepted together, each is followed, whatever the
\* others are: what is generated has, or lacks, what its description says. The
\* exceptions are those of Undone, which are undone without a word, and the two
\* named above: CommonJS without JavaScript, and files without the suffix.
\* (protobufts-plugin.ts: parameters)
GeneratedAsAsked ==
    pc = "done" =>
        /\ ServicesAsAsked /\ OutputAsAsked /\ FilesAsAsked /\ TypesAsAsked
        /\ \A i \in Protos : SpeedAsAsked(i)
=============================================================================
