------------------------- MODULE MCProtobuftsPlugin -------------------------
(* Requests of two proto files, `a` and one that imports it. Their names are *)
(* chosen to meet: nested and joined names, reserved words, messages that    *)
(* are called like clients or like names of the runtime, the same names in   *)
(* both files, packages called like messages, services and keywords. And     *)
(* requests of one or two files whose fields, enums, methods and options     *)
(* are of every sort.                                                        *)
EXTENDS GeneratedReflection

Field(no, name, type, of) ==
    [no |-> no, name |-> name, label |-> "optional", type |-> type, of |-> of, json |-> <<>>,
     oneof |-> 0, proto3Optional |-> FALSE, packed |-> "unset", jstype |-> "unset",
     options |-> <<>>]

Element(path, sort) ==
    [path |-> path, sort |-> sort, fields |-> <<>>, oneofDecl |-> <<>>, mapEntry |-> FALSE,
     options |-> <<>>, extensions |-> <<>>, values |-> <<>>, letters |-> <<"t">>,
     methods |-> <<>>, client |-> {}, server |-> {}, lower |-> ""]

\* A message with fields of the types that it uses.
Msg(path, uses) ==
    [Element(path, "message") EXCEPT
        !.fields = [k \in DOMAIN uses |->
                       Field(k, <<<<"a">>, <<"b">>>>[k], "message", uses[k])]]
EnumT(name) ==
    [Element(<<name>>, "enum") EXCEPT !.values = <<[name |-> <<"A">>, number |-> 0]>>]
Svc(name, lower, methods, client, server) ==
    [Element(<<name>>, "service") EXCEPT !.methods = methods, !.client = client,
                                      !.server = server, !.lower = lower]

Letters == [get |-> <<"t">>, put |-> <<"p", "_", "t">>, _httpTransport |-> <<"_", "b">>,
            to_string |-> <<"t", "_", "s">>]

Method(name, i, o, streams) ==
    [name |-> name, I |-> i, O |-> o, streams |-> streams, upload |-> FALSE,
     letters |-> Letters[name], idempotency |-> "IDEMPOTENCY_UNKNOWN", options |-> <<>>]

Streams == {"unary", "serverStreaming", "clientStreaming", "duplex"}

\* The types of `a`; the first two are messages that the other file may use.
Libraries ==
    { <<Msg(<<"Foo">>, <<>>), Msg(<<"Foo", "Bar">>, <<>>), Msg(<<"Foo_Bar">>, <<<<1, 2>>>>)>>,
      <<Msg(<<"FooClient">>, <<>>), Msg(<<"IFooClient">>, <<<<1, 1>>>>), EnumT("String")>>,
      <<Msg(<<"RpcOptions">>, <<>>), Msg(<<"IBinaryReader">>, <<>>)>>,
      <<Msg(<<"grpc">>, <<>>), Msg(<<"HttpOptions">>, <<>>)>>,
      <<Msg(<<"Req">>, <<>>), Msg(<<"Foo">>, <<<<1, 1>>>>),
        Svc("Book", "book", <<Method("get", <<1, 1>>, <<1, 2>>, "unary")>>, {}, {})>> }

App(streams, client, server) ==
    <<Msg(<<"Foo">>, <<<<1, 2>>>>), Msg(<<"Req">>, <<<<2, 1>>>>),
      Svc("Foo", "foo", <<Method("get", <<1, 1>>, <<2, 1>>, streams),
                          Method("put", <<2, 2>>, <<1, 2>>, "unary")>>, client, server)>>

\* Only the service uses the types of `a`.
Only(methods) == <<Msg(<<"Req">>, <<>>), Svc("Foo", "foo", methods, {}, {})>>

File(name, package, types) ==
    [name |-> name, package |-> package, wellKnown |-> FALSE, syntax |-> "proto3",
     types |-> types, extensions |-> <<>>, excludeOptions |-> {},
     optimizeFor |-> "unset"]

Request(files, requested, parameters) ==
    [files |-> files, requested |-> requested, parameters |-> parameters]

If(condition, parameter) == IF condition THEN {parameter} ELSE {}

\* Names within and across files, for every kind of client and server.
Naming ==
    { Request(<<File("a", <<>>, lib), File(name, <<"x">>, App(streams, client, {"generic", "grpc1"}))>>,
              {1, 2}, {}) :
      lib \in Libraries, name \in {"b", "a.client"}, streams \in Streams,
      client \in {{"generic", "grpc1"}, {"none", "grpc1"}} }

\* Which files are returned.
Returning ==
    { Request(<<[File("a", <<"x">>, lib) EXCEPT !.wellKnown = known],
                File("b", <<"y">>, types)>>, requested, parameters) :
      lib \in Libraries, known \in BOOLEAN, requested \in {{2}, {1, 2}},
      types \in {Only(<<Method("get", <<1, 1>>, <<2, 1>>, "unary")>>), Only(<<>>)},
      parameters \in {p \in SUBSET {"generate_dependencies", "only_http", "only_interface",
                                    "force_disable_services", "force_client_none"} :
                         Accepts(p)} }

\* Packages and file names, with only_http.
Packages ==
    { Request(<<File(a, package, lib), File(b, other, App("unary", {}, {}))>>, requested, {"only_http"}) :
      lib \in Libraries, a \in {"a", "index", "http-client"}, b \in {"b", "a.client"},
      package \in {<<>>, <<"x">>, <<"x", "y">>}, requested \in {{2}, {1, 2}},
      other \in {<<>>, <<"_root">>, <<"x">>, <<"x", "book">>, <<"x", "Foo">>, <<"HttpClient">>,
                 <<"class">>, <<"x", "y">>} }

\* Methods that have one name.
Methods ==
    { Request(<<File("a", <<"x">>, <<Msg(<<"Foo">>, <<>>), Msg(<<"Bar">>, <<>>)>>),
                File("b", <<"y">>, Only(<<Method(m, <<1, 1>>, <<1, 2>>, "unary"),
                                          Method("get", <<1, 1>>, <<1, 2>>, "unary")>>))>>,
              {2}, {"only_http"}) : m \in {"get", "put", "_httpTransport"} }

-----------------------------------------------------------------------------
(* Fields: a message, then what its fields may refer to.                     *)

Others ==
    <<EnumT("E"), Msg(<<"N">>, <<>>),
      [Element(<<"M", "Entry">>, "message") EXCEPT
          !.mapEntry = TRUE,
          !.fields = <<Field(1, <<"k">>, "string", NoDescriptor),
                       Field(2, <<"b">>, "int64", NoDescriptor)>>]>>

Refers == [enum |-> <<1, 2>>, message |-> <<1, 3>>, map |-> <<1, 4>>, group |-> <<1, 3>>]

FieldOf(no, name, type) ==
    Field(no, name, IF type = "map" THEN "message" ELSE type,
          IF type \in DOMAIN Refers THEN Refers[type] ELSE NoDescriptor)

\* What protoc accepts.
Legal(syntax, f) ==
    /\ f.label = "required" \/ f.type = "group" => syntax = "proto2"
    /\ f.packed # "unset" => f.label = "repeated" /\ Packable(f)
    /\ f.jstype # "unset" => f.type \in LongValueTypes \/ f.of = Refers.map
    /\ f.of = Refers.map => f.label = "repeated"
    /\ f.proto3Optional => syntax = "proto3" /\ f.label = "optional"

Message(fields, oneofs) ==
    [Element(<<"M">>, "message") EXCEPT !.fields = fields, !.oneofDecl = oneofs]

Alone(syntax, message, parameters) ==
    Request(<<[File("a", <<"x">>, <<message>> \o Others) EXCEPT !.syntax = syntax]>>, {1},
            parameters)

FieldTypes == {"int64", "uint32", "bool", "string", "bytes", "enum", "message", "map", "group"}

\* Messages with one field: of a oneof of one if it is optional in proto3.
OneField ==
    UNION { { Alone(syntax, Message(<<f>>, <<<<"_", "a">>>>), long) :
              f \in {f \in {[FieldOf(1, <<"a">>, type) EXCEPT
                                !.label = label, !.packed = packed, !.jstype = jstype,
                                !.proto3Optional = opt, !.oneof = IF opt THEN 1 ELSE 0] :
                            type \in FieldTypes, label \in {"optional", "required", "repeated"},
                            packed \in {"unset", "true", "false"}, opt \in BOOLEAN,
                            jstype \in {"unset", "JS_STRING", "JS_NUMBER", "JS_NORMAL"}} :
                        Legal(syntax, f)} } :
            syntax \in {"proto2", "proto3"}, long \in {{}, {"long_type_number"}, {"long_type_string"}} }

\* "a_b", "a1b", "toString", "oneofKind", "__proto__" and a name with a capital.
FieldNames == {<<"a", "_", "b">>, <<"a", "1", "b">>, <<"t", "_", "s">>, <<"t", "S">>,
               <<"o", "_", "k">>, <<"o", "K">>, <<"_", "p">>, <<"B", "a">>}

NamedFields ==
    { Alone("proto3", Message(<<[FieldOf(3, name, type) EXCEPT !.json = json, !.oneof = oneof]>>,
                              IF oneof = 0 THEN <<>> ELSE <<other>>),
            If(own, "use_proto_field_name")) :
      name \in FieldNames, type \in {"bool", "message"}, json \in {<<>>, <<"s">>, <<"B", "a">>},
      oneof \in {0, 1}, other \in {<<"b">>, <<"t", "_", "s">>, <<"o", "_", "k">>}, own \in BOOLEAN }

\* Messages with two or three fields, some of them in a oneof, and groups.
SomeFields ==
    { Alone("proto2", Message(<<[FieldOf(1, <<"a">>, one) EXCEPT !.oneof = in[1]],
                                [FieldOf(4, <<"b">>, two) EXCEPT !.oneof = in[2]]>> \o rest,
                              <<<<"s">>>>), {}) :
      one \in {"bool", "group", "enum"}, two \in {"int64", "message"},
      in \in {<<0, 0>>, <<0, 1>>, <<1, 1>>},
      rest \in {<<>>, <<[FieldOf(2, <<"k">>, "bool") EXCEPT !.label = "repeated"]>>} }

\* The group is not the first member of its oneof.
FieldRequests ==
    OneField \cup NamedFields
    \cup {r \in SomeFields : LET fields == r.files[1].types[1].fields
                             IN  fields[1].type = "group" => fields[1].oneof = 0}

-----------------------------------------------------------------------------
(* Enums, methods and options                                                *)

V(name, number) == [name |-> name, number |-> number]

Values ==
    { <<V(<<"T", "_", "A">>, 0), V(<<"T", "_", "B", "A">>, 1)>>,
      <<V(<<"T", "_", "A", "B">>, 0), V(<<"T", "_", "B", "A">>, 1), V(<<"T", "_", "B", "B">>, 1)>>,
      <<V(<<"T", "_", "A", "B">>, 1), V(<<"T", "_", "B", "A">>, 2)>>,
      <<V(<<"A", "B">>, 0), V(<<"T", "_", "B", "A">>, 1)>>,
      <<V(<<"T", "_", "1", "B">>, 0), V(<<"T", "_", "B", "A">>, 1)>>,
      <<V(<<"T", "_", "S", "_", "A", "B">>, 0), V(<<"T", "_", "S", "_", "B", "A">>, 1)>>,
      <<V(<<"T", "_", "S", "_", "A">>, 2)>> }

EnumRequests ==
    { Request(<<[File("a", <<"x">>, <<[Element(<<"E">>, "enum") EXCEPT !.values = values,
                                                                 !.letters = letters]>>)
                    EXCEPT !.syntax = "proto2"]>>, {1}, If(keep, "keep_enum_prefix")) :
      values \in Values, letters \in {<<"T">>, <<"T", "S">>, <<"t", "s">>}, keep \in BOOLEAN }

MethodRequests ==
    { Request(<<File("a", <<"x">>,
                     <<Msg(<<"Req">>, <<>>),
                       Svc("Foo", "foo",
                           <<[Method("to_string", <<1, 1>>, <<1, 1>>, streams) EXCEPT
                                 !.idempotency = idempotency],
                             Method("put", <<1, 1>>, <<1, 1>>, "unary")>>, {}, {})>>)>>,
              {1}, {}) :
      streams \in Streams, idempotency \in {"IDEMPOTENCY_UNKNOWN", "IDEMPOTENT"} }

Extension(no, name, type, of, extendee) ==
    Field(no, name, type, of) @@ ("extendee" :> extendee)

Set(j, k) == [ext |-> [in |-> <<1, j>>, at |-> k], zero |-> FALSE]
Zero(j, k) == [Set(j, k) EXCEPT !.zero = TRUE]

\* Messages of `com.acme` whose options are such messages, so that the options
\* of the first and of the second may need the second, the third or the first;
\* and extensions in a message and in one that is nested in it.
OptionFile(first, second, ofField, exclude) ==
    [File("a", <<"com", "acme">>,
          <<[Msg(<<"User">>, <<<<1, 3>>, <<1, 3>>>>) EXCEPT
                !.options = first, !.fields[1].options = ofField],
            [Msg(<<"Opt">>, <<>>) EXCEPT !.options = second],
            [Msg(<<"Other">>, <<<<1, 1>>>>) EXCEPT
                !.extensions = <<Extension(7, <<"k">>, "string", NoDescriptor, "MessageOptions")>>],
            [Msg(<<"Other", "In">>, <<>>) EXCEPT
                !.extensions = <<Extension(8, <<"k">>, "bool", NoDescriptor, "MessageOptions")>>],
            Svc("Foo", "foo",
                <<[Method("get", <<1, 1>>, <<1, 2>>, "unary") EXCEPT !.options = <<Zero(0, 6)>>]>>,
                {}, {})>>)
        EXCEPT !.excludeOptions = exclude,
               !.extensions = <<Extension(1, <<"a">>, "message", <<1, 2>>, "MessageOptions"),
                                Extension(2, <<"b">>, "message", <<1, 3>>, "MessageOptions"),
                                Extension(3, <<"s">>, "message", <<1, 1>>, "MessageOptions"),
                                Extension(4, <<"a", "_", "b">>, "bool", NoDescriptor, "MessageOptions"),
                                Extension(5, <<"o">>, "message", <<1, 2>>, "FieldOptions"),
                                Extension(6, <<"p">>, "bool", NoDescriptor, "MethodOptions")>>]

OptionRequests ==
    { Request(<<OptionFile(first, second, ofField, exclude)>>, {1},
              If(force, "force_exclude_all_options")) :
      first \in {<<>>, <<Set(0, 1)>>, <<Set(0, 2), Set(0, 1)>>, <<Zero(0, 4), Set(3, 1)>>,
                 <<Set(4, 1), Set(0, 4)>>},
      second \in {<<>>, <<Set(0, 1)>>, <<Set(0, 2)>>, <<Set(0, 3)>>},
      ofField \in {<<>>, <<Set(0, 5)>>}, force \in BOOLEAN,
      exclude \in { {}, {[scope |-> <<"com", "acme">>, name |-> <<"a">>, wild |-> FALSE]},
                    {[scope |-> <<"acme">>, name |-> <<>>, wild |-> TRUE]},
                    {[scope |-> <<"com", "acme", "Other">>, name |-> <<>>, wild |-> TRUE]} } }

-----------------------------------------------------------------------------
(* Parameters: any two, and up to four of those about services, among them   *)
(* ones that exclude each other and one that is not known.                   *)

AtMostTwo(names) == {{}} \cup {{a, b} : a, b \in names}
AtMostFour(names) == {p \in SUBSET names : Cardinality(p) <= 4}

ServiceParameters ==
    {"client_none", "client_generic", "client_grpc1", "force_client_none", "server_none",
     "server_generic", "server_grpc1", "force_server_none", "force_disable_services",
     "only_interface", "only_http", "output_javascript"}

OptimizeParameters ==
    {"optimize_speed", "optimize_code_size", "force_optimize_speed", "force_optimize_code_size"}

Asked(parameters, optimize, client, server) ==
    Request(<<File("a", <<"x">>, <<Msg(<<"Req">>, <<>>)>>),
              [File("b", <<"y">>,
                    <<Message(<<FieldOf(1, <<"a">>, "int64")>>, <<>>),
                      Svc("Foo", "foo", <<Method("get", <<1, 1>>, <<2, 1>>, "unary")>>,
                          client, server)>>)
                  EXCEPT !.optimizeFor = optimize]>>,
            {2}, parameters)

ParameterRequests ==
    {Asked(p, "unset", {}, {}) : p \in AtMostTwo(DOMAIN excludes \cup {"other"})}
    \cup {Asked(p, "unset", {}, {}) : p \in AtMostFour(ServiceParameters)}
    \cup {Asked(p, "unset", client, server) :
             p \in AtMostTwo(ServiceParameters),
             client \in {{"none"}, {"generic", "grpc1"}, {"none", "grpc1"}},
             server \in {{}, {"none"}, {"generic", "grpc1"}}}
    \cup {Asked(p, optimize, {}, {}) :
             p \in SUBSET OptimizeParameters, optimize \in {"unset", "SPEED", "CODE_SIZE"}}

AllRequests == Naming \cup Returning \cup Packages \cup Methods
               \cup FieldRequests \cup EnumRequests \cup MethodRequests \cup OptionRequests
               \cup ParameterRequests
=============================================================================
