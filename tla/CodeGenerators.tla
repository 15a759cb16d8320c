--------------------------- MODULE CodeGenerators ---------------------------
(* The generators of packages/plugin/src/code-gen: what each asks for, in    *)
(* order, and what it declares. The code around the identifiers is left out, *)
(* and so are asks that repeat one of the same function.                     *)
(*                                                                           *)
(* A type of a proto file has a `sort`, "message", "enum" or "service", its  *)
(* `fields` and `methods`, the styles set by service options as `client` and *)
(* `server`, and its name with a small first letter as `lower`; `uses` are   *)
(* the types of its fields. A method is [name, I, O, streams, upload, ...].  *)
EXTENDS GenericServices

\* The asks, made in output file `out` of the proto file.
In(out, asks) == [k \in DOMAIN asks |-> [out |-> out] @@ asks[k]]

EachMethod(t, F(_)) == FlattenSeq([k \in DOMAIN t.methods |-> F(t.methods[k])])

Fields(t) == [k \in DOMAIN t.uses |-> Type(t.uses[k])]

Kinds == <<"default", "generic-server", "grpc1-server", "client", "promise-client",
           "rx-client", "grpc1-client">>

\* What is put behind the base name of a proto file.
Suffix == [default |-> ""] @@ "generic-server" :> ".server" @@ "grpc1-server" :> ".grpc-server"
          @@ "client" :> ".client" @@ "promise-client" :> ".promise-client"
          @@ "rx-client" :> ".rx-client" @@ "grpc1-client" :> ".grpc-client"

-----------------------------------------------------------------------------
(* Symbols: <<requested name, output file, kind>> of a type, in order. The   *)
(* generic and the HTTP client share an output file.                         *)

ClientSymbols(base, out, kind) ==
    <<<<"I" \o base \o "Client", out, kind \o "-interface">>,
      <<base \o "Client", out, kind>>>>

ServerSymbols(base) == <<<<"I" \o base, "generic-server", "generic-server-interface">>>>

GrpcServerSymbols(base, lower) ==
    <<<<"I" \o base, "grpc1-server", "grpc-server-interface">>,
      <<lower \o "Definition", "grpc1-server", "grpc-server-definition">>>>

SymbolsOf(t) ==
    LET base == createLocalTypeName(t.path)
    IN  <<<<base, "default", "default">>>>
        \o IF t.sort # "service" THEN <<>>
           ELSE ClientSymbols(base, "client", "call-client")
                \o ClientSymbols(base, "client", "client")
                \o ClientSymbols(base, "grpc1-client", "grpc1-client")
                \o ServerSymbols(base)
                \o GrpcServerSymbols(base, t.lower)

-----------------------------------------------------------------------------
(* Messages, enums and service types, in the main file                       *)

MessageInterface(d, t) == Fields(t) \o <<Type(d), Declare(d, "default")>>

Enum(d) == <<Type(d), Declare(d, "default")>>

CreateMethod(d) ==
    <<Type(d), Name("reflectionMergePartial", Runtime), NameOnly("PartialMessage", Runtime)>>

BinaryReadMethod(d, t) ==
    (IF t.fields = <<>> THEN <<>> ELSE Fields(t) \o <<Name("UnknownFieldHandler", Runtime)>>)
    \o <<Type(d), NameOnly("IBinaryReader", Runtime), NameOnly("BinaryReadOptions", Runtime)>>

BinaryWriteMethod(d, t) ==
    (IF t.fields = <<>> THEN <<>> ELSE Fields(t) \o <<Name("WireType", Runtime)>>)
    \o <<Name("UnknownFieldHandler", Runtime), Type(d),
         NameOnly("IBinaryWriter", Runtime), NameOnly("BinaryWriteOptions", Runtime)>>

MessageType(d, t, optimizeFor) ==
    <<Type(d), Name("MessageType", Runtime)>> \o Fields(t)
    \o (IF optimizeFor = "SPEED"
        THEN CreateMethod(d) \o BinaryReadMethod(d, t) \o BinaryWriteMethod(d, t) ELSE <<>>)
    \o <<DeclareClass(d), Declare(d, "default")>>

ServiceType(d, t) ==
    LET MethodInfo(m) == <<Type(m.I), Type(m.O)>>
    IN  <<Type(d), Name("ServiceType", RuntimeRpc)>> \o EachMethod(t, MethodInfo)
        \o <<Declare(d, "default")>>

\* The methods name their types in strings here.
HttpServiceType(d) ==
    <<Type(d), Name("ServiceType", RuntimeHttp), Declare(d, "default")>>

-----------------------------------------------------------------------------
(* Generic clients                                                           *)

ClientMethod(m) ==
    <<NameOnly("RpcOptions", RuntimeRpc), NameOnly(GenericMethod(m).signature.returns.is, RuntimeRpc),
      TypeOnly(m.I), TypeOnly(m.O), Name("stackIntercept", RuntimeRpc)>>

ClientInterface(d, t) ==
    <<KindOf(d, "call-client-interface")>> \o EachMethod(t, ClientMethod)
    \o <<Declare(d, "call-client-interface")>>

ClientClass(d, t) ==
    <<Type(d), KindOf(d, "call-client"), KindOf(d, "call-client-interface"),
      NameOnly("ServiceInfo", RuntimeRpc), NameOnly("RpcTransport", RuntimeRpc)>>
    \o EachMethod(t, ClientMethod) \o <<Declare(d, "call-client")>>

-----------------------------------------------------------------------------
(* Clients for @grpc/grpc-js                                                 *)

Grpc == Space("grpc", GrpcJs, FALSE)

\* The message types in a signature, in the order of its parameters.
Mentioned(signature) ==
    LET OfParam(p) == FlattenSeq(SetToSeq({type.of : type \in p.takes}))
    IN  FlattenSeq([k \in DOMAIN signature.params |-> OfParam(signature.params[k])])
        \o signature.returns.of

TypesOnly(signature) ==
    LET types == Mentioned(signature) IN [k \in DOMAIN types |-> TypeOnly(types[k])]

GrpcOverloads(m) ==
    <<Grpc>> \o FlattenSeq([k \in DOMAIN GrpcSignatures(m) |-> TypesOnly(GrpcSignatures(m)[k])])

GrpcImplementation(d, m) ==
    <<Grpc, Type(d)>> \o TypesOnly(GrpcMethod(m))
    \o <<TypeOnly(m.I), TypeOnly(m.O), Word("Buffer", "globalThis")>>

GrpcInterface(d, t) ==
    <<KindOf(d, "grpc1-client-interface")>> \o EachMethod(t, GrpcOverloads)
    \o <<Declare(d, "grpc1-client-interface")>>

GrpcClass(d, t) ==
    LET Method(m) == GrpcImplementation(d, m)
    IN  <<KindOf(d, "grpc1-client"), KindOf(d, "grpc1-client-interface"),
          NameOnly("BinaryReadOptions", Runtime), NameOnly("BinaryWriteOptions", Runtime),
          Grpc, Word("Partial", "globalThis")>>
        \o EachMethod(t, Method) \o <<Declare(d, "grpc1-client")>>

-----------------------------------------------------------------------------
(* Servers                                                                   *)

ServerMethod(m) ==
    LET streams == SelectSeq(<<RequestStream(m), ResponseStream(m)>>,
                             LAMBDA s : Demanded({s}) \in ToSet(GenericServerMethod(m).params))
    IN  <<Type(m.I), Type(m.O), Word("Promise", "globalThis")>>
        \o [k \in DOMAIN streams |-> Name(streams[k].is, RuntimeRpc)]

ServerInterface(d, t) ==
    <<KindOf(d, "generic-server-interface"), Name("ServerCallContext", RuntimeRpc)>>
    \o EachMethod(t, ServerMethod) \o <<Declare(d, "generic-server-interface")>>

GrpcOnly == Space("grpc", GrpcJs, TRUE)

GrpcServerProperty(m) == <<GrpcOnly, Type(m.I), Type(m.O)>>

GrpcServerInterface(d, t) ==
    <<KindOf(d, "grpc-server-interface"), GrpcOnly>> \o EachMethod(t, GrpcServerProperty)
    \o <<Declare(d, "grpc-server-interface")>>

DefinitionProperty(m) == <<Type(m.I), Type(m.O), Word("Buffer", "globalThis")>>

GrpcServerDefinition(d, t) ==
    <<KindOf(d, "grpc-server-definition"), KindOf(d, "grpc-server-interface"), GrpcOnly>>
    \o EachMethod(t, DefinitionProperty) \o <<Declare(d, "grpc-server-definition")>>

-----------------------------------------------------------------------------
(* HTTP clients                                                              *)

HttpInput(m) == IF m.upload THEN NameOnly("UploadFile", RuntimeHttp) ELSE TypeOnly(m.I)

HttpMethod(m) ==
    <<NameOnly("HttpOptions", RuntimeHttp), NameOnly("HttpResult", RuntimeHttp),
      HttpInput(m), TypeOnly(m.O)>>

HttpInterface(d, t) ==
    <<KindOf(d, "client-interface")>> \o EachMethod(t, HttpMethod)
    \o <<Declare(d, "client-interface")>>

\* The types in the constructor's parameters, whose nodes the aggregate reuses.
ConstructorNames == {"VAxios", "VAxiosInstance", "HttpOptions"}

ConstructorTypes == <<NameOnly("HttpOptions", RuntimeHttp), NameOnly("VAxios", RuntimeHttp),
                      NameOnly("VAxiosInstance", RuntimeHttp)>>

HttpClass(d, t) ==
    <<Type(d), KindOf(d, "client"), KindOf(d, "client-interface"),
      NameOnly("ServiceInfo", RuntimeHttp), Name("HttpTransport", RuntimeHttp)>>
    \o ConstructorTypes \o <<Word("HttpTransport", RuntimeHttp)>>
    \o EachMethod(t, HttpMethod) \o <<Declare(d, "client")>>

\* validateMethodNames: two methods with one name, or the transport's name.
MethodNamesCollide(t) ==
    \/ \E k \in DOMAIN t.methods : t.methods[k].name = "_httpTransport"
    \/ \E k, l \in DOMAIN t.methods : k # l /\ t.methods[k].name = t.methods[l].name

-----------------------------------------------------------------------------
(* What only_http adds to the output: the class HttpClient, a tree of        *)
(* clients by package (ServiceClientGeneratorHttp.generateAllClass), and an  *)
(* index file for every package (generateHttpNamespaces).                    *)

HttpClientFile == "http-client"

\* Of the words that cannot be the name of a namespace.
Keywords == {"class", "package"}

escapeKeyword(name) == IF name \in Keywords THEN name \o "$" ELSE name

NamespaceOf(package) ==
    IF package = <<>> THEN <<"_root">>
    ELSE [k \in DOMAIN package |-> escapeKeyword(package[k])]

-----------------------------------------------------------------------------
(* The tree of HttpClient. The path of a client goes from packages to the    *)
(* name of the service; a client cannot be where another's path goes on.     *)

ClientPath(package, t) == Append(NamespaceOf(package), t.lower)

ClientPathsCollide(paths) ==
    \E k, l \in DOMAIN paths : k # l /\ IsPrefix(paths[k], paths[l])

\* The constructor is the one made for the client that was generated last,
\* with the names its types have in that client's file.
AggregateFile(symbols, descriptors, constructor) ==
    LET f == Answers(EmptyFile(HttpClientFile), symbols,
                     ConstructorTypes
                     \o [k \in DOMAIN descriptors |-> KindOf(descriptors[k], "client")])
        Write(g, n) == Use(g, constructor[n], External(RuntimeHttp, n), FALSE)
    IN  [FoldSet(LAMBDA n, g : Write(g, n), f, ConstructorNames)
            EXCEPT !.declares = <<[as |-> "HttpClient", is |-> External("", "HttpClient")]>>]

-----------------------------------------------------------------------------
(* Namespaces: a node for every prefix of a namespace, <<>> for the root.    *)
(* `mains` are <<namespace, package, file, names registered in it>>.         *)

Nodes(mains) == UNION {{SubSeq(m.namespace, 1, k) : k \in 0 .. Len(m.namespace)} : m \in mains}

Children(mains, node) ==
    {n[Len(node) + 1] : n \in {n \in Nodes(mains) :
                                  Len(n) = Len(node) + 1 /\ IsPrefix(node, n)}}

MainsAt(mains, node) == {m \in mains : m.namespace = node}

IndexName(node) ==
    IF node = <<>> THEN "index"
    ELSE FoldLeft(LAMBDA a, b : a \o "/" \o b, "__proto_packages", node) \o "/index"

\* The package _root, and files without a package.
RootClash(mains) ==
    \E m, n \in mains : m.namespace = <<"_root">> /\ n.namespace = <<"_root">>
                        /\ m.package # n.package

SymbolClash(mains) ==
    \E m, n \in mains : m # n /\ m.namespace = n.namespace /\ m.names \cap n.names # {}

NoPackageClash(mains) == FALSE  \* Mutant: not checked.

PackageClash(mains) ==
    \E node \in Nodes(mains) \ {<<>>}, m \in mains :
        m.namespace = node /\ m.names \cap Children(mains, node) # {}

ClientClash(mains, hasClient) == hasClient /\ "HttpClient" \in Children(mains, <<>>)

FilenameClash(mains, filenames) ==
    \E node \in Nodes(mains) : IndexName(node) \in filenames

NamespacesFail(mains, filenames, hasClient) ==
    /\ mains # {}
    /\ \/ RootClash(mains) \/ SymbolClash(mains) \/ PackageClash(mains)
       \/ ClientClash(mains, hasClient) \/ FilenameClash(mains, filenames)

\* An index: namespaces of the packages below, all of the files of the package,
\* and from the root the client.
Index(mains, node, hasClient) ==
    [name |-> IndexName(node),
     namespaces |-> Children(mains, node),
     all |-> {m.file : m \in MainsAt(mains, node)},
     exports |-> IF node = <<>> /\ hasClient THEN {"HttpClient"} ELSE {}]

Indexes(mains, hasClient) ==
    IF mains = {} THEN {} ELSE {Index(mains, node, hasClient) : node \in Nodes(mains)}
=============================================================================
