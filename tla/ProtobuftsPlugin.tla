-------------------------- MODULE ProtobuftsPlugin --------------------------
(* ProtobuftsPlugin.generate of packages/plugin: it names the output files   *)
(* of all proto files, then registers the symbols of each proto file, in     *)
(* protoc's order, and runs the generators on it, then decides which files   *)
(* to return and, with only_http, adds the aggregate client and the          *)
(* namespaces of the packages, and last makes the response of them.          *)
(*                                                                           *)
(* A request is [files, requested, parameters]: the proto files,             *)
(* dependencies first, each [name, package, wellKnown, syntax, types,        *)
(* extensions, excludeOptions, optimizeFor], which of them are to be         *)
(* generated, and the parameters of the plugin. An error ends it.            *)
EXTENDS CodeGenerators, Interpreter, PluginParameters

CONSTANT Requests  \* bound: what protoc asks for

ASSUME RequestsAssumption == \A r \in Requests : ProtocAccepts(r.files)

VARIABLES
    request,
    options,      \* the InternalOptions
    pc,           \* where generate() is
    at,           \* the proto file it is working on
    fileTable,    \* the names of output files, by proto file and kind
    symbols,      \* SymbolTable.entries
    outs,         \* the OutFiles, by proto file and kind
    constructor,  \* httpFileInfo.constructor: the identifiers in it
    clients,      \* generatedClients, in order
    tsFiles,      \* the OutFiles that are returned
    aggregate,    \* http-client.ts: empty when it is not made
    indexes,      \* the index files
    response      \* the files of the CodeGeneratorResponse

madeVars == <<fileTable, symbols, outs, constructor, clients, tsFiles, aggregate, indexes,
              response>>

generateVars == <<request, options, pc, at, madeVars>>

pluginVars == <<generateVars, interpreterVars>>

Protos == DOMAIN request.files
Proto(i) == request.files[i]
TypeOf(d) == Proto(d[1]).types[d[2]]
Descriptors(i) == [j \in DOMAIN Proto(i).types |-> <<i, j>>]

PluginInit ==
    /\ request \in Requests
    /\ options = DefaultOptions
    /\ pc = "parameters" /\ at = 1
    /\ fileTable = <<>> /\ symbols = <<>> /\ outs = <<>>
    /\ constructor = [n \in ConstructorNames |-> ""]
    /\ clients = <<>> /\ tsFiles = {} /\ indexes = {} /\ response = {}
    /\ aggregate = EmptyFile("")
    /\ InterpreterInit

\* An error is thrown. The response has the error and no files.
Fail == pc' = "failed" /\ UNCHANGED <<request, options, at, madeVars>>

ParseOptions ==
    /\ pc = "parameters"
    /\ IF ~Accepts(request.parameters) THEN Fail
       ELSE /\ options' = makeInternalOptions(request.parameters)
            /\ pc' = "files"
            /\ UNCHANGED <<request, at, madeVars>>

-----------------------------------------------------------------------------
(* Names of files: the main files of all protos come first.                  *)

FileSlots ==
    [i \in Protos |-> <<i, "default">>]
    \o FlattenSeq([i \in Protos |-> [k \in 1 .. Len(Kinds) - 1 |-> <<i, Kinds[k + 1]>>]])

BaseName(i) == Proto(i).name \o (IF options.addPbSuffix THEN "_pb" ELSE "")

RegisterFile(table, slot) ==
    slot :> FreeFileName({table[s] : s \in DOMAIN table},
                         BaseName(slot[1]) \o Suffix[slot[2]]) @@ table

RegisterFiles ==
    /\ pc = "files"
    /\ fileTable' = FoldLeft(RegisterFile, <<>>, FileSlots)
    /\ outs' = [s \in DOMAIN fileTable' |-> EmptyFile(fileTable'[s])]
    /\ pc' = "symbols"
    /\ UNCHANGED <<request, options, at, symbols, constructor, clients, tsFiles, aggregate, indexes, response>>

-----------------------------------------------------------------------------
(* One proto file                                                            *)

RegisterType(table, d) ==
    FoldLeft(LAMBDA s, r : register(s, r[1], d, fileTable[<<d[1], r[2]>>], r[3]),
             table, SymbolsOf(TypeOf(d)))

RegisterSymbols ==
    /\ pc = "symbols"
    /\ symbols' =
           FoldLeft(RegisterType, symbols,
                    SelectSeq(Descriptors(at), LAMBDA d : ~isSyntheticElement(TypeOf(d))))
    /\ pc' = "interfaces"
    /\ UNCHANGED <<request, options, at, fileTable, outs, constructor, clients, tsFiles, aggregate,
                   indexes, response>>

\* The asks of the generators, in the output files of the proto file.
Write(files, asks) ==
    FoldLeft(LAMBDA o, a : [o EXCEPT ![<<at, a.out>>] = Answer(@, symbols, a)], files, asks)

\* The types of its fields that a message's code names, for maps those of the
\* values.
Uses(t) ==
    LET fields == Interpreted(t.fields)
        Of(f) == IF isMapField(request.files, f) THEN MapValue(request.files, f).of ELSE f.of
        types == [k \in DOMAIN fields |-> Of(fields[k])]
    IN  Among(types, ToSet(types) \ {NoDescriptor})

\* Nothing is generated for what nobody wrote.
ForEachType(F(_, _)) ==
    LET Asks(d, t) == IF isSyntheticElement(t) THEN <<>> ELSE F(d, [uses |-> Uses(t)] @@ t)
    IN  FlattenSeq([j \in DOMAIN Proto(at).types |-> Asks(<<at, j>>, Proto(at).types[j])])

\* The message types that the interfaces of the proto file need, in order.
NeededTypes ==
    LET Messages(t) == Among(Uses(t), {d \in ToSet(Uses(t)) : TypeOf(d).sort = "message"})
        Needed(d) == IF TypeOf(d).sort # "message" \/ isSyntheticElement(TypeOf(d)) THEN <<>>
                     ELSE <<d>> \o Messages(TypeOf(d))
    IN  FlattenSeq([j \in DOMAIN Proto(at).types |-> Needed(<<at, j>>)])

\* The interpreter makes them, between the members of the interfaces.
GetMessageType ==
    /\ pc = "interfaces" /\ calls = <<>>
    /\ StoreFirstOf(request.files, options, NeededTypes)
    /\ UNCHANGED generateVars

Interpret ==
    /\ \/ CallForOption(request.files, options)
       \/ ReadOptions(request.files, options)
       \/ ReturnType
    /\ UNCHANGED generateVars

InterfaceAsks(d, t) ==
    CASE t.sort = "message" -> In("default", MessageInterface(d, t))
      [] t.sort = "enum" -> In("default", Enum(d))
      [] OTHER -> <<>>

GenerateInterfaces ==
    /\ pc = "interfaces" /\ calls = <<>> /\ AllMade(NeededTypes)
    /\ outs' = Write(outs, ForEachType(InterfaceAsks))
    /\ pc' = "types"
    /\ UNCHANGED <<request, options, at, fileTable, symbols, constructor, clients, tsFiles, aggregate,
                   indexes, response>>

\* OptionResolver: the styles of a service.
Styles(set, forced, normal) ==
    IF forced # "unset" THEN {forced}
    ELSE IF set # {} THEN set \ {"none"} ELSE {normal}

InvalidStyles(set) == "none" \in set /\ set # {"none"}

Client(t, style) == style \in Styles(t.client, options.forcedClientStyle, options.normalClientStyle)
Server(t, style) == style \in Styles(t.server, options.forcedServerStyle, options.normalServerStyle)

getOptimizeMode(i) ==
    CASE options.forcedOptimizeMode # "unset" -> options.forcedOptimizeMode
      [] options.forcedOptimizeMode = "unset" /\ Proto(i).optimizeFor # "unset" ->
             Proto(i).optimizeFor
      [] OTHER -> options.normalOptimizeMode

TypeAsks(d, t) ==
    CASE t.sort = "message" -> In("default", MessageType(d, t, getOptimizeMode(at)))
      [] t.sort = "service" /\ ~options.forceDisableServices ->
           In("default", ServiceType(d, t))
           \o When(Client(t, "generic"), In("client", ClientInterface(d, t) \o ClientClass(d, t)))
           \o When(Client(t, "grpc1"), In("grpc1-client", GrpcInterface(d, t) \o GrpcClass(d, t)))
           \o When(Server(t, "generic"), In("generic-server", ServerInterface(d, t)))
           \o When(Server(t, "grpc1"),
                 In("grpc1-server", GrpcServerInterface(d, t) \o GrpcServerDefinition(d, t)))
      [] OTHER -> <<>>

Services == {t \in ToSet(Proto(at).types) : t.sort = "service" /\ ~options.forceDisableServices}

GoOn ==
    IF at < Len(request.files) THEN at' = at + 1 /\ pc' = "symbols"
    ELSE pc' = "filter" /\ at' = at

GenerateTypes ==
    /\ pc = "types" /\ ~options.onlyHttp /\ ~options.onlyInterface
    /\ IF \E t \in Services : InvalidStyles(t.client) \/ InvalidStyles(t.server)
       THEN Fail
       ELSE /\ outs' = Write(outs, ForEachType(TypeAsks))
            /\ GoOn
            /\ UNCHANGED <<request, options, fileTable, symbols, constructor, clients, tsFiles,
                           aggregate, indexes, response>>

HttpAsks(d, t) ==
    IF t.sort # "service" \/ options.forceDisableServices THEN <<>>
    ELSE In("default", HttpServiceType(d))
         \o When(Client(t, "generic"), In("client", HttpInterface(d, t) \o HttpClass(d, t)))

GenerateHttp ==
    LET made == SelectSeq(Descriptors(at),
                          LAMBDA d : TypeOf(d) \in Services /\ Client(TypeOf(d), "generic"))
    IN  /\ pc = "types" /\ options.onlyHttp /\ ~options.onlyInterface
        /\ IF \/ \E t \in Services : InvalidStyles(t.client)
              \/ \E d \in ToSet(made) : MethodNamesCollide(TypeOf(d))
           THEN Fail
           ELSE /\ outs' = Write(outs, ForEachType(HttpAsks))
                /\ clients' = clients \o made
                /\ constructor' =
                     IF made = <<>> THEN constructor
                     ELSE [n \in ConstructorNames |->
                              LocalName(outs'[<<at, "client">>], n, RuntimeHttp, TRUE)]
                /\ GoOn
                /\ UNCHANGED <<request, options, fileTable, symbols, tsFiles, aggregate, indexes, response>>

OnlyInterface ==
    /\ pc = "types" /\ options.onlyInterface
    /\ GoOn
    /\ UNCHANGED <<request, options, fileTable, symbols, outs, constructor, clients, tsFiles,
                   aggregate, indexes, response>>

-----------------------------------------------------------------------------
(* Which files are returned                                                  *)

Wanted(i) == options.generateDependencies \/ i \in request.requested \/ Proto(i).wellKnown

UsedByFields(t) == {f.of : f \in ToSet(t.fields)}  \* Mutant: methods are not looked at.

UsedBy(t) == {f.of : f \in ToSet(t.fields)} \cup UNION {{m.I, m.O} : m \in ToSet(t.methods)}

\* DescriptorInfo.isFileUsed
isFileUsed(i, inProtos) ==
    \E d \in ToSet(Descriptors(i)), k \in inProtos :
        \E t \in ToSet(Proto(k).types) : d \in UsedBy(t)

FilterFiles ==
    LET wanted == {i \in Protos : Wanted(i)}
        kept == {i \in wanted : i \in request.requested \/ isFileUsed(i, wanted)}
    IN  /\ pc = "filter"
        /\ tsFiles' = {s \in DOMAIN outs : s[1] \in kept}
        /\ pc' = IF options.onlyHttp THEN "aggregate" ELSE "respond"
        /\ UNCHANGED <<request, options, at, fileTable, symbols, outs, constructor, clients, aggregate,
                       indexes, response>>

-----------------------------------------------------------------------------
(* only_http                                                                 *)

ReturnedClients == Among(clients, {d \in ToSet(clients) : <<d[1], "client">> \in tsFiles})

Paths == [k \in DOMAIN ReturnedClients |->
             ClientPath(Proto(ReturnedClients[k][1]).package, TypeOf(ReturnedClients[k]))]

ReturnedNames == {outs[s].name : s \in tsFiles}

AddHttpClient ==
    /\ pc = "aggregate"
    /\ IF ReturnedClients = <<>>
       THEN pc' = "namespaces"
            /\ UNCHANGED <<request, options, at, fileTable, symbols, outs, constructor, clients,
                           tsFiles, aggregate, indexes, response>>
       ELSE IF HttpClientFile \in ReturnedNames \/ ClientPathsCollide(Paths)
       THEN Fail
       ELSE /\ aggregate' = AggregateFile(symbols, ReturnedClients, constructor)
            /\ pc' = "namespaces"
            /\ UNCHANGED <<request, options, at, fileTable, symbols, outs, constructor, clients,
                           tsFiles, indexes, response>>

\* Main files with statements in them, and the names that the table has there.
Mains ==
    {[namespace |-> NamespaceOf(Proto(s[1]).package), package |-> Proto(s[1]).package,
      file |-> outs[s].name, names |-> NamesIn(symbols, outs[s].name)] :
     s \in {s \in tsFiles : s[2] = "default" /\ ~IsEmpty(outs[s])}}

HasClient == ReturnedClients # <<>>

AllNames == ReturnedNames \cup (IF HasClient THEN {HttpClientFile} ELSE {})

AddNamespaces ==
    /\ pc = "namespaces"
    /\ IF NamespacesFail(Mains, AllNames, HasClient) THEN Fail
       ELSE /\ indexes' = Indexes(Mains, HasClient)
            /\ pc' = "respond"
            /\ UNCHANGED <<request, options, at, fileTable, symbols, outs, constructor, clients,
                           tsFiles, aggregate, response>>

-----------------------------------------------------------------------------
(* The response                                                              *)

\* transpile: TypeScript is left as it is, or compiled to two files, of which
\* each has the header. Files without statements have no content.
Extensions == IF options.transpileTarget = "unset" THEN {".ts"} ELSE {".js", ".d.ts"}

NamesOfFiles ==
    {outs[s].name : s \in {s \in tsFiles : ~IsEmpty(outs[s])}}
    \cup (IF aggregate.name = "" THEN {} ELSE {aggregate.name})
    \cup {x.name : x \in indexes}

Respond ==
    /\ pc = "respond"
    /\ response' = {[name |-> n, extension |-> e, noCheck |-> options.tsNoCheck,
                     esLintDisable |-> options.esLintDisable] :
                    n \in NamesOfFiles, e \in Extensions}
    /\ pc' = "done"
    /\ UNCHANGED <<request, options, at, fileTable, symbols, outs, constructor, clients,
                   tsFiles, aggregate, indexes>>

Generate ==
    /\ \/ ParseOptions \/ RegisterFiles \/ RegisterSymbols \/ GenerateInterfaces
       \/ GenerateTypes \/ GenerateHttp \/ OnlyInterface
       \/ FilterFiles \/ AddHttpClient \/ AddNamespaces \/ Respond
    /\ UNCHANGED interpreterVars

PluginNext == Generate \/ GetMessageType \/ Interpret

PluginSpec == PluginInit /\ [][PluginNext]_pluginVars

-----------------------------------------------------------------------------
(* Properties                                                                *)

AllFiles == {outs[s] : s \in DOMAIN outs}

\* The name of the only namespace import: nothing is kept from taking it.
FixedNames == {"grpc"}

MeansOnly(f, u) == Meanings(AllFiles \cup {f}, f, u.as) = {u.is}

\* An identifier that the symbol table or the imports gave to a generator is
\* bound once in the file, and what it is bound to, followed through the import
\* to the file that declares it, is the thing the generator asked for: whatever
\* names are requested in the two files, before or after it was given.
NamesMeanWhatWasAsked ==
    pc \in {"filter", "done"} =>
        \A f \in AllFiles \cup {aggregate} : \A u \in f.uses :
            u.given /\ u.as \notin FixedNames => MeansOnly(f, u)

\* The response is whole: what a returned file imports is returned too, unless
\* it is of a proto file that the request leaves to another run of the plugin,
\* and no file overwrites another, not that of a second proto file and not one
\* of those that are added.
ResponseIsWhole ==
    pc = "done" =>
        /\ \A s \in tsFiles : \A i \in ToSet(outs[s].imports) : \A g \in DOMAIN outs :
              outs[g].name = i.from /\ Wanted(g[1]) => \E r \in response : r.name = i.from
        /\ \A s, g \in tsFiles : s # g => outs[s].name # outs[g].name
        /\ ({x.name : x \in indexes} \cup {aggregate.name}) \cap ReturnedNames = {}

\* What an index exports under a name: a namespace, or declarations of the
\* files it exports all of.
Exported(x, name) ==
    {[file |-> "", of |-> n] : n \in {n \in x.namespaces : n = name}}
    \cup UNION {{[file |-> f.name, of |-> d.as] :
                 d \in {d \in ToSet(f.declares) : d.as = name}} :
                f \in {f \in AllFiles : f.name \in x.all}}

\* With only_http, everything that the returned main files declare can be had
\* from the index of its package, under a name that means nothing else there,
\* and every client has a place of its own in the tree of HttpClient.
ReachedByPackage ==
    pc = "done" /\ options.onlyHttp =>
        /\ \A x \in indexes : \A f \in {f \in AllFiles : f.name \in x.all} :
             \A d \in ToSet(f.declares) : Cardinality(Exported(x, d.as)) = 1
        /\ \A k, l \in DOMAIN Paths : IsPrefix(Paths[k], Paths[l]) => k = l
=============================================================================
