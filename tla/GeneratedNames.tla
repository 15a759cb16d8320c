--------------------------- MODULE GeneratedNames ---------------------------
(* The names of generated code: SymbolTable, TypeScriptImports and           *)
(* TypescriptFile of packages/plugin-framework, FileTable and                *)
(* createLocalTypeName of packages/plugin.                                   *)
(*                                                                           *)
(* A generator asks for identifiers one after the other and puts what it is  *)
(* given into its code. It is a sequence of asks here, and an output file    *)
(* records what it imports, what it declares and which identifiers it uses,  *)
(* each with the thing that is meant. A file's name leaves out ".ts", as the *)
(* paths of imports do. A descriptor is <<i, j>>: type j of proto file i.    *)
EXTENDS DescriptorInfo

Runtime == "@protobuf-ts/runtime"
RuntimeRpc == "@protobuf-ts/runtime-rpc"
RuntimeHttp == "@protobuf-ts/runtime-http"
GrpcJs == "@grpc/grpc-js"

\* What an identifier stands for: a symbol of the table, or something external.
Symbol(d, kind) == [of |-> d, kind |-> kind, name |-> ""]
External(from, name) == [of |-> NoDescriptor, kind |-> from, name |-> name]

-----------------------------------------------------------------------------
(* Names                                                                     *)

\* A few of the words; which of them are listed decides nothing else.
Reserved == {"class", "package", "string", "String", "Array", "number"}

createLocalTypeName(path) ==
    LET full == FoldLeft(LAMBDA a, b : a \o "_" \o b, Head(path), Tail(path))
    IN  IF full \in Reserved THEN full \o "$" ELSE full

\* The resolvers of the tables start at the requested name and count on. That
\* they drop a character of a name ending in "$" is left out: two descriptors
\* of one file never request such a name. So is giving up after 100 tries.
ClashName(n, k) == IF k = 0 THEN n ELSE n \o "$" \o ToString(k)

FreeName(taken, n) ==
    LET Free(k) == ClashName(n, k) \notin taken
    IN  ClashName(n, CHOOSE k \in 0 .. Cardinality(taken) :
                         Free(k) /\ \A l \in 0 .. k - 1 : ~Free(l))

\* The names that are given to imports: Foo, Foo$, Foo$2, ...
AliasName(n, k) ==
    CASE k = 0 -> n
      [] k = 1 -> n \o "$"
      [] OTHER -> n \o "$" \o ToString(k)

FreeAlias(taken, n) ==
    LET Free(k) == AliasName(n, k) \notin taken
    IN  AliasName(n, CHOOSE k \in 0 .. Cardinality(taken) :
                         Free(k) /\ \A l \in 0 .. k - 1 : ~Free(l))

-----------------------------------------------------------------------------
(* SymbolTable: entries [of, kind, file, name] in the order of registration. *)

NamesIn(symbols, file) == {e.name : e \in {s \in ToSet(symbols) : s.file = file}}

Has(symbols, d, kind) == \E e \in ToSet(symbols) : e.of = d /\ e.kind = kind

Get(symbols, d, kind) == CHOOSE e \in ToSet(symbols) : e.of = d /\ e.kind = kind

register(symbols, requested, d, file, kind) ==
    Append(symbols, [of |-> d, kind |-> kind, file |-> file,
                     name |-> FreeName(NamesIn(symbols, file), requested)])

\* FileTable.register, for a name without its suffix.
FreeFileName(taken, n) == FreeName(taken, n)

-----------------------------------------------------------------------------
(* Output files                                                              *)

EmptyFile(name) == [name |-> name, imports |-> <<>>, spaces |-> <<>>,
                    declares |-> <<>>, uses |-> {}]

\* TypescriptFile.isEmpty
IsEmpty(f) == f.imports = <<>> /\ f.spaces = <<>> /\ f.declares = <<>>

\* `given`: the identifier was returned by the tables, not written by hand.
Use(f, id, what, given) ==
    [f EXCEPT !.uses = @ \cup {[as |-> id, is |-> what, given |-> given]}]

TakenByImports(f) == {i.as : i \in ToSet(f.imports)}

\* Mutant: the names registered for the file are not avoided.
TakenUnlisted(f, symbols) == TakenByImports(f)

Taken(f, symbols) == TakenByImports(f) \cup NamesIn(symbols, f.name)

\* ensureNamedImportPresent: the same import again has the name it got.
Named(f, symbols, name, from, only) ==
    IF \E i \in ToSet(f.imports) : i.name = name /\ i.from = from /\ i.only = only
    THEN f
    ELSE [f EXCEPT !.imports = Append(@, [name |-> name, from |-> from, only |-> only,
                                          as |-> FreeAlias(Taken(f, symbols), name)])]

LocalName(f, name, from, only) ==
    (CHOOSE i \in ToSet(f.imports) : i.name = name /\ i.from = from /\ i.only = only).as

\* ensureNamespaceImportPresent: nothing is avoided.
Namespace(f, as, from, only) ==
    LET s == [as |-> as, from |-> from, only |-> only]
    IN  IF s \in ToSet(f.spaces) THEN f ELSE [f EXCEPT !.spaces = Append(@, s)]

-----------------------------------------------------------------------------
(* Asks                                                                      *)

Ask(sort, d, kind, name, from, only) ==
    [sort |-> sort, of |-> d, kind |-> kind, name |-> name, from |-> from, only |-> only]

Name(name, from) == Ask("name", NoDescriptor, "", name, from, FALSE)
NameOnly(name, from) == Ask("name", NoDescriptor, "", name, from, TRUE)
Type(d) == Ask("type", d, "default", "", "", FALSE)
TypeOnly(d) == Ask("type", d, "default", "", "", TRUE)
KindOf(d, kind) == Ask("type", d, kind, "", "", FALSE)
Space(as, from, only) == Ask("namespace", NoDescriptor, "", as, from, only)
\* An identifier that the generator writes itself, meaning `from`'s `name`.
Word(name, from) == Ask("word", NoDescriptor, "", name, from, FALSE)
\* A statement that declares the symbol, or a class with its name and "$Type".
Declare(d, kind) == Ask("declare", d, kind, "", "", FALSE)
DeclareClass(d) == Ask("declare", d, "default", "$Type", "", FALSE)

Answer(f, symbols, ask) ==
    LET e == Get(symbols, ask.of, ask.kind)
        given == Named(f, symbols, ask.name, ask.from, ask.only)
        imported == Named(f, symbols, e.name, e.file, ask.only)
        id == e.name \o ask.name
        what == [Symbol(ask.of, ask.kind) EXCEPT !.name = ask.name]
    IN  CASE ask.sort = "name" ->
                 Use(given, LocalName(given, ask.name, ask.from, ask.only),
                     External(ask.from, ask.name), TRUE)
          [] ask.sort = "type" /\ e.file = f.name ->
                 Use(f, e.name, Symbol(ask.of, ask.kind), TRUE)
          [] ask.sort = "type" /\ e.file # f.name ->
                 Use(imported, LocalName(imported, e.name, e.file, ask.only),
                     Symbol(ask.of, ask.kind), TRUE)
          [] ask.sort = "namespace" ->
                 Use(Namespace(f, ask.name, ask.from, ask.only), ask.name,
                     External(ask.from, "*"), TRUE)
          [] ask.sort = "word" -> Use(f, ask.name, External(ask.from, ask.name), FALSE)
          [] ask.sort = "declare" ->
                 [f EXCEPT !.declares = Append(@, [as |-> id, is |-> what])]

Answers(f, symbols, asks) == FoldLeft(LAMBDA g, a : Answer(g, symbols, a), f, asks)

-----------------------------------------------------------------------------
(* What an identifier of a file stands for, given all files: its own         *)
(* declarations and what its imports name where they point; something global *)
(* when it is neither.                                                       *)

DeclaredAs(f, id) == {d.is : d \in {d \in ToSet(f.declares) : d.as = id}}

FilesNamed(files, name) == {g \in files : g.name = name}

ImportMeans(files, i) ==
    IF FilesNamed(files, i.from) = {} THEN {External(i.from, i.name)}
    ELSE UNION {DeclaredAs(g, i.name) : g \in FilesNamed(files, i.from)}

Meanings(files, f, id) ==
    LET bound == DeclaredAs(f, id)
                 \cup UNION {ImportMeans(files, i) :
                             i \in {i \in ToSet(f.imports) : i.as = id}}
                 \cup {External(s.from, "*") : s \in {s \in ToSet(f.spaces) : s.as = id}}
    IN  IF bound = {} /\ \A i \in ToSet(f.imports) : i.as # id
        THEN {External("globalThis", id)}
        ELSE bound
=============================================================================
