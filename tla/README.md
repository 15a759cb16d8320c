# protobuf-ts in TLA+

TLA+ models of protobuf-ts (a TypeScript runtime, RPC layer and code generator for protocol
buffers), checked with TLC and, for part of them, proved with TLAPS. Paths below are relative to
`packages/` of the repository unless they start with `packages/`. `PROJECT.json` maps every definition to the lines it
translates and lists the runs, the mutants (one plausible bug for every property, which the run
must notice), the hazards and the findings.

## 1. The system

| part | state | operations | who it talks to |
|---|---|---|---|
| **output stream** `runtime-rpc/src/rpc-output-stream.ts` | `_closed`; four lists of callbacks `_lis`; one iterator state `_itState` (queue `q`, pending promise `p`) shared by all `for await` loops | `notifyMessage/Error/Complete/Next`, `onNext/Message/Error/Complete` and the function that removes a callback, `[Symbol.asyncIterator]`, `next()` | fed by a transport (client) or an adapter (server); calls callbacks synchronously, which may call back |
| **deferred, calls** `runtime-rpc/src/deferred.ts`, `*-call.ts` | one promise each: pending, resolved, rejected | `resolve`, `reject` (throw when settled), `resolvePending`, `rejectPending`; `await call` | settled by a transport, awaited by the caller |
| **server call context** `runtime-rpc/src/server-call-context.ts` | `_cancelled`, `_listeners`, status | `notifyCancelled`, `onCancel`, removal | the adapter cancels it, methods register callbacks |
| **test transport** `runtime-rpc/src/test-transport.ts` | what was sent; per call a chain of delays that forks | the four kinds of calls, `streamResponses`, `TestInputStream.send`, `complete` | an abort signal, timers, an output stream |
| **interceptors, options** `runtime-rpc/src/rpc-interceptor.ts`, `rpc-options.ts` | none | `stackIntercept`, `mergeRpcOptions` | generated clients call them, they call a transport |
| **grpc-web transport** `grpcweb-transport/src` | per call: a chain of promise handlers, four deferreds or three and an output stream; per body: byte queue, base64 queue | `unary`, `serverStreaming`, `readGrpcWebResponseHeader/Body/Trailer` | `fetch`, the output stream |
| **twirp transport** `twirp-transport/src` | per call: a chain of promise handlers, four deferreds | `unary` | `fetch`, the binary or JSON format |
| **grpc transport** `grpc-transport/src` | per call: deferreds, output stream, a listener on the abort signal | `unary`, `serverStreaming`, `clientStreaming`, `duplex` and their handlers | events of a grpc-js client call |
| **grpc backend** `grpc-backend/src` | per call: context, request stream, the method's promise | `createDefinition`, `mapService`, `mapUnary`, `mapServerStreaming`, `mapClientStreaming`, `mapBidi` | events of a grpc-js server call, the service's methods |
| **chat server** `example-chat-system/server/server.ts` | the list of users, shared by all calls | `join`, `post`, `broadcast`, `addUser` | contexts and response streams of many calls |
| **binary format** `runtime/src/binary-*.ts`, `goog-varint.ts`, `pb-long.ts`, `reflection-binary-*.ts` | writer: buffer, chunks, stack of forks; reader: position | `fork`/`join`, `tag`, `uint32` ..., `skip`; `write` and `read` of a message; `PbLong.from`, `toString` | one message after another, through readers that know fewer fields |
| **generated binary methods** `plugin/src/message-type-extensions/internal-binary-*.ts` | the same, as code the plugin writes for each message type (`optimize_for = SPEED`, the default) | `internalBinaryWrite`, `internalBinaryRead` | in place of the reflection code, on the same writers and readers |
| **JSON format, message operations** `runtime/src/reflection-*.ts`, `oneof.ts` | none | JSON read and write, `create`, `mergePartial`, `equals`, `is` | messages of either format |
| **well-known types** `plugin/src/message-type-extensions/well-known-types.ts` | none | their own `internalJsonWrite`, `internalJsonRead`, `Timestamp.toDate`, `fromDate` | in place of the reflection JSON code |
| **names and files of generated code** `plugin-framework/src/symbol-table.ts`, `typescript-imports.ts`, `plugin/src/file-table.ts` | symbol table, file table, the imports and statements of every file | `register`, `find`, `name`, `type`, `namespace` | asked by every generator, in the order of the proto files |
| **code generator** `plugin/src/protobufts-plugin.ts`, `our-options.ts`, `code-gen/` | the output files | `parameters`, `generate`, one generator for each sort of type and style of client and server, `generateAllClass`, `generateHttpNamespaces` | protoc's request and response |
| **interpreter** `plugin/src/interpreter.ts`, `runtime/src/reflection-info.ts`, `plugin-framework/src/descriptor-*.ts` | the message types made so far, handed out before they are complete | `getMessageType`, `readOptions`, `getEnumInfo`, `getServiceType`; printing; `normalizeFieldInfo` | the generators; the runtime that loads what they print |

Everything runs on JavaScript's single thread. What makes it hard is not parallelism but

* **reentrancy** - a callback changes the list that is being walked, or emits into the stream
  that has just called it; the options of a type need the type that is being made;
* **what comes between two awaits** - other calls, an abort, a timer, the end of the connection, a
  client that has gone;
* **the order of external events** - error, status and end of one grpc-js call; header, chunks
  and trailer of one response; data that is cut anywhere, decoded twice, or cut short;
* **several outcomes that must agree** - three or four promises and a stream per call, settled
  one by one by handlers that may themselves throw;
* **two readings of one thing** - generated code and reflection, a literal that leaves out its
  defaults and the runtime that fills them in, an interface and the check of it, an overload and its
  implementation, an import and the name in the file it comes from.

What has to be true of each part, in one sentence:

* *output stream*: every callback hears every emission it is for, once and in order, the loops get
  exactly what was pushed, nothing comes after the end, and loops come to their end;
* *transports*: a call that was made ends; promises, stream and `await call` tell the same outcome;
  OK needs what the protocol puts behind the messages; after an abort nothing succeeds;
* *backend*: OK reaches the client if the method returned with an OK status, and only then, and no
  event makes a handler throw;
* *context*: callbacks run once, all of them, and not before the cancellation;
* *chat*: the users are those whose calls are open;
* *formats*: what a chain of readers with different knowledge gives on is what was sent, in either
  format and with either code, and whatever was read is a message;
* *generated code*: every identifier means what the generator meant, the files are complete and
  distinct, the parameters are followed, a call made with a generated client arrives at the method
  of the generated server, and the reflection information says what the proto file says.

The code keeps most of this, not all: the properties of section 4 name each case that they except,
"What the properties leave out" there lists these cases, and section 7 says where in the code they are.

## 2. Plan

Order of work, the most concurrent code first. All of it is done but what is marked as left.

1. `RpcOutputStream` and its abstract specification `AsyncResults`; proofs.
2. `GrpcWebCall` = the grpc-web server streaming chain, composed with `RpcOutputStream`.
3. `GrpcWebBody`, `GrpcWebUnary` = the response body in chunks, composed with the unary chain.
4. `ServerCallContext`; proofs.
5. `ChatServer` = join and post, composed with `ServerCallContext`.
6. `GrpcCall`, `GrpcAdapter`, composed as `GrpcSystem`.
7. `BinaryFormat`, `ReflectionBinary`, `SpeedBinary` = writer, reader, the reflection code and the
   generated code on top of them; `BinaryRelay` = what they are used for, unknown fields.
8. `TwirpUnary` beside `GrpcWebUnary`, both shown to implement the abstract call `UnaryContract`;
   `TestTransport`, composed with `RpcOutputStream`.
9. `ReflectionJson`, `LongText`, `WellKnownTypes`, joined with the binary format in `MessageRelay`.
10. `GeneratedNames`, the generators on top of it, `ProtobuftsPlugin` = the whole of `generate`.
11. `DescriptorInfo`, `ReflectionInfo`, `Interpreter`, and `GeneratedReflection` = what generated code
    means to the runtime.
12. Proofs: the stream and its refinement of `AsyncResults`, the calls that feed it (`GrpcWebCall`,
    `TestTransport`), the body in chunks, the unary calls and their contract, the contexts, the chat,
    the two ends of grpc, the interpreter's options, the reflection information and the interfaces.
13. *Left:* frames of 2 GiB and more; maps with other keys and values than numbers,
    floats and UTF-8; metadata and deadlines.
14. *Left, proofs:* the tables of names of the code generator.

## 3. Modules

| module | models | how |
|---|---|---|
| `RpcOutputStream` | the controller | `closed`, `lis`, `itOn`/`p`/`q` are its fields. `stack` holds the notify calls under way, so that each `forEach` step, each return of a callback and each nested call is an action of its own: `CallListener`, `ListenerReturns`, `ListenerThrows`, `ThenNextListeners`, `NotifyReturns`. An emission is a position in `log`. `loop` says where each `for await` loop is. |
| `AsyncResults` | the promise of an async iterator | one sequence of results, read on by every `next()`; no queue, no promise. |
| `GrpcWebResponse` | header and trailer status | what `parseStatus`, `httpStatusToGrpc` make of a response. |
| `GrpcWebCall` | `serverStreaming` | `pc` is the handler of the chain, `def` its deferreds; the stream is `RpcOutputStream` itself with the transport as its only source. A callback that throws arrives in the handler that notified. |
| `GrpcWebBody` | `readGrpcWebResponseBody` | bytes are bytes; a base64 character is a group and its place in it. Chunks end anywhere, and the wire may close anywhere. |
| `UnaryDeferreds`, `UnaryContract` | the promises of a unary call | four `Deferred`s, and the abstract call that a reader of `UnaryCall`'s doc expects: promises settle once, in an order, and agree. |
| `GrpcWebUnary`, `TwirpUnary` | `unary` of the two fetch transports | one action per handler of the chain, on the same deferreds. |
| `UnaryTransports` | both | a caller has one transport or the other. |
| `GrpcKinds`, `GrpcCall` | grpc-transport | one action per event of grpc-js; status, error and end come in the order grpc-js emits them. |
| `GrpcAdapter` | grpc-backend | events of the request stream, the method, `send`, its answer. |
| `GrpcSystem` | both, over a network | `peers` chooses whether both ends are this code, or one of them faces any other implementation of the protocol. |
| `ServerCallContext` | contexts of calls | `firing` is the `for..of` of the one `notifyCancelled` under way. |
| `ChatServer` | the chat | one action per stretch between two awaits. |
| `TestTransport` | the test transport | `at` is the delay the chain waits in. A timer fires and what follows runs on at once; an abort only rejects the promise of the delay, and what follows runs later. |
| `BinaryFormat` | `BinaryWriter`, `BinaryReader`, goog-varint | a writer is a record of its three fields; 64 bit numbers are two sets of bits. |
| `LongText` | the decimal text of 64 bit numbers | with bigint, and without it in limbs as `int64toString` and `int64fromString` compute them. |
| `ReflectionBinary` | `ReflectionBinaryWriter`, `ReflectionBinaryReader` | one operator per method, on a message type with a field of every kind. |
| `SpeedBinary` | what `InternalBinaryWrite`, `InternalBinaryRead` generate | one operator for the statements that a method of the generator makes; `Declared` is the order of the fields in the .proto file, in which generated code writes them. |
| `ReflectionJson` | `ReflectionJsonWriter`, `ReflectionJsonReader`, `reflectionMergePartial`, `reflectionEquals`, `is` | on the same message type. An object is the sequence of its entries. |
| `WellKnownTypes` | the JSON format of google.protobuf types | a result is JSON, a message, or a thrown error. |
| `BinaryRelay`, `MessageRelay` | writers and readers at work | a sender, a relay whose message type knows some of the fields, a receiver; each runs the reflection code or generated code. Or JSON to a reader that knows less, a copy, a well-known type there and back. |
| `GeneratedNames` | symbol, file and import tables | a generator is the sequence of its *asks*; an output file records what it imports, declares and uses, and what was meant. |
| `GrpcClients` | clients for @grpc/grpc-js | an overload is a signature; the implementation says which parameters it hands on to which function of grpc-js. |
| `GenericServices` | clients for a transport, server interfaces and definitions | signatures, merged options, and who is called by a stack of interceptors; the definitions that the adapter of grpc-backend makes of a service type, with the arguments it calls a method with. |
| `CodeGenerators` | all generators of `code-gen/` | what each asks for, in order, and declares; with `only_http` the aggregate `HttpClient` and the index of every package. |
| `PluginParameters` | `parameters`, `parseOptions`, `makeInternalOptions` | a set of parameters in, options or an error out. |
| `ProtobuftsPlugin` | `generate` | one action for each stretch of it: names of files, symbols and generators of one proto file after the other, the filter of files, the aggregate client, the indexes, the response; an error anywhere ends it. |
| `DescriptorInfo` | `DescriptorRegistry` | names, kinds, labels, extensions, prefixes of enums. `ProtocAccepts` is what protoc has checked of a request before the plugin sees it; every request of the run satisfies it. |
| `ReflectionInfo` | the runtime's reflection information | `normalizeFieldInfo`, `create`, `is`, enum objects. |
| `Interpreter` | `Interpreter` and the literals that are printed | `calls` is the stack of message types being made. |
| `GeneratedReflection` | properties of generated code | against what the proto file says. |
| `RpcOutputStreamProofs`, `GrpcWebCallProofs`, `TestTransportProofs`, `UnaryTransportsProofs`, `ChatServerProofs`, `GrpcSystemProofs`, `ProtobuftsPluginProofs` | theorems | see section 5. |
| `SequenceLemmas` | induction over numbers, `FlattenSeq` | lemmas that two of them use. |
| `MCRpcOutputStream`, `MCMessageRelay`, `MCProtobuftsPlugin` | values of constants | the other runs name theirs in the cfg. |

Definitions whose comment starts with "Mutant" are wrong on purpose: `PROJECT.json` says which
property notices each of them. No specification uses them.

### Abstractions

* Messages, headers and trailers are positions, codes or small records; what they say is left out.
* Status codes are classes: OK, an error the server or the transport chose, an error of the
  transport itself, where the properties tell them apart.
* A promise handler runs without interruption, except where it calls into an output stream, whose
  callbacks are actions of their own.
* External code (grpc-js, fetch, HTTP/2, the clock, protoc, TypeScript's reading of a signature) does
  everything its use in the code allows, and no more: grpc-js emits one status per call; a wire is cut
  or delivered, not altered.
* Of generated code the identifiers, the imports and the literals of the reflection information are kept;
  the code around them is left out. Names are sequences of a few letters where they are converted, and
  model values where they are only compared.
* History variables (`log`, `heard`, `since`, `got`, ...) are read by properties only.

## 4. What is checked

Eight runs that must pass, four that must find a counterexample.

### `Stream_readers` (module `RpcOutputStream`, 995 000 states, with fairness)
Two callbacks, on the messages and on everything, which register, remove, emit and throw, two emissions deep;
two loops, which may be under way at once, and break; two messages and an end.
`ListenersServed`: until a callback removes one, emits or throws from within an emission, whoever is registered hears
every emission of its kind once and in order, and is let go at the end. `IteratorFifo`: a message reaches the
loops once and in order, and none is lost while loops that began on the open stream read on.
`ImplementsAsyncResults`: queue and promise implement the abstract sequence (refinement). `TypeOK`.
`NothingAfterEnd`: who was told the end is told nothing more, and never a second end. There is one way
around it, which the property names (`cut`): a callback emits the end while a message is under way, and a callback
that hears this end throws. `clearLis` is then skipped, and if the callback that emitted catches the error, the
`forEach` of the message goes on over the lists that stayed, to callbacks that have heard the end.
`LoopsEnd` (liveness): a loop comes to its end, also one that begins on the closed stream. Loops that were under way
together when the stream closed share one end; while one has taken it, the others wait, and the property
says no more of them (`OtherTookEnd`).
Two levels of nesting suffice to close a stream while it is emitting a message, or its end; a third one
would repeat the second, as a nested call sees nothing of those around it but the lists.

### `Call_settles` (`GrpcWebCall`, 565 000 states, with fairness)
Every HTTP status class, header, trailer, body and failure; two callbacks that register, remove and
throw; a loop. `StreamAgreesWithStatus`: a chain that runs to its end leaves nothing pending, and stream,
status and trailers tell one outcome. `OkNeedsTrailer`: a call with messages is OK only with a trailer behind
them, which says OK or gives no status (the code takes the HTTP status then), after every message was emitted; a call without
messages also by a header that says OK, which is how a trailers-only response looks - and a body that was lost before its first frame.
`CallEnds` (liveness): the call is settled and the loop ends; only where a callback throws out of the notify call that
closes the stream (`lost`) may the chain break off, with status and trailers pending.

### `Unary_settles` (`UnaryTransports`, 23 200 states, deadlock checked)
A call of the grpc-web transport or of the Twirp transport. For grpc-web seven bodies (none, one or two
messages, with and without a trailer), as bytes, base64 and base64 with padding between frames, cut into
every sequence of chunks and closed at every place. The data bytes look like frame types, and the frames
have every remainder of three. For Twirp every class of answer and of body, in both formats, and an abort
wherever something is awaited. `BodyAsSent`: frames come out unchanged, as soon as they are there, and a body
that is cut within a data frame, or within the five bytes that begin a trailer, ends in an error. (Cut between two frames
it does not, which the caller of the function has to notice; cut in the text of the trailer it does not either, see
`Doc_cut_trailer`.) `MessageIsTheServers`: message and OK stand for one whole message
with a trailer behind it. `TwirpOutcome`: OK, the server's error and lost data are told apart.
`KeepsContract`: either chain implements `UnaryContract` (refinement).

### `Grpc_system` (1 340 000 states, deadlock checked)
Calls of the four kinds; up to two requests and two responses; a signal that is absent, quiet or
aborted beforehand; any outcome of the method, with its sends awaited or not, an abort and a lost connection at any time.
`NoHandlerThrows`. `OkMeansReturned` (backend): the call is ended well, or the response handed out, exactly if the method
returned with an OK status; the only other OK is the code of a `RpcError` that a method with one response
threw. `StatusIsTrue` (transport): status, trailers, message, stream and `await call` tell one outcome, but for
the message of a client streaming call that ended with OK and none. `OkIsTheMethods` (end to end): an OK at
the client is that of the method, with all it has sent; or, in a client streaming call without a message, that of such a `RpcError`. A
grpc-js call that is over, and an answered server call, may stutter; every other stop is a deadlock.
grpc-js writes what a method sends in the order of the calls, the answer behind it, and metadata before the status
(`BeforeStatus`); a method sends nothing once its promise has settled.

### `Chat_system` (`ChatServer` with `ServerCallContext`, 1 060 000 states)
Two users and one call of another service whose callbacks register, remove and throw.
`CalledOnce`, `AllCallbacksInvoked` (contexts), `UsersAreOpen`: the shared list holds exactly the users
whose call is open, `EventsInOrder`: a user hears first of his own joining and nothing of those who have left,
`NothingAfterClose`. Users join in different milliseconds (`SameTime = FALSE`), see section 7.

### `Test_transport` (98 000 states, with fairness)
Unary, server streaming and client streaming calls with every mock - data, an error, an invalid one - for
each of header, response, status and trailers, up to two inputs, a callback that removes itself or throws, a
loop, and an abort at any moment. `StatusTellsResponses`: status and trailers come after the responses, and
tell them truly. `NothingAfterAbort`: no message, no promise and no `send()` succeeds after it.
`TestCallEnds` (liveness). A duplex call is made of the chains of server and of client streaming and
is left out of the bound.

### `Wire_relay` (`MessageRelay`, 155 000 states)
*Binary:* some thirty messages, each followed by one of five more; six message types of a relay, which know some
of the fields, and others in the messages inside; reflection and generated code; packed or not; cut at
every place. `RelayLosesNothing`: the receiver gets the two messages, merged as the doc of
the reader says, whatever the relay knew. `CutBetweenFields`: cut data is accepted only at a border
between fields. An assumption of `MCMessageRelay` checks that varints are minimal.
*JSON:* every message and option of the writer, readers that know fewer fields and names, platforms with and
without BigInt at either end. `JsonLosesNothing`: what the reader knows arrives, a second object read into the message is
merged with it, whatever the options of its writer, and nothing is refused but what the property names; `ReadIsMessage`: oneofs have a kind and the value of this
kind; `CopyIsEqual`: so does a copy, and it equals its original.
*Well-known types:* all pairs of some values at the ends of the ranges, `WellKnownKept`. Seconds are
bounded by `FirstSecond` and `LastSecond` in place of the years 1 and 9999, and durations by `Longest`.

### `Generated_code` (`ProtobuftsPlugin`, 107 000 states)
One behaviour for every request; 5 700 requests in families: names that collide in one file and across
two, for every style of client and server; which files are returned; packages and file names with
`only_http`; fields of every type, label, presence and packing; names of fields and oneofs; enums;
methods; custom options whose messages need each other; any two parameters of the plugin, and up to four of
those about services. `NamesMeanWhatWasAsked`: every identifier, followed through the imports, is what the
generator asked for. `ResponseIsWhole`: imports are returned, files do not overwrite each other.
`ReachedByPackage`: the index of a package exports each thing once. `CallsReachMethods`: every way to call an
overload of a grpc-js client reaches grpc-js with each argument in its place; every interceptor has its turn; every option,
and every key of the nested ones, has the value of the call, or else of the transport, and no type of the registries is lost - their
order is left open, as code and doc of `mergeRpcOptions` have opposite ones; path, types and kind of the call lead to the handler
of the service, generated or adapted, and the adapter calls the method as the generated interface says.
`GeneratedAsAsked`: of parameters that are accepted together each is followed, but for those that `Undone` names. `ReflectionMeansDescriptor`: the literals that are
printed and completed again say what the proto file says. `InterfaceIsChecked`: an object has the
generated interface exactly if `is` accepts it, and `create` makes such an object. `OptionsAreTheirs`: every
message, field and method has its own options, however the types were made.

### Runs that must find a violation (findings)

| run | what a doc says | what happens |
|---|---|---|
| `Doc_join_never_ends` | the call is kept open until the client closes it | closed during the broadcast of `join`, it is kept open for ever |
| `Doc_empty_message` | unknown fields are stored, by default | the generated reader of a message type without fields skips nothing: its unknown fields are lost, and read as fields of the message around it |
| `Doc_cut_trailer` | the promise of `readGrpcWebResponseBody` resolves when the response is complete | it resolves for a trailer that was cut off behind its first five bytes; without its `grpc-status` the call is OK |
| `Doc_rpc_error_code` | throw a `RpcError` to tell the client a code | from streaming methods the client sees UNKNOWN |

### What the properties leave out
The passing properties hold with these limits, each of which is written in the property or in the
constants of its run, and stands for an observation of section 7.

* `ListenersServed` is about streams that no callback has disturbed from within an emission, by removing a callback,
  emitting or throwing; registering does not disturb. `AllCallbacksInvoked` likewise, for the walk of a context.
* `IteratorFifo` does not say who gets what is left when only loops read on that began on the closed stream,
  and `AsyncResults` not which loop reads: the doc has such a loop be empty, the code gives it what earlier ones left.
* `LoopsEnd` leaves out a loop that waits while another one has taken the end they share.
* `StreamAgreesWithStatus` is about chains that run to their end (`settled`, not `broken`), and `CallEnds` excepts the chain
  that a callback broke by throwing out of the closing notify call. `TestCallEnds` is about loops whose
  `streamResponses()` did not reject.
* `OkNeedsTrailer` admits a trailer without a status, and a body without frames behind a header that says OK.
* `BodyAsSent` allows for a cut between two frames and for a trailer whose text is cut short.
* `StatusIsTrue` leaves out the message of a client streaming call that ends with OK and no message. `OkMeansReturned` and
  `OkIsTheMethods` name the `RpcError` with the code OK.
* `RelayLosesNothing` is the same property in both runs: no relay of `Wire_relay` runs generated code for a
  type without fields, every one of `Doc_empty_message` does. Relays know all members of a oneof or none.
* `JsonLosesNothing` takes a message in a oneof merged with the one that was there (the doc of `read`) or in its place (the
  code), and a reader that refuses a `fixed32` of 2^31 or more, which the writer writes. `ReadIsMessage` assumes that no name of an enum had to
  be ignored, `WellKnownKept` leaves out a path whose text is not reversible and a date before 1970 with a
  fraction of a second.
* `NamesMeanWhatWasAsked` is about identifiers the tables gave out for the file; not about the name `grpc`
  of the namespace import, nor about identifiers that stand in a generator's text.
* `CallsReachMethods` lets callers leave out arguments at the end only, and type registries be joined in either order.
* `GeneratedAsAsked` excepts what `Undone` names: `server_generic` beside `server_grpc1`, `optimize_speed` beside
  `optimize_code_size`, and styles of clients and servers and methods for speed beside `only_interface` or `only_http`. It
  asks for the suffix of `add_pb_suffix` on the files of proto files only, and for nothing of `output_legacy_commonjs` in TypeScript.
* `ReflectionMeansDescriptor` leaves out groups, `OptionsAreTheirs` messages with groups and extensions declared
  in nested messages, `InterfaceIsChecked` objects whose `oneofKind` is a field of no oneof, and arrays where a map
  or a message stands.

### Bounds
All bounds are constants of the modules and act through guards (`MaxMessages`, `MaxDepth`, `MaxRequests`,
`MaxSends`, `MaxTime`, `MaxPosts`, `MaxInputs`), or are the sets of inputs in the MC modules. Two messages are
the least with which order, a message in the queue behind another, and loss in the middle can be told; two
callbacks in one list (of a context) the least with which a removal shifts one; two loops the least that share an iterator.
The fields of a message do not depend on each other but for oneofs and order, so that one value of each
field at each border of its encoding, and two full messages, meet every case of the readers; the 64 bit
values have bits on each border of the seven bit groups and zeros in each limb of the decimal text. Collisions
of names need two files, one with a library of types and one with the service that uses them; every
name in them is one that a generator asks for or makes. `CHECK_DEADLOCK FALSE` stands where a system may
stop: a closed stream whose readers are done, a chat whose users have left, data that has been received, a
request that has been answered.

### Fairness
* `FairSpec`: synchronous code runs on (`Dispatch`), a loop that was started asks for its next
  result or breaks, and the source ends its stream at last. JavaScript runs a function to its end
  and a `for await` loop is driven by its own promise; that the source ends is an assumption of
  `LoopsEnd`, and is discharged for grpc-web by `CallEnds`, which does not assume it.
* `FairCallSpec`: the chain of promise handlers goes on when fetch or the body answers or fails, and
  callbacks return. Not assumed: that the server ends with a trailer, or that it succeeds. It is assumed
  that fetch answers or fails, as it does on a lost connection.
* `FairChatSpec`: continuations run and every `send` is acknowledged. It is not assumed that a client
  closes its call. The counterexample of `Doc_join_never_ends` is therefore no mere pause.
* `FairTestSpec`: timers fire and JavaScript runs on. Nobody has to abort, to send or to read.

## 5. What is proved

For all values of the constants, from the named assumptions on them (`StreamAssumption`, `ContextAssumption`,
`ChatAssumption` ...), without bounds other than those the guards name. Every property below is also
checked by a run, on its small instance. An invariant is proved in three steps: it holds initially, every action
keeps it, it implies the property; the lemmas are one for each action.

**`RpcOutputStreamProofs`** - for any callbacks, any finite number of loops, any depth:

* `TypeCorrect == Spec => []TypeOK`.
* `IteratorLosesNothing == Spec => [](IteratorFifo /\ PendingMeansDrained)`. What the property says follows from
  `PushedInOrder`: queue and answers are together what was pushed, the emissions since the first iterator plus one repeated end
  for each late loop. By itself this is not inductive: if a promise were pending beside a queued result, `pushIt` would hand
  a new result past the queued one. So the invariant (`IteratorInv`) adds `PendingMeansDrained` (a
  pending promise means an empty queue and a loop that waits) and `ClosedHasEnd` (a closed stream has
  an end in its log, which `RepeatEnd` can push). The lemma `PushItFifo` is the heart: one push
  makes the sequence longer by one, at its end, whether it goes to the promise or to the queue.
* `NothingFollowsTheEnd == Spec => []NothingAfterEnd`. The end is walked through two lists, by callbacks that
  change them. `EndInv` says that only the innermost notify call may hand out an end (`EndsOnTop`); that
  while it does, who has heard it stands behind the walk, once in the list of his kind (`OneByOne`, `OwnList`); and that
  afterwards nobody who has heard it is in a list, unless `cut` (`LetGo`). Trying to prove the property as
  it stood before, without `cut`, is how the exception was found.
* `EveryoneIsServed == Spec => []ListenersServed`, for any callbacks: the property ends where one of them disturbs the
  stream (`disturbed`), since a removal from within a callback shifts the list that is walked, a nested emission overtakes the one
  under way, and an exception cuts it short (section 7). `HearInv`, which holds until then, splits the callbacks into those whose turn
  of the last emission is still to come (`Waits`), who have heard all emissions but that one, and the others, who have heard all (`Hears`);
  and says that nobody registered is missing from the list of his kind as long as it will be walked (`Listed`).
* `ResultsAreOneSequence == Spec => ImplementsAsyncResults`: each step of the stream produces one result of the
  abstract sequence, hands one out, makes a reader wait, or is a stutter - `Pushed` maps the i-th result to the
  emission it stands for, and `IteratorFifo` makes the mapping a function of what was pushed alone.

**`GrpcWebCallProofs`** - for any number of messages, callbacks and loops:

* `CallFeedsStream == CallSpec => Spec`: a call is a behaviour of its stream, so that all of the above holds of it.
* `StatusAgreesWithStream` and `OkAlwaysNeedsTrailer` state `StreamAgreesWithStatus` and `OkNeedsTrailer`. `CallInv` says for
  each place of the promise chain what is settled, how the stream stands (`ChainAt`), what was read of
  the response (`ReadSoFar`), and that the chain is inside one notify call at most (`OneNotify`), which is
  why a callback that throws always meets the handler that notified.

**`TestTransportProofs`** - for all four kinds of calls (the run leaves duplex out), any mock data and inputs:

* `TestFeedsStream == TestSpec => Spec`.
* `StatusIsThatOfResponses == TestSpec => []StatusTellsResponses`. `TestInv` says what is out of the stream at
  each delay of the chain, and that a chain which got behind the stream without an abort had all of its messages.
* `AbortStopsAll == TestSpec => NothingAfterAbort`, an action property, by cases on who could resolve what.

**`UnaryTransportsProofs`**, the body - for any bodies, in each of the three encodings, cut into any chunks and cut off anywhere:

* `BodyComesAsSent == ASSUME SmallFrames PROVE BodySpec => []BodyAsSent`. `SmallFrames` says that the data of a frame
  is shorter than 2^31 bytes: from there on `msgLen` is negative, and the code would take any five bytes for a
  whole frame (`grpc-web-format.ts:204`). The invariant, `Reading`: what could be decoded so far is the
  frames given out, encoded again, and then `byteQueue`; and `base64queue` is the part of the last group
  that has arrived. On the way to it: decoding undoes encoding, also of a text that is put together of
  padded ones (`DecodeUndoesEncode`, `PaddedText`); text that is cut at whole groups decodes part by part
  (`DecodeConcat`, `TextCut`); a length survives its four bytes (`LengthRead`); and a queue that
  `HasFrame` begins with the whole next frame, and with no other (`FrameRead`). `FlattenSeq` is a recursive function,
  so that what it makes of a concatenation is shown from its definition, by induction in the form of a least
  element of a set of numbers (`SetInduction`).

**`UnaryTransportsProofs`**, the calls - for any set of bodies:

* `CallsKeepTheContract == TransportsSpec => KeepsContract`: the refinement of `UnaryContract` by both chains.
* `TwirpTellsTheAnswer == TransportsSpec => []TwirpOutcome`.
* `MessageIsWhatWasSent == ASSUME SmallFrames PROVE TransportsSpec => []MessageIsTheServers`. `UnaryInv` counts the
  frames that the chain has read at each of its places, `BodyAsSent`, which holds of the body of a call as well, says what frames they are.

**`ChatServerProofs`**, the contexts - for any calls and callbacks, and any reentrancy:

* `ContextTypeCorrect == ContextSpec => []ContextTypeOK`.
* `CallbacksCalledOnce == ContextSpec => []CalledOnce`. `CalledOnce` does not say why the next round
  of the `for..of` calls a callback that was not called yet. `ContextInv` adds: before the
  cancellation nothing was called (`QuietBefore`), the context that is being walked is cancelled
  (`FiringIsCancelled`), a callback that was never registered was never called (`NewNotCalled`), lists
  hold registered callbacks, each once (`Registered`), and - the point of it - no callback
  *ahead* of the walk has been called (`AheadNotCalled`). A removal shifts the list towards the walk, so
  that a callback may be skipped, but never one that was called may come ahead again; a registration
  is appended at the end, and was never called.
* `AllCallbacksAreInvoked == ContextSpec => []AllCallbacksInvoked`: the other direction - as long as the walk was not
  disturbed, everyone behind it has been called, and nobody leaves the list.

**`ChatServerProofs`**, the chat - for any number of calls, posts and contexts:

* `ChatKeepsContexts`: the contexts of the chat keep both promises of a context.
* `UsersAreThoseOfOpenCalls`, `EventsAreInOrder` and `NothingIsWrittenAfterClose` state `UsersAreOpen`, `EventsInOrder` and
  `NothingAfterClose` under the hypothesis `~SameTime`: no two users join within one millisecond. The code does not
  guarantee it, and without it the properties are false (section 7): the token that is the time has to tell the users
  apart. The invariant relates the shared list, the tokens and the callbacks that the contexts have still to
  run, at every place between two awaits.

**`GrpcSystemProofs`** - for any numbers of requests and responses, any peers:

* `StatusIsAlwaysTrue == GrpcSpec => []StatusIsTrue` (client) and `OkAlwaysMeansReturned == AdapterSpec => []OkMeansReturned`
  (server), each end against any other one. Neither assumes that a method awaits its sends; the invariants of both ends
  carry the two exceptions, the call without a message and the `RpcError` with the code OK, to where they are told.
* `SystemIsItsEnds == SystemSpec => GrpcSpec /\ AdapterSpec`: the network only restricts when events come, so that what is
  proved of the ends holds in the system (`EndsTellTruth`).
* `HandlersNeverThrow == SystemSpec => []NoHandlerThrows`, `OkIsAlwaysTheMethods == SystemSpec => []OkIsTheMethods`: what is in
  the network joins the invariants of both ends.

**`ProtobuftsPluginProofs`** - for any set of requests, with any number of files, types, fields and options. The one
assumption, `RequestsAssumption`, is that protoc has accepted them (`ProtocAccepts`: types that
fields refer to exist, numbers of fields and names of enum values differ within a type, names have no `$`, options that are
set are declared as extensions of what they are set on):

* `PluginOptionsAreTheirs == PluginSpec => []OptionsAreTheirs`. A message type is handed out before its options
  are read, and reading them may make other types, whose options may need the first one again. `InterpreterInv`
  says that the calls are a stack of different types (each is made once), that each call has read all options
  before the one it waits for (`ReadBefore`), and that a type which no call is making has been read to the end
  (`ReadToTheEnd`). The property, which is about the end, says nothing of the stack and is not inductive. Beside
  it stand facts about single options: the registry finds those that are declared in files and in messages that are
  not nested (`KnownIsVisible`), and a pattern that begins the name of an option excludes it (`BeginningMatches`).
* `PluginReflectionMeansDescriptor == PluginSpec => []ReflectionMeansDescriptor`. What is omitted when a literal is printed
  is what the runtime puts in again: `PrintedFieldIsMade`, `PrintedMethodIsMade`. This rests on names. `lowerCamelCase`
  makes no `$` (`CamelCaseType`), so that a name escaped with `$` is no other name (`EscapedOnce`), and a name
  is omitted only where the runtime makes the same one. For enums, the prefix that is taken off is shared by all names
  (`PrefixIsShared`) and what is left of them tells them apart (`LocalNames`, `NamesCounted`).
* `PluginInterfaceIsChecked == PluginSpec => [](PropertiesDiffer => InterfaceIsChecked)`. The interface, the check `is`
  and `create` read the type of a field in three places; `FieldIsChecked`, `OneofIsChecked` and `CreatedFits` show
  that they see one shape of it (`Shape`), `OptionsInv` that the long type is one of the three they know.
  `PropertiesDiffer` says that no two properties of a message have one local name. Without it the interface has a
  property twice; protoc excludes this only in part, as it knows nothing of the camel case of oneofs (section 7: a oneof
  `foo_bar` beside a field `fooBar`) and accepts proto2 names that differ in capitals and `_` only. It holds of every
  request of the run.

The proof modules `EXTEND` the modules the runs check; TLC evaluates the assumptions on every run.

**Only model-checked**

* all liveness (`LoopsEnd`, `CallEnds`, `TestCallEnds`) and deadlock freedom: the provers have neither fairness nor ENABLED;
* the formats (`RelayLosesNothing`, `CutBetweenFields`, `JsonLosesNothing`, `ReadIsMessage`, `WellKnownKept`):
  their readers and writers call each other for messages in messages, as `RECURSIVE` operators, of which the
  provers know no definition;
* `NamesMeanWhatWasAsked`, `ResponseIsWhole`, `ReachedByPackage`: the names of files and symbols are texts put
  together with `\o`, which the provers know of sequences only, and the tables are folds over operators, whose
  induction takes an operator as a parameter;
* `GeneratedAsAsked` and `CallsReachMethods`: they compare fixed tables - parameters, overloads, options, stacks of
  interceptors - entry by entry, which TLC does, and on which a proof would be the same enumeration.

## 6. What is not modelled

* Metadata, call options, deadlines but the one that has expired when a call is made; `RpcError`,
  `readMethodOptions` and the deprecated stack functions.
* Floats, UTF-8, groups; maps with other keys and values than numbers; invalid and URL-safe base64 digits;
  64 bit numbers from JavaScript numbers. Relays whose parent runs one kind of code and whose child the other.
* Partial messages with missing properties, `is` deeper than one level, the setters of oneofs.
* `pack`, `unpack` and the type URL of `Any`, `Timestamp.now`, time zone offsets and calendar dates.
* The code around the identifiers of generated code, comments and headers, the additional methods of
  google types other than the well-known ones, and what the TypeScript compiler makes of a file; the values
  of custom options, options of files and services; source code info and the wording of names in messages.
* `runtime-http`: types, and one stateless function on top of an HTTP client that the caller brings. The protoc
  installer: file and network I/O. Examples but the chat server, benchmarks, conformance drivers, generated code.

## 7. Observations

Met while modelling. No run is about them: mostly no doc, test or comment says otherwise, or the doc leaves
room; where one does say otherwise, it is quoted. The four findings have runs of their own (section 4).

**Streams and contexts**

* `runtime-rpc/src/rpc-output-stream.ts:144`: a callback that removes itself while the list is walked makes the
  one behind it miss the message, where line 34 promises "every new message".
* `runtime-rpc/src/rpc-output-stream.ts:216`: a loop that begins on a complete stream is told the end, but behind what
  earlier loops have left in the queue they share; lines 17 and 202 say that it is empty. Line 225: of two loops that
  wait or read when the stream closes, one gets the end; the other finds an empty queue, leaves a promise, and waits for ever.
* `runtime-rpc/src/server-call-context.ts:92`: `onCancel` on a cancelled context registers a callback that is never
  called; removing the callback that runs makes the next one be skipped.
* `example-chat-system/server/server.ts:72`: the token of a user is the time in milliseconds. With `SameTime = TRUE`,
  `UsersAreOpen` fails: two users who join within one millisecond share a token, and the wrong one is removed.

**Transports and backend**

* `grpcweb-transport/src/grpc-web-transport.ts:176`: a callback that throws while the stream is told of an error leaves
  status and trailers pending, where `runtime-rpc/src/server-streaming-call.ts:46` and the lines behind it say that they
  resolve or reject. A body that ends or is lost before its first frame, behind a header that says OK, is a response without messages.
  Line 112: the headers resolve before the status in them is looked at, as they do for Twirp. An expired
  timeout throws from the call itself instead of rejecting its promises (`grpc-web-format.ts:41`).
* `grpcweb-transport/src/grpc-web-format.ts:204`: a frame length of 2 GiB or more becomes negative by `<<`. Line 187: digits
  left over from base64 at the end of the body are dropped without an error. Line 154 says that the promise resolves "when
  the response is complete": it also does for a body that ends between two frames, and for the cut trailer of `Doc_cut_trailer`.
* `twirp-transport/src/twirp-transport.ts:109`: an abort while the body is read becomes `dataloss`; a header name
  that comes twice throws a TypeError, which becomes `internal`; `options.timeout` is ignored.
* `grpc-transport/src/grpc-transport.ts:92`: a signal that is aborted already does not cancel. Line 236: a client streaming
  call that ends with OK and no message leaves its response pending, and `await call` with it. Line 326: `send`
  resolves with a write error.
* `grpc-backend/src/grpc-adapter.ts:120` and `253`: a `RpcError` whose code is `OK`, thrown by a method with one response, is
  handed to the callback with code 0: the client sees OK and no message. Lines 186 and 342 await the method, not
  what it has sent; 177 and 332: the promise of `send` resolves with the error of a write.
* `grpc-backend/src/grpc-adapter.ts:233`: the handlers of client streaming do not look at `closed`, as those of bidi do;
  `NoHandlerThrows` shows that the order of grpc-js' events makes this harmless.
* `runtime-rpc/src/test-transport.ts:355`: a callback that throws, or an invalid mock, rejects `streamResponses()` and
  leaves the stream open for ever; a mocked error of the responses leaves the status OK; listeners on the
  signal are never removed; an abort between response and status gives a complete stream with CANCELLED; a
  `send()` after the abort is recorded.
* `runtime-rpc/src/rpc-options.ts:72` says that the merged type registry has the types of "options" first; the code
  (`runtime/src/json-format-contract.ts:99`) and its test put the defaults first, so that a default type wins a lookup.
  Line 107: `interceptors: undefined`, given explicitly, throws or puts `undefined` into the list.

**Formats**

* `runtime/src/binary-writer.ts:82`: `finish` does not clear the buffer, although line 69 says the writer is reset.
* `runtime/src/reflection-binary-writer.ts:94`: unknown fields are written last. A relay that knows one member of a oneof and
  not the other can change which one the receiver selects; `KnownAssumption` leaves such relays out.
* `runtime/src/pb-long.ts:181`: without BigInt, a text beyond 2^64 is not refused, as it is with it (line 163);
  `goog-varint.ts:164` reads the last 24 digits only.
* `runtime/src/reflection-json-reader.ts:301`: of the 32 bit types only `uint32` is read as unsigned, so a `fixed32` of 2^31 or
  more, which `reflection-json-writer.ts:223` writes, is refused by the reader. Line 87 replaces a member of a oneof
  that is a message, where the doc of `read` (line 62) says that it is merged. An unknown name of an enum in a
  oneof, if ignored, leaves a kind without a value, which `oneof.ts:24` excludes; writing such a message throws.
  `null` is refused for repeated and map fields of `google.protobuf.Value`.
* `runtime/src/reflection-json-writer.ts:46` and the enum object of TypeScript: of two names for one number the last one
  is written.
* `runtime/src/reflection-equals.ts` compares the values of maps, not the keys. `runtime/src/reflection-type-check.ts:149`: a
  message field is checked with `depth`, where the doc says `depth - 1`; with a depth of 1 an array passes as a map;
  a `oneofKind` that names a field outside of the oneof passes.
* `plugin/src/message-type-extensions/well-known-types.ts:226`: a date before 1970 with a fraction of a second gets negative
  nanoseconds, which the JSON writer of the same type refuses. Line 364: a path like `addr1line` is not refused
  as irreversible, and comes back as `addr1_line`; an empty FieldMask keeps the paths of the message it is read into. A
  Duration without a fraction keeps the nanoseconds of its target, and what follows the `s` is not looked
  at; a Timestamp may have an offset only without a fraction. DoubleValue (line 602) is written as a float, and
  FloatValue (line 630) as a double. An Any without `@type` ignores the message it is read into.

**Generated code**

* `plugin-framework/src/typescript-imports.ts:46`: `import * as grpc` collides with a message called `grpc`.
  `Promise`, `Buffer`, `Partial` and `T` in generated text are not reserved either (`plugin/src/code-gen/local-type-name.ts:8`).
* `plugin/src/code-gen/service-client-generator-http.ts:87`: the aggregate reuses the constructor of the client that was
  generated last, with the names its types have in that file. Line 307 writes `HttpTransport` whatever the
  import is called. With both clients the HTTP client always is `FooClient$1`: the generic one registers the
  name first. `http-type-generator.ts:134`: the output of a method is given the name of its input.
* `plugin-framework/src/symbol-table.ts:125`: the clash resolver drops the last character of a name that ends in `$`
  before a clash; no name of a proto file does. `typescript-import-manager.ts` is not used.
* `plugin/src/protobufts-plugin.ts:186`: `server_generic` with `server_grpc1`, and `optimize_speed` with
  `optimize_code_size`, are accepted, and the second one wins, although the description of each says what it generates;
  styles of clients and servers, and optimizing for speed, have no effect beside `only_interface` or `only_http`, nor
  `output_legacy_commonjs` without JavaScript; `add_pb_suffix` is not put on `http-client` and the
  indexes, where its description says all generated files.
* grpc-js drops the options of a streaming call whose metadata are given as `undefined`, which the overloads of
  `service-client-generator-grpc.ts` allow.
* `plugin/src/interpreter.ts:223`: descriptors and fields are paired by position, although groups are left out: behind a
  group, fields get the options of others. Options that a message extends deeper than in a top-level message
  are not found (`descriptor-info.ts:325`). The wildcard of `exclude_options` is not anchored: `acme.*` drops
  `com.acme.x` as well. A oneof `foo_bar` and a field `fooBar` collide; a oneof whose first member is a group
  stops the plugin. `jstype = JS_NORMAL` always is bigint, where the comment says the normal long type.
* `plugin/src/code-gen/method-info-generator.ts:93` deletes `info` where `options` is meant: empty options are printed.
  `shouldBePackedRepeated` (`descriptor-info.ts:595`) does not look at the label; `TypeNameLookup.from` of an array does not
  end; the options of a service leave out those of clients, but not those of servers (`interpreter.ts`).

## 8. Running it

`tlc -config <run>.cfg <module>` with the module of `PROJECT.json`; `tlapm <module>.tla` with one of
the modules whose names end in `Proofs`. The runs take from a few seconds to some three minutes with two workers.
