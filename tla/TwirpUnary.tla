----------------------------- MODULE TwirpUnary -----------------------------
(* TwirpFetchTransport.unary: one fetch and one chain of promise handlers,   *)
(* with the whole body read at once, as JSON or as bytes.                    *)
EXTENDS UnaryDeferreds

VARIABLES
    twirpAt,    \* where the chain is
    sendJson,   \* options.sendJson
    response,   \* what the server, or fetch, answers
    error       \* the code of the error on its way to catch

twirpVars == <<twirpAt, sendJson, response, error>>

\* The answer: the headers may repeat a name (parseMetadataFromResponseHeaders
\* then throws), an opaque response has no body to read, and a body is a twirp
\* error, a message of the method, anything else, or cannot be read (the
\* connection breaks, the call is aborted meanwhile, it is no JSON where JSON is
\* expected).
Responses ==
    [headers : {"plain", "repeated"}, type : {"basic", "opaque"}, ok : BOOLEAN,
     body : {"twirp error", "message", "other", "broken"}]

TwirpInit ==
    /\ twirpAt = "idle" /\ error = "none"
    /\ sendJson \in BOOLEAN
    /\ response \in Responses

TwirpThrow(code) == twirpAt' = "catch" /\ error' = code

\* unary(): the request is made and sent.
TwirpStart ==
    /\ twirpAt = "idle"
    /\ twirpAt' = "fetch"
    /\ UNCHANGED <<def, sendJson, response, error>>

\* The first handler, when fetch rejects: an abort, or a network error.
FetchRejects ==
    /\ twirpAt = "fetch"
    /\ \E code \in {"cancelled", "UNKNOWN"} : TwirpThrow(code)
    /\ UNCHANGED <<def, sendJson, response>>

\* The reader the first handler chooses for the body.
BodyReader ==
    IF ~response.ok THEN "readError" ELSE IF sendJson THEN "readJson" ELSE "readBinary"

\* Mutant: the status of the response is not looked at.
BodyReaderUnchecked == IF sendJson THEN "readJson" ELSE "readBinary"

\* The first handler: the headers are resolved before anything else is known.
FetchResolves ==
    /\ twirpAt = "fetch"
    /\ \/ /\ response.headers = "repeated"
          /\ TwirpThrow("internal") /\ UNCHANGED def
       \/ /\ response.headers = "plain"
          /\ Resolve({"header"})
          /\ \/ response.type = "opaque" /\ TwirpThrow("unknown")
             \/ response.type = "basic" /\ twirpAt' = BodyReader /\ UNCHANGED error
    /\ UNCHANGED <<sendJson, response>>

\* Mutant: the handler for an unreadable body also gets the error that was
\* read (`.then(f).catch(g)` in place of `.then(f, g)`).
ErrorOverridden(body) == "internal"

\* parseTwirpErrorResponse; a body that cannot be read is an error like one
\* that is not a twirp error.
ErrorOf(body) == IF body = "twirp error" THEN "server" ELSE "internal"

\* The body of an error response.
ReadError ==
    /\ twirpAt = "readError"
    /\ TwirpThrow(ErrorOf(response.body))
    /\ UNCHANGED <<def, sendJson, response>>

\* The body of an ok response: fromJson and fromBinary throw an error that is
\* no RpcError for anything but a message.
ReadMessage ==
    /\ twirpAt \in {"readJson", "readBinary"}
    /\ \/ response.body = "message" /\ twirpAt' = "message" /\ UNCHANGED error
       \/ response.body \in {"other", "twirp error"} /\ TwirpThrow("internal")
       \/ response.body = "broken" /\ TwirpThrow("dataloss")
    /\ UNCHANGED <<def, sendJson, response>>

\* The second handler.
ResolveAll ==
    /\ twirpAt = "message"
    /\ Resolve({"message", "status", "trailer"})
    /\ twirpAt' = "settled"
    /\ UNCHANGED <<sendJson, response, error>>

\* The catch handler.
TwirpCatch ==
    /\ twirpAt = "catch"
    /\ RejectPending(Deferreds)
    /\ twirpAt' = "settled"
    /\ UNCHANGED <<sendJson, response, error>>

TwirpChain ==
    \/ TwirpStart \/ FetchRejects \/ FetchResolves \/ ReadError \/ ReadMessage
    \/ ResolveAll \/ TwirpCatch

-----------------------------------------------------------------------------
(* Once fetch has answered: OK is reported exactly for an ok response whose   *)
(* whole body is a message, the code of the twirp error that the server sent *)
(* reaches the caller, and data that was lost is not blamed on the server -  *)
(* although every error passes the handlers behind it on its way to catch.   *)
TwirpOutcome ==
    twirpAt = "settled" /\ def["header"] = "resolved" /\ response.type = "basic" =>
        /\ def["status"] = "resolved" <=> response.ok /\ response.body = "message"
        /\ error = "server" <=> ~response.ok /\ response.body = "twirp error"
        /\ error = "dataloss" <=> response.ok /\ response.body = "broken"
=============================================================================
