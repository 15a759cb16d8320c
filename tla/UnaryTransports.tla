--------------------------- MODULE UnaryTransports ---------------------------
(* The two fetch transports that make unary calls, each with its own chain,  *)
(* behind the same four promises.                                            *)
EXTENDS GrpcWebUnary, TwirpUnary

VARIABLE transport   \* whose unary() is called: "grpc-web" or "twirp"

transportsVars == <<unaryVars, twirpVars, transport>>

\* The state of the transport that is not called is fixed.
TransportsInit ==
    /\ transport \in {"grpc-web", "twirp"}
    /\ UnaryInit
    /\ TwirpInit
    /\ transport = "twirp" =>
         body = <<>> /\ encoding = "binary" /\ sent = [x \in DOMAIN sent |-> "none"]
    /\ transport = "grpc-web" =>
         response = [headers |-> "plain", type |-> "basic", ok |-> TRUE, body |-> "message"]
         /\ ~sendJson

CallOver == pc \in {"settled", "refused"} \/ twirpAt = "settled"

\* A call that is over: the only state in which nothing has to happen. (A
\* chain that is stuck anywhere else is a deadlock.)
Over == CallOver /\ UNCHANGED transportsVars

TransportsNext ==
    \/ transport = "grpc-web" /\ UnaryNext /\ UNCHANGED <<twirpVars, transport>>
    \/ transport = "twirp" /\ TwirpChain
       /\ UNCHANGED <<bodyVars, pc, maybeMessage, maybeStatus, maybeTrailer, thrown, sent>>
       /\ UNCHANGED transport
    \/ Over

TransportsSpec == TransportsInit /\ [][TransportsNext]_transportsVars

-----------------------------------------------------------------------------
(* Bodies of a small instance: no message, one, two, with a trailer or       *)
(* without. The data bytes look like frame types, and the frames have every  *)
(* remainder of three, so that groups of base64 straddle frames in every way.*)

Data(s) == [type |-> DATA, data |-> s]
Trailer(s) == [type |-> TRAILER, data |-> s]

UnaryBodies ==
    { <<>>, <<Data(<<>>)>>, <<Trailer(<<0, 7>>)>>, <<Data(<<128>>)>>,
      <<Data(<<128>>), Trailer(<<7>>)>>,
      <<Data(<<0, 0>>), Data(<<>>), Trailer(<<7>>)>>,
      <<Data(<<>>), Data(<<128, 0, 0>>), Trailer(<<>>)>> }
=============================================================================
