------------------------- MODULE MCRpcOutputStream -------------------------
(* Small instances of RpcOutputStream: two callbacks, two loops.             *)
EXTENDS RpcOutputStream

CONSTANTS l1, l2, c1, c2

\* A callback for messages and one for every emission.
MessageAndNext == l1 :> "msg" @@ l2 :> "nxt"
=============================================================================
