---------------------------- MODULE MCRpcDispatch ----------------------------
(* Instances of RpcDispatch for model checking. *)
EXTENDS RpcDispatch, TLC

CONSTANTS c1, c2, v1

Put(k, v)  == [op |-> "PUT", key |-> k, val |-> v]
Get(k)     == [op |-> "GET", key |-> k, val |-> v1]
Delete(k)  == [op |-> "DELETE", key |-> k, val |-> v1]

OnePut   == (c1 :> <<Put(0, v1)>>) @@ (c2 :> <<>>)
Calls    == (c1 :> 2) @@ (c2 :> 1)
Anything == (c1 :> {Get(0)}) @@ (c2 :> {Delete(0)})
=============================================================================
