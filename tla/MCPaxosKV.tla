----------------------------- MODULE MCPaxosKV -----------------------------
(* Instances of PaxosKV for model checking. *)
EXTENDS PaxosKV, TLC

CONSTANTS h1, h2, s1, s2, n01, n02, n03, n04, n05, v1, v2, nfs

Put(k, v) == [op |-> "PUT", key |-> k, val |-> v]
Get(k)    == [op |-> "GET", key |-> k, val |-> v1]
Delete(k) == [op |-> "DELETE", key |-> k, val |-> v1]

\* One handler on each of two servers.
TwoServers == (h1 :> s1) @@ (h2 :> s2)
\* One handler.
OneHandler == (h1 :> s1)

\* Every process runs in the same directory.
SharedDisk == [x \in Server \cup Acceptor |-> nfs]
\* Every node has a directory of its own; the server runs on n01.
OwnDisksOneServer == (s1 :> n01) @@ [a \in Acceptor |-> a]

\* The servers run on two other nodes.
ApartDisks == (s1 :> n04) @@ (s2 :> n05) @@ [a \in Acceptor |-> a]

OnePut == {Put(0, v1)}
WriteAndRead == {Put(0, v1), Get(0)}
=============================================================================
