----------------------------- MODULE MCTwoPhase -----------------------------
(* Instances of TwoPhase for model checking. *)
EXTENDS TwoPhase, TLC

CONSTANTS h1, h2, s1, s2, n01, n02, v1, v2

Put(k, v) == [op |-> "PUT", key |-> k, val |-> v]
Get(k)    == [op |-> "GET", key |-> k, val |-> v1]
Delete(k) == [op |-> "DELETE", key |-> k, val |-> v1]

\* One handler on each of two servers.
TwoServers == (h1 :> s1) @@ (h2 :> s2)
\* Two handlers compete for the mutex of one server.
OneServer == (h1 :> s1) @@ (h2 :> s1)

WriteAndRead == {Put(0, v1), Get(0)}
AllOps == {Put(0, v1), Get(0), Delete(0)}
=============================================================================
