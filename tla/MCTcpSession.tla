---------------------------- MODULE MCTcpSession ----------------------------
(* Instances of TcpSession for model checking. *)
EXTENDS TcpSession

CONSTANTS v1, v2

Put(k, v)  == [op |-> "PUT", key |-> k, val |-> v]
Get(k)     == [op |-> "GET", key |-> k, val |-> v1]
Delete(k)  == [op |-> "DELETE", key |-> k, val |-> v1]
TooLong    == [op |-> "ERROR", key |-> 0, val |-> v1]
QuitTyped  == [op |-> "Q", key |-> 0, val |-> v1]
LowerQ     == [op |-> "q", key |-> 0, val |-> v1]
Improper   == [op |-> "BAD", key |-> 0, val |-> v1]

\* As long as "PUT:0:Monday", "PUT:1:Tuesday" and "PUT:2:Wednesday".
ThreePuts == <<Put(0, v1), Put(1, v1), Put(2, v1)>>
Lengths   == <<12, 13, 15>>
Anything  == {Put(0, v2), Get(0), Get(5), Delete(0), TooLong, QuitTyped, LowerQ, Improper}
=============================================================================
