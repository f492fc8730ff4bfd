---------------------------- MODULE MCUdpSession ----------------------------
(* Instances of UdpSession for model checking. *)
EXTENDS UdpSession

CONSTANTS v1, v2

Put(k, v)  == [op |-> "PUT", key |-> k, val |-> v]
Get(k)     == [op |-> "GET", key |-> k, val |-> v1]
Delete(k)  == [op |-> "DELETE", key |-> k, val |-> v1]
TooLong    == [op |-> "ERROR", key |-> 0, val |-> v1]
QuitTyped  == [op |-> "Q", key |-> 0, val |-> v1]
LowerQ     == [op |-> "q", key |-> 0, val |-> v1]
Improper   == [op |-> "BAD", key |-> 0, val |-> v1]

TwoPuts  == <<Put(0, v1), Put(1, v1)>>
Anything == {Put(0, v2), Get(0), Get(5), Delete(0), TooLong, QuitTyped, LowerQ, Improper}
=============================================================================
