------------------------------ MODULE KVService ------------------------------
(***************************************************************************)
(* What a client of the single servers (project_1 over UDP and TCP,        *)
(* project_2 over RPC) is promised while nothing goes wrong: a command is  *)
(* executed once, on one table, between its call and its answer, and the   *)
(* answer is the one that execution gave.                                  *)
(***************************************************************************)
EXTENDS KeyVal

CONSTANTS
    Client,
    Command,   \* the commands clients may send: records [op, key, val]
    None

VARIABLES
    table,     \* the key-value table
    cmd,       \* cmd[c]: the command client c waits for, or None
    result,    \* result[c]: what its execution answered, or None
    told       \* told[c]: the last answer client c was given, or None

vars == <<table, cmd, result, told>>

Init ==
    /\ table = EmptyStore
    /\ cmd = [c \in Client |-> None]
    /\ result = [c \in Client |-> None]
    /\ told = [c \in Client |-> None]

Call(c) ==
    /\ cmd[c] = None
    /\ \E m \in Command : cmd' = [cmd EXCEPT ![c] = m]
    /\ UNCHANGED <<table, result, told>>

Serve(c) ==
    /\ cmd[c] # None /\ result[c] = None
    /\ result' = [result EXCEPT ![c] = Reply(table, cmd[c].op, cmd[c].key)]
    /\ table' = Apply(table, cmd[c].op, cmd[c].key, cmd[c].val)
    /\ UNCHANGED <<cmd, told>>

Return(c) ==
    /\ result[c] # None
    /\ told' = [told EXCEPT ![c] = result[c]]
    /\ cmd' = [cmd EXCEPT ![c] = None]
    /\ result' = [result EXCEPT ![c] = None]
    /\ UNCHANGED table

Next == \E c \in Client : Call(c) \/ Serve(c) \/ Return(c)

Spec == Init /\ [][Next]_vars
=============================================================================
