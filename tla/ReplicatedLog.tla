---------------------------- MODULE ReplicatedLog ----------------------------
(***************************************************************************)
(* What project_3 and project_4 promise for writes: there is one order of  *)
(* the commands, and every replica executes that order without a gap.  A   *)
(* command enters the order when the coordinator commits it, once; a       *)
(* replica may lag behind, and replicas lag independently.                 *)
(***************************************************************************)
EXTENDS Naturals, Sequences, Functions

CONSTANTS Replica, Command

VARIABLES
    decided,   \* the commands in commit order
    log        \* log[p]: the commands replica p has executed, in order

vars == <<decided, log>>

TypeOK ==
    /\ decided \in Seq(Command)
    /\ log \in [Replica -> Seq(Command)]

Init ==
    /\ decided = <<>>
    /\ log = [p \in Replica |-> <<>>]

Decide(c) ==
    /\ c \notin Range(decided)
    /\ decided' = Append(decided, c)
    /\ UNCHANGED log

Apply(p) ==
    /\ Len(log[p]) < Len(decided)
    /\ log' = [log EXCEPT ![p] = Append(@, decided[Len(@) + 1])]
    /\ UNCHANGED decided

Next == (\E c \in Command : Decide(c)) \/ (\E p \in Replica : Apply(p))

Spec == Init /\ [][Next]_vars
=============================================================================
