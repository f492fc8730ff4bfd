------------------------------ MODULE Selector ------------------------------
(***************************************************************************)
(* project_4: the selector and the quorum it decides.  selector.c connects *)
(* to every heartbeat server in turn, counts those that answer, and writes *)
(* the count to the file SYSTEM_buffer when it is not the one before;      *)
(* get_quorum() of a proposer reads that file at any time.  heartbeat.c    *)
(* accepts connections and closes them: a node is up or it is not.         *)
(*                                                                         *)
(* Nodes fail and come back during a sweep.  The file is empty between     *)
(* fopen(), which truncates it, and fclose(), which writes it.  A socket   *)
(* whose connect() fails is never closed; when no descriptor is left       *)
(* socket() makes the selector exit, and fopen() a null pointer that       *)
(* fputs() follows.  Whoever starts it again finds the file as it was.     *)
(* leader_election() is called nowhere: the leader is always "dummy".      *)
(***************************************************************************)
EXTENDS Integers, FiniteSets

CONSTANTS
    Len,            \* number of heartbeat servers: 4 in the code
    Proposer,       \* the threads that call get_quorum()
    Shipped,        \* what SYSTEM_buffer holds at first
    MaxDescriptor,  \* descriptors a process may open
    MaxFlips,       \* bound: times a node fails or comes back
    MaxStarts,      \* bound: times the selector is started again
    Unknown,        \* the file while it is empty
    Garbage         \* what atoi() makes of a c[] that fscanf() left as it was

VARIABLES
    up,       \* the nodes whose heartbeat server runs
    pc,       \* the selector: "probe", "flush" the file, or "down"
    i,        \* heartbeat(): the node to connect to next
    alive,    \* heartbeat(): nodes counted
    lastVal,  \* last_val
    leaked,   \* sockets left open
    file,     \* SYSTEM_buffer: a count, or Unknown while it is empty
    quorum,   \* quorum[p]: what get_quorum() returned last, at first 0
    flips,    \* nodes that failed or came back so far
    starts,   \* times the selector was started again
    wrote,    \* history: this selector has written the file
    found,    \* history: what was in the file when this selector began
    whole,    \* history: the proposers whose last quorum is that of a count
    always,   \* history: nodes up since the sweep began
    ever,     \* history: nodes up at some time since the sweep began
    repaired  \* history: some node came back

selectorVars == <<pc, i, alive, lastVal, leaked>>
startVars == <<wrote, found>>
readVars == <<quorum, whole>>
vars == <<up, selectorVars, file, startVars, readVars, flips, starts, always, ever, repaired>>

Node == 1 .. Len

ASSUME SelectorAssumption ==
    /\ Len \in Nat \ {0} /\ Shipped \in Nat /\ Shipped >= Len
    /\ MaxDescriptor \in Nat \ {0} /\ MaxFlips \in Nat /\ MaxStarts \in Nat
    /\ Unknown \notin Int /\ Garbage \subseteq Int

TypeOK ==
    /\ up \subseteq Node
    /\ pc \in {"probe", "flush", "down"}
    /\ i \in 1 .. Len + 1 /\ alive \in 0 .. Len
    /\ lastVal \in 0 .. Len
    /\ leaked \in 0 .. MaxDescriptor
    /\ file \in 0 .. Shipped \cup {Unknown}
    /\ quorum \in [Proposer -> Int] /\ whole \subseteq Proposer
    /\ wrote \in BOOLEAN /\ found \in 0 .. Shipped \cup {Unknown}
    /\ flips \in 0 .. MaxFlips /\ starts \in 0 .. MaxStarts
    /\ always \subseteq ever /\ ever \subseteq Node
    /\ repaired \in BOOLEAN

\* The processes may be started in any order.
Init ==
    /\ up \in SUBSET Node
    /\ pc = "probe" /\ i = 1 /\ alive = 0 /\ lastVal = 0 /\ leaked = 0
    /\ file = Shipped /\ wrote = FALSE /\ found = Shipped
    /\ quorum = [p \in Proposer |-> 0] /\ whole = {}
    /\ flips = 0 /\ starts = 0
    /\ always = up /\ ever = up
    /\ repaired = FALSE
-----------------------------------------------------------------------------
(* The nodes. *)

Flip ==
    /\ flips < MaxFlips /\ flips' = flips + 1
    /\ UNCHANGED <<selectorVars, file, startVars, readVars, starts>>

Fail(n) ==
    /\ n \in up /\ Flip
    /\ up' = up \ {n} /\ always' = always \ {n}
    /\ UNCHANGED <<ever, repaired>>

ComeBack(n) ==
    /\ n \in Node \ up /\ Flip
    /\ up' = up \cup {n} /\ ever' = ever \cup {n}
    /\ repaired' = TRUE
    /\ UNCHANGED always
-----------------------------------------------------------------------------
(* The selector. *)

nodeVars == <<up, found, readVars, flips, starts, repaired>>

\* Mutant of Exhausted: the limit is not seen.
NeverExhausted == FALSE

Exhausted == leaked = MaxDescriptor

\* tcp_connect(), and close() when it succeeded.
Connect(n) ==
    IF n \in up THEN alive' = alive + 1 /\ UNCHANGED leaked
    ELSE leaked' = leaked + 1 /\ UNCHANGED alive

Probe ==
    /\ pc = "probe" /\ i <= Len
    /\ IF Exhausted THEN pc' = "down" /\ UNCHANGED <<i, alive, leaked>>
       ELSE Connect(i) /\ i' = i + 1 /\ UNCHANGED pc
    /\ UNCHANGED <<lastVal, file, wrote, always, ever, nodeVars>>

\* Mutant of NextSweep: alive is set to 0 only once.
NextSweepKeepsCount ==
    /\ i' = 1 /\ pc' = "probe" /\ alive' = IF alive = Len THEN 0 ELSE alive
    /\ always' = up /\ ever' = up

\* heartbeat() is called again.
NextSweep ==
    /\ i' = 1 /\ alive' = 0 /\ pc' = "probe"
    /\ always' = up /\ ever' = up

\* Mutant of Changed: only the first count is written.
FirstCount == ~ wrote /\ lastVal # alive

Changed == lastVal # alive

\* The end of a sweep whose count is the one before.
Unchanged ==
    /\ pc = "probe" /\ i > Len /\ ~ Changed
    /\ NextSweep
    /\ UNCHANGED <<lastVal, leaked, file, wrote, nodeVars>>

\* The end of a sweep with another count: fopen(name, "w").
Truncate ==
    /\ pc = "probe" /\ i > Len /\ Changed
    /\ lastVal' = alive
    /\ IF Exhausted THEN pc' = "down" /\ UNCHANGED file
       ELSE pc' = "flush" /\ file' = Unknown
    /\ UNCHANGED <<i, alive, leaked, wrote, always, ever, nodeVars>>

\* Mutant of Flush: fclose() is missing.
FlushNothing ==
    /\ pc = "flush" /\ wrote' = TRUE
    /\ NextSweep
    /\ UNCHANGED <<lastVal, leaked, file, nodeVars>>

\* fclose() writes what fputs() left in the buffer.
Flush ==
    /\ pc = "flush"
    /\ file' = alive /\ wrote' = TRUE
    /\ NextSweep
    /\ UNCHANGED <<lastVal, leaked, nodeVars>>

Kill ==
    /\ pc # "down" /\ pc' = "down"
    /\ UNCHANGED <<i, alive, lastVal, leaked, file, wrote, always, ever, nodeVars>>

\* main() of a new selector.
Start ==
    /\ pc = "down" /\ starts < MaxStarts
    /\ starts' = starts + 1
    /\ NextSweep /\ lastVal' = 0 /\ leaked' = 0
    /\ wrote' = FALSE /\ found' = file
    /\ UNCHANGED <<up, file, readVars, flips, repaired>>

\* Mutant of QuorumOf: not a majority of an even number.
QuorumHalf(n) == (n + 1) \div 2

\* The division of C goes towards 0.
QuorumOf(n) == IF n >= 0 THEN n \div 2 + 1 ELSE 1 - (- n) \div 2

\* get_quorum().  From an empty file fscanf() reads nothing, and c[] holds
\* whatever was on the stack: the proposer goes on with the quorum of that.
GetQuorum(p) ==
    /\ IF file = Unknown
       THEN whole' = whole \ {p} /\ \E g \in Garbage : quorum' = [quorum EXCEPT ![p] = QuorumOf(g)]
       ELSE whole' = whole \cup {p} /\ quorum' = [quorum EXCEPT ![p] = QuorumOf(file)]
    /\ UNCHANGED <<up, selectorVars, file, startVars, flips, starts, always, ever, repaired>>

SelectorStep == Probe \/ Unchanged \/ Truncate \/ Flush

Next ==
    \/ \E n \in Node : Fail(n) \/ ComeBack(n)
    \/ SelectorStep \/ Kill \/ Start
    \/ \E p \in Proposer : GetQuorum(p)

Spec == Init /\ [][Next]_vars

\* The selector sleeps between two sweeps, and goes on.
FairSpec == Spec /\ WF_vars(SelectorStep)
-----------------------------------------------------------------------------
(* Properties. *)

\* The count of a sweep lies between the nodes that were up all through it and
\* those that were up at some time of it, those it has reached so far.
CountBounds ==
    pc # "down" =>
        /\ Cardinality(always \cap 1 .. i - 1) <= alive
        /\ alive <= Cardinality(ever \cap 1 .. i - 1)

\* Between two writes the file holds the last count, once this selector has
\* written it.  Until then every count was 0, the value last_val starts with: it
\* was not written, and the file is as this selector found it, however old.
FileIsLastCount ==
    pc = "probe" => IF wrote THEN file = lastVal ELSE lastVal = 0 /\ file = found

\* While nodes only fail, and however old the counts that two proposers have
\* read, the quorums they can gather among the nodes that are up have a node in
\* common.  It is said of quorums read from a count, not of those made of an
\* uninitialised c[], which may be 1; and of nodes that are up now, since those
\* of an earlier quorum may all have failed.
QuorumsMeet ==
    ~ repaired =>
        \A p, q \in whole : \A P, Q \in SUBSET up :
            Cardinality(P) >= quorum[p] /\ Cardinality(Q) >= quorum[q] => P \cap Q # {}

\* In the end all nodes are up and the file says so, or the selector has ended:
\* it does not survive a node that stays down, which costs it a descriptor in
\* every sweep.
SettlesOrEnds == <>[](pc = "down" \/ (up = Node /\ file = Len))
=============================================================================
