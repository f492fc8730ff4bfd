----------------------------- MODULE UdpSession -----------------------------
(***************************************************************************)
(* project_1 over UDP: one run of udpclient.c against udpserver.c.         *)
(*                                                                         *)
(* The client first sends the PUTs of INIT in init(), then the commands    *)
(* its user types in main().  After each it waits in select() and resends  *)
(* while select() reports nothing, until SendLimit sends are counted.      *)
(* Three things are set once and not for each wait.  The fd_set: a select  *)
(* that times out clears it, and no later select sees the socket.  The     *)
(* timeout: Linux stores in it what is left, nothing after a timeout, so   *)
(* the later selects return at once.  The count: init() starts it once for *)
(* all of INIT.  init() works on copies of the set and of the timeout;     *)
(* main() starts with its own, unused.  An answer is not matched with a    *)
(* command: the first datagram that is there is printed.                   *)
(*                                                                         *)
(* The network may lose and reorder datagrams, in both directions: one     *)
(* that is lost is one that nobody ever reads.  It does not duplicate      *)
(* them, and a copy is numbered by the send that made it.  The answers not *)
(* yet read are all in answers, arrived or not: a wait may time out        *)
(* whatever is there.                                                      *)
(***************************************************************************)
EXTENDS Integers, Sequences

CONSTANTS
    InitPuts,     \* INIT: the commands init() sends, seven PUTs in the code
    Typed,        \* the commands a user may type
    SendLimit,    \* 5 in the code
    MaxCommands,  \* bound: commands of the session, those of INIT included
    TableSize, Value, Blank, InvalidKey,
    None

VARIABLES
    pc,         \* the client: "send", "wait" in select(), "closed"
    n,          \* number of the last command sent
    cmd,        \* that command: send_buff or INIT[i]
    sendCount,  \* send_count
    watched,    \* the socket is still in the fd_set of the loop
    shown,      \* shown[i]: number of the command whose answer was printed for i
    told,       \* the last answer printed
    requests,   \* datagrams to the server
    answers,    \* datagrams to the client
    serving,    \* the server runs
    store,      \* its table
    executed,   \* history: the copies the server executed, with the answer
    timedOut,   \* history: some select() timed out
    deafFrom    \* history: the command of INIT at which one did, or 0

clientVars == <<pc, n, cmd, sendCount, watched, shown, told>>
serverVars == <<serving, store, executed>>
vars == <<clientVars, requests, answers, serverVars, timedOut, deafFrom>>

KV == INSTANCE KeyVal

\* What the first token says: "ERROR" is a command of too many tokens, "BAD" one
\* whose first token is no command.  A command has the tokens it needs: without
\* them the server reads what its array of tokens happens to hold.
Op == {"PUT", "GET", "DELETE", "ERROR", "q", "Q", "BAD"}
Commands == [op : Op, key : Int, val : Value]

ASSUME SessionAssumption ==
    /\ InitPuts \in Seq(Commands) /\ Typed \subseteq Commands
    /\ SendLimit \in Nat \ {0} /\ MaxCommands \in Nat /\ Len(InitPuts) <= MaxCommands
    /\ TableSize \in Nat
    /\ None \notin Commands /\ None \notin KV!Replies

Number == 1 .. MaxCommands
Requests == [n : Number, copy : 1 .. SendLimit, cmd : Commands]
Answers == [n : Number, copy : 1 .. SendLimit, text : KV!Replies]

InInit(i) == i <= Len(InitPuts)

TypeOK ==
    /\ pc \in {"send", "wait", "closed"}
    /\ n \in 0 .. MaxCommands /\ cmd \in Commands \cup {None}
    /\ sendCount \in 1 .. SendLimit
    /\ watched \in BOOLEAN
    /\ shown \in [Number -> 0 .. MaxCommands]
    /\ told \in KV!Replies \cup {None}
    /\ requests \subseteq Requests
    /\ answers \subseteq executed /\ executed \subseteq Answers
    /\ serving \in BOOLEAN /\ store \in KV!Stores
    /\ timedOut \in BOOLEAN /\ deafFrom \in 0 .. Len(InitPuts)

Init ==
    /\ pc = "send" /\ n = 0 /\ cmd = None /\ sendCount = 1 /\ watched = TRUE
    /\ shown = [i \in Number |-> 0] /\ told = None
    /\ requests = {} /\ answers = {}
    /\ serving = TRUE /\ store = KV!EmptyStore /\ executed = {}
    /\ timedOut = FALSE /\ deafFrom = 0
-----------------------------------------------------------------------------
(* The client. *)

Sendto(c) ==
    /\ n < MaxCommands
    /\ n' = n + 1 /\ cmd' = c
    /\ requests' = requests \cup {[n |-> n + 1, copy |-> 1, cmd |-> c]}

\* init() sends its next PUT.  Neither the count nor the set is renewed.
SendInit ==
    /\ pc = "send" /\ InInit(n + 1)
    /\ Sendto(InitPuts[n + 1])
    /\ pc' = "wait"
    /\ UNCHANGED <<sendCount, watched, shown, told, answers, serverVars, timedOut, deafFrom>>

\* main() reads a command and sends it.  The count starts anew; the set is
\* main()'s own, which is fresh at its first command only.
SendTyped(c) ==
    /\ pc = "send" /\ ~ InInit(n + 1) /\ c.op # "Q"
    /\ Sendto(c)
    /\ pc' = "wait" /\ sendCount' = 1
    /\ watched' = (watched \/ n = Len(InitPuts))
    /\ UNCHANGED <<shown, told, answers, serverVars, timedOut, deafFrom>>

\* The user types Q: it is sent once and the client ends.
Quit(c) ==
    /\ pc = "send" /\ ~ InInit(n + 1) /\ c.op = "Q"
    /\ Sendto(c)
    /\ pc' = "closed"
    /\ UNCHANGED <<sendCount, watched, shown, told, answers, serverVars, timedOut, deafFrom>>

\* select() reports the socket: one datagram is read and printed.
Receive(a) ==
    /\ pc = "wait" /\ watched /\ a \in answers
    /\ shown' = [shown EXCEPT ![n] = a.n] /\ told' = a.text
    /\ answers' = answers \ {a}
    /\ pc' = "send"
    /\ UNCHANGED <<n, cmd, sendCount, watched, requests, serverVars, timedOut, deafFrom>>

\* Mutant of NothingHeard: the set is filled again before each select().
NothingHeardRenewed ==
    /\ pc = "wait" /\ watched
    /\ UNCHANGED watched /\ timedOut' = TRUE
    /\ deafFrom' = IF InInit(n) /\ deafFrom = 0 THEN n ELSE deafFrom

\* select() reports nothing: the time passed, or it watches nothing any more.
NothingHeard ==
    /\ pc = "wait"
    /\ watched' = FALSE /\ timedOut' = TRUE
    /\ deafFrom' = IF InInit(n) /\ deafFrom = 0 THEN n ELSE deafFrom

\* Mutant of Resend: send_count is not looked at.
ResendAlways ==
    /\ NothingHeard
    /\ requests' = requests \cup {[n |-> n, copy |-> sendCount + 1, cmd |-> cmd]}
    /\ sendCount' = sendCount + 1
    /\ UNCHANGED <<pc, n, cmd, shown, told, answers, serverVars>>

Resend ==
    /\ NothingHeard
    /\ sendCount < SendLimit
    /\ requests' = requests \cup {[n |-> n, copy |-> sendCount + 1, cmd |-> cmd]}
    /\ sendCount' = sendCount + 1
    /\ UNCHANGED <<pc, n, cmd, shown, told, answers, serverVars>>

\* "Resend failed"
GiveUp ==
    /\ NothingHeard
    /\ sendCount = SendLimit
    /\ pc' = "send"
    /\ UNCHANGED <<n, cmd, sendCount, shown, told, requests, answers, serverVars>>
-----------------------------------------------------------------------------
(* The server. *)

\* Mutant of Serve: the answer is computed after the execution.
ServeThenAnswer(m) ==
    /\ serving /\ m \in requests
    /\ store' = KV!Apply(store, m.cmd.op, m.cmd.key, m.cmd.val)
    /\ LET a == [n |-> m.n, copy |-> m.copy,
                 text |-> KV!Reply(store', m.cmd.op, m.cmd.key)]
       IN  executed' = executed \cup {a} /\ answers' = answers \cup {a}
    /\ serving' = (m.cmd.op \notin {"ERROR", "q", "Q"})
    /\ requests' = requests \ {m}
    /\ UNCHANGED <<clientVars, timedOut, deafFrom>>

\* One turn of the server's loop: it executes, answers, and ends after q or Q or
\* a command of more than three tokens.  What is no command it only answers.
Serve(m) ==
    /\ serving /\ m \in requests
    /\ LET a == [n |-> m.n, copy |-> m.copy,
                 text |-> KV!Reply(store, m.cmd.op, m.cmd.key)]
       IN  executed' = executed \cup {a} /\ answers' = answers \cup {a}
    /\ store' = KV!Apply(store, m.cmd.op, m.cmd.key, m.cmd.val)
    /\ serving' = (m.cmd.op \notin {"ERROR", "q", "Q"})
    /\ requests' = requests \ {m}
    /\ UNCHANGED <<clientVars, timedOut, deafFrom>>

Waiting == (\E a \in answers : Receive(a)) \/ Resend \/ GiveUp

Next ==
    \/ SendInit
    \/ \E c \in Typed : SendTyped(c) \/ Quit(c)
    \/ Waiting
    \/ \E m \in requests : Serve(m)

Spec == Init /\ [][Next]_vars
-----------------------------------------------------------------------------
(* Properties. *)

\* The answer printed for a command is its own, unless a select() of init()
\* timed out.  Then a late answer to INIT may be printed by main() for its
\* first command, and the answers stay behind from there on.  A timeout in
\* main() never makes it print the answer of another command.
OutOfStepOnlyAfterInit ==
    \A i \in Number :
        shown[i] \in {0, i} \/ (0 < deafFrom /\ deafFrom <= shown[i] /\ shown[i] < i /\ ~ InInit(i))

\* A command whose own answer the user saw was executed by one copy of it,
\* for all the resending: PUT and DELETE give another answer the second time.
AnsweredOnce ==
    \A a, b \in executed : a.n = b.n /\ shown[a.n] = a.n => a = b

\* Until the first timeout the session is the service of KVService: a command
\* is executed once, after the one before was answered, and its answer shown.
Service == INSTANCE KVService WITH
    Client <- {"user"}, Command <- Typed \cup {InitPuts[i] : i \in 1 .. Len(InitPuts)},
    table <- store,
    cmd <- [u \in {"user"} |-> IF pc = "wait" THEN cmd ELSE None],
    result <- [u \in {"user"} |->
                 IF pc = "wait" /\ \E a \in executed : a.n = n
                 THEN (CHOOSE a \in executed : a.n = n).text ELSE None],
    told <- [u \in {"user"} |-> told]

ServesUntilTimeout ==
    Service!Init /\ [][timedOut' \/ Service!Next]_(Service!vars)
=============================================================================
