----------------------------- MODULE TcpSession -----------------------------
(***************************************************************************)
(* project_1 over TCP: one run of tcpclient.c against tcpserver.c, which   *)
(* serves one connection and ends.                                         *)
(*                                                                         *)
(* The client is udpclient.c on a stream (see UdpSession for its timeouts  *)
(* and its count), except that init() resends strlen(INIT[1]) bytes of     *)
(* whatever PUT it resends: a longer one is cut, a shorter one takes its   *)
(* closing NUL along.  The stream keeps every byte and their order, but    *)
(* not the limits of a send: one recv() of the server may return several   *)
(* commands, which it parses as one string, up to the first NUL.  A recv() *)
(* never returns a part of a send: they are far shorter than its buffer.   *)
(*                                                                         *)
(* No program looks for the end of the stream or for an error of recv()    *)
(* and send().  What the system does then is in clientEnd and serverEnd:   *)
(* "ok", "reset" once a reset arrived, whose error the next call reports,  *)
(* and "broken" after that; a send() on a reset connection may kill the    *)
(* process with SIGPIPE, and does on a broken one.  The user may kill the  *)
(* client at any time, which closes its socket.                            *)
(***************************************************************************)
EXTENDS Integers, Sequences, FiniteSetsExt

CONSTANTS
    InitPuts,     \* INIT: the commands init() sends, seven PUTs in the code
    Length,       \* Length[i]: strlen(INIT[i])
    Typed,        \* the commands a user may type
    SendLimit,    \* 5 in the code
    MaxCommands,  \* bound: commands of the session, those of INIT included
    TableSize, Value, Blank, InvalidKey,
    Mangled,      \* a value nobody typed: cut, or run into the next text
    None

VARIABLES
    pc,         \* the client: "send", "wait" in select(), "closed", "killed"
    n,          \* number of the last command sent
    cmd,        \* that command: send_buff or INIT[i]
    sendCount,  \* send_count
    watched,    \* the socket is still in the fd_set of the loop
    shown,      \* shown[i]: the commands whose answers were printed for i
    buff,       \* recv_buff of the client: what it printed last
    clientEnd,  \* the client's end of the connection
    toServer,   \* bytes the server has not read, one element for each send
    toClient,   \* bytes the client has not read, one element for each send
    srv,        \* the server: "serving", "ended", "killed"
    serverEnd,  \* the server's end of the connection
    store,      \* its table
    timedOut,   \* history: some select() timed out
    deaf,       \* history: one of init() did
    typed,      \* history: what the first tokens of the commands sent say
    endedAt     \* history: number of the command when the server ended, or 0

clientVars == <<pc, n, cmd, sendCount, watched, shown, buff>>
serverVars == <<srv, serverEnd, store, endedAt>>
vars == <<clientVars, clientEnd, toServer, toClient, serverVars, timedOut, deaf, typed>>

KV == INSTANCE KeyVal WITH Value <- Value \cup {Mangled}

\* What the first token says: "ERROR" is a command of too many tokens, "BAD" a
\* word that is no command, which run into the next text is none either.  A
\* command has the tokens it needs: without them the server reads what its
\* array of tokens happens to hold.
Op == {"PUT", "GET", "DELETE", "ERROR", "q", "Q", "BAD"}
Commands == [op : Op, key : Int, val : Value]

ASSUME SessionAssumption ==
    /\ InitPuts \in Seq(Commands) /\ Len(InitPuts) > 1
    /\ \A i \in 1 .. Len(InitPuts) : InitPuts[i].op = "PUT"
    /\ Length \in [1 .. Len(InitPuts) -> Nat]
    /\ Typed \subseteq Commands
    /\ SendLimit \in Nat \ {0} /\ MaxCommands \in Nat /\ Len(InitPuts) <= MaxCommands
    /\ TableSize \in Nat
    /\ Mangled \notin Value \cup {Blank}
    /\ None \notin Commands /\ None \notin KV!Replies

Number == 1 .. MaxCommands
Sends == [n : Number, cmd : Commands, cut : BOOLEAN, nul : BOOLEAN]
Texts == KV!Replies \cup {"", "several"}
Answers == [n : Number, text : KV!Replies, nul : BOOLEAN]

InInit(i) == i <= Len(InitPuts)
Gone == pc \in {"closed", "killed"}

TypeOK ==
    /\ pc \in {"send", "wait", "closed", "killed"}
    /\ n \in 0 .. MaxCommands /\ cmd \in Commands \cup {None}
    /\ sendCount \in 1 .. SendLimit
    /\ watched \in BOOLEAN
    /\ shown \in [Number -> SUBSET Number]
    /\ buff \in [of : SUBSET Number, text : Texts \cup {None}]
    /\ {clientEnd, serverEnd} \subseteq {"ok", "reset", "broken"}
    /\ toServer \in Seq(Sends) /\ toClient \in Seq(Answers)
    /\ srv \in {"serving", "ended", "killed"}
    /\ store \in KV!Stores
    /\ {timedOut, deaf} \subseteq BOOLEAN /\ typed \subseteq Op
    /\ endedAt \in 0 .. MaxCommands

Init ==
    /\ pc = "send" /\ n = 0 /\ cmd = None /\ sendCount = 1 /\ watched = TRUE
    /\ shown = [i \in Number |-> {}] /\ buff = [of |-> {}, text |-> None]
    /\ clientEnd = "ok" /\ serverEnd = "ok"
    /\ toServer = <<>> /\ toClient = <<>>
    /\ srv = "serving" /\ store = KV!EmptyStore
    /\ timedOut = FALSE /\ deaf = FALSE /\ typed = {} /\ endedAt = 0
-----------------------------------------------------------------------------
(* The client. *)

\* send(): what becomes of the bytes m, and of the client, which goes on at next.
Write(m, next) ==
    \/ /\ srv = "serving"
       /\ toServer' = Append(toServer, m) /\ pc' = next
       /\ UNCHANGED clientEnd
    \/ /\ srv # "serving" /\ clientEnd # "broken"
       /\ clientEnd' = IF clientEnd = "ok" THEN "reset" ELSE "broken"
       /\ pc' = next
       /\ UNCHANGED toServer
    \/ /\ srv # "serving" /\ clientEnd # "ok"
       /\ pc' = "killed"
       /\ UNCHANGED <<clientEnd, toServer>>

Whole(i, c) == [n |-> i, cmd |-> c, cut |-> FALSE, nul |-> FALSE]

SendNext(c, next) ==
    /\ pc = "send" /\ n < MaxCommands
    /\ n' = n + 1 /\ cmd' = c
    /\ Write(Whole(n + 1, c), next)
    /\ typed' = typed \cup {c.op}
    /\ UNCHANGED <<shown, buff, toClient, timedOut, deaf>>

\* init() sends its next PUT.  Neither the count nor the set is renewed.
SendInit ==
    /\ InInit(n + 1)
    /\ SendNext(InitPuts[n + 1], "wait")
    /\ UNCHANGED <<sendCount, watched, serverVars>>

\* Mutant of SendTyped: main() goes on without waiting.
SendTypedOn(c) ==
    /\ ~ InInit(n + 1) /\ c.op # "Q"
    /\ SendNext(c, "send")
    /\ sendCount' = 1
    /\ watched' = (watched \/ n = Len(InitPuts))
    /\ UNCHANGED serverVars

\* main() reads a command and sends it.  The count starts anew; the set is
\* main()'s own, which is fresh at its first command only.
SendTyped(c) ==
    /\ ~ InInit(n + 1) /\ c.op # "Q"
    /\ SendNext(c, "wait")
    /\ sendCount' = 1
    /\ watched' = (watched \/ n = Len(InitPuts))
    /\ UNCHANGED serverVars

\* The socket is closed once the bytes of sent are on their way.  Closing it
\* with answers unread resets it, and what the server has not received is lost.
Close(sent) ==
    /\ IF toClient = <<>> THEN toServer' = sent /\ UNCHANGED serverEnd
       ELSE /\ \E k \in 0 .. Len(sent) : toServer' = SubSeq(sent, 1, k)
            /\ serverEnd' = "reset"
    /\ UNCHANGED <<sendCount, watched, shown, buff, clientEnd, toClient, srv, store,
                   timedOut, deaf, endedAt>>

\* The user types Q: it is sent and the connection closed.
Quit(c) ==
    /\ ~ InInit(n + 1) /\ c.op = "Q"
    /\ pc = "send" /\ n < MaxCommands
    /\ n' = n + 1 /\ cmd' = c /\ pc' = "closed" /\ typed' = typed \cup {c.op}
    /\ Close(Append(toServer, Whole(n + 1, c)))

\* The client is killed, wherever it is.
ClientDies ==
    /\ ~ Gone
    /\ pc' = "killed"
    /\ Close(toServer)
    /\ UNCHANGED <<n, cmd, typed>>

Printed(b) ==
    /\ buff' = b /\ shown' = [shown EXCEPT ![n] = b.of]
    /\ pc' = "send"
    /\ UNCHANGED <<n, cmd, sendCount, watched, toServer, serverVars, timedOut, deaf, typed>>

\* Length of the string that k elements of s make: it ends at the first NUL.
StringEnd(s, k) ==
    LET nuls == {i \in 1 .. k : s[i].nul} IN IF nuls = {} THEN k ELSE Min(nuls)

\* select() reports the socket: all that has arrived is read, and printed up
\* to the first NUL.
Receive(k) ==
    /\ pc = "wait" /\ watched /\ k \in 1 .. Len(toClient)
    /\ LET m == StringEnd(toClient, k) IN
       Printed([of |-> {toClient[i].n : i \in 1 .. m},
                text |-> IF m = 1 THEN toClient[1].text ELSE "several"])
    /\ toClient' = SubSeq(toClient, k + 1, Len(toClient))
    /\ UNCHANGED clientEnd

\* The server has gone: recv() returns 0, or an error and the buffer is
\* printed as it was.
ReceiveEnd ==
    /\ pc = "wait" /\ watched /\ toClient = <<>> /\ srv # "serving"
    /\ Printed(IF clientEnd = "reset" THEN buff ELSE [of |-> {}, text |-> ""])
    /\ clientEnd' = IF clientEnd = "reset" THEN "broken" ELSE clientEnd
    /\ UNCHANGED toClient

\* Mutant of NothingHeard: the set is filled again before each select().
NothingHeardRenewed ==
    /\ pc = "wait" /\ watched
    /\ UNCHANGED watched /\ timedOut' = TRUE
    /\ deaf' = (deaf \/ InInit(n))

\* select() reports nothing: the time passed, or it watches nothing any more.
NothingHeard ==
    /\ pc = "wait"
    /\ watched' = FALSE /\ timedOut' = TRUE
    /\ deaf' = (deaf \/ InInit(n))

\* Mutant of Resend: send_count is not looked at.
ResendAlways ==
    /\ NothingHeard
    /\ Write(Whole(n, cmd), "wait")
    /\ sendCount' = sendCount + 1
    /\ UNCHANGED <<n, cmd, shown, buff, toClient, serverVars, typed>>

Resend ==
    /\ NothingHeard
    /\ sendCount < SendLimit
    /\ Write([n |-> n, cmd |-> cmd, cut |-> InInit(n) /\ Length[n] > Length[2],
              nul |-> InInit(n) /\ Length[n] < Length[2]], "wait")
    /\ sendCount' = sendCount + 1
    /\ UNCHANGED <<n, cmd, shown, buff, toClient, serverVars, typed>>

\* "Resend failed"
GiveUp ==
    /\ NothingHeard
    /\ sendCount = SendLimit
    /\ pc' = "send"
    /\ UNCHANGED <<n, cmd, sendCount, shown, buff, clientEnd, toServer, toClient,
                   serverVars, typed>>
-----------------------------------------------------------------------------
(* The server. *)

Colons(c) ==
    CASE c.op = "PUT" -> 2 [] c.op \in {"GET", "DELETE"} -> 1 [] c.op = "ERROR" -> 3 [] OTHER -> 0

\* A fourth token is an error.
TooMany(colons) == colons > 2

\* The colons of the string that the first m elements of s make: <<i, j>> is
\* the j-th one of the i-th element.
ColonsOf(s, m) == {p \in (1 .. m) \X (1 .. 3) : p[2] <= Colons(s[p[1]].cmd)}

\* The command that the first k elements of toServer are parsed as.  Two GETs
\* or DELETEs in one string have three tokens: atoi() finds the first key and
\* the second command is never seen.  A word ahead of more is no command.
Parse(k) ==
    LET m == StringEnd(toServer, k)
        first == toServer[1].cmd
    IN  [op  |-> IF TooMany(Cardinality(ColonsOf(toServer, m))) THEN "ERROR"
                 ELSE IF m > 1 /\ Colons(first) = 0 THEN "BAD" ELSE first.op,
         key |-> first.key,
         val |-> IF m > 1 \/ toServer[1].cut THEN Mangled ELSE first.val]

\* send() of an answer: it is lost when the client has gone.
Answer(a) ==
    \/ /\ ~ Gone
       /\ toClient' = Append(toClient, a)
       /\ UNCHANGED serverEnd
    \/ /\ Gone /\ serverEnd # "broken"
       /\ serverEnd' = IF serverEnd = "ok" THEN "reset" ELSE "broken"
       /\ UNCHANGED toClient

\* One turn of the server's loop with command c, for number i, in the buffer.
\* What is no command is only answered; q, Q and too many tokens end the server.
\* Only the answer of a GET is sent without its NUL.
Execute(c, i) ==
    /\ store' = KV!Apply(store, c.op, c.key, c.val)
    /\ \/ /\ Answer([n |-> i, text |-> KV!Reply(store, c.op, c.key), nul |-> c.op # "GET"])
          /\ srv' = IF c.op \in {"ERROR", "q", "Q"} THEN "ended" ELSE "serving"
       \/ /\ Gone /\ serverEnd # "ok" /\ srv' = "killed"
          /\ UNCHANGED <<serverEnd, toClient>>
    /\ endedAt' = IF srv' = "serving" THEN endedAt ELSE n
    /\ UNCHANGED <<clientVars, timedOut, deaf, typed>>

\* recv() returns the first k elements.  A server that ends with bytes unread
\* resets the connection.
Serve(k) ==
    /\ srv = "serving" /\ k \in 1 .. Len(toServer)
    /\ Execute(Parse(k), toServer[1].n)
    /\ toServer' = SubSeq(toServer, k + 1, Len(toServer))
    /\ clientEnd' = IF srv' # "serving" /\ toServer' # <<>> THEN "reset" ELSE clientEnd

\* Mutant of ServeEnd: SIGPIPE is ignored.
ServeEndIgnored ==
    /\ srv = "serving" /\ toServer = <<>> /\ Gone
    /\ serverEnd' = IF serverEnd = "ok" THEN "reset" ELSE "broken"
    /\ UNCHANGED <<clientVars, clientEnd, toServer, toClient, srv, store, timedOut, deaf, typed, endedAt>>

\* The client has gone.  recv() returns 0, an empty string that is no command,
\* and the answer to it brings a reset.  Then recv() returns an error or 0 again;
\* whatever the buffer still holds is executed, but its answer kills the server.
ServeEnd ==
    /\ srv = "serving" /\ toServer = <<>> /\ Gone
    /\ IF serverEnd = "ok" THEN serverEnd' = "reset" /\ UNCHANGED <<srv, endedAt>>
       ELSE srv' = "killed" /\ endedAt' = n /\ UNCHANGED serverEnd
    /\ UNCHANGED <<clientVars, clientEnd, toServer, toClient, store, timedOut, deaf, typed>>

Waiting == (\E k \in 1 .. Len(toClient) : Receive(k)) \/ ReceiveEnd \/ Resend \/ GiveUp
Serving == (\E k \in 1 .. Len(toServer) : Serve(k)) \/ ServeEnd

Next ==
    \/ SendInit
    \/ \E c \in Typed : SendTyped(c) \/ Quit(c)
    \/ ClientDies
    \/ Waiting
    \/ Serving

Spec == Init /\ [][Next]_vars

\* recv() of the server returns while there is something to read.
FairSpec == Spec /\ WF_vars(Serving)
-----------------------------------------------------------------------------
(* Properties. *)

\* The answer printed for a command is its own, unless a select() of init()
\* timed out or the server ended before: a timeout in main() never makes it
\* print the answer of another command.
OutOfStepOnlyAfterInit ==
    \A i \in Number : shown[i] \subseteq {i} \/ deaf \/ (0 < endedAt /\ endedAt < i)

\* For all the PUTs that init() cuts short and all those that run into the next
\* command, every value ever in the table is one that was typed, as long as the
\* user typed nothing without a colon: a whole PUT comes before those cut short,
\* PUT refuses a key that exists, and a PUT that runs into anything with a colon
\* has too many tokens.  After a q, a Q or a word that is no command, a value
\* may have that text at its end.
NoMangledValue ==
    (\E k \in KV!Slot : store.dict[k] = Mangled) => typed \cap {"q", "Q", "BAD"} # {}

\* Until the first timeout, and until the client has gone, the session is the
\* service of KVService: no command is swallowed, none is executed twice.  The
\* server leaves it only when it was told to end.
Service == INSTANCE KVService WITH
    Client <- {"user"}, Command <- Typed \cup {InitPuts[i] : i \in 1 .. Len(InitPuts)},
    Value <- Value \cup {Mangled},
    table <- store,
    cmd <- [u \in {"user"} |-> IF pc = "wait" THEN cmd ELSE None],
    result <- [u \in {"user"} |->
                 IF pc = "wait" /\ toClient # <<>> THEN toClient[1].text ELSE None],
    told <- [u \in {"user"} |-> buff.text]

ServesUntilTimeout ==
    /\ Service!Init
    /\ [][\/ timedOut' \/ Gone' \/ Service!Next
          \/ srv' # "serving" /\ typed' \cap {"ERROR", "q"} # {}]_(Service!vars)

\* The server ends after the client does, also when it never reads a Q and when
\* the client was killed.
ServerEnds == Gone ~> srv # "serving"
=============================================================================
