------------------------------ MODULE TwoPhase ------------------------------
(***************************************************************************)
(* project_3: a key-value store replicated by a two-phase commit.          *)
(*                                                                         *)
(* An RPC server (rpc_kv_server.c linked with coordinator.c) runs each     *)
(* request in a handler thread.  The handler takes the server's mutex and  *)
(* calls run(), which starts one thread per peer; each thread connects to  *)
(* its peer, sends the request, waits for ACK, spins until all threads     *)
(* have theirs, sends GO, waits for the second ACK, spins again, closes.   *)
(* A GET uses one thread, to the first peer, and no barrier.               *)
(*                                                                         *)
(* A peer (2pc_server.c) serves one connection at a time: request, ACK,    *)
(* GO, ACK, execution, close.  It executes after the second ACK has left.  *)
(* A GET leaves its result in the file GET_buffer, which the handler reads *)
(* once its thread is joined.                                              *)
(*                                                                         *)
(* Abstractions.  connect() and the send() of the request are one step, so *)
(* are accept(), recv() and the send() of the first ACK, and recv(GO) with *)
(* the send() of the second: the other side sees nothing in between.       *)
(* ack_count and go_ack_count are the sets of threads that incremented     *)
(* them since run() reset them.  A call stands for its request string.     *)
(***************************************************************************)
EXTENDS Integers, Sequences, FiniteSets, Functions

CONSTANTS
    Handler,      \* RPC handler threads; a slot is reused by later requests
    Server,       \* processes running rpc_kv_server
    Home,         \* Home[h]: the server handler h runs in
    Peer,         \* the `count' nodes running 2pc_server that run() contacts
    First,        \* ip[0], the node a GET goes to
    Shared,       \* servers whose GET_buffer is the file First writes
    Leftover,     \* what the other servers' GET_buffer holds
    Torn,         \* content of GET_buffer between fopen "w" and fclose
    Request,      \* the requests clients may send
    TableSize, Value, Blank, InvalidKey,
    MaxCalls,     \* bound: requests served by one handler slot
    Backlog,      \* connections listen() queues, 5 in the code
    Mortal,       \* processes that may die at any time
    StaleBuffer,  \* TRUE: recv_buff may hold anything before recv() fills it
    None

VARIABLES
    issued,    \* issued[h]: number of requests handler h was given
    req,       \* req[h]: the call handler h is serving, or None
    result,    \* result[h]: what h answered its last request, or None
    before,    \* history: the writes answered when h's last GET arrived
    lock,      \* lock[s]: holder of the mutex `lock' of rpc_kv_server.c
    acked,     \* acked[s]: threads counted in ack_count
    goAcked,   \* goAcked[s]: threads counted in go_ack_count
    thread,    \* thread[s][p]: where the thread for peer p stands
    ackMsg,    \* ACKs in flight from a peer to a thread, as <<server, peer>>
    goMsg,     \* GOs in flight from a thread to a peer, as <<server, peer>>
    backlog,   \* backlog[p]: connections p has not accepted
    serving,   \* serving[p]: the call of the connection p has open
    phase,     \* phase[p]: where p stands in its loop
    store,     \* store[p]: the key-value table of p
    buffer,    \* content of First's GET_buffer, and the GET that wrote it
    evals,     \* history: the GETs whose value First wrote, in order
    up,        \* the processes that run
    decided,   \* history: the writes some GO was sent for, in that order
    log        \* history: log[p], the writes p executed, in order

handlerVars == <<issued, req, result, before>>
coordVars   == <<lock, acked, goAcked, thread>>
peerVars    == <<backlog, serving, phase>>
dataVars    == <<store, buffer, evals, log>>
vars == <<handlerVars, coordVars, ackMsg, goMsg, peerVars, dataVars, up, decided>>

ASSUME ProcessAssumption ==
    /\ IsFiniteSet(Peer) /\ First \in Peer
    /\ Server \cap Peer = {}
    /\ Home \in [Handler -> Server]
    /\ Shared \subseteq Server
    /\ Mortal \subseteq Server \cup Peer
    /\ MaxCalls \in Nat /\ Backlog \in Nat
    /\ StaleBuffer \in BOOLEAN

Op == {"PUT", "GET", "DELETE"}

ASSUME DataAssumption ==
    /\ TableSize \in Nat \ {0}
    /\ Request \subseteq [op : Op, key : Int, val : Value]

Calls == [handler : Handler, n : 1 .. MaxCalls, rq : Request]

ASSUME NoneAssumption == None \notin Handler /\ None \notin Calls

KV == INSTANCE KeyVal

ThreadState == {"none", "connect", "ack", "spin", "goAck", "goSpin", "done"}
PeerPhase   == {"accept", "go", "exec", "write"}

\* What GET_buffer may hold, and what a handler may answer: a write's is TRUE.
Content == [of : Calls \cup {None}, val : Value \cup {Blank, InvalidKey, Leftover, Torn}]
Success == [of |-> None, val |-> TRUE]

TypeOK ==
    /\ issued \in [Handler -> 0 .. MaxCalls]
    /\ req \in [Handler -> Calls \cup {None}]
    /\ result \in [Handler -> Content \cup {Success, None}]
    /\ before \in [Handler -> SUBSET Calls]
    /\ lock \in [Server -> Handler \cup {None}]
    /\ acked \in [Server -> SUBSET Peer]
    /\ goAcked \in [Server -> SUBSET Peer]
    /\ thread \in [Server -> [Peer -> ThreadState]]
    /\ ackMsg \subseteq Server \X Peer
    /\ goMsg \subseteq Server \X Peer
    /\ backlog \in [Peer -> Seq(Calls)]
    /\ serving \in [Peer -> Calls \cup {None}]
    /\ phase \in [Peer -> PeerPhase]
    /\ store \in [Peer -> KV!Stores]
    /\ buffer \in Content /\ evals \in Seq(Calls)
    /\ up \subseteq Server \cup Peer
    /\ decided \in Seq(Calls)
    /\ log \in [Peer -> Seq(Calls)]

Init ==
    /\ issued = [h \in Handler |-> 0]
    /\ req = [h \in Handler |-> None]
    /\ result = [h \in Handler |-> None]
    /\ before = [h \in Handler |-> {}]
    /\ lock = [s \in Server |-> None]
    /\ acked = [s \in Server |-> {}]
    /\ goAcked = [s \in Server |-> {}]
    /\ thread = [s \in Server |-> [p \in Peer |-> "none"]]
    /\ ackMsg = {} /\ goMsg = {}
    /\ backlog = [p \in Peer |-> <<>>]
    /\ serving = [p \in Peer |-> None]
    /\ phase = [p \in Peer |-> "accept"]
    /\ store = [p \in Peer |-> KV!EmptyStore]
    /\ buffer = [of |-> None, val |-> Leftover] /\ evals = <<>>
    /\ up = Server \cup Peer
    /\ decided = <<>>
    /\ log = [p \in Peer |-> <<>>]
-----------------------------------------------------------------------------
IsRead(c) == c.rq.op = "GET"

\* The call the threads of server s work for.
Current(s) == req[lock[s]]

Coordinating(s) == s \in up /\ lock[s] # None

\* The writes that entered the commit order and are not being served any more.
Answered == {c \in Range(decided) : req[c.handler] # c}

\* The server a connection to a peer comes from.
Caller(c) == Home[c.handler]
-----------------------------------------------------------------------------
(***************************************************************************)
(* The handler threads of the RPC server.                                  *)
(***************************************************************************)
\* A request reaches put_1_svc, get_1_svc or delete_1_svc.
Invoke(h, r) ==
    /\ Home[h] \in up
    /\ req[h] = None
    /\ issued[h] < MaxCalls
    /\ issued' = [issued EXCEPT ![h] = @ + 1]
    /\ req' = [req EXCEPT ![h] = [handler |-> h, n |-> issued[h] + 1, rq |-> r]]
    /\ result' = [result EXCEPT ![h] = None]
    /\ before' = [before EXCEPT ![h] = IF r.op = "GET" THEN Answered ELSE @]
    /\ UNCHANGED <<coordVars, ackMsg, goMsg, peerVars, dataVars, up, decided>>

\* Mutant of Acquire: ack_count is not reset.
AcquireNoReset(h) ==
    LET s == Home[h] IN
    /\ s \in up
    /\ req[h] # None
    /\ lock[s] = None
    /\ lock' = [lock EXCEPT ![s] = h]
    /\ goAcked' = [goAcked EXCEPT ![s] = {}]
    /\ thread' = [thread EXCEPT ![s] =
           [p \in Peer |-> IF p = First \/ ~ IsRead(req[h]) THEN "connect" ELSE "none"]]
    /\ UNCHANGED <<handlerVars, acked, ackMsg, goMsg, peerVars, dataVars, up, decided>>

\* pthread_mutex_lock, then run(): the counters are reset and the threads
\* created, for a GET only the one to the first node.
Acquire(h) ==
    LET s == Home[h] IN
    /\ s \in up
    /\ req[h] # None
    /\ lock[s] = None
    /\ lock' = [lock EXCEPT ![s] = h]
    /\ acked' = [acked EXCEPT ![s] = {}]
    /\ goAcked' = [goAcked EXCEPT ![s] = {}]
    /\ thread' = [thread EXCEPT ![s] =
           [p \in Peer |-> IF p = First \/ ~ IsRead(req[h]) THEN "connect" ELSE "none"]]
    /\ UNCHANGED <<handlerVars, ackMsg, goMsg, peerVars, dataVars, up, decided>>

\* run() returns when its threads are joined.
Joined(s) == \A p \in Peer : thread[s][p] \in {"none", "done"}

\* What get_1_svc reads from the file GET_buffer of its directory.
ReadBuffer(s) == IF s \in Shared THEN buffer ELSE [of |-> None, val |-> Leftover]

\* The handler answers, a write with TRUE whatever the peers did, a GET with
\* what the file holds, and releases the mutex.
Return(s) ==
    /\ Coordinating(s)
    /\ Joined(s)
    /\ result' = [result EXCEPT ![lock[s]] = IF IsRead(Current(s)) THEN ReadBuffer(s) ELSE Success]
    /\ req' = [req EXCEPT ![lock[s]] = None]
    /\ lock' = [lock EXCEPT ![s] = None]
    /\ thread' = [thread EXCEPT ![s] = [p \in Peer |-> "none"]]
    /\ UNCHANGED <<issued, before, acked, goAcked, ackMsg, goMsg, peerVars, dataVars, up, decided>>

\* The process of server s ends: its threads and its mutex are gone, the
\* connections are closed, what it sent stays readable.
ServerDies(s) ==
    /\ up' = up \ {s}
    /\ lock' = [lock EXCEPT ![s] = None]
    /\ acked' = [acked EXCEPT ![s] = {}]
    /\ goAcked' = [goAcked EXCEPT ![s] = {}]
    /\ thread' = [thread EXCEPT ![s] = [p \in Peer |-> "none"]]
    /\ ackMsg' = {m \in ackMsg : m[1] # s}
    /\ UNCHANGED <<handlerVars, goMsg, peerVars, dataVars, decided>>
-----------------------------------------------------------------------------
(***************************************************************************)
(* The thread of server s for peer p, two_pc_protocol().                   *)
(***************************************************************************)
At(s, p, state) == Coordinating(s) /\ thread[s][p] = state

Goto(s, p, state) == thread' = [thread EXCEPT ![s][p] = state]

Connect(s, p) ==
    /\ At(s, p, "connect")
    /\ p \in up
    /\ Len(backlog[p]) < Backlog
    /\ backlog' = [backlog EXCEPT ![p] = Append(@, Current(s))]
    /\ Goto(s, p, "ack")
    /\ UNCHANGED <<handlerVars, lock, acked, goAcked, ackMsg, goMsg,
                   serving, phase, dataVars, up, decided>>

\* connect() fails: exit(1) ends the whole RPC server.
ConnectFail(s, p) ==
    /\ At(s, p, "connect")
    /\ p \notin up
    /\ ServerDies(s)

\* Mutant of Hears: recv() does not wait.
HearsAlways(s, p) == TRUE

\* recv() returns: a message is there, or the peer is gone.
Hears(s, p) == <<s, p>> \in ackMsg \/ p \notin up

\* recv_buff is neither cleared before recv() nor terminated after it, so the
\* comparison with "ACK" may fail for an ACK, and may succeed on what an
\* earlier thread left on the stack when the peer is gone.
LooksLikeAck(s, p) ==
    IF StaleBuffer THEN BOOLEAN ELSE {(<<s, p>> \in ackMsg)}

ReceiveAck(s, p) ==
    /\ At(s, p, "ack")
    /\ Hears(s, p)
    /\ \E counted \in LooksLikeAck(s, p) :
           acked' = [acked EXCEPT ![s] = IF counted THEN @ \cup {p} ELSE @]
    /\ ackMsg' = ackMsg \ {<<s, p>>}
    /\ Goto(s, p, "spin")
    /\ UNCHANGED <<handlerVars, lock, goAcked, goMsg, peerVars, dataVars, up, decided>>

\* Mutant of AcksComplete: one ACK too few.
AcksOffByOne(s) ==
    Cardinality(acked[s]) >= Cardinality(Peer) - 1 \/ IsRead(Current(s))

\* while (ack_count < count && !read_flag)
AcksComplete(s) ==
    Cardinality(acked[s]) >= Cardinality(Peer) \/ IsRead(Current(s))

\* The GO leaves; sent to a dead peer it is lost.  The first GO of a write
\* puts the write into the commit order.
SendGo(s, p) ==
    /\ At(s, p, "spin")
    /\ AcksComplete(s)
    /\ goMsg' = IF p \in up THEN goMsg \cup {<<s, p>>} ELSE goMsg
    /\ decided' = IF IsRead(Current(s)) \/ Current(s) \in Range(decided)
                  THEN decided ELSE Append(decided, Current(s))
    /\ Goto(s, p, "goAck")
    /\ UNCHANGED <<handlerVars, lock, acked, goAcked, ackMsg, peerVars, dataVars, up>>

\* The connection was reset by the dead peer: send() raises SIGPIPE, which
\* nobody handles.
BrokenPipe(s, p) ==
    /\ At(s, p, "spin")
    /\ AcksComplete(s)
    /\ p \notin up
    /\ ServerDies(s)

\* recv_buff still holds the first answer, so the second counts exactly when
\* the first did, even if the peer is gone.
ReceiveGoAck(s, p) ==
    /\ At(s, p, "goAck")
    /\ Hears(s, p)
    /\ goAcked' = [goAcked EXCEPT ![s] = @ \cup ({p} \cap acked[s])]
    /\ ackMsg' = ackMsg \ {<<s, p>>}
    /\ Goto(s, p, "goSpin")
    /\ UNCHANGED <<handlerVars, lock, acked, goMsg, peerVars, dataVars, up, decided>>

\* Mutant of GoAcksComplete: > for >=.
GoAcksNever(s) ==
    Cardinality(goAcked[s]) > Cardinality(Peer) \/ IsRead(Current(s))

\* while (go_ack_count < count && !read_flag)
GoAcksComplete(s) ==
    Cardinality(goAcked[s]) >= Cardinality(Peer) \/ IsRead(Current(s))

Close(s, p) ==
    /\ At(s, p, "goSpin")
    /\ GoAcksComplete(s)
    /\ Goto(s, p, "done")
    /\ UNCHANGED <<handlerVars, lock, acked, goAcked, ackMsg, goMsg, peerVars, dataVars, up, decided>>
-----------------------------------------------------------------------------
(***************************************************************************)
(* Peer p, the loop of 2pc_server.c.                                       *)
(***************************************************************************)
\* An answer to a server that is gone is lost.
AckTo(s, p) == ackMsg' = IF s \in up THEN ackMsg \cup {<<s, p>>} ELSE ackMsg

\* accept(), recv() of the request, first ACK.
Prepare(p) ==
    /\ p \in up /\ phase[p] = "accept"
    /\ backlog[p] # <<>>
    /\ serving' = [serving EXCEPT ![p] = Head(backlog[p])]
    /\ backlog' = [backlog EXCEPT ![p] = Tail(@)]
    /\ phase' = [phase EXCEPT ![p] = "go"]
    /\ AckTo(Caller(Head(backlog[p])), p)
    /\ UNCHANGED <<handlerVars, coordVars, goMsg, dataVars, up, decided>>

\* recv() of GO, second ACK; the request is executed next.
ReceiveGo(p) ==
    /\ p \in up /\ phase[p] = "go"
    /\ <<Caller(serving[p]), p>> \in goMsg
    /\ goMsg' = goMsg \ {<<Caller(serving[p]), p>>}
    /\ AckTo(Caller(serving[p]), p)
    /\ phase' = [phase EXCEPT ![p] = "exec"]
    /\ UNCHANGED <<handlerVars, coordVars, backlog, serving, dataVars, up, decided>>

\* Mutant of NoGo: the peer gives up waiting for a server that is alive.
NoGoYet(p) ==
    /\ p \in up /\ phase[p] = "go"
    /\ <<Caller(serving[p]), p>> \notin goMsg

\* The server is gone and sent no GO: recv() returns without one.
NoGo(p) ==
    /\ p \in up /\ phase[p] = "go"
    /\ Caller(serving[p]) \notin up
    /\ <<Caller(serving[p]), p>> \notin goMsg

\* The request is dropped without an execution, the connection closed.
Abandon(p) ==
    /\ NoGo(p)
    /\ serving' = [serving EXCEPT ![p] = None]
    /\ phase' = [phase EXCEPT ![p] = "accept"]
    /\ UNCHANGED <<handlerVars, coordVars, ackMsg, goMsg, backlog, dataVars, up, decided>>

\* exec_rqst() on a write.
Written(st, r) ==
    IF r.op = "PUT" THEN KV!PUT(st, r.key, r.val) ELSE KV!DELETE(st, r.key)

\* exec_rqst() on a write, then close().
ExecuteWrite(p) ==
    /\ p \in up /\ phase[p] = "exec"
    /\ ~ IsRead(serving[p])
    /\ store' = [store EXCEPT ![p] = Written(@, serving[p].rq)]
    /\ log' = [log EXCEPT ![p] = Append(@, serving[p])]
    /\ serving' = [serving EXCEPT ![p] = None]
    /\ phase' = [phase EXCEPT ![p] = "accept"]
    /\ UNCHANGED <<handlerVars, coordVars, ackMsg, goMsg, backlog, buffer, evals, up, decided>>

\* exec_rqst() on a GET: fopen(GET_FILE, "w") empties the file.
TruncateBuffer(p) ==
    /\ p \in up /\ phase[p] = "exec"
    /\ IsRead(serving[p])
    /\ buffer' = [of |-> None, val |-> Torn]
    /\ phase' = [phase EXCEPT ![p] = "write"]
    /\ UNCHANGED <<handlerVars, coordVars, ackMsg, goMsg, backlog, serving, store, evals, log, up, decided>>

\* fputs() and fclose(), then close() of the connection.
WriteBuffer(p) ==
    /\ p \in up /\ phase[p] = "write"
    /\ buffer' = [of |-> serving[p], val |-> KV!GET(store[p], serving[p].rq.key)]
    /\ evals' = Append(evals, serving[p])
    /\ serving' = [serving EXCEPT ![p] = None]
    /\ phase' = [phase EXCEPT ![p] = "accept"]
    /\ UNCHANGED <<handlerVars, coordVars, ackMsg, goMsg, backlog, store, log, up, decided>>

\* The process of peer p ends; its table was only in memory, ACKs it sent
\* stay readable.
PeerDies(p) ==
    /\ up' = up \ {p}
    /\ goMsg' = {m \in goMsg : m[2] # p}
    /\ backlog' = [backlog EXCEPT ![p] = <<>>]
    /\ serving' = [serving EXCEPT ![p] = None]
    /\ phase' = [phase EXCEPT ![p] = "accept"]
    /\ store' = [store EXCEPT ![p] = KV!EmptyStore]
    /\ UNCHANGED <<handlerVars, coordVars, ackMsg, buffer, evals, log, decided>>

\* The second ACK goes to a connection the dead server reset: SIGPIPE.
PeerBrokenPipe(p) == NoGo(p) /\ PeerDies(p)

Crash ==
    \/ \E s \in Mortal \cap Server \cap up : ServerDies(s)
    \/ \E p \in Mortal \cap Peer \cap up : PeerDies(p)
-----------------------------------------------------------------------------
ThreadStep(s, p) ==
    \/ Connect(s, p) \/ ConnectFail(s, p) \/ ReceiveAck(s, p)
    \/ SendGo(s, p) \/ BrokenPipe(s, p)
    \/ ReceiveGoAck(s, p) \/ Close(s, p)

PeerStep(p) ==
    \/ Prepare(p) \/ ReceiveGo(p) \/ Abandon(p) \/ PeerBrokenPipe(p)
    \/ ExecuteWrite(p) \/ TruncateBuffer(p) \/ WriteBuffer(p)

Next ==
    \/ \E h \in Handler : (\E r \in Request : Invoke(h, r)) \/ Acquire(h)
    \/ \E s \in Server : Return(s) \/ \E p \in Peer : ThreadStep(s, p)
    \/ \E p \in Peer : PeerStep(p)
    \/ Crash

Spec == Init /\ [][Next]_vars

\* Every thread and every process is scheduled; clients need not send
\* requests and nothing needs to die.
Fairness ==
    /\ \A h \in Handler : WF_vars(Acquire(h))
    /\ \A s \in Server : WF_vars(Return(s))
    /\ \A s \in Server, p \in Peer : WF_vars(ThreadStep(s, p))
    /\ \A p \in Peer : WF_vars(PeerStep(p))

FairSpec == Spec /\ Fairness
-----------------------------------------------------------------------------
\* Peer p will execute a write, or has its GO under way to it.
Committing(p) ==
    /\ p \in up
    /\ serving[p] # None
    /\ ~ IsRead(serving[p])
    /\ phase[p] = "exec" \/ <<Caller(serving[p]), p>> \in goMsg

\* Two peers never commit two different writes at the same time, whatever
\* servers coordinate them, whoever dies: the barrier of coordinator.c:90
\* and the one-connection loop of 2pc_server.c together order the writes.
OneCommitAtATime ==
    \A p, q \in Peer : Committing(p) /\ Committing(q) => serving[p] = serving[q]

\* Peers that executed the same two writes executed them in the same order,
\* even where a death in the middle of a commit made one of them miss others.
SameOrder ==
    \A p, q \in Peer : \A i, j \in DOMAIN log[p], k, l \in DOMAIN log[q] :
        (i < j /\ log[p][i] = log[q][k] /\ log[p][j] = log[q][l]) => k < l

\* When the first node evaluates a GET it has executed every write that was
\* answered before the GET arrived, although it acknowledges GO before it
\* executes (2pc_server.c:93-95): it finishes one connection before the next.
ReadAfterWrite ==
    \A p \in Peer :
        (phase[p] = "write" /\ p \in up) =>
            before[serving[p].handler] \subseteq Range(log[p])

\* A server that shares First's GET_buffer answers a GET with its own value, a
\* later one, or the one of the GET evaluated just before it, which the second
\* ACK lets it read (2pc_server.c:93, rpc_kv_server.c:47); if the file was empty
\* it answers what malloc() returned.  It is never two GETs behind.
GetLagsByOne ==
    \A h \in Handler, j \in DOMAIN evals :
        Home[h] \in Shared /\ result[h] # None /\ evals[j].handler = h /\ evals[j].n = issued[h] =>
            /\ result[h].val = Leftover => j = 1
            /\ \A i \in DOMAIN evals : result[h].of = evals[i] => j <= i + 1

\* A write that was answered has reached every peer that runs: it executed
\* it, or it holds the GO and will (run() joins its threads, each of which
\* saw the peer's second ACK or the peer's death).
AnsweredEverywhere ==
    \A p \in Peer \cap up : \A c \in Answered :
        c \in Range(log[p]) \/ (serving[p] = c /\ phase[p] = "exec")

RL == INSTANCE ReplicatedLog WITH Replica <- Peer, Command <- Calls

\* As long as nobody dies the two-phase commit is a replicated log: the first
\* GO decides a write, and every peer executes the decided writes in order
\* and without a gap.
ImplementsReplicatedLog == RL!Spec

\* As long as nobody dies a decided write gets executed by every peer, also
\* where several servers coordinate.
CommitCompletes ==
    \A c \in Calls : c \in Range(decided) ~> \A p \in Peer : c \in Range(log[p])

\* Every request is answered (README.md of project_3: "GET, PUT and DELETE
\* requests can be sent to the server").
EveryCallAnswered == \A h \in Handler : req[h] # None ~> req[h] = None
-----------------------------------------------------------------------------
(***************************************************************************)
(* Why OneCommitAtATime holds: the conjuncts of an inductive invariant.    *)
(* The heart is LastInv: only the last decided write is ever being         *)
(* executed, because the next one needs an ACK from every peer, and a peer *)
(* that still runs gives it only after it has closed the connection of the *)
(* write before.  The others say where the connection of a thread stands.  *)
(***************************************************************************)
Past == {"spin", "goAck", "goSpin", "done"}

HandlerInv ==
    /\ \A h \in Handler : req[h] # None => req[h].handler = h /\ req[h].n <= issued[h]
    /\ \A s \in Server : lock[s] # None =>
           s \in up /\ Home[lock[s]] = s /\ req[lock[s]] # None
    /\ \A s \in Server : lock[s] = None => \A p \in Peer : thread[s][p] = "none"

\* A connection p has not accepted belongs to a thread that waits for ACK.
Queued(p, i) ==
    LET c == backlog[p][i] IN
    p \in up /\ Caller(c) \in up =>
        /\ lock[Caller(c)] = c.handler /\ req[c.handler] = c
        /\ thread[Caller(c)][p] = "ack"
        /\ <<Caller(c), p>> \notin ackMsg
        /\ \A j \in DOMAIN backlog[p] : Caller(backlog[p][j]) = Caller(c) => i = j

QueueInv == \A p \in Peer : \A i \in DOMAIN backlog[p] : Queued(p, i)

PhaseInv == \A p \in Peer : phase[p] # "accept" => serving[p] # None

\* Peer p, which runs, waits for the GO of the thread of s.
Waits(s, p) ==
    serving[p] = Current(s) /\ phase[p] = "go" /\ <<s, p>> \notin goMsg

AckInv ==
    \A s \in Server, p \in Peer :
        p \in up =>
            /\ <<s, p>> \in ackMsg => s \in up /\ thread[s][p] \in {"ack", "goAck"}
            /\ <<s, p>> \in ackMsg /\ thread[s][p] = "ack" => Waits(s, p)
            /\ thread[s][p] = "spin" => Waits(s, p)

GoInv ==
    \A s \in Server, p \in Peer :
        <<s, p>> \in goMsg =>
            /\ p \in up /\ serving[p] # None /\ Caller(serving[p]) = s /\ phase[p] = "go"
            /\ s \in up => thread[s][p] = "goAck" /\ <<s, p>> \notin ackMsg

CountInv ==
    \A s \in Server, p \in Peer :
        lock[s] # None /\ p \in acked[s] => thread[s][p] \in Past

\* A write enters the commit order when all ACKs are in and a GO leaves.
DecidedInv ==
    /\ \A i \in DOMAIN decided : decided[i].n <= issued[decided[i].handler]
    /\ \A h \in Handler : Home[h] \in up /\ req[h] # None /\ lock[Home[h]] # h =>
           req[h] \notin Range(decided)
    /\ \A s \in Server : lock[s] # None /\ Current(s) \in Range(decided) =>
           acked[s] = Peer
    /\ \A s \in Server, p \in Peer :
           lock[s] # None /\ ~ IsRead(Current(s)) /\ thread[s][p] \in Past \ {"spin"} =>
               Current(s) \in Range(decided)

IsLast(c) == decided # <<>> /\ c = decided[Len(decided)]

LastInv ==
    /\ \A p \in Peer : Committing(p) => IsLast(serving[p])
    /\ \A s \in Server, p \in Peer :
           p \in up /\ thread[s][p] = "spin" /\ Current(s) \in Range(decided) =>
               IsLast(Current(s))

\* All of it, for the proof that at most one write is being committed.
CommitInv ==
    /\ TypeOK
    /\ HandlerInv /\ QueueInv /\ PhaseInv /\ AckInv /\ GoInv
    /\ CountInv /\ DecidedInv /\ LastInv
=============================================================================
