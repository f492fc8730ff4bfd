------------------------------ MODULE PaxosKV ------------------------------
(***************************************************************************)
(* project_4: a key-value store replicated by a protocol after Paxos.      *)
(*                                                                         *)
(* An RPC server (rpc_kv_server.c linked with proposer.c) runs each        *)
(* request in a handler that takes the server's mutex and calls run(),     *)
(* which starts one thread per acceptor; a GET uses one, to the first.     *)
(* A thread connects, reads the proposal number from the file INIT_Promise *)
(* and sends prepare; a NACK makes it try the next number; it counts its   *)
(* promise, spins until there is a quorum of them, sends accept, counts    *)
(* the answer, spins for a quorum again, sends the request to be learnt    *)
(* and closes.  It does not wait for the execution.                        *)
(*                                                                         *)
(* An acceptor (acceptor.c) serves one connection from its prepare to its  *)
(* learn.  It writes each promise to INIT_Promise and reads the file when  *)
(* it starts, into a parameter: the value is lost, and so are its table    *)
(* and its sync_log.  INIT_Accepted and current_accepted_id are written    *)
(* and never used: they are left out.                                      *)
(*                                                                         *)
(* Steps are merged as in TwoPhase; accept() and the delays of sleep_me()  *)
(* are no steps of their own.  The call a message carries stands for the   *)
(* request and for the connection: a thread makes one to its acceptor.     *)
(*                                                                         *)
(* get_tokens() takes an answer apart with strtok(), whose position is one *)
(* static variable.  A thread that has received something may be inside    *)
(* when another one is, and then reads the other's number, or finds none:  *)
(* atol() of an uninitialised pointer faults or returns 0.                 *)
(***************************************************************************)
EXTENDS Integers, Sequences, FiniteSets, Functions

CONSTANTS
    Handler,      \* RPC handler threads; a slot is reused by later requests
    Server,       \* processes running rpc_kv_server
    Home,         \* Home[h]: the server handler h runs in
    Acceptor,     \* the nodes of ip[]
    First,        \* ip[0], the node a GET goes to
    Disk,         \* directories holding an INIT_Promise; one when shared by NFS
    DiskOf,       \* DiskOf[x]: the directory process x runs in
    AliveCounts,  \* the counts SYSTEM_buffer may hold
    InitialId,    \* what INIT_Promise holds at the start
    Garbage,      \* values an uninitialised prom_id may have
    LogSize,      \* entries of sync_log, 20000 in the code
    Leftover,     \* what GET_buffer holds at the start
    Torn,         \* content of a file between fopen "w" and fclose
    Request,      \* the requests clients may send
    TableSize, Value, Blank, InvalidKey,
    MaxCalls,     \* bound: requests served by one handler slot
    MaxId,        \* bound: proposal numbers
    MaxRestarts,  \* bound: starts of an acceptor after the first
    MaxMixes,     \* bound: times threads meet in get_tokens()
    Backlog,      \* connections listen() queues, 5 in the code
    Down,         \* acceptors that are not running at the start
    Mortal,       \* processes that may die at any time
    None

VARIABLES
    issued,      \* issued[h]: number of requests handler h was given
    req,         \* req[h]: the call handler h is serving, or None
    result,      \* result[h]: what h answered its last request, or None
    before,      \* history: the writes answered when h's last GET arrived
    answered,    \* history: the writes that were answered TRUE
    lock,        \* lock[s]: holder of the mutex `lock' of rpc_kv_server.c
    promises,    \* promises[s]: threads counted in promise_count ...
    recounts,    \* recounts[s]: ... and how often it counted one of them again
    accepts,     \* accepts[s]: threads counted in accepted_count
    thread,      \* thread[s][a]: where the thread for acceptor a stands
    quorum,      \* quorum[s][a]: its local variable
    promiseId,   \* promiseId[s][a]: its local variable promise_id
    mixed,       \* mixed[s]: threads in get_tokens() that another one met there
    mixes,       \* number of times threads met, all servers together
    broken,      \* broken[s]: acceptors that died with a connection to s open
    toAcceptor,  \* messages a thread sent and its acceptor has not read
    toThread,    \* messages an acceptor sent and the thread has not read
    conns,       \* conns[a]: open connections to a; it serves the first one
    phase,       \* phase[a]: where a stands in its loop
    promised,    \* promised[a]: promised_id
    syncLog,     \* syncLog[a]: the op word in each entry of sync_log, or ""
    store,       \* store[a]: the key-value table of a
    file,        \* file[d]: content of INIT_Promise in directory d
    buffer,      \* content of First's GET_buffer, and the GET that wrote it
    evals,       \* history: the GETs whose value First wrote, in order
    up,          \* the processes that run
    restarts,    \* number of starts after the first, all acceptors together
    promisedBy,  \* history: <<c, a>> when a promised for call c
    acceptedBy,  \* history: <<c, a>> when a accepted call c
    decided,     \* history: the writes some learn was sent for, in that order
    log          \* history: log[a], the writes in the table of a, in order

handlerVars  == <<issued, req, result, before, answered>>
parserVars   == <<mixed, mixes>>
proposerVars == <<lock, promises, recounts, accepts, thread, quorum, promiseId,
                  parserVars, broken>>
netVars      == <<toAcceptor, toThread>>
acceptorVars == <<conns, phase, promised, syncLog, store, log>>
processVars  == <<up, restarts>>
bufferVars   == <<buffer, evals>>
history      == <<promisedBy, acceptedBy, decided>>
vars == <<handlerVars, proposerVars, netVars, acceptorVars, file, bufferVars,
          processVars, history>>

ASSUME ProcessAssumption ==
    /\ IsFiniteSet(Acceptor) /\ First \in Acceptor
    /\ Server \cap Acceptor = {}
    /\ Home \in [Handler -> Server]
    /\ DiskOf \in [Server \cup Acceptor -> Disk]
    /\ Mortal \subseteq Server \cup Acceptor
    /\ Down \subseteq Acceptor
    /\ MaxCalls \in Nat /\ MaxRestarts \in Nat /\ MaxMixes \in Nat /\ Backlog \in Nat

ASSUME NumberAssumption ==
    /\ MaxId \in Nat /\ LogSize \in Nat /\ InitialId \in 0 .. MaxId
    /\ Garbage \subseteq Nat /\ AliveCounts \subseteq Nat

Op == {"PUT", "GET", "DELETE"}

ASSUME DataAssumption ==
    /\ TableSize \in Nat \ {0}
    /\ Request \subseteq [op : Op, key : Int, val : Value]

Calls == [handler : Handler, n : 1 .. MaxCalls, rq : Request]

ASSUME NoneAssumption ==
    /\ None \notin Handler /\ None \notin Calls
    /\ Torn \notin Nat

KV == INSTANCE KeyVal

ThreadState ==
    {"none", "connect", "propose", "promise", "spin", "accepted", "learnSpin", "done"}
AcceptorPhase == {"prepare", "store", "accept", "learn", "write"}

ToAcceptor ==
    [type : {"prepare", "accept", "learn"}, call : Calls, acceptor : Acceptor, id : 0 .. MaxId]
ToThread ==
    [type : {"promise", "NACK", "accepted"}, call : Calls, acceptor : Acceptor, id : 0 .. MaxId]

Index == 0 .. LogSize - 1

EmptyLog == [i \in Index |-> ""]

\* What GET_buffer may hold, and what a handler may answer: a write's is TRUE.
Content == [of : Calls \cup {None}, val : Value \cup {Blank, InvalidKey, Leftover, Torn}]
Success == [of |-> None, val |-> TRUE]

HandlerTypes ==
    /\ issued \in [Handler -> 0 .. MaxCalls]
    /\ req \in [Handler -> Calls \cup {None}]
    /\ result \in [Handler -> Content \cup {Success, None}]
    /\ before \in [Handler -> SUBSET Calls]
    /\ answered \subseteq Calls

ProposerTypes ==
    /\ lock \in [Server -> Handler \cup {None}]
    /\ promises \in [Server -> SUBSET Acceptor]
    /\ recounts \in [Server -> Nat]
    /\ accepts \in [Server -> SUBSET Acceptor]
    /\ thread \in [Server -> [Acceptor -> ThreadState]]
    /\ quorum \in [Server -> [Acceptor -> Nat]]
    /\ promiseId \in [Server -> [Acceptor -> 0 .. MaxId]]
    /\ mixed \in [Server -> SUBSET Acceptor] /\ mixes \in Nat
    /\ broken \in [Server -> SUBSET Acceptor]

NetTypes == toAcceptor \subseteq ToAcceptor /\ toThread \subseteq ToThread

AcceptorTypes ==
    /\ conns \in [Acceptor -> Seq(Calls)]
    /\ phase \in [Acceptor -> AcceptorPhase]
    /\ promised \in [Acceptor -> 0 .. MaxId]
    /\ syncLog \in [Acceptor -> [Index -> Op \cup {""}]]
    /\ store \in [Acceptor -> KV!Stores]
    /\ log \in [Acceptor -> Seq(Calls)]

ProcessTypes ==
    /\ file \in [Disk -> 0 .. MaxId \cup {Torn}]
    /\ buffer \in Content /\ evals \in Seq(Calls)
    /\ up \subseteq Server \cup Acceptor
    /\ restarts \in 0 .. MaxRestarts

HistoryTypes ==
    /\ promisedBy \subseteq Calls \X Acceptor
    /\ acceptedBy \subseteq Calls \X Acceptor
    /\ decided \in Seq(Calls)

TypeOK ==
    /\ HandlerTypes /\ ProposerTypes /\ NetTypes
    /\ AcceptorTypes /\ ProcessTypes /\ HistoryTypes

\* The server's counters start at zero, and so does an acceptor's
\* promised_id: init() only fills its parameters.
Init ==
    /\ issued = [h \in Handler |-> 0]
    /\ req = [h \in Handler |-> None]
    /\ result = [h \in Handler |-> None]
    /\ before = [h \in Handler |-> {}]
    /\ answered = {}
    /\ lock = [s \in Server |-> None]
    /\ promises = [s \in Server |-> {}]
    /\ recounts = [s \in Server |-> 0]
    /\ accepts = [s \in Server |-> {}]
    /\ thread = [s \in Server |-> [a \in Acceptor |-> "none"]]
    /\ quorum = [s \in Server |-> [a \in Acceptor |-> 0]]
    /\ promiseId = [s \in Server |-> [a \in Acceptor |-> 0]]
    /\ mixed = [s \in Server |-> {}] /\ mixes = 0
    /\ broken = [s \in Server |-> {}]
    /\ toAcceptor = {} /\ toThread = {}
    /\ conns = [a \in Acceptor |-> <<>>]
    /\ phase = [a \in Acceptor |-> "prepare"]
    /\ promised = [a \in Acceptor |-> 0]
    /\ syncLog = [a \in Acceptor |-> EmptyLog]
    /\ store = [a \in Acceptor |-> KV!EmptyStore]
    /\ file = [d \in Disk |-> InitialId]
    /\ buffer = [of |-> None, val |-> Leftover] /\ evals = <<>>
    /\ up = (Server \cup Acceptor) \ Down
    /\ restarts = 0
    /\ promisedBy = {} /\ acceptedBy = {}
    /\ decided = <<>>
    /\ log = [a \in Acceptor |-> <<>>]
-----------------------------------------------------------------------------
IsRead(c) == c.rq.op = "GET"

\* The call the threads of server s work for.
Current(s) == req[lock[s]]

Coordinating(s) == s \in up /\ lock[s] # None

\* The server a connection to an acceptor comes from.
Caller(c) == Home[c.handler]

\* Mutant of QuorumOf: all nodes.
QuorumAll(n) == n

\* get_quorum(), for n nodes alive.
QuorumOf(n) == n \div 2 + 1
-----------------------------------------------------------------------------
(***************************************************************************)
(* The handler threads of the RPC server.                                  *)
(***************************************************************************)
\* A request reaches put_1_svc, get_1_svc or delete_1_svc.
Invoke(h, r) ==
    /\ Home[h] \in up
    /\ req[h] = None
    /\ issued[h] < MaxCalls
    /\ issued' = [issued EXCEPT ![h] = @ + 1]
    /\ req' = [req EXCEPT ![h] = [handler |-> h, n |-> issued[h] + 1, rq |-> r]]
    /\ result' = [result EXCEPT ![h] = None]
    /\ before' = [before EXCEPT ![h] = IF r.op = "GET" THEN answered ELSE @]
    /\ UNCHANGED <<answered, proposerVars, netVars, acceptorVars, file, bufferVars,
                   processVars, history>>

\* pthread_mutex_lock, then run(): the counters are reset and the threads
\* created, for a GET only the one to the first node.
Acquire(h) ==
    LET s == Home[h] IN
    /\ s \in up
    /\ req[h] # None
    /\ lock[s] = None
    /\ lock' = [lock EXCEPT ![s] = h]
    /\ promises' = [promises EXCEPT ![s] = {}]
    /\ recounts' = [recounts EXCEPT ![s] = 0]
    /\ accepts' = [accepts EXCEPT ![s] = {}]
    /\ thread' = [thread EXCEPT ![s] =
           [a \in Acceptor |-> IF a = First \/ ~ IsRead(req[h]) THEN "connect" ELSE "none"]]
    /\ broken' = [broken EXCEPT ![s] = {}]
    /\ UNCHANGED <<handlerVars, quorum, promiseId, parserVars, netVars, acceptorVars, file,
                   bufferVars, processVars, history>>

\* The threads of s and their local variables are gone.
EndThreads(s) ==
    /\ thread' = [thread EXCEPT ![s] = [a \in Acceptor |-> "none"]]
    /\ quorum' = [quorum EXCEPT ![s] = [a \in Acceptor |-> 0]]
    /\ promiseId' = [promiseId EXCEPT ![s] = [a \in Acceptor |-> 0]]
    /\ mixed' = [mixed EXCEPT ![s] = {}] /\ mixes' = mixes

\* Mutant of Joined: run() joins one thread.
JoinedOne(s) == \E a \in Acceptor : thread[s][a] = "done"

\* run() returns when its threads are joined.
Joined(s) == \A a \in Acceptor : thread[s][a] \in {"none", "done"}

\* Mutant of ReadBuffer: the directories are never shared.
ReadBufferApart(s) == [of |-> None, val |-> Leftover]

\* What get_1_svc reads from the file GET_buffer of its directory.
ReadBuffer(s) ==
    IF DiskOf[s] = DiskOf[First] THEN buffer ELSE [of |-> None, val |-> Leftover]

\* The handler answers and releases the mutex: a write always with TRUE, a GET
\* with what the file holds by now.
Return(s) ==
    /\ Coordinating(s)
    /\ Joined(s)
    /\ answered' = IF IsRead(Current(s)) THEN answered ELSE answered \cup {Current(s)}
    /\ result' = [result EXCEPT ![lock[s]] = IF IsRead(Current(s)) THEN ReadBuffer(s) ELSE Success]
    /\ req' = [req EXCEPT ![lock[s]] = None]
    /\ lock' = [lock EXCEPT ![s] = None]
    /\ EndThreads(s)
    /\ UNCHANGED <<issued, before, promises, recounts, accepts, broken, netVars,
                   acceptorVars, file, bufferVars, processVars, history>>

\* The process of server s ends: its threads and its mutex are gone, the
\* connections are closed, what it sent stays readable.
ServerDies(s) ==
    /\ up' = up \ {s}
    /\ lock' = [lock EXCEPT ![s] = None]
    /\ promises' = [promises EXCEPT ![s] = {}]
    /\ recounts' = [recounts EXCEPT ![s] = 0]
    /\ accepts' = [accepts EXCEPT ![s] = {}]
    /\ EndThreads(s)
    /\ toThread' = {m \in toThread : Caller(m.call) # s}
    /\ UNCHANGED <<handlerVars, broken, toAcceptor, acceptorVars, file, bufferVars,
                   restarts, history>>
-----------------------------------------------------------------------------
(***************************************************************************)
(* The thread of server s for acceptor a, propose().                       *)
(***************************************************************************)
At(s, a, state) == Coordinating(s) /\ thread[s][a] = state

Goto(s, a, state) == thread' = [thread EXCEPT ![s][a] = state]

Message(s, a, type, id) ==
    [type |-> type, call |-> Current(s), acceptor |-> a, id |-> id]

\* send() on a connection the dead acceptor no longer reads is lost.
Send(s, a, type, id) ==
    toAcceptor' = IF a \in broken[s] THEN toAcceptor
                  ELSE toAcceptor \cup {Message(s, a, type, id)}

\* The answers of a that the thread has not read: at most one.
Answers(s, a, type) ==
    {m \in toThread : m.call = Current(s) /\ m.acceptor = a /\ m.type = type}

Connect(s, a) ==
    /\ At(s, a, "connect")
    /\ a \in up
    /\ Len(conns[a]) <= Backlog
    /\ conns' = [conns EXCEPT ![a] = Append(@, Current(s))]
    /\ Goto(s, a, "propose")
    /\ UNCHANGED <<handlerVars, lock, promises, recounts, accepts, quorum, promiseId,
                   parserVars, broken, netVars, phase, promised, syncLog, store, log, file,
                   bufferVars, processVars, history>>

\* connect() fails: pthread_exit ends this thread only.
ConnectFail(s, a) ==
    /\ At(s, a, "connect")
    /\ a \notin up
    /\ Goto(s, a, "done")
    /\ UNCHANGED <<handlerVars, lock, promises, recounts, accepts, quorum, promiseId,
                   parserVars, broken, netVars, acceptorVars, file, bufferVars, processVars,
                   history>>

\* init() + 1: fscanf() leaves prom_id alone when the file is empty.
ProposalIds(s) ==
    IF file[DiskOf[s]] = Torn THEN {g + 1 : g \in Garbage} ELSE {file[DiskOf[s]] + 1}

\* get_quorum(), init(), and the first prepare.
Propose(s, a) ==
    /\ At(s, a, "propose")
    /\ \E n \in AliveCounts : quorum' = [quorum EXCEPT ![s][a] = QuorumOf(n)]
    /\ \E id \in ProposalIds(s) : id <= MaxId /\ Send(s, a, "prepare", id)
    /\ Goto(s, a, "promise")
    /\ UNCHANGED <<handlerVars, lock, promises, recounts, accepts, promiseId, parserVars,
                   broken, toThread, acceptorVars, file, bufferVars, processVars, history>>

\* The threads of s that have received something, be it the end of file, and
\* may be in get_tokens().
Parsing(s) ==
    {a \in Acceptor : /\ thread[s][a] \in {"promise", "accepted"}
                      /\ a \in broken[s] \/ \E m \in toThread : m.call = Current(s) /\ m.acceptor = a}

\* The threads that a may meet in get_tokens() and leave there.
Meetings(s, a) == {others \in SUBSET (Parsing(s) \ {a}) : mixes + Cardinality(others) <= MaxMixes}

\* Thread a leaves get_tokens(), where it met the others.
LeaveParser(s, a, others) ==
    /\ mixed' = [mixed EXCEPT ![s] = (@ \ {a}) \cup others]
    /\ mixes' = mixes + Cardinality(others)

\* The number in message m, as thread a reads it: when it met somebody it may
\* be in another buffer that was received, or not be there.
NumbersRead(s, a, m, others) ==
    IF a \notin mixed[s] /\ others = {} THEN {m.id}
    ELSE {0} \cup Range(promiseId[s]) \cup {k.id : k \in {n \in toThread : n.call = Current(s)}}

\* get_and_add_promise() counts a thread again when its accept was refused.
ReceivePromise(s, a) ==
    /\ At(s, a, "promise")
    /\ \E m \in Answers(s, a, "promise"), others \in Meetings(s, a) :
           /\ \E id \in NumbersRead(s, a, m, others) :
                  promiseId' = [promiseId EXCEPT ![s][a] = id]
           /\ toThread' = toThread \ {m}
           /\ LeaveParser(s, a, others)
    /\ promises' = [promises EXCEPT ![s] = @ \cup {a}]
    /\ recounts' = [recounts EXCEPT ![s] = IF a \in promises[s] THEN @ + 1 ELSE @]
    /\ Goto(s, a, "spin")
    /\ UNCHANGED <<handlerVars, lock, accepts, quorum, broken, toAcceptor, acceptorVars,
                   file, bufferVars, processVars, history>>

\* A NACK brings back the number it refuses: prepare again with the next.
Retry(s, a) ==
    /\ At(s, a, "promise") \/ At(s, a, "accepted")
    /\ \E m \in Answers(s, a, "NACK"), others \in Meetings(s, a) :
           /\ \E id \in NumbersRead(s, a, m, others) :
                  id + 1 <= MaxId /\ Send(s, a, "prepare", id + 1)
           /\ toThread' = toThread \ {m}
           /\ LeaveParser(s, a, others)
    /\ Goto(s, a, "promise")
    /\ UNCHANGED <<handlerVars, lock, promises, recounts, accepts, quorum, promiseId,
                   broken, acceptorVars, file, bufferVars, processVars, history>>

\* Mutant of PromisesComplete: one promise too few.
PromisesOffByOne(s, a) ==
    Cardinality(promises[s]) + recounts[s] >= quorum[s][a] - 1 \/ IsRead(Current(s))

\* Mutant of PromisesComplete: read_flag forgotten.
PromisesForAll(s, a) == Cardinality(promises[s]) + recounts[s] >= quorum[s][a]

\* while (promise_count < quorum && !read_flag)
PromisesComplete(s, a) ==
    Cardinality(promises[s]) + recounts[s] >= quorum[s][a] \/ IsRead(Current(s))

SendAccept(s, a) ==
    /\ At(s, a, "spin")
    /\ PromisesComplete(s, a)
    /\ Send(s, a, "accept", promiseId[s][a])
    /\ Goto(s, a, "accepted")
    /\ UNCHANGED <<handlerVars, lock, promises, recounts, accepts, quorum, promiseId,
                   parserVars, broken, toThread, acceptorVars, file, bufferVars,
                   processVars, history>>

ReceiveAccepted(s, a) ==
    /\ At(s, a, "accepted")
    /\ \E m \in Answers(s, a, "accepted"), others \in Meetings(s, a) :
           toThread' = toThread \ {m} /\ LeaveParser(s, a, others)
    /\ accepts' = [accepts EXCEPT ![s] = @ \cup {a}]
    /\ Goto(s, a, "learnSpin")
    /\ UNCHANGED <<handlerVars, lock, promises, recounts, quorum, promiseId, broken,
                   toAcceptor, acceptorVars, file, bufferVars, processVars, history>>

\* Mutant of AcceptsComplete: the counter of the first phase.
AcceptsByPromises(s, a) ==
    Cardinality(promises[s]) + recounts[s] >= quorum[s][a] \/ IsRead(Current(s))

\* while (accepted_count < quorum && !read_flag)
AcceptsComplete(s, a) ==
    Cardinality(accepts[s]) >= quorum[s][a] \/ IsRead(Current(s))

\* The request goes to the learner, the connection is closed.  The first
\* learn of a write decides it.
SendLearn(s, a) ==
    /\ At(s, a, "learnSpin")
    /\ AcceptsComplete(s, a)
    /\ Send(s, a, "learn", 0)
    /\ decided' = IF IsRead(Current(s)) \/ Current(s) \in Range(decided)
                  THEN decided ELSE Append(decided, Current(s))
    /\ Goto(s, a, "done")
    /\ UNCHANGED <<handlerVars, lock, promises, recounts, accepts, quorum, promiseId,
                   parserVars, broken, toThread, acceptorVars, file, bufferVars,
                   processVars, promisedBy, acceptedBy>>

\* The acceptor died and left no answer.  get_tokens() then returns
\* uninitialised pointers: atol() on one faults, or the answer is taken for
\* neither a promise nor a NACK and is not counted.
NoAnswer(s, a) ==
    /\ Coordinating(s)
    /\ a \in broken[s]
    /\ \A m \in toThread : ~ (m.call = Current(s) /\ m.acceptor = a)

EndOfFile(s, a) ==
    /\ NoAnswer(s, a)
    /\ \/ At(s, a, "promise") /\ Goto(s, a, "spin")
       \/ At(s, a, "accepted") /\ Goto(s, a, "learnSpin")
    /\ \E others \in Meetings(s, a) : LeaveParser(s, a, others)
    /\ UNCHANGED <<handlerVars, lock, promises, recounts, accepts, quorum, promiseId,
                   broken, netVars, acceptorVars, file, bufferVars, processVars, history>>

EndOfFileFaults(s, a) ==
    /\ NoAnswer(s, a)
    /\ At(s, a, "promise") \/ At(s, a, "accepted")
    /\ ServerDies(s)

\* The thread found no number where another one had moved strtok().
ParseFaults(s, a) ==
    /\ Coordinating(s)
    /\ a \in mixed[s]
    /\ ServerDies(s)

\* send() on a connection that was reset: SIGPIPE, which nobody handles.
BrokenPipe(s, a) ==
    /\ a \in broken[s]
    /\ \/ At(s, a, "propose")
       \/ (At(s, a, "promise") \/ At(s, a, "accepted")) /\ Answers(s, a, "NACK") # {}
       \/ At(s, a, "spin") /\ PromisesComplete(s, a)
       \/ At(s, a, "learnSpin") /\ AcceptsComplete(s, a)
    /\ ServerDies(s)
-----------------------------------------------------------------------------
(***************************************************************************)
(* Acceptor a, the loop of acceptor.c.                                     *)
(***************************************************************************)
\* The connection a has accepted; the next one is accepted when it is closed.
Serving(a) == Head(conns[a])

In(a, ph) == a \in up /\ phase[a] = ph /\ conns[a] # <<>>

\* Mutant of Close: the loop does not go back to PREPARE.
CloseInPlace(a) == conns' = [conns EXCEPT ![a] = Tail(@)] /\ phase' = phase

Close(a) ==
    /\ conns' = [conns EXCEPT ![a] = Tail(@)]
    /\ phase' = [phase EXCEPT ![a] = "prepare"]

\* The messages on the open connection that a has not read: at most one.
Inbox(a, type) ==
    {m \in toAcceptor : m.acceptor = a /\ m.call = Serving(a) /\ m.type = type}

\* An answer to a server that is gone is lost.
Reply(a, type, id) ==
    toThread' = IF Caller(Serving(a)) \notin up THEN toThread
                ELSE toThread \cup
                    {[type |-> type, call |-> Serving(a), acceptor |-> a, id |-> id]}

Enter(a, ph) == phase' = [phase EXCEPT ![a] = ph]

\* A number that is not below the promised one is promised: store_buffer()
\* empties INIT_Promise ...
Promise(a) ==
    /\ In(a, "prepare")
    /\ \E m \in Inbox(a, "prepare") :
           /\ m.id >= promised[a]
           /\ promised' = [promised EXCEPT ![a] = m.id]
           /\ toAcceptor' = toAcceptor \ {m}
    /\ file' = [file EXCEPT ![DiskOf[a]] = Torn]
    /\ Enter(a, "store")
    /\ UNCHANGED <<handlerVars, proposerVars, toThread, conns, syncLog, store, log,
                   bufferVars, processVars, history>>

\* ... writes the number, and the promise is sent.
StorePromise(a) ==
    /\ In(a, "store")
    /\ file' = [file EXCEPT ![DiskOf[a]] = promised[a]]
    /\ Reply(a, "promise", promised[a])
    /\ promisedBy' = promisedBy \cup {<<Serving(a), a>>}
    /\ Enter(a, "accept")
    /\ UNCHANGED <<handlerVars, proposerVars, toAcceptor, conns, promised, syncLog, store,
                   log, bufferVars, processVars, acceptedBy, decided>>

\* A lower number is sent back.
RefusePrepare(a) ==
    /\ In(a, "prepare")
    /\ \E m \in Inbox(a, "prepare") :
           /\ m.id < promised[a]
           /\ Reply(a, "NACK", m.id)
           /\ toAcceptor' = toAcceptor \ {m}
    /\ UNCHANGED <<handlerVars, proposerVars, acceptorVars, file, bufferVars, processVars,
                   history>>

\* The test of acceptor.c:119.  Of the request only the op word is compared
\* with the one of the prepare.
Acceptable(a, m) == m.id >= promised[a] /\ m.call.rq.op = Serving(a).rq.op

\* The second phase.  The op word goes to sync_log, at the accepted number;
\* otherwise the number is sent back and a prepare awaited.
AnswerAccept(a) ==
    /\ In(a, "accept")
    /\ \E m \in Inbox(a, "accept") :
           /\ toAcceptor' = toAcceptor \ {m}
           /\ IF Acceptable(a, m)
              THEN /\ m.id \in Index
                   /\ syncLog' = [syncLog EXCEPT ![a][m.id] = m.call.rq.op]
                   /\ acceptedBy' = acceptedBy \cup {<<Serving(a), a>>}
                   /\ Reply(a, "accepted", m.id)
                   /\ Enter(a, "learn")
              ELSE /\ Reply(a, "NACK", m.id)
                   /\ Enter(a, "prepare")
                   /\ UNCHANGED <<syncLog, acceptedBy>>
    /\ UNCHANGED <<handlerVars, proposerVars, conns, promised, store, log, file, bufferVars,
                   processVars, promisedBy, decided>>

\* learner() on a write.
Written(st, r) ==
    IF r.op = "PUT" THEN KV!PUT(st, r.key, r.val) ELSE KV!DELETE(st, r.key)

\* learner() on a write, then close().
LearnWrite(a) ==
    /\ In(a, "learn")
    /\ ~ IsRead(Serving(a))
    /\ \E m \in Inbox(a, "learn") : toAcceptor' = toAcceptor \ {m}
    /\ store' = [store EXCEPT ![a] = Written(@, Serving(a).rq)]
    /\ log' = [log EXCEPT ![a] = Append(@, Serving(a))]
    /\ Close(a)
    /\ UNCHANGED <<handlerVars, proposerVars, toThread, promised, syncLog, file, bufferVars,
                   processVars, history>>

\* learner() on a GET: fopen(GET_FILE, "w") empties the file ...
LearnRead(a) ==
    /\ In(a, "learn")
    /\ IsRead(Serving(a))
    /\ \E m \in Inbox(a, "learn") : toAcceptor' = toAcceptor \ {m}
    /\ buffer' = [of |-> None, val |-> Torn]
    /\ Enter(a, "write")
    /\ UNCHANGED <<handlerVars, proposerVars, evals, toThread, conns, promised, syncLog,
                   store, log, file, processVars, history>>

\* ... and fputs(), fclose() fill it; then close() of the connection.
WriteBuffer(a) ==
    /\ In(a, "write")
    /\ buffer' = [of |-> Serving(a), val |-> KV!GET(store[a], Serving(a).rq.key)]
    /\ evals' = Append(evals, Serving(a))
    /\ Close(a)
    /\ UNCHANGED <<handlerVars, proposerVars, netVars, promised, syncLog, store, log, file,
                   processVars, history>>

\* The process of acceptor a ends; answers it sent stay readable.
AcceptorDies(a) ==
    /\ up' = up \ {a}
    /\ broken' = [s \in Server |->
           IF thread[s][a] \in {"none", "connect", "done"} THEN broken[s] ELSE broken[s] \cup {a}]
    /\ toAcceptor' = {m \in toAcceptor : m.acceptor # a}
    /\ conns' = [conns EXCEPT ![a] = <<>>]
    /\ phase' = [phase EXCEPT ![a] = "prepare"]
    /\ UNCHANGED <<handlerVars, lock, promises, recounts, accepts, thread, quorum,
                   promiseId, parserVars, toThread, promised, syncLog, store, log,
                   bufferVars, restarts, history>>

\* An accepted number past the end of sync_log: the strcpy() faults.
AcceptFaults(a) ==
    /\ In(a, "accept")
    /\ \E m \in Inbox(a, "accept") : Acceptable(a, m) /\ m.id \notin Index
    /\ AcceptorDies(a)
    /\ UNCHANGED file

\* The server is gone and sent nothing that is unread.
Orphaned(a) ==
    /\ \E ph \in {"prepare", "accept", "learn"} : In(a, ph)
    /\ Caller(Serving(a)) \notin up
    /\ \A m \in toAcceptor : ~ (m.acceptor = a /\ m.call = Serving(a))

\* get_tokens() returns uninitialised pointers here too, and a send() meets a
\* reset connection: the acceptor faults or gets SIGPIPE, at the latest in
\* its second round.  Before, it may have promised 0, if that was its promise.
OrphanDies(a) ==
    /\ Orphaned(a)
    /\ AcceptorDies(a)
    /\ \/ UNCHANGED file
       \/ /\ phase[a] = "prepare" /\ promised[a] = 0
          /\ \E x \in {0, Torn} : file' = [file EXCEPT ![DiskOf[a]] = x]

\* Only at the learn may it find no known command and close the connection.
OrphanCloses(a) ==
    /\ Orphaned(a)
    /\ phase[a] = "learn"
    /\ Close(a)
    /\ UNCHANGED <<handlerVars, proposerVars, netVars, promised, syncLog, store, log, file,
                   bufferVars, processVars, history>>

\* The acceptor is started again with empty globals.  init() reads both files
\* into parameters; nobody is asked for what was learnt.
Restart(a) ==
    /\ a \notin up
    /\ restarts < MaxRestarts
    /\ up' = up \cup {a}
    /\ restarts' = restarts + 1
    /\ promised' = [promised EXCEPT ![a] = 0]
    /\ syncLog' = [syncLog EXCEPT ![a] = EmptyLog]
    /\ store' = [store EXCEPT ![a] = KV!EmptyStore]
    /\ log' = [log EXCEPT ![a] = <<>>]
    /\ UNCHANGED <<handlerVars, proposerVars, netVars, conns, phase, file, bufferVars,
                   history>>

Crash ==
    \/ \E s \in Mortal \cap Server \cap up : ServerDies(s)
    \/ \E a \in Mortal \cap Acceptor \cap up : AcceptorDies(a) /\ UNCHANGED file
-----------------------------------------------------------------------------
(***************************************************************************)
(* Where the code waits: connect() on a full queue, recv() with nothing to *)
(* read on a connection whose other end is open, the loops on the          *)
(* counters, the joins and the mutex.                                      *)
(***************************************************************************)
ThreadWaits(s, a) ==
    \/ thread[s][a] \in {"none", "done"}
    \/ thread[s][a] = "connect" /\ a \in up /\ Len(conns[a]) > Backlog
    \/ /\ thread[s][a] \in {"promise", "accepted"}
       /\ a \notin broken[s]
       /\ \A m \in toThread : ~ (m.call = Current(s) /\ m.acceptor = a)
    \/ thread[s][a] = "spin" /\ ~ PromisesComplete(s, a)
    \/ thread[s][a] = "learnSpin" /\ ~ AcceptsComplete(s, a)

\* The handlers of s: without a request, or in the join of run().
ServerWaits(s) ==
    \/ s \notin up
    \/ lock[s] = None /\ \A h \in Handler : Home[h] = s => req[h] = None
    \/ lock[s] # None /\ ~ Joined(s) /\ \A a \in Acceptor : ThreadWaits(s, a)

AcceptorWaits(a) ==
    \/ a \notin up
    \/ conns[a] = <<>>
    \/ /\ phase[a] \in {"prepare", "accept", "learn"}
       /\ Caller(Serving(a)) \in up
       /\ \A m \in toAcceptor : ~ (m.acceptor = a /\ m.call = Serving(a))
-----------------------------------------------------------------------------
ThreadStep(s, a) ==
    \/ Connect(s, a) \/ ConnectFail(s, a) \/ Propose(s, a)
    \/ ReceivePromise(s, a) \/ Retry(s, a) \/ SendAccept(s, a)
    \/ ReceiveAccepted(s, a) \/ SendLearn(s, a)
    \/ EndOfFile(s, a) \/ EndOfFileFaults(s, a) \/ ParseFaults(s, a) \/ BrokenPipe(s, a)

AcceptorStep(a) ==
    \/ Promise(a) \/ StorePromise(a) \/ RefusePrepare(a)
    \/ AnswerAccept(a) \/ AcceptFaults(a)
    \/ LearnWrite(a) \/ LearnRead(a) \/ WriteBuffer(a)
    \/ OrphanDies(a) \/ OrphanCloses(a)

\* What the system does by itself.
Work ==
    \/ \E h \in Handler : Acquire(h)
    \/ \E s \in Server : Return(s) \/ \E a \in Acceptor : ThreadStep(s, a)
    \/ \E a \in Acceptor : AcceptorStep(a)

Next ==
    \/ \E h \in Handler, r \in Request : Invoke(h, r)
    \/ Work
    \/ \E a \in Acceptor : Restart(a)
    \/ Crash

Spec == Init /\ [][Next]_vars

\* Every thread and every process is scheduled; clients need not send
\* requests, nothing needs to die or to be started again.
Fairness ==
    /\ \A h \in Handler : WF_vars(Acquire(h))
    /\ \A s \in Server : WF_vars(Return(s))
    /\ \A s \in Server, a \in Acceptor : WF_vars(ThreadStep(s, a))
    /\ \A a \in Acceptor : WF_vars(AcceptorStep(a))

FairSpec == Spec /\ Fairness
-----------------------------------------------------------------------------
\* The acceptors of a set of pairs <<call, acceptor>> that hold for call c.
For(c, pairs) == {a \in Acceptor : <<c, a>> \in pairs}

\* At least as many as some thread may take for a quorum.
IsQuorum(set) == \E n \in AliveCounts : Cardinality(set) >= QuorumOf(n)

\* No acceptor accepts a write that a quorum did not promise, whatever the
\* numbers were, whoever dies or is started again: promise_count holds only
\* promises for the request that is being proposed (proposer.c:178, 248).
QuorumBeforeAccept ==
    \A c \in Calls, a \in Acceptor :
        <<c, a>> \in acceptedBy /\ ~ IsRead(c) => IsQuorum(For(c, promisedBy))

\* The learn of a write that has left, or was executed.
LearnSent(c, a) ==
    c \in Range(log[a]) \/ \E m \in toAcceptor : m.type = "learn" /\ m.call = c /\ m.acceptor = a

\* No acceptor learns a write that a quorum did not accept (proposer.c:213).
LearntIsAccepted ==
    \A c \in Calls, a \in Acceptor :
        LearnSent(c, a) /\ ~ IsRead(c) => IsQuorum(For(c, acceptedBy))

\* A write that was answered has been sent to every acceptor that runs and
\* ran all the time, although nobody acknowledges the learn (proposer.c:220).
AnsweredOnItsWay ==
    restarts = 0 => \A a \in Acceptor \cap up : \A c \in answered : LearnSent(c, a)

\* When the first node evaluates a GET its table has every write that was
\* answered before the GET arrived, as long as that node is not started again:
\* nobody waited for the learns, but connections are served in their order.
ReadAfterWrite ==
    \A a \in Acceptor :
        In(a, "write") => before[Serving(a).handler] \subseteq Range(log[a])

\* A server in the first node's directory answers a GET with its own value, a
\* later one, or the one of the GET evaluated just before it: nobody waits for
\* the learner (proposer.c:220, rpc_kv_server.c:47), but the first node has
\* finished with that GET when it promises this one.  If the file was empty the
\* answer is what malloc() returned.  It is never two GETs behind.
GetLagsByOne ==
    \A h \in Handler, j \in DOMAIN evals :
        /\ DiskOf[Home[h]] = DiskOf[First] /\ result[h] # None
        /\ evals[j].handler = h /\ evals[j].n = issued[h]
        => /\ result[h].val = Leftover => j = 1
           /\ \A i \in DOMAIN evals : result[h].of = evals[i] => j <= i + 1

\* A write that is answered TRUE was accepted by a quorum (proposer.c:212:
\* "check if accepted is received by quorum"), also when the threads to dead
\* acceptors ended early, as long as some acceptor can be reached.
AnsweredIsAccepted == \A c \in answered : IsQuorum(For(c, acceptedBy))

\* Two acceptors that learnt the same two writes learnt them in the same
\* order (proposer.c:124: "Executes the propose protocol of Paxos").
SameOrder ==
    \A p, q \in Acceptor : \A i, j \in DOMAIN log[p], k, l \in DOMAIN log[q] :
        (i < j /\ log[p][i] = log[q][k] /\ log[p][j] = log[q][l]) => k < l

RL == INSTANCE ReplicatedLog WITH Replica <- Acceptor, Command <- Calls

\* With one server the protocol is a replicated log until an acceptor is started
\* again, whoever dies: the first learn decides a write, and every acceptor
\* executes the decided writes in order and without a gap.
ImplementsReplicatedLog == RL!Init /\ [][restarts' = 0 => RL!Next]_RL!vars

\* A write that some acceptor may learn is executed by every acceptor that
\* runs, unless the server ends while its threads send the learns.
DecidedIsLearnt ==
    \A c \in Calls : c \in Range(decided) ~>
        Caller(c) \notin up \/ \A a \in Acceptor \cap up : c \in Range(log[a])

\* Every request is answered (README.md:21 of project_4: "After the client
\* connects to the server, GET, PUT and DELETE requests can be sent"), unless
\* the server ends or the acceptors that run are no quorum.
EveryCallAnswered ==
    \A h \in Handler : req[h] # None ~>
        req[h] = None \/ Home[h] \notin up \/ ~ IsQuorum(Acceptor \cap up)

\* Neither end of a connection looks at where a message belongs: acceptor.c
\* takes what its recv() returns for a prepare, an accept or a request to learn
\* by its own place in the loop.  The message is always the one meant, and no
\* answer outlives the thread that waits for it, whoever died in between.
MessagesMatch ==
    /\ \A m \in toAcceptor :
           /\ m.call \in Range(conns[m.acceptor])
           /\ m.call = Serving(m.acceptor) => phase[m.acceptor] = m.type
    /\ \A m \in toThread :
           LET s == Caller(m.call) IN
           /\ lock[s] = m.call.handler /\ Current(s) = m.call
           /\ m.type = "promise" => thread[s][m.acceptor] = "promise"
           /\ m.type = "NACK" => thread[s][m.acceptor] \in {"promise", "accepted"}
           /\ m.type = "accepted" => thread[s][m.acceptor] = "accepted"

\* As long as a request is unanswered somebody is not waiting: servers that
\* compete for acceptors do not wait for each other for ever (README.md:19 and
\* 21 of project_4: requests "can be sent to the server", n01 to n05).
NoStall ==
    (\E h \in Handler : Home[h] \in up /\ req[h] # None) =>
        \/ \E s \in Server : ~ ServerWaits(s)
        \/ \E a \in Acceptor : ~ AcceptorWaits(a)
-----------------------------------------------------------------------------
(***************************************************************************)
(* Why QuorumBeforeAccept and LearntIsAccepted hold: the conjuncts of an   *)
(* inductive invariant.  What was promised and accepted is never undone in *)
(* the histories, so a quorum that was there once stays.  The counters of  *)
(* a server are about the request it serves, because run() resets them     *)
(* and an answer reaches only the connection of its own request.           *)
(***************************************************************************)
HandlerInv ==
    \A s \in Server : lock[s] # None => Home[lock[s]] = s /\ req[lock[s]] # None

\* A thread past its first prepare compares with a quorum it computed.
QuorumInv ==
    \A s \in Server, a \in Acceptor :
        thread[s][a] \in {"promise", "spin", "accepted", "learnSpin"} =>
            \E n \in AliveCounts : quorum[s][a] = QuorumOf(n)

CountInv ==
    \A s \in Server : lock[s] # None =>
        /\ promises[s] \subseteq For(Current(s), promisedBy)
        /\ accepts[s] \subseteq For(Current(s), acceptedBy)

AnswerInv ==
    \A m \in toThread :
        /\ m.type = "promise" => <<m.call, m.acceptor>> \in promisedBy
        /\ m.type = "accepted" => <<m.call, m.acceptor>> \in acceptedBy

MessageInv ==
    \A m \in toAcceptor : ~ IsRead(m.call) =>
        /\ m.type = "accept" => IsQuorum(For(m.call, promisedBy))
        /\ m.type = "learn" => IsQuorum(For(m.call, acceptedBy))

\* A thread counts again only after it saw a quorum of promises: an acceptor
\* refuses no accept before one was sent (proposer.c:199).
RecountInv ==
    \A s \in Server : lock[s] # None /\ ~ IsRead(Current(s)) =>
        /\ recounts[s] > 0 => IsQuorum(promises[s])
        /\ \A a \in Acceptor :
               /\ thread[s][a] \in {"connect", "propose"} => a \notin promises[s]
               /\ thread[s][a] = "promise" /\ a \in promises[s] => IsQuorum(promises[s])
               /\ thread[s][a] \in {"accepted", "learnSpin"} => IsQuorum(promises[s])

LogInv ==
    \A a \in Acceptor : \A i \in DOMAIN log[a] : IsQuorum(For(log[a][i], acceptedBy))

QuorumIndInv ==
    /\ TypeOK /\ HandlerInv
    /\ QuorumInv /\ CountInv /\ RecountInv /\ AnswerInv /\ MessageInv
    /\ QuorumBeforeAccept /\ LogInv
=============================================================================
