# Verification of the distributed key-value stores

The repository holds four versions of one course project: a key-value store
served over sockets (project_1), over Sun RPC with threads (project_2),
replicated with a two-phase commit (project_3) and with Paxos (project_4).
This directory models them in TLA+, checks the models with TLC on small
instances and proves theorems about them with TLAPS.

## 1. Inventory

| part | code | state | operations | what makes it correct |
|---|---|---|---|---|
| key-value table | `project_*/keyval.c` | `dict[100000][25]`, `flag[100000]` | PUT (refuses an existing key), GET, DELETE (clears the flag), `init_dict` (never called) | a lookup returns the last value put and not deleted |
| UDP pair | `project_1/udp{server,client}.c` | table, `fd_set`, timeout, resend budget | request/response, resend on timeout | answers match requests, no request is applied twice |
| TCP pair | `project_1/tcp{server,client}.c` | table, one connection | request/response, resend on timeout | answers match requests, both ends end |
| RPC dispatch | `project_{2,3,4}/rpc_kv_svc.c`, `project_2/rpc_kv_server.c` | one transport, a thread per request, a mutex | receive, decode, execute, reply, free | a client gets the answer of its own request |
| RPC clients | `project_{2,3,4}/rpc_kv_client.c` | an outstanding call | seven PUTs, then a command loop | one call at a time |
| 2PC coordinator | `project_3/coordinator.c`, `rpc_kv_server.c` | mutex, `ack_count`, `go_ack_count`, one thread per peer | put/get/delete handlers, `run`, `two_pc_protocol` | one order of writes on all peers, every request answered |
| 2PC peer | `project_3/2pc_server.c` | table, `GET_buffer`, one open connection, listen queue | accept, ACK, GO, execute | executes what was committed, in commit order |
| Paxos proposer | `project_4/proposer.c` | `promise_count`, `accepted_count`, a proposal id per thread | `run`, `propose` | learns only what a quorum accepted |
| Paxos acceptor | `project_4/acceptor.c` | `promised_id`, `current_accepted_id`, their files, `sync_log`, table | prepare, accept, learn, sync | never goes back on a promise, also after a restart |
| selector, heartbeat | `project_4/selector.c`, `heartbeat.c` | `SYSTEM_buffer`, count of living nodes | heartbeat round | quorums meet |
| log file, access queue | `project_*/logfile.c`, `others/` | a file; a list | append | nothing depends on them |
| stubs, samples | `*_clnt.c`, `*_xdr.c`, `example/`, `rpc/`, `threading/`, `try_check/` | | | generated, or not part of the stores |

How they interact: a client calls a procedure of an RPC server; the RPC
server's dispatcher starts a handler thread; the handler takes a process-wide
mutex and calls `run`, which in project_3 and project_4 opens TCP connections
to the peers (acceptors), one thread each; the threads meet in shared counters.
GET values travel through the file `GET_buffer`, proposal ids through
`INIT_Promise`, the number of living nodes through `SYSTEM_buffer`. The
programs of project_1 keep the table in the server and share nothing else.

What is hard: several servers coordinate at once over peers that serve one
connection at a time (ordering, deadlock); any process may die between two
steps; nothing times out in project_3 and project_4; files are truncated and
rewritten while others read them; receive buffers are not terminated;
project_1 resends requests that are not idempotent, and so does the RPC
library; the threads of a server share one transport, and those of a Paxos
proposer the static variable of `strtok()`. PROJECT.json lists the hazards line
by line.

## 2. Modules

| module | what it is | composed of |
|---|---|---|
| `KeyVal` | the table as operators | |
| `KVService` | abstract: one server, a command executed once between call and answer | `KeyVal` |
| `ReplicatedLog` | abstract: one order of commits, each replica executes it without a gap | |
| `UdpSession`, `TcpSession` | project_1 | `KeyVal`; implement `KVService` until a timeout |
| `RpcDispatch` | project_2's dispatcher and clients | `KeyVal`; implements `KVService` until an overlap |
| `TwoPhase` | project_3 | `KeyVal`; implements `ReplicatedLog` when nobody dies |
| `PaxosKV` | project_4's proposer and acceptor | `KeyVal`; implements `ReplicatedLog` for one server until a restart |
| `Selector` | project_4's heartbeat and the quorum read from its file | |
| `MC*` | instances for TLC | |
| `TwoPhaseProofs`, `TwoPhaseOrderProofs`, `PaxosKVProofs`, `PaxosKVOrderProofs`, `UdpSessionProofs`, `TcpSessionProofs`, `RpcDispatchProofs`, `SelectorProofs` | theorems | |

All of the plan this began with is done: the table, the two abstract
specifications, the two replicated stores, the dispatcher, the two socket
programs, the selector, and proofs of what holds for every instance: every
safety property that holds in the runs is proved, except `GetLagsByOne`.

`RpcDispatch` and the handlers of `TwoPhase` and `PaxosKV` are the same code
seen twice: project_3 and project_4 have project_2's `rpc_kv_svc.c`. The
replicated stores take the handler threads as given, each with its own request
and answer, which is what `ServesUntilOverlap` says of requests that do not
overlap; requests that do may be mixed up by the dispatcher before a handler sees
them, which is in `RpcDispatch` only.
`PaxosKV` takes the number of living nodes from a constant set (`AliveCounts`)
and `Selector` says how that number moves. The heartbeat servers and the
acceptors are different processes on different hosts (selector.c connects to
ports 20000 to 20003 of its own host, proposer.c to port 10000 of n01 to n05), so
the count is no count of acceptors and the two models have no state in common
but the file.

### Symbols in every module

`None` is no value. `Leftover`, `Torn`, `Garbage`, `Junk`, `Mangled`, `Unknown`
stand for what is read from memory or a file that holds nothing definite. All
bounds are constants whose comment in the module begins with "bound".

## 3. KeyVal and KVService

`dict` and `flag` become a record of two functions on `0 .. TableSize-1`. PUT
refuses a present key, DELETE clears the flag and leaves the string. The
25-byte limit of a slot and `atoi` are not modelled: a value is an atom.
`Reply` and `Apply` are what the servers send and what becomes of the table for
a parsed command; a command of too many tokens is "ERROR", an answer too.

`KVService` is what a client of a single server expects: `Call`, `Serve` (the
table and the answer in one step), `Return`.

## 4. The single servers

### UdpSession (project_1, udpclient.c and udpserver.c)

State: `pc`, `n`, `cmd`, `sendCount`, `watched` (the socket is still in the
`fd_set`), `shown` and `told` (what the user sees) of the client; `requests`
and `answers` in the network; `serving`, `store`, `executed` of the server; the
history `timedOut` and `deafFrom` (the first PUT of `init()` whose `select()`
timed out).

| action | code |
|---|---|
| `SendInit` | udpclient.c, `init()`: the next PUT; neither count nor set is renewed |
| `SendTyped`, `Quit` | `main()`: the count is reset, the set and the timeout are not, except that they are `main()`'s own and so fresh once after `init()` |
| `Receive` | `select()` reports the socket; the first datagram is printed, whatever it answers |
| `Resend`, `GiveUp` | `select()` returns 0 (`NothingHeard`): the set is empty from then on, and on Linux the timeout too |
| `Serve` | one turn of the server's loop: execute, answer, end after Q or too many tokens |

A datagram that is lost is one nobody reads, so loss and delay need no action;
the network does not duplicate. The sends and answers are sets: their order is
free.

`MCUdpSession_all`: two PUTs of `init()` (the second can be affected by the
first), four commands in all, so that two are typed; three sends instead of
five: one more than is needed to resend twice. Commands typed: PUT, GET of a
stored and of an invalid key, DELETE, a command of too many tokens, q, a word
that is no command, Q. A command has the tokens it needs: what the server finds in
its array of tokens when some are missing (udpserver.c:61-129 does not look) is
left out.

Properties: `OutOfStepOnlyAfterInit` (a late answer is printed for another
command only when a `select()` of `init()` timed out; one in `main()` makes the
client deaf, not confused), `AnsweredOnce` (a command whose own answer was
shown was executed once, for all the resending), `ServesUntilTimeout` (up to
the first timeout the session is `KVService`).

Proved in `UdpSessionProofs` for any INIT, any budget of sends and any number
of commands: all four. `SessionInv`: a copy of a command is on its way or
executed, never both nor twice (`CopyInv`); a command the client can still hear
the answer of, or has shown it of, has one copy (`SentInv`); what can still be
read answers the present command, until `init()` times out, and nothing older
than the command that timed out from then on (`UnreadInv`, with `DeafInv` and
`ShownInv`). `QuietInv` adds for the refinement what holds before the first
timeout: a request on its way is the present command. Assumption:
`SessionAssumption`.

### TcpSession (project_1, tcpclient.c and tcpserver.c)

As `UdpSession`, on a stream: `toServer` and `toClient` are sequences of sends,
and one `recv()` of either side may return several. The server parses them as
one string that ends at the first NUL; the client prints them. What else is
different: `init()` resends `strlen(INIT[1])` bytes of whatever PUT it resends,
so a longer one is `cut` and a shorter one takes its NUL along (`nul`);
`clientEnd` and `serverEnd` say what the system knows of the other side ("ok",
"reset", "broken"), because neither program looks at what `recv()` or `send()`
return: the next call reports the error, the one after it may raise SIGPIPE.

| action | code |
|---|---|
| `SendInit`, `SendTyped`, `Quit` | tcpclient.c: as above; Q also closes, and resets what was not read (`Close`) |
| `ClientDies` | the user kills the client, wherever it is; the socket is closed |
| `Receive`, `ReceiveEnd` | `recv()` of the client, after the end of the server too |
| `Resend`, `GiveUp` | as above, with `Write` for what becomes of a `send()` |
| `Serve` | tcpserver.c: `recv()` of k sends, `Parse`, `Execute`, `Answer` |
| `ServeEnd` | `recv()` returns 0 or -1, and the loop goes on |

`MCTcpSession_all`: three PUTs of lengths 12, 13 and 15, so that one is shorter
than INIT[1] and one is longer; five commands, the typed ones as for UDP; three
sends. Properties: `OutOfStepOnlyAfterInit`; `NoMangledValue`: a value nobody
typed is in the table only if a text without a colon was sent, a q, a Q or a word
that is no command. A cut PUT is refused since the whole one came first, and a
PUT that runs into a command with a colon has too many tokens, but
"PUT:6:Sunday" and a "q" behind it in one `recv()` store "Sundayq". In
`ServesUntilTimeout` the server leaves the service only when it was told to end;
`ServerEnds`: it ends after the client, killed or not, in spite of a loop that
ignores the end of the connection. What ends it then is SIGPIPE, and nobody asked
for that. Fairness: `WF(Serving)`: a `recv()` that can return does. The client's
user owes nothing.

Proved in `TcpSessionProofs` for any INIT and lengths of it, any budget of
sends, any number of commands and any merging of sends: all of them but
`ServerEnds`, which is liveness. The inductive invariant `SessionInv` has six
parts besides the properties:

- `EndInv`: what the client waits for, that what was sent is in `typed`, and that
  the server's end and its number are recorded together;
- `AskedInv`: before a timeout, and before the client has gone, the server ends
  only after an ERROR or a q was sent;
- `HearInv`: as long as the client can be told something (`Hears`: the socket is
  watched, no `select()` of `init()` timed out) one command or its answer is
  under way (`OneUnderWay`), so nothing can merge and no answer is of another
  command; after the server ended an error on the connection means that it
  ended at an earlier command;
- `SentInv`: what a send is; a Q is read only when the client has gone;
- `CutInv`: as long as no text without a colon was sent, in front of a cut PUT there are only sends of the same PUT, and when
  the first of them is gone the key is taken;
- `AgainInv`: while `init()` may send a PUT again, nothing but that PUT is
  unread, and once the server has read it the key is taken. It is what makes
  `CutInv` inductive.

`NoMangledValue` rests on `PutIsAlone`: a string that begins with a PUT and has a
second send with a colon in it has at least three colons (`ParsePut`), which the
server refuses. The colons of a string are counted as the cardinality of a set
of positions, and the first NUL is the least of a set of numbers
(`LeastNumber`, from the well-foundedness of <), so neither needs induction.
Assumption: `SessionAssumption`.

### RpcDispatch (project_2; the same file in project_3 and project_4)

State: `xid`, `call`, `accepted` (clients, with the library), `requests`,
`replies` (datagrams), `xprt` (the request the transport holds), `xdrs` (what
decoding it does: decode the arguments, yield anything since the buffer was used,
or free them), `thread`, `store` (server), `overlaps` and the history `outcome`,
`received`, `calm` (no request was read while a thread ran, none twice).

| action | code |
|---|---|
| `Call`, `Accept` | rpc_kv_client.c and the stubs: one call at a time |
| `Retransmit` | the library, over UDP (the `clnt_create` of rpc_kv_client.c) |
| `Receive` | `svc_run()` and `keyval_prog_1`, which starts a detached thread |
| `Dispatch` | the `switch` on `rq_proc` in the thread |
| `GetArgs` | `svc_getargs` |
| `Execute` | `put_1_svc` and the others: one critical section |
| `Reply` | `svc_sendreply` or `svcerr_decode`, which ends the thread |
| `FreeArgs`, `EndThread` | `svc_freeargs`: the transport is told to free what it decodes and the arguments gone through; then the thread ends |

The thread is given pointers to the transport, of which there is one, and to
the request, which lies on the main thread's stack where the next request is
put at the same place. So `Dispatch`, `GetArgs` and `Reply` read `xprt`, not
what the thread was started for. A buffer that something was encoded in or that
was decoded once may hold anything (`JunkKeys`, `Junk`) or nothing that decodes.
`svc_freeargs` runs after the client has its answer, on the transport the next
request may already be in: the thread of that request then decodes nothing, and
executes key 0 and the empty string (`xdrs = "freed"`).
The RPC library is not in the repository; these are the calls the code makes.

`MCRpcDispatch_all`: two clients, one with a PUT of its own and a GET, one with
a DELETE, two threads, any request sent again at any time, one overlap: two
requests at once is the least at which a transport is shared, and a third
reaches it after the overlap. A request read while a thread that has answered
still frees its arguments is an overlap too. Properties: `EveryCallReturns`,
`ServesUntilOverlap` (until a request is read in an overlap, or twice, the server
is `KVService`; requests and answers lost, late or sent again change nothing).
Fairness: threads run, the library goes on sending, and neither all requests of a
call are lost nor all answers; with the bound `MaxOverlaps` requests do not
overlap for ever, without which `EveryCallReturns` does not hold.

Proved in `RpcDispatchProofs` for any clients, threads and bounds: `TypeOK` and
`ServesUntilOverlap`. `DispatchInv` are the types and what a thread has at each place;
`QuietInv` says, as long as all is calm, that there is one thread at most, that
the transport holds its request and what it decoded, and that each call is at one
place: a request, a thread, a reply or none.
Assumption: `DispatchAssumption`.

What no property says is what happens in an overlap: by the model, a thread
may run another client's arguments, or none, and answer another client, which is
what the code does and no document denies.

## 5. TwoPhase (project_3)

State: `req`, `issued`, `result` (handlers), `lock`, `acked`, `goAcked`, `thread`
(coordinator), `backlog`, `serving`, `phase`, `store`, `buffer` (peers),
`ackMsg`, `goMsg` (the network), `up` (living processes), and the history
variables `before`, `decided`, `log`, `evals`.

| action | code |
|---|---|
| `Invoke`, `Acquire`, `Return` | `put_1_svc`/`get_1_svc`/`delete_1_svc` around `run()`; `Acquire` includes the counter reset and the thread creation, `Return` the join, reading `GET_buffer` and the unlock |
| `Connect`, `ConnectFail` | coordinator.c:44-81; a failed connect is `exit(1)` |
| `ReceiveAck`, `SendGo`, `ReceiveGoAck`, `Close` | coordinator.c:83-107, with the two spin loops as guards |
| `BrokenPipe`, `PeerBrokenPipe` | a send on a connection the dead end has reset |
| `Prepare`, `ReceiveGo`, `Abandon` | 2pc_server.c:75-98 |
| `ExecuteWrite`, `TruncateBuffer`, `WriteBuffer` | `exec_rqst`; the file is empty between `fopen` and `fclose` |
| `Crash` | a process of `Mortal` dies; it does not come back (a new server is another member of `Server`; a peer keeps nothing on disk) |

Merged steps are those between which the other side can observe nothing. The
counters are sets of threads: the mutex makes increments atomic and a thread
increments each once. The answer of a GET is what `ReadBuffer` finds in the
file: nothing, an earlier GET's value or its own, with the GET that wrote it; a
server that does not share the first peer's directory (`Shared`) finds what lay
there. `StaleBuffer` lets a thread see ACK, or not see it,
because `recv_buff` is never cleared or terminated (coordinator.c:45, 83-85).
The build has no optimisation flags, so the spin loops read the counters anew.

| run | instance | shows |
|---|---|---|
| `MCTwoPhase_safety` | 2 servers, 2 peers, 1 handler each, 2 requests each, PUT and GET of one key, s1 and both peers mortal, stale buffers, a listen queue of 1 | the invariants below under deaths |
| `MCTwoPhase_refines` | the same, nobody dies, clean buffers | `ImplementsReplicatedLog`; a decided write reaches all peers (`CommitCompletes`) |
| `MCTwoPhase_live` | 1 server, 2 handlers, PUT, GET, DELETE, clean buffers | every request is answered; with stale ones a thread may miss an ACK (coordinator.c:83-88) and wait for ever, which the model has and this run does not |
| `MCTwoPhase_deadlock` | 2 servers | violation: two PUTs block each other |

Two peers are the code's own `count`; two servers are enough to race and to
deadlock; one key makes every pair of writes conflict; a queue of one makes it
full (the code's is 5).

Properties: `OneCommitAtATime`, `SameOrder` (writes executed by two peers are
in the same order on both), `AnsweredEverywhere` (an answered write is executed
or about to be on every living peer), `ReadAfterWrite` (the first node has
executed every write answered before the GET it evaluates), `GetLagsByOne` (the
answer of a GET, read from a file nobody waited for, may be empty or the value of
the GET evaluated just before, never of an older one: the first peer has finished
with a GET when it sends its first ACK of the next),
`ImplementsReplicatedLog`, `CommitCompletes`, `EveryCallAnswered`.

Fairness: weak fairness of each thread and process step (the operating system
schedules them; nothing else is waited for) and of taking the mutex. The number
of requests is bounded, so weak fairness of the mutex loses nothing to
starvation by an endless stream of other handlers; the code does not promise
more. Clients need not call, processes need not die.

### Proofs (TwoPhaseProofs)

For any finite set of peers, any servers, handlers, requests, deaths and stale
buffers: `TypeCorrect`, `CommitInvariant`, `CommitsOneAtATime`.

The invariant `CommitInv` (TwoPhase, last section) says where the connection
of each thread stands (`QueueInv`, `AckInv`, `GoInv`, `CountInv`), when a write
is in the commit order (`DecidedInv`), and `LastInv`: a peer that executes, or
has a GO under way, works on the last decided write. The step that matters is
the first GO of a write: its barrier was passed, so every thread of that server
is at the barrier, so every living peer is connected to it and waits for GO
(`AckInv`), so no peer is executing anything else. `TypeOK` is inductive only
with `HandlerInv` and `PhaseInv` (`TypeInv`): the types of messages follow from
who holds the mutex.

### Proofs (TwoPhaseOrderProofs)

On top of `CommitInv`, and as general: `WritesInOneOrder` (`SameOrder`),
`AnswersMeanReached` (`AnsweredEverywhere`), `ReadsSeeAnsweredWrites`
(`ReadAfterWrite`), and, where `Mortal` is empty, `IsReplicatedLog`
(`ImplementsReplicatedLog`).

- `OrderInv`: what a peer has executed is a subsequence of `decided`. A peer
  executes only the last decided write (`LastInv`), and has not executed it yet
  (`Fresh`), so what it appends stays in order; what is decided is appended.
  Two subsequences of one sequence without repetitions (`OnceInv`) have their
  common elements in one order.
- `ReachInv`: a thread past the second ACK has its write at its peer: executed,
  or being executed, or the peer is dead. An answered write has all its threads
  there; a reached write stays reached (`ReachedStays`).
- `GapInv`, when nobody dies: a peer lacks at most the last decided write. A
  new write is decided when every peer waits for its GO, and then it lacks none
  (`Lagging`). So what it executes is its next index in the commit order, which
  is the step of `ReplicatedLog`.

Assumptions used: `ProcessAssumption`, `DataAssumption`, `NoneAssumption`, all
stated in TwoPhase and evaluated by TLC. Model-checked only: `GetLagsByOne` and
the liveness properties (temporal proofs under fairness are out of the prover's
reach).

## 6. PaxosKV (project_4)

State: `req`, `issued`, `result` (handlers), `lock`, `promises`, `recounts`,
`accepts`, `thread`, `quorum`, `promiseId`, `mixed`, `mixes`, `broken` (proposer),
`conns`, `phase`, `promised`, `syncLog`, `store` (acceptors), `toAcceptor`,
`toThread` (the network), `file` (`INIT_Promise`, one per directory), `buffer`
(`GET_buffer`), `up`, `restarts`, and the history variables `before`, `answered`,
`promisedBy`, `acceptedBy`, `decided`, `log`, `evals`.

| action | code |
|---|---|
| `Invoke`, `Acquire`, `Return` | the handlers of rpc_kv_server.c around `run()`; `Acquire` includes the counter reset and the creation of the threads, `Return` the joins, the read of `GET_buffer` (`ReadBuffer`) and the unlock; a write is answered TRUE in any case |
| `Connect`, `ConnectFail` | proposer.c:42-69; a failed connect ends the thread, not the process |
| `Propose`, `ReceivePromise`, `Retry` | proposer.c:141-175: the number is read from `INIT_Promise`, a NACK repeats with the next number |
| `Parsing`, `Meetings`, `LeaveParser`, `NumbersRead`, `ParseFaults` | proposer.c:81-100: the threads of a request meet in `strtok()`, see below |
| `SendAccept`, `ReceiveAccepted`, `SendLearn` | proposer.c:178-222, with the two spin loops as guards; nothing is awaited after the learn |
| `EndOfFile`, `EndOfFileFaults`, `BrokenPipe` | what the thread does when its acceptor is dead: uninitialised tokens are taken for an answer that is neither, or fault; SIGPIPE |
| `Promise`, `StorePromise`, `RefusePrepare` | acceptor.c:73-106; the file is empty between its `fopen` and `fclose` |
| `AnswerAccept`, `AcceptFaults` | acceptor.c:108-140, sync_log included |
| `LearnWrite`, `LearnRead`, `WriteBuffer` | `learner()` and the close |
| `OrphanDies`, `OrphanCloses` | what the acceptor does at the end of a dead server's connection |
| `Restart` | acceptor.c:36-60: all globals empty again, the files are read into parameters |
| `Crash` | a process of `Mortal` dies |

A call in a message stands for both the request and the connection it travels
on; a thread makes one connection to its acceptor, so the two coincide. The
counters are sets of threads, and `recounts` says how often a thread was counted
again: it prepares again when its accept is refused. `DiskOf` says which
processes share a directory: the installation of the README (home directories
of n01 to n05 on NFS) puts all in one, a local disk each in its own; both are
checked. `Garbage` are the values an uninitialised `prom_id` may have after
`fscanf` met an empty file.

`get_tokens()` walks through a message with `strtok()`, which keeps its place in
a static variable, and five threads of a request call it without a lock. A thread
is `Parsing` from the moment something can be received until its step is taken;
one that leaves may have met any others there (`Meetings`), which are `mixed` then.
One that met somebody reads as its number that of its own message, that of any
answer the other threads have received, or 0 (`NumbersRead`): its first token is
always its own, so a promise stays a promise. One that another thread met may
instead find no second token; `atol()` then reads an uninitialised pointer and the
server dies (`ParseFaults`). What follows is in the model: an accept with a
foreign number, above the one promised or below it; a NACK of that accept; a
second prepare on the connection and a promise that is counted twice. A bound,
`MaxMixes`, says how often threads meet.

| run | instance | shows |
|---|---|---|
| `MCPaxosKV_safety` | 2 servers, 2 acceptors, shared directory, PUT and GET, s1 mortal, garbage 0 or 5, sync_log of 5 entries, one meeting in `strtok()` | types, both quorums, answers and reads; each message is read by the `recv()` it was meant for |
| `MCPaxosKV_restart` | 1 server, 3 acceptors, own directories, n02 mortal, one restart, 2 PUTs; garbage 0 only, no meetings | `QuorumIndInv`, `AnsweredIsAccepted` under a restart; `NoStall`: a minority that is down stops nobody; `ImplementsReplicatedLog` until the restart |
| `MCPaxosKV_live` | 1 server, 3 acceptors, own directories, one PUT or GET, garbage 0 or 5, sync_log of 5 entries, one meeting in `strtok()` | the request is answered, a decided write learnt |
| `MCPaxosKV_order` | 2 servers, no meetings | violation: acceptors learn two writes in opposite order |

Two or three acceptors: two need both (the quorum is 2), three leave a minority
that may be down or late; the code has five, and nothing depends on the number
but the quorum. Two servers are enough to compete. `LogSize` 5 and `MaxId` 6
let a number reach the end of sync_log (the code's is 20000), and `AcceptFaults`
kill an acceptor, in the runs whose garbage has 5. In `MCPaxosKV_restart` numbers
that are read whole grow by one with each call and garbage is 0, which narrows its
`NoStall` to number files that do not read out of range; the proofs of its
properties make no such assumption. A bound of the
numbers, `MaxId`, disables `Propose` and `Retry` beyond it; numbers grow only
with retries and with new promises, and the runs that ask for progress need
less than it: a thread stopped by the bound would show as a request that is never
answered.

Properties: `QuorumBeforeAccept`, `LearntIsAccepted` (the two quorums),
`AnsweredOnItsWay` (an answered write is executed or under way at every acceptor
that ran all the time), `ReadAfterWrite`, `GetLagsByOne` (the answer of a GET may
be empty or the value of the GET evaluated just before, never of an older one),
`NoStall`, `ImplementsReplicatedLog`; `EveryCallAnswered` and `DecidedIsLearnt`,
which excuse a server that ended: `strtok()` or the death of an acceptor may kill
it at any `recv()`, even between two learns of one write. `MessagesMatch`: neither program checks
that a message is of the kind its `recv()` expects, the protocol has to see to it.
`NoStall` is about waiting: `ThreadWaits`, `ServerWaits` and `AcceptorWaits` have
one disjunct for each call or loop the code blocks in, and not everybody may be in
one while a request is unanswered. The refinement holds for one server
only: project_4 is not Paxos. A promise does not carry an earlier accepted
request and an acceptor executes whatever it is sent, so quorums do not order
writes of different servers (`MCPaxosKV_order`).

Fairness: as in TwoPhase, each thread and each process is scheduled. Threads
meet in `strtok()` finitely often (`MaxMixes`): if each accept were given a
foreign number the thread would be refused for ever.

### Proofs (PaxosKVProofs)

For any servers, handlers, finite set of acceptors, requests, contents of torn
files, deaths and restarts: `TypeCorrect`, `QuorumInvariant`,
`QuorumPromises`, `LearntByQuorum`.

The inductive invariant `QuorumIndInv` (PaxosKV, last section): an answer under
way says what the history says (`AnswerInv`); what a server counted, the
history has for the call it serves (`CountInv`, kept by the reset in `run()`
and because an answer reaches only the connection of its own call); a thread in
a spin loop compares with a quorum (`QuorumInv`); so a message it sends after
the loop has its quorum in the history (`MessageInv`, lemma `SpinPassed`), and
the acceptor that acts on the message does too (`QuorumBeforeAccept`,
`LogInv`). A promise may be counted twice (`recounts`); `RecountInv` says why this
does no harm: an accept is refused only after it was sent, hence after a quorum
of different threads had been counted, so whoever is counted again adds to a
quorum that is there already. Histories only grow, and a superset of a quorum is one
(`QuorumGrows`, from cardinalities of finite sets). Nothing about proposal
numbers is needed, so the theorems hold even though the number file is
unreliable and `strtok()` mixes numbers up; they say of course nothing about the order of writes. `HandlerInv`
(who holds a server's mutex is one of its handlers and serves a call) is what
makes `TypeOK` inductive. Assumptions used: `ProcessAssumption`,
`NumberAssumption`, `DataAssumption`, `NoneAssumption`.

`AnswersAreAccepted` and `AnswersAreAcceptedWhile` (`AnsweredIsAccepted`) need
a hypothesis, because `run()` answers TRUE whatever its threads met: some
acceptor runs and none was started again, or one acceptor stays up. Under either
that acceptor's thread connected (`PassedBy`), and a thread that connected ends
only after it has seen a quorum accept (`MayEnd`); with both hypotheses gone, all
threads may have failed to connect.

### Proofs (PaxosKVOrderProofs)

What follows from where the two ends of a connection stand. `ChannelInv` is an
account of one connection from both its ends:

- `CallInv`: a call that was answered or has a connection is not served again;
- `ConnInv`: an acceptor has connections only while it runs, and one of a call
  that is being served belongs to a thread that is past `connect()`;
- `ToAcceptorInv`, `ToThreadInv`: a connection carries one message at a time,
  and the message says in which `recv()` the acceptor and the thread are
  (`Awaits`: a NACK finds the thread waiting for a promise or for an accepted);
- `ThreadInv`, `FileInv`: the same for the end that is computing or writing a
  file while no message is on its way.

It is inductive with the types alone, whatever the number file holds and
whatever `strtok()` makes of it. TLC checked `ChannelInv` as an invariant of the
PaxosKV instances before it was proved.

`SentInv` adds, for as long as no acceptor is started again, that a connection
breaks only when its acceptor dies, that a thread which is done has sent its
learn or works for an acceptor that is down, and that a learn once sent is
executed or on an open connection. `AnswersAreSent` is its last part;
`ReadsSeeWrites` follows because an acceptor that evaluates a GET has executed
what came on the connections before. A restart breaks both (the table is in
memory), hence `restarts = 0`.

`IsReplicatedLog` is the refinement for one server: until an acceptor is started
again every step is one of `ReplicatedLog` or changes nothing it sees. It needs no
hypothesis on deaths. `PrefixInv`: a write is decided only when those
decided before it were answered, since a server works for one request at a time
(`DecidedInv`); every log is a prefix of the decided writes, and a learn on its
way to an acceptor is the next one it lacks (`LogsInv`).

`MessagesFit` (`MessagesMatch`) is read off `ChannelInv`.

`NoDeadlock` is `NoStall` for any number of servers. Its hypothesis is that more
than |Server| * (q - 1) acceptors stay up, where q is the largest quorum
(`QuorumOf`) a server can compute: one server needs q acceptors, two servers
2q - 1, which is all three of three and all five of five. Two servers with
two acceptors left and q = 2 do stall: TLC finds `NoStall` violated in the
instance of `MCPaxosKV_order` with `Down = {n03}`. The argument:

- `TurnInv`: on an open connection it is always somebody's turn: a message is on
  its way, or one end is about to send (proved inductive from `ChannelInv`). So
  when everybody waits, an acceptor with a connection serves a thread that spins
  (`ServesSpinner`), and its server counts too few answers (`Short`);
- `CountedBy`: a thread past a `recv()` of a write has its acceptor in the
  counter the loop compares, as long as that acceptor stays up. So a server that
  is short has less than q acceptors in that state;
- `Pigeons`: a set covered by n sets of at most k elements has at most n * k. An
  acceptor that serves nobody has served the short server already, so every
  acceptor of U is counted by some server, which is one too many.

Model-checked only: `GetLagsByOne` and the liveness properties.

Left out of the model: SYNC (`server_sync` has no caller), `INIT_Accepted` and
`current_accepted_id` (written, never used), the sizes of the 25- and 50-byte
buffers, the digits of two writers mixing in `INIT_Promise`, an index just past
sync_log that overwrites other globals instead of faulting, timeouts of
`connect` on a full queue, and when `SYSTEM_buffer` changes (`AliveCounts` is the
set of its contents; `Selector` has the changes).

### Other disagreements between code and comments

Met while modelling; they follow from the actions named and have no run of
their own:

- proposer.c:178 with one of three acceptors down (`Down`): two servers are
  served by one acceptor each and spin for ever for a second promise, although
  a majority runs. `NoDeadlock` says when that cannot happen.
- proposer.c:212 "check if accepted is received by quorum": `ConnectFail` ends
  only its thread and `run()` returns true, so a PUT that could reach no
  acceptor at all is answered TRUE. `AnsweredIsAccepted` holds as long as one
  acceptor can be reached.
- proposer.c:81 `get_tokens()` is called by five threads and `strtok()` is not
  reentrant (`Meetings`): an accept may carry another thread's number, be refused
  (acceptor.c:134) though its proposal was promised, and the server may die with
  the request unanswered, or after a part of its learns was sent
  (`NumbersRead`, `ParseFaults`).
- acceptor.c:18 "store greatest promised id in this file": acceptors of one
  directory overwrite each other's number (`StorePromise`).
- acceptor.c:52-54 "They respond with their logs": nobody calls `server_sync`,
  so a first node that was started again answers GETs from an empty table
  (`Restart`); `ReadAfterWrite` is about nodes that were not.
- acceptor.c:23 "stores the requests learnt till now": requests accepted under
  one number overwrite one entry of sync_log (`AnswerAccept`).
- project_4/README.md:23 "check the system durability in case, of node
  failure": `EndOfFileFaults`, `BrokenPipe`; the death of an acceptor can end
  the server.
- project_4/rpc_kv.x:8 and project_3/rpc_kv.x:7: a GET of project_3 and
  project_4 reads `GET_buffer` without waiting for the peer, which acknowledges
  before it writes (2pc_server.c:93, rpc_kv_server.c:47): the answer may be that
  of the GET before, or what `malloc()` returned if the file is empty, or of no GET
  at all when it is in another directory. `GetLagsByOne` is what remains true.
- coordinator.c:152: `run()` returns true whatever the peers did; a PUT of an
  existing key has no effect and is answered TRUE. The same holds in project_4.
- coordinator.c:94: a server that dies after some of its GOs leaves a write that
  a part of the peers executes (`Crash`, `BrokenPipe`). Project_3 has no way to
  finish it; `SameOrder` is what remains true.
- acceptor.c:262: `init()` gets `promised_id` by value, so an acceptor that is
  started again accepts numbers below its promise (`Restart`).
- tcpserver.c:81-99: a text without a colon that `recv()` returns behind a PUT
  becomes part of its value (`Parse`, `NoMangledValue`).
- rpc_kv_svc.c:89: `svc_freeargs()` of one thread takes the arguments of the next
  request away (`FreeArgs`, `GetArgs`).
- selector.c:89: every failed `connect()` leaves a descriptor open (`Probe`).
- proposer.c:73: a quorum computed from an empty `SYSTEM_buffer` is that of an
  uninitialised buffer (`GetQuorum`).
- selector.c:43: a selector whose first count is 0 leaves the number of the one
  before in `SYSTEM_buffer` (`FileIsLastCount`).
- udpclient.c:100: after a timeout in `init()` the answers lag behind the
  commands for the rest of the session (`OutOfStepOnlyAfterInit`).
## 7. Selector (project_4, selector.c, heartbeat.c, get_quorum)

State: `up` (the nodes), `pc`, `i`, `alive`, `lastVal`, `leaked` (the
selector), `file` (`SYSTEM_buffer`), `quorum` (of each proposer), the counters
`flips`, `starts` and the history `wrote`, `found` (has this selector written the
file, and what did it find there), `whole` (the proposers whose last quorum was
read from a count), `always`, `ever`, `repaired`.

| action | code |
|---|---|
| `Probe` | one turn of the loop in `heartbeat()`: `tcp_connect`, and `close` only if it succeeded |
| `Unchanged`, `Truncate`, `Flush` | its end: nothing, or `fopen`, and `fclose` that writes |
| `GetQuorum` | `get_quorum()` in proposer.c, at any time; from the empty file it computes the quorum of whatever c[] holds (`Garbage`), which the proposer goes on with |
| `Fail`, `ComeBack` | heartbeat.c: the node answers or it does not |
| `Kill`, `Start` | the selector ends at any time, and is started again with the old file |

`socket()` without a descriptor ends the selector (`Exhausted`), and `fopen()`
gives a null pointer that `fputs()` follows, which ends it too.

`MCSelector_all`: four nodes (the code's `len`), two proposers, two failures or
returns, one restart, five descriptors: enough for one node that is down to be
met in every sweep until the limit. `Shipped` is what the file holds in the
repository. `Garbage` is 0 and 9: a quorum too small, one too large. Properties:
`CountBounds` (the count of a sweep lies between the nodes up all through it and
those up at some time), `FileIsLastCount` (between two writes the file holds the
last count once this selector wrote one; a first count of 0 equals the initial
`last_val` and is not written, so until then the file keeps the number of the
selector before, or is empty if that one was killed while writing),
`QuorumsMeet`, `SettlesOrEnds`.

`QuorumsMeet` says: while nodes only fail, two quorums read from counts, however
old, cannot be gathered apart from each other among the nodes that are up. It
does not say that the nodes of an earlier quorum still live, nor anything of a
quorum made of an uninitialised c[] (proposer.c:73-78): that may be 1, the model
has it, and two such quorums need not meet. Fairness: `WF(SelectorStep)`: it sleeps
between sweeps and goes on. `SettlesOrEnds` holds because a node that stays
down ends the selector: selector.c:89 leaves a socket open each time.

Proved in `SelectorProofs` for any number of nodes and proposers: `TypeOK`,
`CountBounds`, `FileIsLastCount`, `QuorumsMeet`. `SelectorInv` has `SweepInv`
(`up` is between `always` and `ever`), `FlushInv` and `QuorumInv`: while nodes
only fail, everything that was counted, is in the file, or went into a quorum
is at least the number of nodes that live now. Two majorities of at least the
living have more members than there are living nodes, so one in common
(`FS_Union` and its like for finite sets). Assumption: `SelectorAssumption`.

## 8. What is proved, and what is not

Each proof module states its theorems at its end, over the component's own
`Spec`, for every value of the constants that satisfies the assumptions of the
component. Eight modules hold theorems; those of the runs' properties they state
are in PROJECT.json under "theorems".

Out of the prover's reach, and left to TLC: liveness under fairness
(`CommitCompletes`, `EveryCallAnswered`, `DecidedIsLearnt`, `EveryCallReturns`,
`SettlesOrEnds`, `ServerEnds`) and induction over data. `GetLagsByOne` is a safety
property that was checked only.

## 9. Not modelled

- The log file: a time and a line are written to a file nothing reads.
- The access queue of `others/`: no program links it.
- The rpcgen stubs, XDR and the RPC library: external. `RpcDispatch` models from
  the calls in `rpc_kv_svc.c` and `rpc_kv_client.c` how the library reads,
  decodes, answers and resends.
- The TCP transport that the RPC servers register too: every client of the
  repository asks for "udp".
- `leader_election` (selector.c), `server_sync` and the SYNC branch it would
  use (acceptor.c), `init_dict`: no program calls them.
- `example/`, `rpc/`, `threading/`, `try_check/`: tutorial programs.
- The characters of messages and strings, wording of output, socket errors
  other than those that follow from the death of an end of a connection.
