----------------------------- MODULE RpcDispatch -----------------------------
(***************************************************************************)
(* project_2: the key-value table behind Sun RPC over UDP, with a thread   *)
(* for each request (rpc_kv_svc.c; project_3 and project_4 have the same   *)
(* file).                                                                  *)
(*                                                                         *)
(* The main thread of the server reads one datagram at a time, in          *)
(* svc_run(), into the only transport, and keyval_prog_1() starts a        *)
(* detached thread with pointers to the request and to that transport.  It *)
(* does not wait: by the time the thread reads the procedure number,       *)
(* decodes its arguments or answers, the transport may hold a later        *)
(* request, and what was decoded or encoded in its buffer since.  Nor is a *)
(* thread done with the transport when it has answered: svc_freeargs()     *)
(* then tells it to free what it decodes, and leaves it so.  The struct    *)
(* the procedure number is in is on the main thread's stack; the next      *)
(* request is put in the same place, and nothing else is.                  *)
(*                                                                         *)
(* A client (rpc_kv_client.c) makes one call at a time.  The RPC library   *)
(* sends its request again while no answer with the number of the call has *)
(* come; it gives up after 5000000 s, taken as never.  The network may     *)
(* delay and reorder datagrams; one that is lost is one that is never read.*)
(* Equal ones in flight count as one.  The buffer of the transport, 8800   *)
(* bytes, is never decoded to its end, so that svc_freeargs() succeeds.    *)
(***************************************************************************)
EXTENDS Integers, Sequences

CONSTANTS
    Client,       \* programs rpc_kv_client
    Thread,       \* bound: threads of the server that run at once
    InitPuts,     \* InitPuts[c]: the PUTs c makes first, by its client_id
    Typed,        \* Typed[c]: the commands its user may type
    MaxCalls,     \* bound: MaxCalls[c] calls of c
    MaxOverlaps,  \* bound: times a request is read while another is being served
    JunkKeys,     \* keys that bytes of another message may be decoded as
    Junk,         \* a value they may be decoded as, or the empty string
    TableSize, Value, Blank, InvalidKey,
    None

VARIABLES
    xid,         \* xid[c]: number of calls c has made, and of the last one
    call,        \* call[c]: the command c waits for the answer of, or None
    accepted,    \* accepted[c]: the last answer c took, or None
    requests,    \* datagrams to the server
    replies,     \* datagrams to the clients that answer their calls
    xprt,        \* the request whose data the transport holds, None if nobody looks
    xdrs,        \* what svc_getargs() does with it: "decode" the arguments,
                 \* anything if the buffer was "used", nothing if "freed"
    thread,      \* thread[t]: [at, ran, text] of a thread, see Idle
    store,       \* the table
    outcome,     \* history: outcome[c]: the answer that the execution of c's call
                 \* gave, kept while all is calm
    received,    \* history: received[c]: the last call of c that was read, likewise
    calm,        \* history: no request was read while a thread was running, none twice
    overlaps     \* requests read while a thread was running

clientVars == <<xid, call, accepted>>
historyVars == <<received, calm, overlaps>>
serverVars == <<xprt, xdrs, thread, store, outcome, historyVars>>
vars == <<clientVars, requests, replies, serverVars>>

KV == INSTANCE KeyVal WITH Value <- Value \cup {Junk}

Op == {"PUT", "GET", "DELETE"}
Commands == [op : Op, key : Int, val : Value]
Ran == [op : Op, key : Int, val : Value \cup {Junk}]

Requests == [client : Client, xid : Nat \ {0}, cmd : Commands]
\* "error" is what a client is told that the server could not decode.
Texts == KV!Replies \cup {"error"}
Replies == [client : Client, xid : Nat \ {0}, text : Texts]

ASSUME DispatchAssumption ==
    /\ InitPuts \in [Client -> Seq(Commands)] /\ Typed \in [Client -> SUBSET Commands]
    /\ MaxOverlaps \in Nat \ {0}
    /\ MaxCalls \in [Client -> Nat] /\ JunkKeys \subseteq Int /\ Junk \notin Value
    /\ TableSize \in Nat
    /\ None \notin Commands /\ None \notin Texts

\* Where a thread is, what it decoded and is to execute, what it is to answer.
Idle == [at |-> "idle", ran |-> None, text |-> None]

ThreadStates == [at : {"idle", "start", "args", "run", "reply", "free", "freed"},
                 ran : Ran \cup {None}, text : Texts \cup {None}]

TypeOK ==
    /\ xid \in [Client -> Nat] /\ \A c \in Client : xid[c] <= MaxCalls[c]
    /\ call \in [Client -> Commands \cup {None}]
    /\ accepted \in [Client -> Texts \cup {None}]
    /\ requests \subseteq Requests /\ replies \subseteq Replies
    /\ xprt \in Requests \cup {None} /\ xdrs \in {"decode", "used", "freed"}
    /\ thread \in [Thread -> ThreadStates]
    /\ store \in KV!Stores
    /\ outcome \in [Client -> KV!Replies \cup {None}]
    /\ received \in [Client -> Nat]
    /\ calm \in BOOLEAN /\ overlaps \in 0 .. MaxOverlaps

Init ==
    /\ xid = [c \in Client |-> 0] /\ call = [c \in Client |-> None]
    /\ accepted = [c \in Client |-> None]
    /\ requests = {} /\ replies = {}
    /\ xprt = None /\ xdrs = "used"
    /\ thread = [t \in Thread |-> Idle]
    /\ store = KV!EmptyStore
    /\ outcome = [c \in Client |-> None]
    /\ received = [c \in Client |-> 0]
    /\ calm = TRUE /\ overlaps = 0
-----------------------------------------------------------------------------
(* The clients, with the library they call. *)

Request(c) == [client |-> c, xid |-> xid[c], cmd |-> call[c]]

\* put_1(), get_1() or delete_1(): the initial PUTs, then what is typed.
Call(c, m) ==
    /\ call[c] = None /\ xid[c] < MaxCalls[c]
    /\ IF xid[c] < Len(InitPuts[c]) THEN m = InitPuts[c][xid[c] + 1] ELSE m \in Typed[c]
    /\ xid' = [xid EXCEPT ![c] = @ + 1]
    /\ call' = [call EXCEPT ![c] = m]
    /\ requests' = requests \cup {Request(c)'}
    /\ UNCHANGED <<accepted, replies, serverVars>>

\* The library sends the request of a call again.
Retransmit(c) ==
    /\ call[c] # None
    /\ requests' = requests \cup {Request(c)}
    /\ UNCHANGED <<clientVars, replies, serverVars>>

\* The call returns.  Answers that come later are read by the next call and
\* ignored, as all are that have another number.  After an error the client
\* prints what the variable for the result held before.
Accept(c, r) ==
    /\ call[c] # None /\ r \in replies /\ r.client = c /\ r.xid = xid[c]
    /\ accepted' = [accepted EXCEPT ![c] = r.text]
    /\ call' = [call EXCEPT ![c] = None]
    /\ outcome' = [outcome EXCEPT ![c] = None]
    /\ replies' = {a \in replies : a.client # c}
    /\ UNCHANGED <<xid, requests, xprt, xdrs, thread, store, historyVars>>
-----------------------------------------------------------------------------
(* The server. *)

Set(t, r) == thread' = [thread EXCEPT ![t] = r]

\* svc_run() reads a datagram and keyval_prog_1() starts a thread for it.
Receive(m, t) ==
    LET alone == \A u \in Thread : thread[u] = Idle IN
    /\ m \in requests /\ thread[t] = Idle
    /\ alone \/ overlaps < MaxOverlaps
    /\ requests' = requests \ {m}
    /\ xprt' = m /\ xdrs' = "decode"
    /\ Set(t, [Idle EXCEPT !.at = "start"])
    /\ overlaps' = IF alone THEN overlaps ELSE overlaps + 1
    /\ calm' = (calm /\ alone /\ received[m.client] < m.xid)
    /\ received' = IF calm' THEN [received EXCEPT ![m.client] = m.xid] ELSE [c \in Client |-> 0]
    /\ outcome' = IF calm' THEN outcome ELSE [c \in Client |-> None]
    /\ UNCHANGED <<clientVars, replies, store>>

\* The switch on rq_proc, wherever that is by now.
Dispatch(t) ==
    /\ thread[t].at = "start"
    /\ Set(t, [thread[t] EXCEPT
                 !.at = "args",
                 !.ran = [op |-> xprt.cmd.op, key |-> 0, val |-> Junk]])
    /\ UNCHANGED <<clientVars, requests, replies, xprt, xdrs, store, outcome, historyVars>>

\* svc_getargs(): the arguments of the request in the transport, decoded as those
\* of the thread's procedure.  Only PUT has a value.  A buffer that was decoded
\* or written to holds anything, or nothing that can be decoded.  A transport
\* that is to free arguments succeeds and leaves them 0 and empty.
GetArgs(t) ==
    LET put == thread[t].ran.op = "PUT"
        Decoded(k, v) == Set(t, [thread[t] EXCEPT
                                   !.at = "run", !.ran.key = k, !.ran.val = v])
    IN  /\ thread[t].at = "args"
        /\ xdrs' = IF xdrs = "decode" THEN "used" ELSE xdrs
        /\ \/ /\ xdrs = "decode"
              /\ Decoded(xprt.cmd.key, IF put /\ xprt.cmd.op # "PUT" THEN Junk ELSE xprt.cmd.val)
           \/ /\ xdrs # "decode"
              /\ \E k \in (IF xdrs = "used" THEN JunkKeys ELSE {0}) :
                    Decoded(k, IF put THEN Junk ELSE xprt.cmd.val)
           \/ /\ xdrs = "used"
              /\ Set(t, [thread[t] EXCEPT !.at = "reply", !.text = "error", !.ran = None])
        /\ UNCHANGED <<clientVars, requests, replies, xprt, store, outcome, historyVars>>

\* Mutant of Execute: the answer is computed after the execution.
ExecuteThenAnswer(t) ==
    LET r == thread[t].ran
        text == KV!Reply(store', r.op, r.key)
    IN  /\ thread[t].at = "run"
        /\ store' = KV!Apply(store, r.op, r.key, r.val)
        /\ Set(t, [thread[t] EXCEPT !.at = "reply", !.text = text, !.ran = None])
        /\ outcome' = IF calm THEN [outcome EXCEPT ![xprt.client] = text] ELSE outcome
        /\ UNCHANGED <<clientVars, requests, replies, xprt, xdrs, historyVars>>

\* put_1_svc(), get_1_svc() or delete_1_svc(): one critical section of the mutex.
Execute(t) ==
    LET r == thread[t].ran
        text == KV!Reply(store, r.op, r.key)
    IN  /\ thread[t].at = "run"
        /\ store' = KV!Apply(store, r.op, r.key, r.val)
        /\ Set(t, [thread[t] EXCEPT !.at = "reply", !.text = text, !.ran = None])
        /\ outcome' = IF calm THEN [outcome EXCEPT ![xprt.client] = text] ELSE outcome
        /\ UNCHANGED <<clientVars, requests, replies, xprt, xdrs, historyVars>>

\* Mutant of Retval: the routines return their result.
RetvalIsResult(text) == text # "failure"

\* The routines return TRUE whatever the result: what is not TRUE is not answered.
Retval(text) == TRUE

\* The transport of the last thread is looked at by nobody.
LeaveTransport(t) ==
    xprt' = IF \A u \in Thread \ {t} : thread[u] = Idle THEN None ELSE xprt

\* svc_sendreply(), or svcerr_decode() and the end: to the sender of the request
\* in the transport and with its number.  The answer is encoded in the same
\* buffer.  No client takes one that does not answer its call.
Reply(t) ==
    /\ thread[t].at = "reply"
    /\ replies' =
         IF Retval(thread[t].text) /\ call[xprt.client] # None /\ xprt.xid = xid[xprt.client]
         THEN replies \cup {[client |-> xprt.client, xid |-> xprt.xid, text |-> thread[t].text]}
         ELSE replies
    /\ xdrs' = "used"
    /\ IF thread[t].text = "error"
       THEN Set(t, Idle) /\ LeaveTransport(t)
       ELSE Set(t, [Idle EXCEPT !.at = "free"]) /\ UNCHANGED xprt
    /\ UNCHANGED <<clientVars, requests, store, outcome, historyVars>>

\* svc_freeargs() tells the transport to free what it decodes ...
FreeArgs(t) ==
    /\ thread[t].at = "free"
    /\ xdrs' = "freed"
    /\ Set(t, [Idle EXCEPT !.at = "freed"])
    /\ UNCHANGED <<clientVars, requests, replies, xprt, store, outcome, historyVars>>

\* ... and goes through the arguments, which decodes those of a request that was
\* read meanwhile.  The thread ends.
EndThread(t) ==
    /\ thread[t].at = "freed"
    /\ xdrs' = IF xdrs = "decode" THEN "used" ELSE xdrs
    /\ Set(t, Idle) /\ LeaveTransport(t)
    /\ UNCHANGED <<clientVars, requests, replies, store, outcome, historyVars>>

ThreadStep(t) ==
    Dispatch(t) \/ GetArgs(t) \/ Execute(t) \/ Reply(t) \/ FreeArgs(t) \/ EndThread(t)
IdleThreads == {t \in Thread : thread[t] = Idle}
Receipt(c) ==
    /\ IdleThreads # {}
    /\ \E m \in requests : m.client = c /\ Receive(m, CHOOSE t \in IdleThreads : TRUE)
Acceptance(c) == \E r \in replies : Accept(c, r)

\* The commands a client may send.
Sendable == UNION {Typed[c] \cup {InitPuts[c][i] : i \in 1 .. Len(InitPuts[c])} : c \in Client}

Next ==
    \/ \E c \in Client :
          \/ \E m \in Sendable : Call(c, m)
          \/ Retransmit(c) \/ Acceptance(c)
          \/ Receipt(c)
    \/ \E t \in Thread : ThreadStep(t)

Spec == Init /\ [][Next]_vars

\* Threads run.  The library goes on sending, the socket keeps the datagrams in
\* the order they came in and the main thread reads them, and neither are all
\* requests of a call lost nor all answers.
FairSpec ==
    /\ Spec
    /\ \A t \in Thread : WF_vars(ThreadStep(t))
    /\ \A c \in Client : WF_vars(Retransmit(c)) /\ SF_vars(Receipt(c)) /\ WF_vars(Acceptance(c))
-----------------------------------------------------------------------------
(* Properties. *)

\* Every call returns, and in the end, there being MaxCalls, all have: one whose
\* answer went to another client, with another number or not at all is sent
\* again, whatever was done to the transport.  Requests overlap MaxOverlaps times
\* at most; if they always did it would not hold.
EveryCallReturns == <>[](\A c \in Client : call[c] = None)

\* Until a request is read while a thread runs, be it only to free arguments, or
\* is read twice, the server is the service of KVService: it executes each call
\* once and answers what that execution gave.  Requests and answers that are
\* lost, late or sent again do not change that.
Service == INSTANCE KVService WITH
    Command <- Sendable, table <- store, cmd <- call, result <- outcome, told <- accepted

ServesUntilOverlap ==
    Service!Init /\ [][~ calm' \/ Service!Next]_(Service!vars)
=============================================================================
