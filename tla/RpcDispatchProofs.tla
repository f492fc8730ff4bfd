------------------------- MODULE RpcDispatchProofs -------------------------
(***************************************************************************)
(* Proofs about RpcDispatch for any clients, threads, commands, overlaps,  *)
(* resends, losses and delays.                                             *)
(***************************************************************************)
EXTENDS RpcDispatch, TLAPS

\* A thread that runs finds some request in the transport, has decoded a command
\* when it executes and has a text when it answers.
ThreadInv ==
    \A t \in Thread :
        /\ thread[t].at = "idle" => thread[t] = Idle
        /\ thread[t].at # "idle" => xprt \in Requests
        /\ thread[t].at \in {"args", "run"} => thread[t].ran \in Ran
        /\ thread[t].at = "reply" => thread[t].text \in Texts

\* The numbers of calls begin with 1.
NumberInv == \A c \in Client : call[c] # None => xid[c] # 0

DispatchInv == TypeOK /\ NumberInv /\ ThreadInv
-----------------------------------------------------------------------------
\* The functions of keyval.c keep a table a table and give the answers there are.
LEMMA StoreType ==
    ASSUME NEW st \in KV!Stores, NEW m \in Ran
    PROVE  /\ KV!Apply(st, m.op, m.key, m.val) \in KV!Stores
           /\ KV!Reply(st, m.op, m.key) \in KV!Replies
<1>1. m.key \in Int /\ m.val \in Value \cup {Junk}
  BY DEF Ran
<1>2. KV!GET(st, m.key) \in KV!Replies
  BY <1>1, DispatchAssumption
     DEF KV!GET, KV!Present, KV!InRange, KV!Stores, KV!Slot, KV!Replies
<1>3. KV!PUT(st, m.key, m.val) \in KV!Stores
  <2>1. CASE KV!PutOK(st, m.key)
    BY <1>1, <2>1 DEF KV!PUT, KV!Stores
  <2>2. CASE ~ KV!PutOK(st, m.key)
    BY <2>2 DEF KV!PUT
  <2> QED BY <2>1, <2>2
<1>4. KV!DELETE(st, m.key) \in KV!Stores
  BY <1>1 DEF KV!DELETE, KV!Stores
<1>5. KV!Reply(st, m.op, m.key) \in KV!Replies
  BY <1>2 DEF KV!Reply, KV!Replies
<1> QED BY <1>3, <1>4, <1>5 DEF KV!Apply

LEMMA InitInv == Init => DispatchInv
<1> SUFFICES ASSUME Init PROVE DispatchInv
  OBVIOUS
<1>1. TypeOK
  <2>1. KV!EmptyStore \in KV!Stores
    BY DEF KV!EmptyStore, KV!Stores
  <2>2. thread \in [Thread -> ThreadStates]
    BY DEF Init, Idle, ThreadStates
  <2>3. xid \in [Client -> Nat] /\ \A c \in Client : xid[c] <= MaxCalls[c]
    BY DispatchAssumption DEF Init
  <2>4. overlaps \in 0 .. MaxOverlaps
    BY DispatchAssumption DEF Init
  <2>5. calm \in BOOLEAN
    BY DEF Init
  <2> QED BY <2>1, <2>2, <2>3, <2>4, <2>5 DEF Init, TypeOK
<1>2. ThreadInv /\ NumberInv
  BY DEF Init, ThreadInv, Idle, NumberInv
<1> QED BY <1>1, <1>2 DEF DispatchInv

LEMMA CallInv ==
    ASSUME DispatchInv, NEW c \in Client, NEW m \in Sendable, Call(c, m)
    PROVE  DispatchInv'
<1> USE DEF Call, serverVars, historyVars
<1>1. m \in Commands
  BY DispatchAssumption DEF Sendable
<1>0. MaxCalls \in [Client -> Nat]
  BY DispatchAssumption
<1>2. /\ xid' \in [Client -> Nat] /\ xid'[c] \in Nat \ {0}
      /\ \A d \in Client : xid'[d] <= MaxCalls[d]
  <2>1. /\ xid \in [Client -> Nat] /\ xid' = [xid EXCEPT ![c] = xid[c] + 1]
        /\ \A d \in Client : xid[d] <= MaxCalls[d]
    BY DEF DispatchInv, TypeOK
  <2>2. xid[c] \in Nat /\ MaxCalls[c] \in Nat /\ xid[c] < MaxCalls[c]
    BY <1>0, <2>1
  <2>3. xid[c] + 1 <= MaxCalls[c] /\ xid[c] + 1 \in Nat \ {0}
    BY <2>2
  <2>4. xid'[c] = xid[c] + 1 /\ \A d \in Client \ {c} : xid'[d] = xid[d]
    BY <2>1
  <2> QED BY <2>1, <2>3, <2>4
<1>3. Request(c)' \in Requests
  BY <1>1, <1>2 DEF DispatchInv, TypeOK, Request, Requests
<1>4. TypeOK'
  BY <1>1, <1>2, <1>3 DEF DispatchInv, TypeOK
<1>5. ThreadInv'
  BY DEF DispatchInv, ThreadInv
<1>6. NumberInv'
  BY <1>2 DEF DispatchInv, NumberInv, TypeOK
<1> QED BY <1>4, <1>5, <1>6 DEF DispatchInv

LEMMA RetransmitInv ==
    ASSUME DispatchInv, NEW c \in Client, Retransmit(c)
    PROVE  DispatchInv'
<1> USE DEF Retransmit, clientVars, serverVars, historyVars
<1>1. Request(c) \in Requests
  BY DEF DispatchInv, NumberInv, TypeOK, Request, Requests
<1>2. TypeOK'
  BY <1>1 DEF DispatchInv, TypeOK
<1>3. ThreadInv' /\ NumberInv'
  BY DEF DispatchInv, ThreadInv, NumberInv
<1> QED BY <1>2, <1>3 DEF DispatchInv

LEMMA AcceptInv ==
    ASSUME DispatchInv, NEW c \in Client, NEW r \in replies, Accept(c, r)
    PROVE  DispatchInv'
<1> USE DEF Accept, historyVars
<1>1. r.text \in Texts
  BY DEF DispatchInv, TypeOK, Replies
<1>2. TypeOK'
  BY <1>1 DEF DispatchInv, TypeOK
<1>3. NumberInv' /\ ThreadInv'
  BY DEF DispatchInv, NumberInv, TypeOK, ThreadInv
<1> QED BY <1>2, <1>3 DEF DispatchInv

\* What a step of one thread must do to keep the invariant.
LEMMA SetInv ==
    ASSUME DispatchInv, NEW t \in Thread, NEW r \in ThreadStates, Set(t, r),
           r.at = "idle" => r = Idle,
           r.at # "idle" => xprt' \in Requests,
           \A u \in Thread \ {t} : thread[u].at # "idle" => xprt' \in Requests,
           r.at \in {"args", "run"} => r.ran \in Ran,
           r.at = "reply" => r.text \in Texts
    PROVE  ThreadInv' /\ thread' \in [Thread -> ThreadStates]
<1>1. thread \in [Thread -> ThreadStates] /\ thread' = [thread EXCEPT ![t] = r]
  BY DEF DispatchInv, TypeOK, Set
<1>2. thread'[t] = r /\ \A u \in Thread \ {t} : thread'[u] = thread[u]
  BY <1>1
<1>3. ThreadInv'
  <2> SUFFICES ASSUME NEW u \in Thread
               PROVE  /\ thread'[u].at = "idle" => thread'[u] = Idle
                      /\ thread'[u].at # "idle" => xprt' \in Requests
                      /\ thread'[u].at \in {"args", "run"} => thread'[u].ran \in Ran
                      /\ thread'[u].at = "reply" => thread'[u].text \in Texts
    BY DEF ThreadInv
  <2>1. CASE u = t
    BY <1>2, <2>1
  <2>2. CASE u # t
    BY <1>2, <2>2 DEF DispatchInv, ThreadInv
  <2> QED BY <2>1, <2>2
<1> QED BY <1>1, <1>3

LEMMA ReceiveInv ==
    ASSUME DispatchInv, NEW m \in requests, NEW t \in Thread, Receive(m, t)
    PROVE  DispatchInv'
<1> DEFINE r == [Idle EXCEPT !.at = "start"]
<1>1. /\ m \in Requests /\ xprt' = m /\ xdrs' = "decode" /\ Set(t, r)
      /\ requests' \subseteq requests
      /\ UNCHANGED <<xid, call, accepted, replies, store>>
  BY DEF Receive, DispatchInv, TypeOK, clientVars
<1>2. r \in ThreadStates /\ r.at = "start"
  BY DEF Idle, ThreadStates
<1> HIDE DEF r
<1>3. ThreadInv' /\ thread' \in [Thread -> ThreadStates]
  BY <1>1, <1>2, SetInv
<1>4. overlaps' \in 0 .. MaxOverlaps
  <2>1. overlaps' = overlaps \/ (overlaps < MaxOverlaps /\ overlaps' = overlaps + 1)
    BY DEF Receive
  <2> QED BY <2>1, DispatchAssumption DEF DispatchInv, TypeOK
<1>5. calm' \in BOOLEAN
  BY DEF Receive
<1>6. received' \in [Client -> Nat] /\ outcome' \in [Client -> KV!Replies \cup {None}]
  BY <1>1 DEF Receive, DispatchInv, TypeOK, Requests
<1>7. TypeOK'
  BY <1>1, <1>3, <1>4, <1>5, <1>6 DEF DispatchInv, TypeOK
<1> QED BY <1>1, <1>3, <1>7 DEF DispatchInv, NumberInv

LEMMA DispatchKeepsInv ==
    ASSUME DispatchInv, NEW t \in Thread, Dispatch(t)
    PROVE  DispatchInv'
<1> DEFINE ran == [op |-> xprt.cmd.op, key |-> 0, val |-> Junk]
           r == [thread[t] EXCEPT !.at = "args", !.ran = ran]
<1>1. /\ thread[t] \in ThreadStates /\ xprt \in Requests /\ Set(t, r)
      /\ UNCHANGED <<xid, call, accepted, requests, replies, xprt, xdrs, store, outcome,
                     received, calm, overlaps>>
  BY DEF Dispatch, DispatchInv, TypeOK, ThreadInv, clientVars, historyVars
<1>2. ran \in Ran
  BY <1>1 DEF Ran, Requests, Commands
<1> HIDE DEF ran
<1>3. r \in ThreadStates /\ r.at = "args" /\ r.ran \in Ran
  BY <1>1, <1>2 DEF ThreadStates
<1> HIDE DEF r
<1>4. ThreadInv' /\ thread' \in [Thread -> ThreadStates]
  BY <1>1, <1>3, SetInv
<1> QED BY <1>1, <1>4 DEF DispatchInv, TypeOK, NumberInv

\* What svc_getargs() leaves a thread with.
LEMMA GetArgsFacts ==
    ASSUME DispatchInv, NEW t \in Thread, GetArgs(t)
    PROVE  /\ thread[t] \in ThreadStates /\ thread[t].ran \in Ran /\ xprt \in Requests
           /\ \/ \E k \in Int, v \in Value \cup {Junk} :
                    /\ Set(t, [thread[t] EXCEPT !.at = "run", !.ran.key = k, !.ran.val = v])
                    /\ xdrs = "decode" =>
                          /\ k = xprt.cmd.key
                          /\ thread[t].ran.op = xprt.cmd.op => v = xprt.cmd.val
              \/ /\ xdrs = "used"
                 /\ Set(t, [thread[t] EXCEPT !.at = "reply", !.text = "error", !.ran = None])
<1> DEFINE put == thread[t].ran.op = "PUT"
           Decoded(k, v) == Set(t, [thread[t] EXCEPT !.at = "run", !.ran.key = k, !.ran.val = v])
<1>1. /\ thread[t] \in ThreadStates /\ thread[t].ran \in Ran /\ xprt \in Requests
      /\ thread[t].at = "args"
  BY DEF GetArgs, DispatchInv, TypeOK, ThreadInv
<1>2. xprt.cmd.key \in Int /\ xprt.cmd.val \in Value
  BY <1>1 DEF Requests, Commands
<1>3. CASE xdrs = "decode" /\
           Decoded(xprt.cmd.key, IF put /\ xprt.cmd.op # "PUT" THEN Junk ELSE xprt.cmd.val)
  <2>1. PICK v : v = IF put /\ xprt.cmd.op # "PUT" THEN Junk ELSE xprt.cmd.val
    OBVIOUS
  <2>2. v \in Value \cup {Junk} /\ (thread[t].ran.op = xprt.cmd.op => v = xprt.cmd.val)
    BY <1>2, <2>1
  <2>3. Decoded(xprt.cmd.key, v)
    BY <1>3, <2>1
  <2> HIDE DEF Decoded
  <2>4. \E k \in Int, w \in Value \cup {Junk} :
           Decoded(k, w) /\ k = xprt.cmd.key /\ (thread[t].ran.op = xprt.cmd.op => w = xprt.cmd.val)
    BY <1>2, <2>2, <2>3
  <2> QED BY <1>1, <2>4 DEF Decoded
<1>4. CASE xdrs # "decode" /\ \E k \in (IF xdrs = "used" THEN JunkKeys ELSE {0}) :
               Decoded(k, IF put THEN Junk ELSE xprt.cmd.val)
  <2>1. PICK k \in (IF xdrs = "used" THEN JunkKeys ELSE {0}) :
            Decoded(k, IF put THEN Junk ELSE xprt.cmd.val)
    BY <1>4
  <2>2. k \in Int
    BY DispatchAssumption
  <2>3. PICK v : v = IF put THEN Junk ELSE xprt.cmd.val
    OBVIOUS
  <2>4. v \in Value \cup {Junk} /\ Decoded(k, v)
    BY <1>2, <2>1, <2>3
  <2> QED BY <1>1, <1>4, <2>2, <2>4
<1>5. CASE xdrs = "used" /\ Set(t, [thread[t] EXCEPT !.at = "reply", !.text = "error", !.ran = None])
  BY <1>1, <1>5
<1> QED BY <1>1, <1>3, <1>4, <1>5 DEF GetArgs

LEMMA GetArgsInv ==
    ASSUME DispatchInv, NEW t \in Thread, GetArgs(t)
    PROVE  DispatchInv'
<1>1. /\ UNCHANGED <<xid, call, accepted, requests, replies, xprt, store, outcome,
                     received, calm, overlaps>>
      /\ xdrs' \in {"decode", "used", "freed"}
      /\ thread[t] \in ThreadStates /\ thread[t].ran \in Ran /\ xprt \in Requests
  BY GetArgsFacts DEF GetArgs, clientVars, historyVars, DispatchInv, TypeOK
<1>2. ThreadInv' /\ thread' \in [Thread -> ThreadStates]
  <2>1. ASSUME NEW k \in Int, NEW v \in Value \cup {Junk},
               Set(t, [thread[t] EXCEPT !.at = "run", !.ran.key = k, !.ran.val = v])
        PROVE  ThreadInv' /\ thread' \in [Thread -> ThreadStates]
    <3> DEFINE ran == [thread[t].ran EXCEPT !.key = k, !.val = v]
               r == [thread[t] EXCEPT !.at = "run", !.ran = ran]
    <3>1. ran \in Ran
      BY <1>1 DEF Ran
    <3>2. Set(t, r)
      BY <2>1
    <3> HIDE DEF ran
    <3>3. r \in ThreadStates /\ r.at = "run" /\ r.ran \in Ran
      BY <1>1, <3>1 DEF ThreadStates
    <3> HIDE DEF r
    <3> QED BY <1>1, <3>2, <3>3, SetInv
  <2>2. ASSUME Set(t, [thread[t] EXCEPT !.at = "reply", !.text = "error", !.ran = None])
        PROVE  ThreadInv' /\ thread' \in [Thread -> ThreadStates]
    <3> DEFINE r == [thread[t] EXCEPT !.at = "reply", !.text = "error", !.ran = None]
    <3>1. r \in ThreadStates /\ r.at = "reply" /\ r.text \in Texts /\ Set(t, r)
      BY <1>1, <2>2 DEF ThreadStates, Texts
    <3> HIDE DEF r
    <3> QED BY <1>1, <3>1, SetInv
  <2> QED BY <2>1, <2>2, GetArgsFacts
<1> QED BY <1>1, <1>2 DEF DispatchInv, TypeOK, NumberInv

LEMMA ExecuteInv ==
    ASSUME DispatchInv, NEW t \in Thread, Execute(t)
    PROVE  DispatchInv'
<1> DEFINE ran == thread[t].ran
           text == KV!Reply(store, ran.op, ran.key)
           r == [thread[t] EXCEPT !.at = "reply", !.text = text, !.ran = None]
<1>1. /\ thread[t] \in ThreadStates /\ ran \in Ran /\ thread[t].at = "run" /\ xprt \in Requests
      /\ store \in KV!Stores /\ outcome \in [Client -> KV!Replies \cup {None}]
  BY DEF Execute, DispatchInv, TypeOK, ThreadInv
<1>2. text \in KV!Replies /\ KV!Apply(store, ran.op, ran.key, ran.val) \in KV!Stores
  BY <1>1, StoreType
<1>3. /\ Set(t, r)
      /\ store' = KV!Apply(store, ran.op, ran.key, ran.val)
      /\ outcome' = outcome \/ outcome' = [outcome EXCEPT ![xprt.client] = text]
      /\ UNCHANGED <<xid, call, accepted, requests, replies, xprt, xdrs, received, calm, overlaps>>
  BY <1>1 DEF Execute, clientVars, historyVars
<1> HIDE DEF text
<1>4. r \in ThreadStates /\ r.at = "reply" /\ r.text \in Texts
  BY <1>1, <1>2 DEF ThreadStates, Texts
<1> HIDE DEF r
<1>5. ThreadInv' /\ thread' \in [Thread -> ThreadStates]
  BY <1>1, <1>3, <1>4, SetInv
<1>6. outcome' \in [Client -> KV!Replies \cup {None}]
  BY <1>1, <1>2, <1>3
<1> QED BY <1>2, <1>3, <1>5, <1>6 DEF DispatchInv, TypeOK, NumberInv

LEMMA AnswerInv ==
    ASSUME DispatchInv, NEW t \in Thread, Reply(t)
    PROVE  DispatchInv'
<1> DEFINE r == [client |-> xprt.client, xid |-> xprt.xid, text |-> thread[t].text]
<1>1. /\ thread \in [Thread -> ThreadStates] /\ xprt \in Requests /\ thread[t].text \in Texts
      /\ xdrs' = "used" /\ replies' \subseteq replies \cup {r}
      /\ UNCHANGED <<xid, call, accepted, requests, store, outcome, received, calm, overlaps>>
  BY DEF Reply, DispatchInv, TypeOK, ThreadInv, clientVars, historyVars
<1>2. r \in Replies
  BY <1>1 DEF Requests, Replies
<1>3. /\ Idle \in ThreadStates /\ Idle.at = "idle"
      /\ [Idle EXCEPT !.at = "free"] \in ThreadStates /\ [Idle EXCEPT !.at = "free"].at = "free"
  BY DEF Idle, ThreadStates
<1>4. ThreadInv' /\ thread' \in [Thread -> ThreadStates] /\ xprt' \in Requests \cup {None}
  <2>1. CASE Set(t, Idle) /\ LeaveTransport(t)
    <3>1. \A u \in Thread \ {t} : thread[u].at # "idle" => xprt' = xprt
      BY <1>3, <2>1 DEF LeaveTransport
    <3> QED BY <1>1, <1>3, <2>1, <3>1, SetInv DEF LeaveTransport
  <2>2. CASE Set(t, [Idle EXCEPT !.at = "free"]) /\ UNCHANGED xprt
    BY <1>1, <1>3, <2>2, SetInv
  <2> QED BY <2>1, <2>2 DEF Reply
<1> HIDE DEF r
<1> QED BY <1>1, <1>2, <1>4 DEF DispatchInv, TypeOK, NumberInv

LEMMA FreeInv ==
    ASSUME DispatchInv, NEW t \in Thread, FreeArgs(t) \/ EndThread(t)
    PROVE  DispatchInv'
<1>1. /\ thread \in [Thread -> ThreadStates] /\ xprt \in Requests
      /\ xdrs' \in {"decode", "used", "freed"}
      /\ UNCHANGED <<xid, call, accepted, requests, replies, store, outcome, received, calm, overlaps>>
  BY DEF FreeArgs, EndThread, DispatchInv, TypeOK, ThreadInv, clientVars, historyVars
<1>2. /\ Idle \in ThreadStates /\ Idle.at = "idle"
      /\ [Idle EXCEPT !.at = "freed"] \in ThreadStates /\ [Idle EXCEPT !.at = "freed"].at = "freed"
  BY DEF Idle, ThreadStates
<1>3. ThreadInv' /\ thread' \in [Thread -> ThreadStates] /\ xprt' \in Requests \cup {None}
  <2>1. CASE Set(t, Idle) /\ LeaveTransport(t)
    <3>1. \A u \in Thread \ {t} : thread[u].at # "idle" => xprt' = xprt
      BY <1>2, <2>1 DEF LeaveTransport
    <3> QED BY <1>1, <1>2, <2>1, <3>1, SetInv DEF LeaveTransport
  <2>2. CASE Set(t, [Idle EXCEPT !.at = "freed"]) /\ UNCHANGED xprt
    BY <1>1, <1>2, <2>2, SetInv
  <2> QED BY <2>1, <2>2 DEF FreeArgs, EndThread
<1> QED BY <1>1, <1>3 DEF DispatchInv, TypeOK, NumberInv

LEMMA NextInv ==
    ASSUME DispatchInv, [Next]_vars
    PROVE  DispatchInv'
<1>1. ASSUME NEW c \in Client, NEW m \in Sendable, Call(c, m) PROVE DispatchInv'
  BY <1>1, CallInv
<1>2. ASSUME NEW c \in Client, Retransmit(c) PROVE DispatchInv'
  BY <1>2, RetransmitInv
<1>3. ASSUME NEW c \in Client, Acceptance(c) PROVE DispatchInv'
  BY <1>3, AcceptInv DEF Acceptance
<1>4. ASSUME NEW c \in Client, Receipt(c) PROVE DispatchInv'
  <2>1. (CHOOSE t \in IdleThreads : TRUE) \in Thread
    BY <1>4 DEF Receipt, IdleThreads
  <2> QED BY <1>4, <2>1, ReceiveInv DEF Receipt
<1>5. ASSUME NEW t \in Thread, ThreadStep(t) PROVE DispatchInv'
  BY <1>5, DispatchKeepsInv, GetArgsInv, ExecuteInv, AnswerInv, FreeInv DEF ThreadStep
<1>6. CASE UNCHANGED vars
  BY <1>6 DEF vars, clientVars, serverVars, historyVars, DispatchInv, TypeOK, NumberInv, ThreadInv
<1> QED BY <1>1, <1>2, <1>3, <1>4, <1>5, <1>6 DEF Next

LEMMA Invariant == Spec => []DispatchInv
BY InitInv, NextInv, PTL DEF Spec

\* Every variable keeps its type, whatever bytes a thread decodes: it executes a
\* command and the table stays a table.
THEOREM TypeCorrect == Spec => []TypeOK
<1>1. DispatchInv => TypeOK
  BY DEF DispatchInv
<1> QED BY <1>1, Invariant, PTL
-----------------------------------------------------------------------------
(* While all is calm the server is the service of KVService. *)

\* The last request of a client is still to be read, or it was read once; what
\* was read before that is of no use any more.
ClientQuiet(c) ==
    /\ received[c] \in {xid[c] - 1, xid[c]}
    /\ call[c] = None => received[c] = xid[c]
    /\ call[c] = None \/ received[c] < xid[c] =>
          outcome[c] = None /\ \A r \in replies : r.client # c

RequestQuiet(m) ==
    /\ m.xid <= xid[m.client]
    /\ m.xid = xid[m.client] /\ call[m.client] # None => call[m.client] = m.cmd

\* A thread that runs is alone, serves the request in the transport until it has
\* answered, and finds it as it was received.
ThreadQuiet(t) ==
    /\ \A u \in Thread \ {t} : thread[u].at = "idle"
    /\ thread[t].at \in {"start", "args"} => xdrs = "decode"
    /\ thread[t].at = "args" => thread[t].ran.op = xprt.cmd.op
    /\ thread[t].at = "run" => thread[t].ran = xprt.cmd
    /\ thread[t].at \in {"start", "args", "run", "reply"} =>
          /\ call[xprt.client] = xprt.cmd
          /\ xid[xprt.client] = xprt.xid /\ received[xprt.client] = xprt.xid
          /\ outcome[xprt.client] = IF thread[t].at = "reply" THEN thread[t].text ELSE None
          /\ \A r \in replies : r.client # xprt.client

ReplyQuiet(r) == outcome[r.client] = r.text /\ r.text # None

Quiet ==
    /\ \A c \in Client : ClientQuiet(c)
    /\ \A m \in requests : RequestQuiet(m)
    /\ \A t \in Thread : thread[t].at # "idle" => ThreadQuiet(t)
    /\ \A r \in replies : ReplyQuiet(r)

QuietInv == calm => Quiet

\* The types the lemmas below need.
LEMMA QuietTypes ==
    ASSUME DispatchInv
    PROVE  /\ xid \in [Client -> Nat] /\ received \in [Client -> Nat]
           /\ call \in [Client -> Commands \cup {None}] /\ thread \in [Thread -> ThreadStates]
           /\ outcome \in [Client -> KV!Replies \cup {None}]
           /\ \A m \in requests : m \in Requests /\ m.client \in Client /\ m.xid \in Nat /\ m.cmd # None
           /\ \A r \in replies : r.client \in Client
           /\ \A t \in Thread : thread[t].at # "idle" =>
                 xprt \in Requests /\ xprt.client \in Client /\ xprt.xid \in Nat /\ xprt.cmd # None
BY DispatchAssumption DEF DispatchInv, TypeOK, ThreadInv, Requests, Replies

LEMMA QuietInit == Init => QuietInv
BY DEF Init, QuietInv, Quiet, ClientQuiet, Idle

LEMMA CallQuiet ==
    ASSUME DispatchInv, Quiet, NEW c \in Client, NEW m \in Sendable, Call(c, m)
    PROVE  Quiet'
<1>m. PICK q : q = [client |-> c, xid |-> xid[c] + 1, cmd |-> m]
  OBVIOUS
<1>1. /\ requests' = requests \cup {q} /\ q.client = c /\ q.cmd = m /\ q.xid = xid[c] + 1
      /\ xid'[c] = xid[c] + 1 /\ call'[c] = m
      /\ \A d \in Client \ {c} : xid'[d] = xid[d] /\ call'[d] = call[d]
      /\ UNCHANGED <<replies, xprt, xdrs, thread, outcome, received>>
      /\ call[c] = None
  BY <1>m, QuietTypes DEF Call, Request, serverVars, historyVars
<1>0. m # None
  BY DispatchAssumption DEF Sendable
<1>2. received[c] = xid[c] /\ outcome[c] = None /\ \A r \in replies : r.client # c
  BY <1>1 DEF Quiet, ClientQuiet
<1>3. \A d \in Client : xid[d] \in Nat /\ received[d] \in Nat
  BY QuietTypes
<1>4. ASSUME NEW d \in Client PROVE ClientQuiet(d)'
  <2>1. CASE d = c
    BY <1>0, <1>1, <1>2, <1>3, <2>1 DEF ClientQuiet
  <2>2. CASE d # c
    BY <1>1, <2>2 DEF ClientQuiet, Quiet
  <2> QED BY <2>1, <2>2
<1>5. ASSUME NEW x \in requests' PROVE RequestQuiet(x)'
  <2>1. CASE x = q
    BY <1>1, <1>3, <2>1 DEF RequestQuiet
  <2>2. CASE x # q
    <3>1. x \in requests /\ x.client \in Client /\ x.xid \in Nat /\ RequestQuiet(x)
      BY <1>1, <2>2, QuietTypes DEF Quiet
    <3>2. CASE x.client = c
      BY <1>1, <1>3, <3>1, <3>2 DEF RequestQuiet
    <3>3. CASE x.client # c
      BY <1>1, <3>1, <3>3 DEF RequestQuiet
    <3> QED BY <3>2, <3>3
  <2> QED BY <2>1, <2>2
<1>6. ASSUME NEW t \in Thread, thread'[t].at # "idle" PROVE ThreadQuiet(t)'
  <2>1. ThreadQuiet(t) /\ xprt.client \in Client /\ xprt.cmd # None
    BY <1>1, <1>6, QuietTypes DEF Quiet
  <2>2. thread[t].at \in {"start", "args", "run", "reply"} => xprt.client # c
    BY <1>1, <2>1 DEF ThreadQuiet
  <2> QED BY <1>1, <2>1, <2>2 DEF ThreadQuiet
<1>7. ASSUME NEW r \in replies PROVE ReplyQuiet(r)'
  BY <1>1 DEF ReplyQuiet, Quiet
<1> QED BY <1>1, <1>4, <1>5, <1>6, <1>7 DEF Quiet

LEMMA RetransmitQuiet ==
    ASSUME DispatchInv, Quiet, NEW c \in Client, Retransmit(c)
    PROVE  Quiet'
<1>1. /\ requests' = requests \cup {[client |-> c, xid |-> xid[c], cmd |-> call[c]]}
      /\ UNCHANGED <<xid, call, replies, xprt, xdrs, thread, outcome, received>>
  BY DEF Retransmit, Request, clientVars, serverVars, historyVars
<1>2. \A x \in requests' : RequestQuiet(x)'
  BY <1>1, QuietTypes DEF RequestQuiet, Quiet
<1> QED BY <1>1, <1>2 DEF Quiet, ClientQuiet, ThreadQuiet, ReplyQuiet

LEMMA AcceptQuiet ==
    ASSUME DispatchInv, Quiet, NEW c \in Client, NEW r \in replies, Accept(c, r)
    PROVE  Quiet'
<1>1. /\ replies' = {a \in replies : a.client # c} /\ r.client = c
      /\ call'[c] = None /\ outcome'[c] = None
      /\ \A d \in Client \ {c} : outcome'[d] = outcome[d] /\ call'[d] = call[d]
      /\ UNCHANGED <<xid, requests, xprt, xdrs, thread, received>>
  BY QuietTypes DEF Accept, historyVars
<1>2. received[c] = xid[c]
  BY <1>1, QuietTypes DEF Quiet, ClientQuiet
<1>3. ASSUME NEW d \in Client PROVE ClientQuiet(d)'
  BY <1>1, <1>2 DEF Quiet, ClientQuiet
<1>4. ASSUME NEW x \in requests PROVE RequestQuiet(x)'
  BY <1>1, QuietTypes DEF RequestQuiet, Quiet
<1>5. ASSUME NEW t \in Thread, thread[t].at # "idle" PROVE ThreadQuiet(t)'
  <2>1. ThreadQuiet(t) /\ xprt.client \in Client
    BY <1>5, QuietTypes DEF Quiet
  <2>2. thread[t].at \in {"start", "args", "run", "reply"} => xprt.client # c
    BY <1>1, <2>1 DEF ThreadQuiet
  <2> QED BY <1>1, <2>1, <2>2 DEF ThreadQuiet
<1>6. ASSUME NEW a \in replies' PROVE ReplyQuiet(a)'
  BY <1>1, QuietTypes DEF ReplyQuiet, Quiet
<1> QED BY <1>1, <1>3, <1>4, <1>5, <1>6 DEF Quiet

\* What is read when all stays calm is the last request of a client, for the
\* first time.
LEMMA ReceiveQuiet ==
    ASSUME DispatchInv, calm, Quiet, NEW m \in requests, NEW t \in Thread, Receive(m, t), calm'
    PROVE  Quiet'
<1> DEFINE c == m.client
<1>1. /\ c \in Client /\ m.xid \in Nat /\ m.cmd # None
      /\ requests' = requests \ {m} /\ xprt' = m /\ xdrs' = "decode"
      /\ thread'[t].at = "start"
      /\ \A u \in Thread \ {t} : thread'[u].at = "idle"
      /\ received' = [received EXCEPT ![c] = m.xid] /\ received[c] < m.xid
      /\ UNCHANGED <<xid, call, replies, outcome>>
  <2>1. c \in Client /\ m.xid \in Nat /\ m.cmd # None /\ thread \in [Thread -> ThreadStates]
    BY QuietTypes
  <2>2. /\ requests' = requests \ {m} /\ xprt' = m /\ xdrs' = "decode"
        /\ received' = [received EXCEPT ![c] = m.xid]
        /\ UNCHANGED <<xid, call, replies, outcome>>
    BY DEF Receive, clientVars
  <2>3. received[c] < m.xid /\ \A u \in Thread : thread[u] = Idle
    BY DEF Receive
  <2>4. thread' = [thread EXCEPT ![t] = [Idle EXCEPT !.at = "start"]]
    BY DEF Receive, Set
  <2>5. [Idle EXCEPT !.at = "start"].at = "start" /\ Idle.at = "idle"
    BY DEF Idle
  <2>6. thread'[t].at = "start" /\ \A u \in Thread \ {t} : thread'[u].at = "idle"
    BY <2>1, <2>3, <2>4, <2>5
  <2> QED BY <2>1, <2>2, <2>3, <2>6
<1>2. xid[c] \in Nat /\ received[c] \in Nat /\ received'[c] = m.xid
  BY <1>1, QuietTypes
<1>3. m.xid = xid[c] /\ received[c] < xid[c]
  BY <1>1, <1>2 DEF Quiet, ClientQuiet, RequestQuiet
<1>4. call[c] = m.cmd /\ outcome[c] = None /\ \A r \in replies : r.client # c
  BY <1>1, <1>2, <1>3 DEF Quiet, ClientQuiet, RequestQuiet
<1>5. ASSUME NEW d \in Client PROVE ClientQuiet(d)'
  <2>1. CASE d = c
    BY <1>1, <1>2, <1>3, <1>4, <2>1 DEF ClientQuiet
  <2>2. CASE d # c
    BY <1>1, <2>2, QuietTypes DEF ClientQuiet, Quiet
  <2> QED BY <2>1, <2>2
<1>6. ThreadQuiet(t)'
  BY <1>1, <1>2, <1>3, <1>4 DEF ThreadQuiet
<1>7. ASSUME NEW x \in requests' PROVE RequestQuiet(x)'
  BY <1>1 DEF RequestQuiet, Quiet
<1>8. ASSUME NEW r \in replies PROVE ReplyQuiet(r)'
  BY <1>1 DEF ReplyQuiet, Quiet
<1> QED BY <1>1, <1>5, <1>6, <1>7, <1>8 DEF Quiet

\* A step of a thread that is alone and leaves clients and datagrams as they are.
LEMMA SetQuiet ==
    ASSUME DispatchInv, Quiet, NEW t \in Thread, thread[t].at # "idle", NEW r, Set(t, r),
           UNCHANGED <<xid, call, requests, replies, received>>,
           \A c \in Client : ClientQuiet(c)', \A a \in replies : ReplyQuiet(a)',
           r.at # "idle" =>
              /\ xprt' = xprt
              /\ r.at \in {"start", "args"} => xdrs' = "decode"
              /\ r.at = "args" => r.ran.op = xprt.cmd.op
              /\ r.at = "run" => r.ran = xprt.cmd
              /\ r.at \in {"start", "args", "run", "reply"} =>
                    /\ thread[t].at \in {"start", "args", "run", "reply"}
                    /\ outcome'[xprt.client] = IF r.at = "reply" THEN r.text ELSE None
    PROVE  Quiet'
<1>1. /\ thread'[t] = r /\ \A u \in Thread \ {t} : thread'[u] = thread[u]
      /\ ThreadQuiet(t)
  BY QuietTypes DEF Set, Quiet
<1>2. \A u \in Thread \ {t} : thread'[u].at = "idle"
  BY <1>1 DEF ThreadQuiet
<1>3. r.at # "idle" => ThreadQuiet(t)'
  BY <1>1, <1>2 DEF ThreadQuiet
<1>4. ASSUME NEW x \in requests PROVE RequestQuiet(x)'
  BY DEF RequestQuiet, Quiet
<1> QED BY <1>1, <1>2, <1>3, <1>4 DEF Quiet

\* Reading the procedure number, decoding, and freeing the arguments.
LEMMA DecodeQuiet ==
    ASSUME DispatchInv, Quiet, NEW t \in Thread,
           Dispatch(t) \/ GetArgs(t) \/ FreeArgs(t) \/ EndThread(t)
    PROVE  Quiet'
<1>1. /\ thread \in [Thread -> ThreadStates] /\ thread[t].at # "idle" /\ ThreadQuiet(t)
      /\ UNCHANGED <<xid, call, requests, replies, outcome, received>>
  BY QuietTypes
     DEF Dispatch, GetArgs, FreeArgs, EndThread, clientVars, historyVars, Quiet
<1>2. (\A c \in Client : ClientQuiet(c)') /\ \A a \in replies : ReplyQuiet(a)'
  BY <1>1 DEF ClientQuiet, ReplyQuiet, Quiet
<1>3. CASE Dispatch(t)
  <2> DEFINE r == [thread[t] EXCEPT
                     !.at = "args",
                     !.ran = [op |-> xprt.cmd.op, key |-> 0, val |-> Junk]]
  <2>1. /\ Set(t, r) /\ r.at = "args" /\ r.ran.op = xprt.cmd.op /\ thread[t].at = "start"
        /\ xdrs' = xdrs /\ xprt' = xprt
    BY <1>1, <1>3 DEF Dispatch, ThreadStates
  <2> HIDE DEF r
  <2>2. xdrs' = "decode" /\ outcome'[xprt.client] = None
    BY <1>1, <2>1 DEF ThreadQuiet
  <2> QED BY <1>1, <1>2, <2>1, <2>2, SetQuiet
<1>4. CASE GetArgs(t)
  <2>1. /\ xdrs = "decode" /\ thread[t].ran.op = xprt.cmd.op /\ outcome[xprt.client] = None
        /\ xprt' = xprt /\ thread[t].at = "args"
    BY <1>1, <1>4 DEF GetArgs, ThreadQuiet
  <2>2. Set(t, [thread[t] EXCEPT !.at = "run", !.ran.key = xprt.cmd.key, !.ran.val = xprt.cmd.val])
    BY <1>4, <2>1, GetArgsFacts
  <2> DEFINE ran == [thread[t].ran EXCEPT !.key = xprt.cmd.key, !.val = xprt.cmd.val]
             r == [thread[t] EXCEPT !.at = "run", !.ran = ran]
  <2>3. ran = xprt.cmd
    BY <1>4, <2>1, GetArgsFacts DEF Ran, Requests, Commands
  <2>4. Set(t, r)
    BY <2>2
  <2> HIDE DEF ran
  <2>5. r.at = "run" /\ r.ran = xprt.cmd
    BY <1>1, <2>3 DEF ThreadStates
  <2> HIDE DEF r
  <2> QED BY <1>1, <1>2, <2>1, <2>4, <2>5, SetQuiet
<1>5. CASE FreeArgs(t)
  <2>1. Set(t, [Idle EXCEPT !.at = "freed"]) /\ xprt' = xprt
    BY <1>5 DEF FreeArgs
  <2>2. [Idle EXCEPT !.at = "freed"].at = "freed"
    BY DEF Idle
  <2> QED BY <1>1, <1>2, <2>1, <2>2, SetQuiet
<1>6. CASE EndThread(t)
  <2>1. Set(t, Idle) /\ Idle.at = "idle"
    BY <1>6 DEF EndThread, Idle
  <2> QED BY <1>1, <1>2, <2>1, SetQuiet
<1> QED BY <1>3, <1>4, <1>5, <1>6

\* What an execution does to a call.
LEMMA ExecuteFacts ==
    ASSUME DispatchInv, Quiet, calm, NEW t \in Thread, Execute(t)
    PROVE  LET c == xprt.client IN
           /\ c \in Client /\ call[c] # None /\ outcome[c] = None
           /\ thread[t].ran = call[c] /\ ThreadQuiet(t) /\ thread[t].at = "run"
           /\ outcome' = [outcome EXCEPT ![c] = KV!Reply(store, call[c].op, call[c].key)]
           /\ store' = KV!Apply(store, call[c].op, call[c].key, call[c].val)
           /\ KV!Reply(store, call[c].op, call[c].key) # None
           /\ Set(t, [thread[t] EXCEPT !.at = "reply", !.ran = None,
                                       !.text = KV!Reply(store, call[c].op, call[c].key)])
           /\ UNCHANGED <<xid, call, accepted, requests, replies, xprt, xdrs, received>>
<1>1. /\ thread[t].at = "run" /\ xprt \in Requests /\ ThreadQuiet(t)
      /\ thread[t].ran = xprt.cmd /\ thread[t].ran \in Ran /\ store \in KV!Stores
  BY DEF Execute, DispatchInv, TypeOK, ThreadInv, Quiet, ThreadQuiet
<1>2. /\ xprt.client \in Client /\ xprt.cmd # None
      /\ call[xprt.client] = xprt.cmd /\ outcome[xprt.client] = None
  BY <1>1, DispatchAssumption DEF Requests, ThreadQuiet
<1>3. KV!Reply(store, thread[t].ran.op, thread[t].ran.key) # None
  BY <1>1, StoreType, DispatchAssumption DEF Texts
<1>4. Set(t, [thread[t] EXCEPT !.at = "reply", !.ran = None,
                 !.text = KV!Reply(store, thread[t].ran.op, thread[t].ran.key)])
  BY DEF Execute, Set
<1> QED BY <1>1, <1>2, <1>3, <1>4 DEF Execute, clientVars, historyVars

LEMMA ExecuteQuiet ==
    ASSUME DispatchInv, Quiet, calm, NEW t \in Thread, Execute(t)
    PROVE  Quiet'
<1> DEFINE c == xprt.client
           text == KV!Reply(store, call[c].op, call[c].key)
           r == [thread[t] EXCEPT !.at = "reply", !.ran = None, !.text = text]
<1>1. /\ c \in Client /\ call[c] # None /\ ThreadQuiet(t) /\ thread[t].at = "run"
      /\ outcome' = [outcome EXCEPT ![c] = text] /\ Set(t, r)
      /\ UNCHANGED <<xid, call, requests, replies, xprt, xdrs, received>>
  BY ExecuteFacts
<1> HIDE DEF text
<1>2. r.at = "reply" /\ r.text = text
  BY QuietTypes DEF ThreadStates
<1> HIDE DEF r, c
<1>3. /\ outcome'[c] = text /\ \A d \in Client \ {c} : outcome'[d] = outcome[d]
      /\ received[c] = xid[c] /\ \A a \in replies : a.client # c
  BY <1>1, QuietTypes DEF ThreadQuiet, c
<1>4. xid[c] \in Nat
  BY <1>1, QuietTypes
<1>5. ASSUME NEW d \in Client PROVE ClientQuiet(d)'
  BY <1>1, <1>3, <1>4 DEF ClientQuiet, Quiet
<1>6. ASSUME NEW a \in replies PROVE ReplyQuiet(a)'
  BY <1>1, <1>3, QuietTypes DEF ReplyQuiet, Quiet
<1>7. outcome'[xprt.client] = r.text
  BY <1>2, <1>3 DEF c
<1> QED BY <1>1, <1>2, <1>5, <1>6, <1>7, SetQuiet

LEMMA AnswerQuiet ==
    ASSUME DispatchInv, Quiet, NEW t \in Thread, Reply(t)
    PROVE  Quiet'
<1>1. /\ thread \in [Thread -> ThreadStates] /\ thread[t].at = "reply"
      /\ ThreadQuiet(t) /\ xprt \in Requests /\ xprt.client \in Client /\ xprt.cmd # None
      /\ thread[t].text \in Texts
  BY QuietTypes DEF Reply, DispatchInv, Quiet, ThreadInv
<1>2. /\ thread'[t].at \in {"idle", "free"} /\ \A u \in Thread \ {t} : thread'[u] = thread[u]
      /\ UNCHANGED <<xid, call, requests, outcome, received>>
      /\ \A r \in replies' : r \in replies \/ (r.client = xprt.client /\ r.text = thread[t].text)
  BY <1>1 DEF Reply, Set, Idle, clientVars, historyVars
<1>3. /\ call[xprt.client] # None /\ outcome[xprt.client] = thread[t].text
      /\ received[xprt.client] = xid[xprt.client] /\ xid[xprt.client] \in Nat
      /\ thread[t].text # None
  BY <1>1, QuietTypes, DispatchAssumption DEF ThreadQuiet
<1>4. \A u \in Thread \ {t} : thread'[u].at = "idle"
  BY <1>1, <1>2 DEF ThreadQuiet
<1>5. ASSUME NEW d \in Client PROVE ClientQuiet(d)'
  <2>1. CASE d = xprt.client
    BY <1>2, <1>3, <2>1 DEF ClientQuiet
  <2>2. CASE d # xprt.client
    BY <1>2, <2>2 DEF ClientQuiet, Quiet
  <2> QED BY <2>1, <2>2
<1>6. ASSUME NEW r \in replies' PROVE ReplyQuiet(r)'
  BY <1>2, <1>3 DEF ReplyQuiet, Quiet
<1>7. ASSUME NEW u \in Thread, thread'[u].at # "idle" PROVE ThreadQuiet(u)'
  BY <1>2, <1>4, <1>7 DEF ThreadQuiet
<1>8. ASSUME NEW x \in requests PROVE RequestQuiet(x)'
  BY <1>2 DEF RequestQuiet, Quiet
<1> QED BY <1>2, <1>5, <1>6, <1>7, <1>8 DEF Quiet

\* What went wrong once is not forgotten.
LEMMA CalmBefore ==
    ASSUME DispatchInv, [Next]_vars, calm'
    PROVE  calm
<1>1. ASSUME NEW c \in Client,
             (\E m \in Sendable : Call(c, m)) \/ Retransmit(c) \/ Acceptance(c) \/ Receipt(c)
      PROVE  calm
  BY <1>1 DEF Call, Retransmit, Acceptance, Accept, Receipt, Receive, serverVars, historyVars
<1>2. ASSUME NEW t \in Thread, ThreadStep(t) PROVE calm
  BY <1>2 DEF ThreadStep, Dispatch, GetArgs, Execute, Reply, FreeArgs, EndThread, historyVars
<1>3. CASE UNCHANGED vars
  BY <1>3 DEF vars, serverVars, historyVars
<1> QED BY <1>1, <1>2, <1>3 DEF Next

LEMMA QuietNext ==
    ASSUME DispatchInv, QuietInv, [Next]_vars
    PROVE  QuietInv'
<1> SUFFICES ASSUME calm' PROVE Quiet'
  BY DEF QuietInv
<1>0. calm /\ Quiet
  BY CalmBefore DEF QuietInv
<1>1. CASE UNCHANGED vars
  BY <1>0, <1>1 DEF vars, clientVars, serverVars, historyVars, Quiet, ClientQuiet, RequestQuiet,
                    ThreadQuiet, ReplyQuiet
<1>2. CASE Next
  <2>1. ASSUME NEW c \in Client, NEW m \in Sendable, Call(c, m) PROVE Quiet'
    BY <1>0, <2>1, CallQuiet
  <2>2. ASSUME NEW c \in Client, Retransmit(c) PROVE Quiet'
    BY <1>0, <2>2, RetransmitQuiet
  <2>3. ASSUME NEW c \in Client, Acceptance(c) PROVE Quiet'
    BY <1>0, <2>3, AcceptQuiet DEF Acceptance
  <2>4. ASSUME NEW c \in Client, Receipt(c) PROVE Quiet'
    <3>1. (CHOOSE t \in IdleThreads : TRUE) \in Thread
      BY <2>4 DEF Receipt, IdleThreads
    <3> QED BY <1>0, <2>4, <3>1, ReceiveQuiet DEF Receipt
  <2>5. ASSUME NEW t \in Thread, ThreadStep(t) PROVE Quiet'
    BY <1>0, <2>5, DecodeQuiet, ExecuteQuiet, AnswerQuiet DEF ThreadStep
  <2> QED BY <1>2, <2>1, <2>2, <2>3, <2>4, <2>5 DEF Next
<1> QED BY <1>1, <1>2

LEMMA ServiceInit == Init => Service!Init
BY DEF Init, Service!Init, Service!EmptyStore, Service!Slot, KV!EmptyStore, KV!Slot

\* The service executes commands on its table as the server does.
LEMMA SameTable ==
    ASSUME NEW st, NEW op, NEW k, NEW v
    PROVE  /\ Service!Reply(st, op, k) = KV!Reply(st, op, k)
           /\ Service!Apply(st, op, k, v) = KV!Apply(st, op, k, v)
<1> USE DEF Service!Present, Service!InRange, Service!PutOK, Service!DeleteOK,
            KV!Present, KV!InRange, KV!PutOK, KV!DeleteOK
<1>1. /\ Service!GET(st, k) = KV!GET(st, k)
      /\ Service!PUT(st, k, v) = KV!PUT(st, k, v)
      /\ Service!DELETE(st, k) = KV!DELETE(st, k)
  BY DEF Service!GET, KV!GET, Service!PUT, KV!PUT, Service!DELETE, KV!DELETE
<1>2. Service!PutOK(st, k) = KV!PutOK(st, k) /\ Service!DeleteOK(st, k) = KV!DeleteOK(st, k)
  OBVIOUS
<1> QED BY <1>1, <1>2, Zenon DEF Service!Reply, KV!Reply, Service!Apply, KV!Apply

ServiceStep == [~ calm' \/ Service!Next]_(Service!vars)

LEMMA ReturnStep ==
    ASSUME DispatchInv, Quiet, NEW c \in Client, NEW r \in replies, Accept(c, r)
    PROVE  Service!Return(c)
<1>1. outcome[c] = r.text /\ r.text # None
  BY DEF Accept, Quiet, ReplyQuiet
<1> QED BY <1>1 DEF Service!Return, Accept

LEMMA ServeStep ==
    ASSUME DispatchInv, Quiet, calm, NEW t \in Thread, Execute(t)
    PROVE  \E c \in Client : Service!Serve(c)
<1>1. PICK c \in Client :
        /\ call[c] # None /\ outcome[c] = None
        /\ outcome' = [outcome EXCEPT ![c] = KV!Reply(store, call[c].op, call[c].key)]
        /\ store' = KV!Apply(store, call[c].op, call[c].key, call[c].val)
        /\ UNCHANGED <<call, accepted>>
  BY ExecuteFacts
<1> QED BY <1>1, SameTable DEF Service!Serve

LEMMA ServiceNext ==
    ASSUME DispatchInv, QuietInv, [Next]_vars
    PROVE  ServiceStep
<1> SUFFICES ASSUME calm' PROVE ServiceStep
  BY DEF ServiceStep
<1>0. calm /\ Quiet
  BY CalmBefore DEF QuietInv
<1>1. CASE UNCHANGED vars
  BY <1>1 DEF vars, clientVars, serverVars, ServiceStep, Service!vars
<1>2. CASE Next
  <2>1. ASSUME NEW c \in Client, NEW m \in Sendable, Call(c, m) PROVE ServiceStep
    <3>1. Service!Call(c)
      BY <2>1 DEF Call, serverVars, Service!Call
    <3> QED BY <3>1 DEF ServiceStep, Service!Next
  <2>2. ASSUME NEW c \in Client, Retransmit(c) PROVE ServiceStep
    BY <2>2 DEF Retransmit, clientVars, serverVars, ServiceStep, Service!vars
  <2>3. ASSUME NEW c \in Client, Acceptance(c) PROVE ServiceStep
    <3>1. Service!Return(c)
      BY <1>0, <2>3, ReturnStep DEF Acceptance
    <3> QED BY <3>1 DEF ServiceStep, Service!Next
  <2>4. ASSUME NEW c \in Client, Receipt(c) PROVE ServiceStep
    BY <2>4 DEF Receipt, Receive, clientVars, ServiceStep, Service!vars
  <2>5. ASSUME NEW t \in Thread, Execute(t) PROVE ServiceStep
    <3>1. \E c \in Client : Service!Serve(c)
      BY <1>0, <2>5, ServeStep
    <3> QED BY <3>1 DEF ServiceStep, Service!Next
  <2>6. ASSUME NEW t \in Thread,
               Dispatch(t) \/ GetArgs(t) \/ Reply(t) \/ FreeArgs(t) \/ EndThread(t)
        PROVE  ServiceStep
    BY <2>6 DEF Dispatch, GetArgs, Reply, FreeArgs, EndThread, clientVars, ServiceStep, Service!vars
  <2> QED BY <1>2, <2>1, <2>2, <2>3, <2>4, <2>5, <2>6 DEF Next, ThreadStep
<1> QED BY <1>1, <1>2

\* Until a request is read while another thread of rpc_kv_svc.c runs, be it only
\* to free its arguments, or is read twice, the server is the service: it executes
\* each call once and answers what that gave, whatever is lost or sent again.
THEOREM IsServiceUntilOverlap == Spec => ServesUntilOverlap
<1>1. DispatchInv /\ QuietInv /\ [Next]_vars => DispatchInv' /\ QuietInv' /\ ServiceStep
  BY NextInv, QuietNext, ServiceNext
<1> QED BY <1>1, InitInv, QuietInit, ServiceInit, PTL DEF Spec, ServesUntilOverlap, ServiceStep
=============================================================================
