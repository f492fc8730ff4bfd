--------------------------- MODULE TwoPhaseProofs ---------------------------
(***************************************************************************)
(* Proofs about TwoPhase for every number of servers, peers, handlers and  *)
(* deaths.                                                                 *)
(***************************************************************************)
EXTENDS TwoPhase, FiniteSetTheorems, TLAPS

\* The operations of keyval.c keep a table a table, and a lookup answers with
\* something that was stored or with "Invalid Key".
LEMMA StoreType ==
    ASSUME NEW st \in KV!Stores, NEW r \in Request
    PROVE  /\ Written(st, r) \in KV!Stores
           /\ KV!GET(st, r.key) \in Value \cup {Blank, InvalidKey}
<1>1. r.key \in Int /\ r.val \in Value
  BY DataAssumption
<1>2. KV!GET(st, r.key) \in Value \cup {Blank, InvalidKey}
  BY <1>1, DataAssumption
     DEF KV!GET, KV!Present, KV!InRange, KV!Stores, KV!Slot
<1>3. KV!PUT(st, r.key, r.val) \in KV!Stores
  <2>1. CASE KV!PutOK(st, r.key)
    BY <1>1, <2>1 DEF KV!PUT, KV!Stores
  <2>2. CASE ~ KV!PutOK(st, r.key)
    BY <2>2 DEF KV!PUT
  <2> QED BY <2>1, <2>2
<1>4. KV!DELETE(st, r.key) \in KV!Stores
  BY <1>1 DEF KV!DELETE, KV!Stores
<1> QED BY <1>2, <1>3, <1>4 DEF Written

LEMMA EmptyStoreType == KV!EmptyStore \in KV!Stores
BY DEF KV!EmptyStore, KV!Stores

\* A call has the fields of its record type.
LEMMA CallType ==
    ASSUME NEW c \in Calls
    PROVE  /\ c.handler \in Handler /\ c.n \in 1 .. MaxCalls /\ c.rq \in Request
           /\ c # None
           /\ Caller(c) \in Server
BY NoneAssumption, ProcessAssumption DEF Calls, Caller

LEMMA InitType == Init => TypeOK
<1> SUFFICES ASSUME Init PROVE TypeOK
  OBVIOUS
<1>1. buffer \in Content /\ evals \in Seq(Calls)
  BY DEF Init, Content
<1> QED BY <1>1, EmptyStoreType, ProcessAssumption DEF Init, TypeOK, ThreadState, PeerPhase

\* TypeOK is not inductive alone: which calls the threads and the peers work
\* for must be known as well.
TypeInv == TypeOK /\ HandlerInv /\ PhaseInv

LEMMA CurrentType ==
    ASSUME TypeInv, NEW s \in Server, lock[s] # None
    PROVE  /\ lock[s] \in Handler
           /\ Current(s) \in Calls /\ Current(s).handler = lock[s]
           /\ Caller(Current(s)) = s
BY DEF TypeInv, TypeOK, HandlerInv, Current, Caller

LEMMA ServingType ==
    ASSUME TypeInv, NEW p \in Peer, phase[p] # "accept"
    PROVE  serving[p] \in Calls /\ Caller(serving[p]) \in Server
BY CallType DEF TypeInv, TypeOK, PhaseInv

\* The end of a server process, and of a peer, keeps the types.
LEMMA ServerDiesType ==
    ASSUME TypeInv, NEW s \in Server, ServerDies(s)
    PROVE  TypeInv'
<1> USE DEF TypeInv, ServerDies, handlerVars, peerVars, dataVars
<1>1. TypeOK'
  BY DEF TypeOK, ThreadState
<1>2. HandlerInv'
  BY DEF TypeOK, HandlerInv
<1>3. PhaseInv'
  BY DEF PhaseInv
<1> QED BY <1>1, <1>2, <1>3

LEMMA PeerDiesType ==
    ASSUME TypeInv, NEW p \in Peer, PeerDies(p)
    PROVE  TypeInv'
<1> USE DEF TypeInv, PeerDies, handlerVars, coordVars
<1>1. TypeOK'
  BY EmptyStoreType DEF TypeOK, PeerPhase
<1>2. HandlerInv'
  BY ProcessAssumption DEF TypeOK, HandlerInv
<1>3. PhaseInv'
  BY DEF TypeOK, PhaseInv
<1> QED BY <1>1, <1>2, <1>3

\* The steps of the handlers.
LEMMA HandlerStepType ==
    ASSUME TypeInv, NEW h \in Handler,
           (\E r \in Request : Invoke(h, r)) \/ Acquire(h)
    PROVE  TypeInv'
<1> USE ProcessAssumption DEF TypeInv
<1>1. ASSUME NEW r \in Request, Invoke(h, r) PROVE TypeInv'
  <2> USE <1>1 DEF Invoke, coordVars, peerVars, dataVars
  <2> DEFINE c == [handler |-> h, n |-> issued[h] + 1, rq |-> r]
  <2>1. issued[h] + 1 \in 1 .. MaxCalls
    BY DEF TypeOK
  <2>2. c \in Calls
    BY <2>1 DEF Calls
  <2>3. Answered \subseteq Calls
    BY DEF TypeOK, Answered, Range
  <2>4. TypeOK'
    BY <2>1, <2>2, <2>3 DEF TypeOK
  <2>5. HandlerInv'
    BY <2>2, NoneAssumption DEF TypeOK, HandlerInv, Calls
  <2>6. PhaseInv'
    BY DEF PhaseInv
  <2> QED BY <2>4, <2>5, <2>6
<1>2. CASE Acquire(h)
  <2> USE <1>2 DEF Acquire, handlerVars, peerVars, dataVars
  <2>1. TypeOK'
    BY DEF TypeOK, ThreadState
  <2>2. HandlerInv'
    BY NoneAssumption DEF TypeOK, HandlerInv
  <2>3. PhaseInv'
    BY DEF PhaseInv
  <2> QED BY <2>1, <2>2, <2>3
<1> QED BY <1>1, <1>2

LEMMA ReturnType ==
    ASSUME TypeInv, NEW s \in Server, Return(s)
    PROVE  TypeInv'
<1> USE DEF TypeInv, Return, Coordinating, peerVars, dataVars
<1>1. TypeOK'
  <2>1. ReadBuffer(s) \in Content
    BY DEF TypeOK, ReadBuffer, Content
  <2>2. result' \in [Handler -> Content \cup {Success, None}]
    BY <2>1 DEF TypeOK
  <2> QED BY <2>2 DEF TypeOK, ThreadState
<1>2. HandlerInv'
  BY CurrentType DEF TypeOK, HandlerInv
<1>3. PhaseInv'
  BY DEF PhaseInv
<1> QED BY <1>1, <1>2, <1>3

\* The steps of the threads of run().
LEMMA ThreadStepType ==
    ASSUME TypeInv, NEW s \in Server, NEW p \in Peer, ThreadStep(s, p)
    PROVE  TypeInv'
<1> USE DEF At, Goto, Coordinating
<1>1. ASSUME lock[s] # None PROVE Current(s) \in Calls
  BY <1>1, CurrentType
<1>2. CASE ConnectFail(s, p) \/ BrokenPipe(s, p)
  BY <1>2, ServerDiesType DEF ConnectFail, BrokenPipe
<1>3. CASE Connect(s, p) \/ ReceiveAck(s, p) \/ SendGo(s, p)
           \/ ReceiveGoAck(s, p) \/ Close(s, p)
  <2>1. TypeOK'
    <3> USE DEF TypeInv, TypeOK, ThreadState, handlerVars, peerVars, dataVars
    <3>1. CASE Connect(s, p)
      BY <3>1, <1>1 DEF Connect
    <3>2. CASE ReceiveAck(s, p)
      BY <3>2 DEF ReceiveAck
    <3>3. CASE SendGo(s, p)
      BY <3>3, <1>1 DEF SendGo
    <3>4. CASE ReceiveGoAck(s, p)
      BY <3>4 DEF ReceiveGoAck
    <3>5. CASE Close(s, p)
      BY <3>5 DEF Close
    <3> QED BY <1>3, <3>1, <3>2, <3>3, <3>4, <3>5
  <2>2. /\ UNCHANGED <<issued, req, lock, up, serving, phase>>
        /\ \A t \in Server \ {s} : thread'[t] = thread[t]
        /\ lock[s] # None
    BY <1>3 DEF TypeInv, TypeOK, Connect, ReceiveAck, SendGo, ReceiveGoAck, Close,
                handlerVars, peerVars
  <2>3. HandlerInv'
    BY <2>2 DEF TypeInv, HandlerInv
  <2>4. PhaseInv'
    BY <2>2 DEF TypeInv, PhaseInv
  <2> QED BY <2>1, <2>3, <2>4 DEF TypeInv
<1> QED BY <1>2, <1>3 DEF ThreadStep

\* The steps of the peers.
LEMMA PeerStepType ==
    ASSUME TypeInv, NEW p \in Peer, PeerStep(p)
    PROVE  TypeInv'
<1>1. CASE PeerBrokenPipe(p)
  BY <1>1, PeerDiesType DEF PeerBrokenPipe
<1>2. CASE Prepare(p) \/ ReceiveGo(p) \/ Abandon(p) \/ ExecuteWrite(p)
           \/ TruncateBuffer(p) \/ WriteBuffer(p)
  <2>1. phase[p] # "accept" => serving[p] \in Calls /\ Caller(serving[p]) \in Server
    BY ServingType
  <2>2. TypeOK' /\ PhaseInv'
    <3> USE DEF TypeInv, TypeOK, PhaseInv, PeerPhase, handlerVars, coordVars, dataVars
    <3>1. CASE Prepare(p)
      <4>1. Head(backlog[p]) \in Calls /\ Tail(backlog[p]) \in Seq(Calls)
        BY <3>1 DEF Prepare
      <4>2. Caller(Head(backlog[p])) \in Server
        BY <4>1, CallType
      <4>3. ackMsg' \subseteq Server \X Peer
        BY <3>1, <4>2 DEF Prepare, AckTo
      <4> QED BY <3>1, <4>1, <4>3, NoneAssumption DEF Prepare
    <3>2. CASE ReceiveGo(p)
      <4>1. ackMsg' \subseteq Server \X Peer
        BY <3>2, <2>1 DEF ReceiveGo, AckTo
      <4> QED BY <3>2, <4>1 DEF ReceiveGo
    <3>3. CASE Abandon(p)
      BY <3>3 DEF Abandon, NoGo
    <3>4. CASE ExecuteWrite(p)
      <4>1. Written(store[p], serving[p].rq) \in KV!Stores
        BY <3>4, <2>1, CallType, StoreType DEF ExecuteWrite
      <4> QED BY <3>4, <2>1, <4>1 DEF ExecuteWrite
    <3>5. CASE TruncateBuffer(p)
      <4>1. buffer' \in Content
        BY <3>5 DEF TruncateBuffer, Content
      <4> QED BY <3>5, <4>1 DEF TruncateBuffer
    <3>6. CASE WriteBuffer(p)
      <4>1. KV!GET(store[p], serving[p].rq.key) \in Value \cup {Blank, InvalidKey}
        BY <3>6, <2>1, CallType, StoreType DEF WriteBuffer
      <4>2. buffer' \in Content
        BY <3>6, <2>1, <4>1 DEF WriteBuffer, Content
      <4>3. evals' \in Seq(Calls)
        BY <3>6, <2>1 DEF WriteBuffer
      <4> QED BY <3>6, <4>2, <4>3 DEF WriteBuffer
    <3> QED BY <1>2, <3>1, <3>2, <3>3, <3>4, <3>5, <3>6
  <2>3. UNCHANGED <<issued, req, lock, up, thread>>
    BY <1>2 DEF Prepare, ReceiveGo, Abandon, ExecuteWrite, TruncateBuffer,
                WriteBuffer, handlerVars, coordVars
  <2>4. HandlerInv'
    BY <2>3 DEF TypeInv, HandlerInv
  <2> QED BY <2>2, <2>4 DEF TypeInv
<1> QED BY <1>1, <1>2 DEF PeerStep

LEMMA InitTypeInv == Init => TypeInv
BY InitType DEF Init, TypeInv, HandlerInv, PhaseInv

LEMMA NextTypeInv == TypeInv /\ [Next]_vars => TypeInv'
<1> SUFFICES ASSUME TypeInv, [Next]_vars PROVE TypeInv'
  OBVIOUS
<1>1. CASE Next
  BY <1>1, HandlerStepType, ReturnType, ThreadStepType, PeerStepType,
     ServerDiesType, PeerDiesType DEF Next, Crash
<1>2. CASE UNCHANGED vars
  BY <1>2 DEF TypeInv, TypeOK, HandlerInv, PhaseInv,
              vars, handlerVars, coordVars, peerVars, dataVars
<1> QED BY <1>1, <1>2

\* Every variable keeps its type: in particular every connection a peer
\* serves and every lock holder stands for a call in progress.
THEOREM TypeCorrect == Spec => []TypeOK
<1>1. Spec => []TypeInv
  BY InitTypeInv, NextTypeInv, PTL DEF Spec
<1>2. TypeInv => TypeOK
  BY DEF TypeInv
<1> QED BY <1>1, <1>2, PTL
-----------------------------------------------------------------------------
(***************************************************************************)
(* OneCommitAtATime.                                                       *)
(***************************************************************************)
\* A full count means that every thread has its ACK.
LEMMA FullCount ==
    ASSUME NEW A \in SUBSET Peer, Cardinality(A) >= Cardinality(Peer)
    PROVE  A = Peer
<1>1. IsFiniteSet(Peer)
  BY ProcessAssumption
<1>2. IsFiniteSet(A) /\ Cardinality(A) <= Cardinality(Peer)
  BY <1>1, FS_Subset
<1>3. Cardinality(A) = Cardinality(Peer)
  BY <1>1, <1>2, FS_CardinalityType
<1> QED BY <1>1, <1>3, FS_Subset

\* The connections a peer has not accepted are calls.
LEMMA QueueType ==
    ASSUME TypeOK, NEW p \in Peer, NEW i \in DOMAIN backlog[p]
    PROVE  backlog[p][i] \in Calls /\ Caller(backlog[p][i]) \in Server
BY CallType DEF TypeOK

LEMMA InvokeCommit ==
    ASSUME CommitInv, NEW h \in Handler, NEW r \in Request, Invoke(h, r)
    PROVE  CommitInv'
<1> USE DEF CommitInv
<1> USE DEF Invoke, coordVars, peerVars, dataVars
<1> DEFINE c == [handler |-> h, n |-> issued[h] + 1, rq |-> r]
<1>1. TypeInv /\ TypeInv'
  BY HandlerStepType DEF TypeInv
<1>2. \A s \in Server : lock[s] # None => lock[s] # h /\ Current(s)' = Current(s)
  BY DEF TypeOK, HandlerInv, Current
<1>3. \A k \in Handler : k # h => req'[k] = req[k] /\ issued'[k] = issued[k]
  BY DEF TypeOK
<1>4. c \notin Range(decided) /\ issued[h] \in Nat /\ issued'[h] = issued[h] + 1
      /\ req'[h] = c
  BY DEF TypeOK, DecidedInv, Range
<1>5. QueueInv'
  <2> SUFFICES ASSUME NEW p \in Peer, NEW i \in DOMAIN backlog[p],
                      p \in up, Caller(backlog[p][i]) \in up
               PROVE  Queued(p, i)'
    BY DEF QueueInv, Queued, Caller
  <2>1. backlog[p][i] \in Calls /\ Queued(p, i)
    BY QueueType DEF QueueInv
  <2>2. req'[backlog[p][i].handler] = req[backlog[p][i].handler]
    BY <1>3, <2>1, CallType DEF Queued
  <2> QED BY <2>1, <2>2 DEF Queued, Caller
<1>6. AckInv' /\ GoInv' /\ CountInv'
  BY <1>2 DEF TypeOK, HandlerInv, AckInv, GoInv, CountInv, Waits
<1>7. DecidedInv'
  <2>1. ASSUME NEW i \in DOMAIN decided
        PROVE  decided[i].n <= issued'[decided[i].handler]
    <3>1. decided[i] \in Calls /\ decided[i].n <= issued[decided[i].handler]
      BY DEF TypeOK, DecidedInv
    <3>2. decided[i].n \in Nat /\ decided[i].handler \in Handler
      BY <3>1, CallType
    <3> QED BY <1>3, <1>4, <3>1, <3>2
  <2>2. ASSUME NEW k \in Handler, Home[k] \in up, req'[k] # None, lock[Home[k]] # k
        PROVE  req'[k] \notin Range(decided)
    BY <1>3, <1>4, <2>2 DEF DecidedInv
  <2> QED BY <1>2, <2>1, <2>2 DEF DecidedInv, IsRead
<1>8. LastInv'
  <2>1. \A p \in Peer : Committing(p)' <=> Committing(p)
    BY DEF Committing, IsRead, Caller
  <2>2. \A s \in Server, p \in Peer : thread[s][p] = "spin" => lock[s] # None
    BY DEF HandlerInv
  <2> QED BY <1>2, <2>1, <2>2 DEF LastInv, IsLast
<1> QED BY <1>1, <1>5, <1>6, <1>7, <1>8 DEF TypeInv

LEMMA AcquireCommit ==
    ASSUME CommitInv, NEW h \in Handler, Acquire(h)
    PROVE  CommitInv'
<1> USE DEF CommitInv
<1> USE DEF Acquire, handlerVars, peerVars, dataVars
<1> DEFINE s == Home[h]
<1>1. TypeInv /\ TypeInv'
  BY HandlerStepType DEF TypeInv
<1>2. /\ s \in Server /\ lock[s] = None /\ lock'[s] = h /\ acked'[s] = {}
      /\ Current(s)' = req[h] /\ req[h] \notin Range(decided)
      /\ \A p \in Peer : thread[s][p] = "none" /\ thread'[s][p] \in {"connect", "none"}
  BY ProcessAssumption, NoneAssumption DEF TypeOK, HandlerInv, DecidedInv, Current
<1>3. \A t \in Server : t # s =>
          lock'[t] = lock[t] /\ thread'[t] = thread[t] /\ acked'[t] = acked[t]
          /\ Current(t)' = Current(t)
  BY DEF TypeOK, Current
<1>4. QueueInv'
  <2> SUFFICES ASSUME NEW p \in Peer, NEW i \in DOMAIN backlog[p],
                      p \in up, Caller(backlog[p][i]) \in up
               PROVE  Queued(p, i)'
    BY DEF QueueInv, Queued, Caller
  <2> DEFINE c == backlog[p][i]
  <2>1. Caller(c) \in Server /\ c.handler \in Handler /\ Queued(p, i)
    BY QueueType, CallType DEF QueueInv
  <2>2. Caller(c) # s
    BY <1>2, <2>1, NoneAssumption DEF Queued
  <2> QED BY <1>3, <2>1, <2>2 DEF Queued, Caller
<1>5. AckInv'
  BY <1>2, <1>3 DEF AckInv, Waits
<1>6. GoInv'
  BY <1>2, <1>3 DEF GoInv, Caller
<1>7. CountInv'
  BY <1>2, <1>3 DEF CountInv
<1>8. DecidedInv'
  <2>1. ASSUME NEW k \in Handler, Home[k] \in up, req[k] # None, lock'[Home[k]] # k
        PROVE  req[k] \notin Range(decided)
    BY <1>2, <1>3, <2>1, ProcessAssumption, NoneAssumption DEF DecidedInv
  <2> QED BY <1>2, <1>3, <2>1 DEF DecidedInv, Past, IsRead
<1>9. LastInv'
  <2>1. \A p \in Peer : Committing(p)' <=> Committing(p)
    BY DEF Committing, IsRead, Caller
  <2> QED BY <1>2, <1>3, <2>1 DEF LastInv, IsLast
<1> QED BY <1>1, <1>4, <1>5, <1>6, <1>7, <1>8, <1>9 DEF TypeInv

LEMMA ReturnCommit ==
    ASSUME CommitInv, NEW s \in Server, Return(s)
    PROVE  CommitInv'
<1> USE DEF CommitInv
<1> USE DEF Return, Coordinating, peerVars, dataVars
<1>1. TypeInv /\ TypeInv'
  BY ReturnType DEF TypeInv
<1>2. /\ lock[s] \in Handler /\ Home[lock[s]] = s /\ lock'[s] = None
      /\ \A p \in Peer : thread[s][p] \in {"none", "done"} /\ thread'[s][p] = "none"
  BY <1>1, CurrentType DEF TypeOK, HandlerInv, Joined
<1>3. \A k \in Handler : k # lock[s] => req'[k] = req[k]
  BY DEF TypeOK
<1>4. \A t \in Server : t # s =>
          lock'[t] = lock[t] /\ thread'[t] = thread[t]
          /\ (lock[t] # None => Current(t)' = Current(t))
  BY <1>2, <1>3 DEF TypeOK, HandlerInv, Current
<1>5. QueueInv'
  <2> SUFFICES ASSUME NEW p \in Peer, NEW i \in DOMAIN backlog[p],
                      p \in up, Caller(backlog[p][i]) \in up
               PROVE  Queued(p, i)'
    BY DEF QueueInv, Queued, Caller
  <2> DEFINE c == backlog[p][i]
  <2>1. Caller(c) \in Server /\ c.handler \in Handler /\ Queued(p, i)
    BY QueueType, CallType DEF QueueInv
  <2>2. Caller(c) # s
    BY <1>2, <2>1 DEF Queued
  <2>3. c.handler # lock[s]
    BY <1>2, <2>2 DEF Caller
  <2> QED BY <1>3, <1>4, <2>1, <2>2, <2>3 DEF Queued, Caller
<1>6. AckInv'
  BY <1>2, <1>4, <1>1 DEF AckInv, Waits, TypeInv, HandlerInv
<1>7. GoInv'
  BY <1>2, <1>4 DEF GoInv, Caller
<1>8. CountInv'
  BY <1>2, <1>4 DEF CountInv
<1>9. DecidedInv'
  <2>1. ASSUME NEW k \in Handler, Home[k] \in up, req'[k] # None, lock'[Home[k]] # k
        PROVE  req'[k] \notin Range(decided)
    BY <1>2, <1>3, <1>4, <2>1, ProcessAssumption DEF TypeOK, DecidedInv
  <2> QED BY <1>2, <1>4, <2>1 DEF DecidedInv, IsRead
<1>10. LastInv'
  <2>1. \A p \in Peer : Committing(p)' <=> Committing(p)
    BY DEF Committing, IsRead, Caller
  <2> QED BY <1>1, <1>2, <1>4, <2>1 DEF LastInv, IsLast, TypeInv, HandlerInv
<1> QED BY <1>1, <1>5, <1>6, <1>7, <1>8, <1>9, <1>10 DEF TypeInv

LEMMA ServerDiesCommit ==
    ASSUME CommitInv, NEW s \in Server, ServerDies(s)
    PROVE  CommitInv'
<1> USE DEF CommitInv
<1> USE DEF ServerDies, handlerVars, peerVars, dataVars
<1>1. TypeInv /\ TypeInv'
  BY ServerDiesType DEF TypeInv
<1>2. /\ lock'[s] = None /\ \A p \in Peer : thread'[s][p] = "none" /\ <<s, p>> \notin ackMsg'
      /\ \A p \in Peer : p \in up' <=> p \in up
  BY ProcessAssumption DEF TypeOK
<1>3. \A t \in Server : t # s =>
          /\ t \in up' <=> t \in up
          /\ lock'[t] = lock[t] /\ thread'[t] = thread[t] /\ acked'[t] = acked[t]
          /\ Current(t)' = Current(t)
          /\ \A p \in Peer : <<t, p>> \in ackMsg' <=> <<t, p>> \in ackMsg
  BY DEF TypeOK, Current
<1>4. QueueInv'
  <2> SUFFICES ASSUME NEW p \in Peer, NEW i \in DOMAIN backlog[p],
                      p \in up, Caller(backlog[p][i]) \in up \ {s}
               PROVE  Queued(p, i)'
    BY DEF QueueInv, Queued, Caller
  <2>1. Caller(backlog[p][i]) \in Server /\ Queued(p, i)
    BY QueueType DEF QueueInv
  <2> QED BY <1>3, <2>1 DEF Queued, Caller
<1>5. AckInv'
  BY <1>2, <1>3 DEF AckInv, Waits
<1>6. GoInv'
  BY <1>2, <1>3 DEF GoInv, Caller
<1>7. CountInv'
  BY <1>2, <1>3 DEF CountInv
<1>8. DecidedInv'
  BY <1>2, <1>3, ProcessAssumption DEF DecidedInv, IsRead
<1>9. LastInv'
  <2>1. \A p \in Peer : Committing(p)' <=> Committing(p)
    BY <1>2 DEF Committing, IsRead, Caller
  <2>2. \A t \in Server, p \in Peer :
            p \in up' /\ thread'[t][p] = "spin" =>
                t # s /\ p \in up /\ thread[t][p] = "spin" /\ Current(t)' = Current(t)
    BY <1>2, <1>3
  <2> QED BY <2>1, <2>2 DEF LastInv, IsLast
<1> QED BY <1>1, <1>4, <1>5, <1>6, <1>7, <1>8, <1>9 DEF TypeInv

LEMMA ConnectCommit ==
    ASSUME CommitInv, NEW s \in Server, NEW p \in Peer, Connect(s, p)
    PROVE  CommitInv'
<1> USE DEF CommitInv
<1> USE DEF Connect, At, Goto, Coordinating, handlerVars, dataVars
<1>1. TypeInv /\ TypeInv'
  BY ThreadStepType DEF TypeInv, ThreadStep
<1>2. /\ s \in up /\ lock[s] # None /\ p \in up /\ thread[s][p] = "connect"
      /\ <<s, p>> \notin ackMsg
      /\ Current(s) \in Calls /\ Caller(Current(s)) = s /\ Current(s).handler = lock[s]
  BY <1>1, CurrentType DEF AckInv
<1>3. \A t \in Server, q \in Peer :
          thread'[t][q] = IF t = s /\ q = p THEN "ack" ELSE thread[t][q]
  BY DEF TypeOK
<1>4. \A t \in Server : Current(t)' = Current(t)
  BY DEF Current
<1>5. QueueInv'
  <2>1. UNCHANGED <<req, lock, ackMsg, up>>
    OBVIOUS
  <2>2. \A q \in Peer \ {p} : backlog'[q] = backlog[q]
    BY DEF TypeOK
  <2> DEFINE n == Len(backlog[p]) + 1
  <2>3. /\ DOMAIN backlog'[p] = 1 .. n /\ DOMAIN backlog[p] = 1 .. n - 1
        /\ backlog'[p][n] = Current(s) /\ n \in Nat
        /\ \A j \in 1 .. n - 1 : backlog'[p][j] = backlog[p][j]
    BY <1>2 DEF TypeOK
  <2>4. \A j \in DOMAIN backlog[p] :
            Caller(backlog[p][j]) \in Server /\ Caller(backlog[p][j]) # s
    <3> SUFFICES ASSUME NEW j \in DOMAIN backlog[p]
                 PROVE  Caller(backlog[p][j]) \in Server /\ Caller(backlog[p][j]) # s
      OBVIOUS
    <3>1. Queued(p, j) /\ Caller(backlog[p][j]) \in Server
      BY QueueType DEF QueueInv
    <3> QED BY <1>2, <3>1 DEF Queued
  <2> SUFFICES ASSUME NEW q \in Peer, NEW i \in DOMAIN backlog'[q]
               PROVE  Queued(q, i)'
    BY DEF QueueInv
  <2> HIDE DEF n, Connect, At, Goto
  <2>5. CASE q # p
    <3>1. Queued(q, i) /\ Caller(backlog[q][i]) \in Server
      BY <2>2, <2>5, QueueType DEF QueueInv
    <3> QED BY <1>3, <2>1, <2>2, <2>5, <3>1 DEF Queued, Caller
  <2>6. CASE q = p /\ i = n
    <3>1. \A j \in DOMAIN backlog'[p] : Caller(backlog'[p][j]) = s => j = n
      BY <2>3, <2>4
    <3>2. backlog'[q][i] = Current(s) /\ Current(s) = req[Current(s).handler]
      BY <1>2, <2>3, <2>6 DEF Current
    <3> QED BY <1>2, <1>3, <2>1, <2>6, <3>1, <3>2 DEF Queued, Caller
  <2>7. CASE q = p /\ i # n
    <3>1. i \in DOMAIN backlog[p] /\ backlog'[q][i] = backlog[p][i]
      BY <2>3, <2>7
    <3>2. Queued(p, i) /\ Caller(backlog[p][i]) \in Server /\ Caller(backlog[p][i]) # s
      BY <2>4, <3>1 DEF QueueInv
    <3>3. \A j \in DOMAIN backlog'[p] : Caller(backlog'[p][j]) = Caller(backlog[p][i]) =>
              j \in DOMAIN backlog[p] /\ Caller(backlog[p][j]) = Caller(backlog[p][i])
      BY <1>2, <2>3, <3>2
    <3> QED BY <1>3, <2>1, <2>7, <3>1, <3>2, <3>3 DEF Queued, Caller
  <2> QED BY <2>5, <2>6, <2>7
<1>6. AckInv'
  BY <1>2, <1>3, <1>4 DEF AckInv, Waits
<1>7. GoInv'
  BY <1>2, <1>3 DEF GoInv, Caller
<1>8. CountInv'
  BY <1>2, <1>3 DEF CountInv, Past
<1>9. DecidedInv'
  BY <1>2, <1>3, <1>4 DEF DecidedInv, Past, IsRead
<1>10. LastInv'
  <2>1. \A q \in Peer : Committing(q)' <=> Committing(q)
    BY DEF Committing, IsRead, Caller
  <2> QED BY <1>3, <1>4, <2>1 DEF LastInv, IsLast
<1> QED BY <1>1, <1>5, <1>6, <1>7, <1>8, <1>9, <1>10 DEF TypeInv

LEMMA ReceiveAckCommit ==
    ASSUME CommitInv, NEW s \in Server, NEW p \in Peer, ReceiveAck(s, p)
    PROVE  CommitInv'
<1> USE DEF CommitInv
<1> USE DEF ReceiveAck, At, Goto, Coordinating, handlerVars, peerVars, dataVars
<1>1. TypeInv /\ TypeInv'
  BY ThreadStepType DEF TypeInv, ThreadStep
<1>2. /\ s \in up /\ lock[s] # None /\ thread[s][p] = "ack"
      /\ p \in up => <<s, p>> \in ackMsg /\ Waits(s, p)
      /\ p \notin acked[s] /\ Current(s) \notin Range(decided)
  BY DEF Hears, AckInv, CountInv, Past, DecidedInv
<1>3. \A t \in Server, q \in Peer :
          /\ thread'[t][q] = IF t = s /\ q = p THEN "spin" ELSE thread[t][q]
          /\ q \in acked'[t] => q \in acked[t] \/ (t = s /\ q = p)
          /\ t # s => acked'[t] = acked[t]
          /\ <<t, q>> \in ackMsg' <=> <<t, q>> \in ackMsg /\ ~ (t = s /\ q = p)
  BY DEF TypeOK
<1>4. \A t \in Server : Current(t)' = Current(t)
  BY DEF Current
<1>5. QueueInv'
  <2> SUFFICES ASSUME NEW q \in Peer, NEW i \in DOMAIN backlog[q],
                      q \in up, Caller(backlog[q][i]) \in up
               PROVE  Queued(q, i)'
    BY DEF QueueInv, Queued, Caller
  <2>1. Caller(backlog[q][i]) \in Server /\ Queued(q, i)
    BY QueueType DEF QueueInv
  <2>2. ~ (Caller(backlog[q][i]) = s /\ q = p)
    BY <1>2, <2>1 DEF Queued
  <2> QED BY <1>3, <2>1, <2>2 DEF Queued, Caller
<1>6. AckInv'
  BY <1>2, <1>3, <1>4 DEF AckInv, Waits
<1>7. GoInv'
  BY <1>2, <1>3 DEF GoInv, Caller
<1>8. CountInv'
  BY <1>2, <1>3 DEF CountInv, Past
<1>9. DecidedInv'
  BY <1>2, <1>3, <1>4 DEF DecidedInv, Past, IsRead
<1>10. LastInv'
  <2>1. \A q \in Peer : Committing(q)' <=> Committing(q)
    BY DEF Committing, IsRead, Caller
  <2> QED BY <1>2, <1>3, <1>4, <2>1 DEF LastInv, IsLast
<1> QED BY <1>1, <1>5, <1>6, <1>7, <1>8, <1>9, <1>10 DEF TypeInv

LEMMA RangeAppend ==
    ASSUME NEW S, NEW d \in Seq(S), NEW c \in S
    PROVE  Range(Append(d, c)) = Range(d) \cup {c}
<1>1. /\ DOMAIN d = 1 .. Len(d) /\ DOMAIN Append(d, c) = 1 .. Len(d) + 1 /\ Len(d) \in Nat
      /\ Append(d, c)[Len(d) + 1] = c
      /\ \A i \in 1 .. Len(d) : Append(d, c)[i] = d[i]
  OBVIOUS
<1>2. \A i \in 1 .. Len(d) + 1 : i \in 1 .. Len(d) \/ i = Len(d) + 1
  BY <1>1
<1>3. ASSUME NEW x \in Range(Append(d, c)) PROVE x \in Range(d) \cup {c}
  BY <1>1, <1>2, <1>3 DEF Range
<1>4. ASSUME NEW x \in Range(d) PROVE x \in Range(Append(d, c))
  <2>1. PICK i \in 1 .. Len(d) : x = d[i]
    BY <1>1, <1>4 DEF Range
  <2>2. i \in 1 .. Len(d) + 1
    BY <1>1, <2>1
  <2> QED BY <1>1, <2>1, <2>2 DEF Range
<1>5. c \in Range(Append(d, c))
  <2>1. Len(d) + 1 \in 1 .. Len(d) + 1
    BY <1>1
  <2> QED BY <1>1, <2>1 DEF Range
<1> QED BY <1>3, <1>4, <1>5

\* The step that commits.
LEMMA SendGoCommit ==
    ASSUME CommitInv, NEW s \in Server, NEW p \in Peer, SendGo(s, p)
    PROVE  CommitInv'
<1> DEFINE c == Current(s)
           commits == ~ IsRead(c) /\ c \notin Range(decided)
<1> USE DEF CommitInv
<1> USE DEF SendGo, At, Goto, Coordinating, handlerVars, peerVars, dataVars
<1>1. TypeInv /\ TypeInv'
  BY ThreadStepType DEF TypeInv, ThreadStep
<1>2. /\ s \in up /\ lock[s] # None /\ thread[s][p] = "spin"
      /\ c \in Calls /\ Caller(c) = s /\ c.handler = lock[s] /\ c = req[lock[s]]
      /\ lock[s] \in Handler /\ Home[lock[s]] = s
      /\ p \in up => Waits(s, p) /\ <<s, p>> \notin ackMsg
  BY <1>1, CurrentType DEF AckInv, Current, HandlerInv
<1>3. \A t \in Server, q \in Peer :
          /\ thread'[t][q] = IF t = s /\ q = p THEN "goAck" ELSE thread[t][q]
          /\ <<t, q>> \in goMsg' <=> <<t, q>> \in goMsg \/ (t = s /\ q = p /\ p \in up)
  BY DEF TypeOK
<1>4. /\ UNCHANGED <<issued, req, lock, acked, ackMsg, backlog, serving, phase, up>>
      /\ \A t \in Server : Current(t)' = Current(t)
  BY DEF Current
\* Only reads get here before all ACKs are in.
<1>5. ~ IsRead(c) => acked[s] = Peer
  BY FullCount DEF TypeOK, AcksComplete
<1>6. Range(decided') = (IF commits THEN Range(decided) \cup {c} ELSE Range(decided))
      /\ (commits => decided' = Append(decided, c))
      /\ (~ commits => decided' = decided)
  <2>1. decided \in Seq(Calls)
    BY DEF TypeOK
  <2>2. decided' = IF commits THEN Append(decided, c) ELSE decided
    OBVIOUS
  <2>3. Range(Append(decided, c)) = Range(decided) \cup {c}
    BY <1>2, <2>1, RangeAppend
  <2> HIDE DEF c, commits
  <2> QED BY <2>2, <2>3
\* A commit finds every thread of s at the barrier.
<1>7. commits => \A q \in Peer : thread[s][q] = "spin"
  BY <1>2, <1>5 DEF CountInv, DecidedInv, Past
<1>8. commits => \A k \in Handler : req[k] # None /\ k # lock[s] => req[k] # c
  BY <1>2 DEF HandlerInv
<1> HIDE DEF SendGo, At, Goto, c, commits
<1>9. QueueInv'
  <2> SUFFICES ASSUME NEW q \in Peer, NEW i \in DOMAIN backlog[q]
               PROVE  Queued(q, i)'
    BY <1>4 DEF QueueInv
  <2>1. Caller(backlog[q][i]) \in Server /\ Queued(q, i)
    BY QueueType DEF QueueInv
  <2> QED BY <1>2, <1>3, <1>4, <2>1 DEF Queued, Caller
<1>10. AckInv'
  BY <1>2, <1>3, <1>4 DEF AckInv, Waits
<1>11. GoInv'
  <2> SUFFICES ASSUME NEW t \in Server, NEW q \in Peer, <<t, q>> \in goMsg'
               PROVE  /\ q \in up /\ serving[q] # None /\ Caller(serving[q]) = t
                      /\ phase[q] = "go"
                      /\ t \in up => thread'[t][q] = "goAck" /\ <<t, q>> \notin ackMsg
    BY <1>4 DEF GoInv, Caller
  <2>1. CASE <<t, q>> \in goMsg
    BY <1>3, <2>1 DEF GoInv
  <2>2. CASE t = s /\ q = p /\ p \in up
    <3>1. serving[p] = c /\ phase[p] = "go" /\ c # None
      BY <1>2, <2>2, CallType DEF Waits, c
    <3> QED BY <1>2, <1>3, <2>2, <3>1
  <2> QED BY <1>3, <2>1, <2>2
<1>12. CountInv'
  BY <1>2, <1>3, <1>4 DEF CountInv, Past
<1>13. DecidedInv'
  <2>1. \A i \in DOMAIN decided' : decided'[i].n <= issued'[decided'[i].handler]
    <3>1. \A d \in Range(decided) : d.n <= issued[d.handler]
      BY DEF DecidedInv, Range
    <3>2. c.n <= issued[c.handler]
      BY <1>2 DEF HandlerInv
    <3>3. \A d \in Range(decided') : d.n <= issued[d.handler]
      BY <1>6, <3>1, <3>2
    <3> QED BY <1>4, <3>3 DEF Range
  <2>2. ASSUME NEW h \in Handler, Home[h] \in up, req[h] # None, lock[Home[h]] # h
        PROVE  req[h] \notin Range(decided')
    <3>1. req[h] \notin Range(decided) /\ h # lock[s]
      BY <1>2, <2>2 DEF DecidedInv
    <3> QED BY <1>6, <1>8, <2>2, <3>1
  <2>3. ASSUME NEW t \in Server, lock[t] # None, Current(t) \in Range(decided')
        PROVE  acked[t] = Peer
    <3>1. CASE t = s
      BY <1>2, <1>5, <1>6, <2>3, <3>1 DEF DecidedInv, c, commits
    <3>2. CASE t # s
      <4>1. Current(t) # c
        BY <1>1, <1>2, <2>3, <3>2, CurrentType
      <4> QED BY <1>6, <2>3, <4>1 DEF DecidedInv
    <3> QED BY <3>1, <3>2
  <2>4. ASSUME NEW t \in Server, NEW q \in Peer, lock[t] # None, ~ IsRead(Current(t)),
               thread'[t][q] \in Past \ {"spin"}
        PROVE  Current(t) \in Range(decided')
    BY <1>3, <1>6, <2>4 DEF DecidedInv, c, commits
  <2> QED BY <1>4, <2>1, <2>2, <2>3, <2>4 DEF DecidedInv, IsRead
<1>14. LastInv'
  <2>1. commits => \A q \in Peer : ~ Committing(q)
    <3> SUFFICES ASSUME commits, NEW q \in Peer, q \in up PROVE ~ Committing(q)
      BY DEF Committing
    <3>1. serving[q] = c /\ phase[q] = "go" /\ <<s, q>> \notin goMsg
      BY <1>7 DEF AckInv, Waits, c
    <3> QED BY <1>2, <3>1 DEF Committing
  <2>2. commits => decided' # <<>> /\ c = decided'[Len(decided')]
    <3>1. decided \in Seq(Calls)
      BY DEF TypeOK
    <3> QED BY <1>2, <1>6, <3>1
  <2>3. ASSUME NEW q \in Peer, Committing(q)'
        PROVE  IsLast(serving[q])'
    <3>1. CASE q = p /\ p \in up /\ Caller(serving[p]) = s
      <4>1. serving[p] = c
        BY <1>2, <3>1 DEF Waits, c
      <4>2. ~ commits => IsLast(c)
        BY <1>2, <1>4, <2>3, <3>1, <4>1 DEF LastInv, Committing, IsRead, commits, c
      <4> QED BY <1>4, <1>6, <2>2, <3>1, <4>1, <4>2 DEF IsLast
    <3>2. CASE ~ (q = p /\ p \in up /\ Caller(serving[p]) = s)
      <4>1. Committing(q)
        BY <1>1, <1>3, <1>4, <2>3, <3>2, CallType
           DEF Committing, Caller, IsRead, TypeOK, TypeInv
      <4>2. ~ commits /\ IsLast(serving[q])
        BY <2>1, <4>1 DEF LastInv
      <4> QED BY <1>4, <1>6, <4>2 DEF IsLast
    <3> QED BY <3>1, <3>2
  <2>4. ASSUME NEW t \in Server, NEW q \in Peer, q \in up, thread'[t][q] = "spin",
               Current(t) \in Range(decided')
        PROVE  IsLast(Current(t))'
    <3>1. thread[t][q] = "spin" /\ lock[t] # None
      BY <1>3, <2>4 DEF HandlerInv
    <3>2. CASE commits
      <4>1. serving[q] = c /\ serving[q] = Current(t)
        BY <1>7, <2>4, <3>1, <3>2 DEF AckInv, Waits, c
      <4>2. Current(t)' = c
        BY <1>4, <4>1
      <4> QED BY <2>2, <3>2, <4>2 DEF IsLast
    <3>3. CASE ~ commits
      BY <1>4, <1>6, <2>4, <3>1, <3>3 DEF LastInv, IsLast
    <3> QED BY <3>2, <3>3
  <2> QED BY <1>4, <2>3, <2>4 DEF LastInv
<1> QED BY <1>1, <1>9, <1>10, <1>11, <1>12, <1>13, <1>14 DEF TypeInv

\* The steps of a thread after its GO.
LEMMA ClosingCommit ==
    ASSUME CommitInv, NEW s \in Server, NEW p \in Peer,
           ReceiveGoAck(s, p) \/ Close(s, p)
    PROVE  CommitInv'
<1> USE DEF CommitInv
<1>1. TypeInv /\ TypeInv'
  BY ThreadStepType DEF TypeInv, ThreadStep
<1>2. /\ s \in up /\ lock[s] # None /\ thread[s][p] \in {"goAck", "goSpin"}
      /\ p \in up => <<s, p>> \notin goMsg
  BY DEF ReceiveGoAck, Close, At, Coordinating, Hears, GoInv
<1>3. \A t \in Server, q \in Peer :
          /\ ~ (t = s /\ q = p) => thread'[t][q] = thread[t][q]
          /\ <<t, q>> \in ackMsg' => <<t, q>> \in ackMsg
  BY DEF ReceiveGoAck, Close, Goto, TypeOK
<1>4. /\ UNCHANGED <<issued, req, lock, acked, goMsg, backlog, serving, phase, up, decided>>
      /\ \A t \in Server : Current(t)' = Current(t)
      /\ thread'[s][p] \in {"goSpin", "done"}
      /\ p \in up => <<s, p>> \notin ackMsg'
  <2>1. CASE ReceiveGoAck(s, p)
    BY <2>1 DEF ReceiveGoAck, Goto, Current, handlerVars, peerVars, TypeOK
  <2>2. CASE Close(s, p)
    <3>1. p \in up => <<s, p>> \notin ackMsg
      BY <2>2 DEF Close, At, AckInv
    <3> QED BY <2>2, <3>1 DEF Close, Goto, Current, handlerVars, peerVars, TypeOK
  <2> QED BY <2>1, <2>2
<1>5. QueueInv'
  <2> SUFFICES ASSUME NEW q \in Peer, NEW i \in DOMAIN backlog[q]
               PROVE  Queued(q, i)'
    BY <1>4 DEF QueueInv
  <2>1. Caller(backlog[q][i]) \in Server /\ Queued(q, i)
    BY QueueType DEF QueueInv
  <2> QED BY <1>2, <1>3, <1>4, <2>1 DEF Queued, Caller
<1>6. AckInv'
  BY <1>2, <1>3, <1>4 DEF AckInv, Waits
<1>7. GoInv'
  BY <1>2, <1>3, <1>4 DEF GoInv, Caller
<1>8. CountInv'
  BY <1>3, <1>4 DEF CountInv, Past
<1>9. DecidedInv'
  BY <1>2, <1>3, <1>4 DEF DecidedInv, Past, IsRead
<1>10. LastInv'
  <2>1. \A q \in Peer : Committing(q)' <=> Committing(q)
    BY <1>4 DEF Committing, IsRead, Caller
  <2> QED BY <1>3, <1>4, <2>1 DEF LastInv, IsLast
<1> QED BY <1>1, <1>5, <1>6, <1>7, <1>8, <1>9, <1>10 DEF TypeInv

LEMMA PrepareCommit ==
    ASSUME CommitInv, NEW p \in Peer, Prepare(p)
    PROVE  CommitInv'
<1> USE DEF CommitInv
<1> DEFINE c == Head(backlog[p])
           s == Caller(c)
<1>1. TypeInv /\ TypeInv'
  BY PeerStepType DEF TypeInv, PeerStep
<1>2. /\ p \in up /\ phase[p] = "accept" /\ backlog[p] # <<>>
      /\ serving'[p] = c /\ phase'[p] = "go" /\ backlog'[p] = Tail(backlog[p])
      /\ \A q \in Peer \ {p} :
            serving'[q] = serving[q] /\ phase'[q] = phase[q] /\ backlog'[q] = backlog[q]
      /\ UNCHANGED <<issued, req, lock, acked, thread, goMsg, up, decided>>
  BY DEF Prepare, TypeOK, handlerVars, coordVars
<1>3. /\ 1 \in DOMAIN backlog[p] /\ c = backlog[p][1]
      /\ \A i \in DOMAIN Tail(backlog[p]) :
            i + 1 \in DOMAIN backlog[p] /\ i + 1 # 1
            /\ Tail(backlog[p])[i] = backlog[p][i + 1]
      /\ \A i \in DOMAIN Tail(backlog[p]) : i \in Nat
  BY <1>2 DEF TypeOK
<1>4. /\ c \in Calls /\ s \in Server
      /\ s \in up => lock[s] = c.handler /\ req[c.handler] = c /\ thread[s][p] = "ack"
  <2>1. c \in Calls /\ s \in Server /\ Queued(p, 1)
    BY <1>3, QueueType DEF QueueInv
  <2> QED BY <1>2, <1>3, <2>1 DEF Queued
<1>5. \A t \in Server, q \in Peer :
          <<t, q>> \in ackMsg' <=> <<t, q>> \in ackMsg \/ (t = s /\ q = p /\ s \in up)
  BY DEF Prepare, AckTo
<1>6. \A t \in Server : <<t, p>> \notin goMsg /\ thread[t][p] # "spin"
                         /\ ~ (<<t, p>> \in ackMsg /\ thread[t][p] = "ack")
  BY <1>2 DEF GoInv, AckInv, Waits
<1>7. \A t \in Server : Current(t)' = Current(t)
  BY <1>2 DEF Current
<1> HIDE DEF c, s
<1>8. QueueInv'
  <2> SUFFICES ASSUME NEW q \in Peer, NEW i \in DOMAIN backlog'[q]
               PROVE  Queued(q, i)'
    BY DEF QueueInv
  <2>1. CASE q # p
    <3>1. Queued(q, i) /\ Caller(backlog[q][i]) \in Server
      BY <1>2, <2>1, QueueType DEF QueueInv
    <3> QED BY <1>2, <1>5, <2>1, <3>1 DEF Queued, Caller
  <2>2. CASE q = p
    <3>1. /\ i + 1 \in DOMAIN backlog[p] /\ backlog'[p][i] = backlog[p][i + 1]
          /\ Queued(p, i + 1) /\ Caller(backlog[p][i + 1]) \in Server
          /\ i + 1 # 1 /\ i \in Nat
      BY <1>2, <1>3, <2>2, QueueType DEF QueueInv
    <3>2. Caller(backlog[p][i + 1]) \in up => Caller(backlog[p][i + 1]) # s
      BY <1>2, <1>3, <3>1 DEF Queued, s
    <3>3. ASSUME NEW j \in DOMAIN backlog'[p],
                 Caller(backlog'[p][j]) = Caller(backlog[p][i + 1]),
                 Caller(backlog[p][i + 1]) \in up
          PROVE  i = j
      <4>1. i + 1 = j + 1
        BY <1>2, <1>3, <3>1, <3>3 DEF Queued
      <4> QED BY <1>2, <1>3, <3>1, <4>1
    <3> QED BY <1>2, <1>5, <2>2, <3>1, <3>2, <3>3 DEF Queued, Caller
  <2> QED BY <2>1, <2>2
<1>9. AckInv'
  <2> SUFFICES ASSUME NEW t \in Server, NEW q \in Peer, q \in up
               PROVE  /\ <<t, q>> \in ackMsg' => t \in up /\ thread[t][q] \in {"ack", "goAck"}
                      /\ <<t, q>> \in ackMsg' /\ thread[t][q] = "ack" => Waits(t, q)'
                      /\ thread[t][q] = "spin" => Waits(t, q)'
    BY <1>2 DEF AckInv
  <2>1. CASE q # p
    BY <1>2, <1>5, <1>7, <2>1 DEF AckInv, Waits
  <2>2. CASE q = p
    BY <1>2, <1>4, <1>5, <1>6, <1>7, <2>2 DEF AckInv, Waits, Current
  <2> QED BY <2>1, <2>2
<1>10. GoInv'
  BY <1>2, <1>4, <1>5, <1>6 DEF GoInv, Caller
<1>11. CountInv'
  BY <1>2 DEF CountInv
<1>12. DecidedInv'
  BY <1>2, <1>7 DEF DecidedInv, IsRead
<1>13. LastInv'
  <2>1. \A q \in Peer : Committing(q)' => q # p /\ Committing(q)
    BY <1>2, <1>4, <1>6 DEF Committing, IsRead, Caller, s
  <2> QED BY <1>2, <1>7, <2>1 DEF LastInv, IsLast
<1> QED BY <1>1, <1>8, <1>9, <1>10, <1>11, <1>12, <1>13 DEF TypeInv

LEMMA ReceiveGoCommit ==
    ASSUME CommitInv, NEW p \in Peer, ReceiveGo(p)
    PROVE  CommitInv'
<1> USE DEF CommitInv
<1> DEFINE s == Caller(serving[p])
<1>1. TypeInv /\ TypeInv'
  BY PeerStepType DEF TypeInv, PeerStep
<1>2. /\ p \in up /\ phase[p] = "go" /\ phase'[p] = "exec"
      /\ serving[p] \in Calls /\ s \in Server /\ <<s, p>> \in goMsg
      /\ \A q \in Peer \ {p} : phase'[q] = phase[q]
      /\ UNCHANGED <<issued, req, lock, acked, thread, backlog, serving, up, decided>>
  BY <1>1, ServingType DEF ReceiveGo, TypeOK, handlerVars, coordVars
<1>3. \A t \in Server, q \in Peer :
          /\ <<t, q>> \in ackMsg' <=> <<t, q>> \in ackMsg \/ (t = s /\ q = p /\ s \in up)
          /\ <<t, q>> \in goMsg' <=> <<t, q>> \in goMsg /\ ~ (t = s /\ q = p)
          /\ goMsg' \subseteq goMsg
  BY DEF ReceiveGo, AckTo
<1>4. s \in up => thread[s][p] = "goAck"
  BY <1>2 DEF GoInv
<1>5. \A t \in Server : Current(t)' = Current(t)
  BY <1>2 DEF Current
\* No thread of another server is connected to p.
<1>6. \A t \in Server :
          /\ <<t, p>> \in goMsg => t = s
          /\ thread[t][p] # "spin"
          /\ ~ (<<t, p>> \in ackMsg /\ thread[t][p] = "ack")
  <2> SUFFICES ASSUME NEW t \in Server
               PROVE  /\ <<t, p>> \in goMsg => t = s
                      /\ thread[t][p] # "spin"
                      /\ ~ (<<t, p>> \in ackMsg /\ thread[t][p] = "ack")
    OBVIOUS
  <2>1. thread[t][p] # "none" => Caller(Current(t)) = t
    BY <1>1, CurrentType DEF HandlerInv
  <2> QED BY <1>2, <2>1 DEF GoInv, AckInv, Waits
<1> HIDE DEF s
<1>7. QueueInv'
  <2> SUFFICES ASSUME NEW q \in Peer, NEW i \in DOMAIN backlog[q]
               PROVE  Queued(q, i)'
    BY <1>2 DEF QueueInv
  <2>1. Caller(backlog[q][i]) \in Server /\ Queued(q, i)
    BY QueueType DEF QueueInv
  <2> QED BY <1>2, <1>3, <1>4, <2>1 DEF Queued, Caller
<1>8. AckInv'
  <2> SUFFICES ASSUME NEW t \in Server, NEW q \in Peer, q \in up
               PROVE  /\ <<t, q>> \in ackMsg' => t \in up /\ thread[t][q] \in {"ack", "goAck"}
                      /\ <<t, q>> \in ackMsg' /\ thread[t][q] = "ack" => Waits(t, q)'
                      /\ thread[t][q] = "spin" => Waits(t, q)'
    BY <1>2 DEF AckInv
  <2>1. CASE q # p
    BY <1>2, <1>3, <1>5, <2>1 DEF AckInv, Waits
  <2>2. CASE q = p
    <3>1. <<t, p>> \in ackMsg => t \in up /\ thread[t][p] \in {"ack", "goAck"}
      BY <2>2 DEF AckInv
    <3>2. <<t, p>> \in ackMsg' => t \in up /\ thread[t][p] = "goAck"
      <4>1. CASE <<t, p>> \in ackMsg
        BY <1>6, <3>1, <4>1
      <4>2. CASE t = s /\ s \in up
        BY <1>4, <4>2
      <4> QED BY <1>3, <4>1, <4>2
    <3> QED BY <1>6, <2>2, <3>2
  <2> QED BY <2>1, <2>2
<1>9. GoInv'
  BY <1>2, <1>3, <1>6 DEF GoInv, Caller
<1>10. CountInv'
  BY <1>2 DEF CountInv
<1>11. DecidedInv'
  BY <1>2, <1>5 DEF DecidedInv, IsRead
<1>12. LastInv'
  <2>1. \A q \in Peer : Committing(q)' => Committing(q)
    <3> SUFFICES ASSUME NEW q \in Peer, Committing(q)' PROVE Committing(q)
      OBVIOUS
    <3>1. CASE q = p
      BY <1>2, <3>1 DEF Committing, IsRead, s
    <3>2. CASE q # p
      BY <1>2, <1>3, <3>2 DEF Committing, IsRead, Caller
    <3> QED BY <3>1, <3>2
  <2> QED BY <1>2, <1>5, <2>1 DEF LastInv, IsLast
<1> QED BY <1>1, <1>7, <1>8, <1>9, <1>10, <1>11, <1>12 DEF TypeInv

\* The steps that end a connection, or the peer: nothing of it is left to wait for.
LEMMA PeerEndsCommit ==
    ASSUME CommitInv, NEW p \in Peer,
           \/ Abandon(p) \/ ExecuteWrite(p) \/ TruncateBuffer(p) \/ WriteBuffer(p)
           \/ PeerDies(p)
    PROVE  CommitInv'
<1> USE DEF CommitInv
<1>1. TypeInv /\ TypeInv'
  BY PeerStepType, PeerDiesType DEF TypeInv, PeerStep
<1>2. /\ \A q \in Peer \ {p} : /\ phase'[q] = phase[q] /\ serving'[q] = serving[q]
                               /\ backlog'[q] = backlog[q]
                               /\ q \in up' <=> q \in up
      /\ \A t \in Server : t \in up' <=> t \in up
      /\ up' \subseteq up
      /\ UNCHANGED <<issued, req, lock, acked, thread, ackMsg, decided>>
  BY ProcessAssumption DEF Abandon, ExecuteWrite, TruncateBuffer, WriteBuffer, PeerDies,
         TypeOK, handlerVars, coordVars
<1>3. /\ p \in up' => backlog'[p] = backlog[p]
      /\ ~ Committing(p)'
      /\ \A t \in Server, q \in Peer : <<t, q>> \in goMsg' <=> <<t, q>> \in goMsg /\ q # p
      /\ goMsg' \subseteq goMsg
  <2>1. CASE Abandon(p)
    BY <2>1 DEF Abandon, NoGo, GoInv, Committing, TypeOK
  <2>2. CASE ExecuteWrite(p)
    BY <2>2 DEF ExecuteWrite, GoInv, Committing, TypeOK
  <2>3. CASE TruncateBuffer(p)
    BY <2>3 DEF TruncateBuffer, GoInv, Committing, IsRead, TypeOK
  <2>4. CASE WriteBuffer(p)
    BY <2>4 DEF WriteBuffer, GoInv, Committing, TypeOK
  <2>5. CASE PeerDies(p)
    BY <2>5 DEF PeerDies, Committing, TypeOK
  <2> QED BY <2>1, <2>2, <2>3, <2>4, <2>5
<1>4. \A t \in Server : Current(t)' = Current(t)
  BY <1>2 DEF Current
<1>5. \A t \in Server :
          p \in up' =>
              /\ thread[t][p] # "spin"
              /\ ~ (<<t, p>> \in ackMsg /\ thread[t][p] = "ack")
  <2> SUFFICES ASSUME NEW t \in Server, p \in up'
               PROVE  /\ thread[t][p] # "spin"
                      /\ ~ (<<t, p>> \in ackMsg /\ thread[t][p] = "ack")
    OBVIOUS
  <2>1. CASE Abandon(p)
    <3>1. thread[t][p] # "none" => t \in up /\ Caller(Current(t)) = t
      BY <1>1, CurrentType DEF HandlerInv
    <3> QED BY <2>1, <3>1 DEF Abandon, NoGo, AckInv, Waits
  <2>2. CASE ExecuteWrite(p) \/ TruncateBuffer(p) \/ WriteBuffer(p)
    BY <2>2 DEF ExecuteWrite, TruncateBuffer, WriteBuffer, AckInv, Waits
  <2>3. CASE PeerDies(p)
    BY <2>3 DEF PeerDies
  <2> QED BY <2>1, <2>2, <2>3
<1>6. QueueInv'
  <2> SUFFICES ASSUME NEW q \in Peer, NEW i \in DOMAIN backlog'[q], q \in up'
               PROVE  Queued(q, i)'
    BY DEF QueueInv, Queued
  <2>1. backlog'[q] = backlog[q]
    BY <1>2, <1>3
  <2>2. Caller(backlog[q][i]) \in Server /\ Queued(q, i) /\ q \in up
    BY <1>2, <2>1, QueueType DEF QueueInv
  <2> QED BY <1>2, <2>1, <2>2 DEF Queued, Caller
<1>7. AckInv'
  <2> SUFFICES ASSUME NEW t \in Server, NEW q \in Peer, q \in up'
               PROVE  /\ <<t, q>> \in ackMsg => t \in up /\ thread[t][q] \in {"ack", "goAck"}
                      /\ <<t, q>> \in ackMsg /\ thread[t][q] = "ack" => Waits(t, q)'
                      /\ thread[t][q] = "spin" => Waits(t, q)'
    BY <1>2 DEF AckInv
  <2>1. CASE q # p
    BY <1>2, <1>3, <1>4, <2>1 DEF AckInv, Waits
  <2>2. CASE q = p
    BY <1>2, <1>5, <2>2 DEF AckInv
  <2> QED BY <2>1, <2>2
<1>8. GoInv'
  BY <1>2, <1>3 DEF GoInv, Caller
<1>9. CountInv'
  BY <1>2 DEF CountInv
<1>10. DecidedInv'
  BY <1>2, <1>4, ProcessAssumption DEF DecidedInv, IsRead
<1>11. LastInv'
  <2>1. \A q \in Peer : Committing(q)' => q # p /\ Committing(q)
    BY <1>2, <1>3 DEF Committing, IsRead, Caller
  <2> QED BY <1>2, <1>4, <2>1 DEF LastInv, IsLast
<1> QED BY <1>1, <1>6, <1>7, <1>8, <1>9, <1>10, <1>11 DEF TypeInv

LEMMA InitCommit == Init => CommitInv
<1> SUFFICES ASSUME Init PROVE CommitInv
  OBVIOUS
<1>1. TypeInv
  BY InitTypeInv
<1>2. QueueInv /\ AckInv /\ GoInv /\ CountInv
  BY DEF Init, QueueInv, AckInv, GoInv, CountInv
<1>3. DecidedInv /\ LastInv
  BY DEF Init, DecidedInv, LastInv, Committing, Range
<1> QED BY <1>1, <1>2, <1>3 DEF TypeInv, CommitInv

LEMMA NextCommit == CommitInv /\ [Next]_vars => CommitInv'
<1> SUFFICES ASSUME CommitInv, [Next]_vars PROVE CommitInv'
  OBVIOUS
<1>1. ASSUME NEW h \in Handler, (\E r \in Request : Invoke(h, r)) \/ Acquire(h)
      PROVE  CommitInv'
  BY <1>1, InvokeCommit, AcquireCommit
<1>2. ASSUME NEW s \in Server, Return(s) PROVE CommitInv'
  BY <1>2, ReturnCommit
<1>3. ASSUME NEW s \in Server, NEW p \in Peer, ThreadStep(s, p) PROVE CommitInv'
  BY <1>3, ConnectCommit, ReceiveAckCommit, SendGoCommit, ClosingCommit, ServerDiesCommit
     DEF ThreadStep, ConnectFail, BrokenPipe
<1>4. ASSUME NEW p \in Peer, PeerStep(p) PROVE CommitInv'
  BY <1>4, PrepareCommit, ReceiveGoCommit, PeerEndsCommit DEF PeerStep, PeerBrokenPipe
<1>5. CASE Crash
  BY <1>5, ServerDiesCommit, PeerEndsCommit DEF Crash
<1>6. CASE UNCHANGED vars
  <2> USE <1>6 DEF vars, handlerVars, coordVars, peerVars, dataVars, CommitInv
  <2>1. TypeInv'
    BY NextTypeInv DEF TypeInv
  <2>2. QueueInv' /\ CountInv'
    BY DEF QueueInv, Queued, CountInv, Caller
  <2>3. AckInv' /\ GoInv'
    BY DEF AckInv, GoInv, Waits, Current, Caller
  <2>4. DecidedInv' /\ LastInv'
    BY DEF DecidedInv, LastInv, Committing, IsLast, Current, Caller, IsRead
  <2> QED BY <2>1, <2>2, <2>3, <2>4 DEF TypeInv
<1> QED BY <1>1, <1>2, <1>3, <1>4, <1>5, <1>6 DEF Next

LEMMA CommitInvAgrees == CommitInv => OneCommitAtATime
BY DEF CommitInv, LastInv, OneCommitAtATime, IsLast

\* The invariant the argument is carried by.
THEOREM CommitInvariant == Spec => []CommitInv
BY InitCommit, NextCommit, PTL DEF Spec

\* However many servers coordinate and whoever dies, two peers never execute
\* two different writes at the same time.
THEOREM CommitsOneAtATime == Spec => []OneCommitAtATime
BY CommitInvariant, CommitInvAgrees, PTL
=============================================================================
