--------------------------- MODULE PaxosKVProofs ---------------------------
(***************************************************************************)
(* Proofs about PaxosKV for every number of servers, acceptors, handlers,  *)
(* deaths and starts of acceptors, whatever a torn file reads as.          *)
(***************************************************************************)
EXTENDS PaxosKV, FiniteSetTheorems, TLAPS

\* The operations of keyval.c keep a table a table, and a lookup answers with
\* something that was stored or with "Invalid Key".
LEMMA StoreType ==
    ASSUME NEW st \in KV!Stores, NEW r \in Request
    PROVE  /\ Written(st, r) \in KV!Stores
           /\ KV!GET(st, r.key) \in Value \cup {Blank, InvalidKey}
<1>1. r.key \in Int /\ r.val \in Value
  BY DataAssumption
<1>2. KV!GET(st, r.key) \in Value \cup {Blank, InvalidKey}
  BY <1>1, DataAssumption DEF KV!GET, KV!Present, KV!InRange, KV!Stores, KV!Slot
<1>3. KV!PUT(st, r.key, r.val) \in KV!Stores
  BY <1>1 DEF KV!PUT, KV!Stores
<1>4. KV!DELETE(st, r.key) \in KV!Stores
  BY <1>1 DEF KV!DELETE, KV!Stores
<1> QED BY <1>2, <1>3, <1>4 DEF Written

LEMMA EmptyType == KV!EmptyStore \in KV!Stores /\ EmptyLog \in [Index -> Op \cup {""}]
BY DEF KV!EmptyStore, KV!Stores, EmptyLog

\* A call has the fields of its record type.
LEMMA CallType ==
    ASSUME NEW c \in Calls
    PROVE  /\ c.handler \in Handler /\ c.n \in 1 .. MaxCalls /\ c.rq \in Request
           /\ c.rq.op \in Op
           /\ c # None
           /\ Caller(c) \in Server
BY NoneAssumption, ProcessAssumption, DataAssumption DEF Calls, Caller

\* TypeOK is inductive together with: who holds the mutex serves a call.
TypeInv == TypeOK /\ HandlerInv

LEMMA InitType == Init => TypeInv
<1> SUFFICES ASSUME Init PROVE TypeInv
  OBVIOUS
<1> USE DEF Init
<1>1. HandlerTypes
  BY ProcessAssumption DEF HandlerTypes
<1>2. ProposerTypes
  BY NumberAssumption DEF ProposerTypes, parserVars, ThreadState
<1>3. AcceptorTypes
  <2>1. /\ conns \in [Acceptor -> Seq(Calls)] /\ log \in [Acceptor -> Seq(Calls)]
        /\ phase \in [Acceptor -> AcceptorPhase]
    BY DEF AcceptorPhase
  <2>2. promised \in [Acceptor -> 0 .. MaxId]
    BY NumberAssumption
  <2>3. store \in [Acceptor -> KV!Stores]
    BY EmptyType
  <2>4. syncLog \in [Acceptor -> [Index -> Op \cup {""}]]
    BY EmptyType
  <2> QED BY <2>1, <2>2, <2>3, <2>4 DEF AcceptorTypes
<1>4. NetTypes /\ ProcessTypes /\ HistoryTypes
  BY NumberAssumption, ProcessAssumption DEF NetTypes, ProcessTypes, HistoryTypes, Content
<1>5. HandlerInv
  BY DEF HandlerInv
<1> QED BY <1>1, <1>2, <1>3, <1>4, <1>5 DEF TypeInv, TypeOK

LEMMA CurrentType ==
    ASSUME TypeInv, NEW s \in Server, lock[s] # None
    PROVE  /\ lock[s] \in Handler /\ Home[lock[s]] = s
           /\ Current(s) \in Calls
BY DEF TypeInv, TypeOK, HandlerTypes, ProposerTypes, parserVars, HandlerInv, Current

LEMMA ServingType ==
    ASSUME TypeInv, NEW a \in Acceptor, conns[a] # <<>>
    PROVE  Serving(a) \in Calls /\ Tail(conns[a]) \in Seq(Calls)
<1>1. conns[a] \in Seq(Calls)
  BY DEF TypeInv, TypeOK, AcceptorTypes
<1> QED BY <1>1 DEF Serving

\* What threads and acceptors send is well formed.
LEMMA SendType ==
    ASSUME TypeInv, NEW s \in Server, NEW a \in Acceptor, lock[s] # None,
           NEW type \in {"prepare", "accept", "learn"}, NEW id \in 0 .. MaxId,
           Send(s, a, type, id)
    PROVE  toAcceptor' \subseteq ToAcceptor
<1>1. Message(s, a, type, id) \in ToAcceptor
  BY CurrentType DEF Message, ToAcceptor
<1> QED BY <1>1 DEF Send, TypeInv, TypeOK, NetTypes

LEMMA ReplyType ==
    ASSUME TypeInv, NEW a \in Acceptor, conns[a] # <<>>,
           NEW type \in {"promise", "NACK", "accepted"}, NEW id \in 0 .. MaxId,
           Reply(a, type, id)
    PROVE  toThread' \subseteq ToThread
<1>1. [type |-> type, call |-> Serving(a), acceptor |-> a, id |-> id] \in ToThread
  BY ServingType DEF ToThread
<1> QED BY <1>1 DEF Reply, TypeInv, TypeOK, NetTypes

\* The steps of the handlers.
LEMMA InvokeType ==
    ASSUME TypeInv, NEW h \in Handler, NEW r \in Request, Invoke(h, r)
    PROVE  TypeInv'
<1> USE DEF Invoke
<1>1. issued[h] + 1 \in 1 .. MaxCalls
  BY ProcessAssumption DEF TypeInv, TypeOK, HandlerTypes
<1>2. [handler |-> h, n |-> issued[h] + 1, rq |-> r] \in Calls
  BY <1>1 DEF Calls
<1>3. HandlerTypes'
  BY <1>1, <1>2 DEF TypeInv, TypeOK, HandlerTypes
<1>4. HandlerInv'
  BY <1>2, NoneAssumption DEF TypeInv, TypeOK, HandlerTypes, ProposerTypes, parserVars, proposerVars, HandlerInv
<1>5. /\ ProposerTypes' /\ NetTypes' /\ AcceptorTypes'
      /\ ProcessTypes' /\ HistoryTypes'
  BY DEF TypeInv, TypeOK, ProposerTypes, parserVars, NetTypes, AcceptorTypes, ProcessTypes, bufferVars, HistoryTypes,
         proposerVars, netVars, acceptorVars, processVars, history
<1> QED BY <1>3, <1>4, <1>5 DEF TypeInv, TypeOK

LEMMA AcquireType ==
    ASSUME TypeInv, NEW h \in Handler, Acquire(h)
    PROVE  TypeInv'
<1> USE DEF Acquire
<1>1. ProposerTypes'
  BY ProcessAssumption DEF TypeInv, TypeOK, ProposerTypes, parserVars, ThreadState
<1>2. HandlerInv'
  BY ProcessAssumption DEF TypeInv, TypeOK, ProposerTypes, parserVars, HandlerInv, handlerVars
<1>3. /\ HandlerTypes' /\ NetTypes' /\ AcceptorTypes'
      /\ ProcessTypes' /\ HistoryTypes'
  BY DEF TypeInv, TypeOK, HandlerTypes, NetTypes, AcceptorTypes, ProcessTypes, bufferVars, HistoryTypes,
         handlerVars, netVars, acceptorVars, processVars, history
<1> QED BY <1>1, <1>2, <1>3 DEF TypeInv, TypeOK

LEMMA ReturnType ==
    ASSUME TypeInv, NEW s \in Server, Return(s)
    PROVE  TypeInv'
<1> USE DEF Return, EndThreads, Coordinating
<1>1. HandlerTypes'
  <2>1. ReadBuffer(s) \in Content
    BY DEF ReadBuffer, Content, TypeInv, TypeOK, ProcessTypes
  <2> QED BY <2>1, CurrentType DEF TypeInv, TypeOK, HandlerTypes
<1>2. ProposerTypes'
  BY NumberAssumption DEF TypeInv, TypeOK, ProposerTypes, parserVars, ThreadState
<1>3. HandlerInv'
  BY DEF TypeInv, TypeOK, HandlerTypes, ProposerTypes, parserVars, HandlerInv
<1>4. /\ NetTypes' /\ AcceptorTypes' /\ ProcessTypes' /\ HistoryTypes'
  BY DEF TypeInv, TypeOK, NetTypes, AcceptorTypes, ProcessTypes, bufferVars, HistoryTypes,
         netVars, acceptorVars, processVars, history
<1> QED BY <1>1, <1>2, <1>3, <1>4 DEF TypeInv, TypeOK

\* The ends of processes.
LEMMA ServerDiesType ==
    ASSUME TypeInv, NEW s \in Server, ServerDies(s)
    PROVE  TypeInv'
<1> USE DEF ServerDies, EndThreads
<1>1. ProposerTypes'
  BY NumberAssumption DEF TypeInv, TypeOK, ProposerTypes, parserVars, ThreadState
<1>2. HandlerInv'
  BY DEF TypeInv, TypeOK, ProposerTypes, parserVars, HandlerInv, handlerVars
<1>3. NetTypes' /\ ProcessTypes'
  BY DEF TypeInv, TypeOK, NetTypes, ProcessTypes, bufferVars
<1>4. HandlerTypes' /\ AcceptorTypes' /\ HistoryTypes'
  BY DEF TypeInv, TypeOK, HandlerTypes, AcceptorTypes, HistoryTypes,
         handlerVars, acceptorVars, history
<1> QED BY <1>1, <1>2, <1>3, <1>4 DEF TypeInv, TypeOK

LEMMA AcceptorDiesType ==
    ASSUME TypeInv, NEW a \in Acceptor, AcceptorDies(a),
           file' \in [Disk -> 0 .. MaxId \cup {Torn}]
    PROVE  TypeInv'
<1> USE DEF AcceptorDies
<1>1. ProposerTypes'
  BY DEF TypeInv, TypeOK, ProposerTypes, parserVars
<1>2. HandlerInv'
  BY DEF TypeInv, HandlerInv, handlerVars
<1>3. NetTypes' /\ ProcessTypes'
  BY DEF TypeInv, TypeOK, NetTypes, ProcessTypes, bufferVars
<1>4. AcceptorTypes'
  <2> conns \in [Acceptor -> Seq(Calls)]
    BY DEF TypeInv, TypeOK, AcceptorTypes
  <2>1. conns' \in [Acceptor -> Seq(Calls)]
    OBVIOUS
  <2>2. phase' \in [Acceptor -> AcceptorPhase]
    BY DEF TypeInv, TypeOK, AcceptorTypes, AcceptorPhase
  <2> QED BY <2>1, <2>2 DEF TypeInv, TypeOK, AcceptorTypes
<1>5. HandlerTypes' /\ HistoryTypes'
  BY DEF TypeInv, TypeOK, HandlerTypes, HistoryTypes, handlerVars, history
<1> QED BY <1>1, <1>2, <1>3, <1>4, <1>5 DEF TypeInv, TypeOK

LEMMA RestartType ==
    ASSUME TypeInv, NEW a \in Acceptor, Restart(a)
    PROVE  TypeInv'
<1> USE DEF Restart
<1>1. AcceptorTypes'
  <2> promised \in [Acceptor -> 0 .. MaxId] /\ log \in [Acceptor -> Seq(Calls)]
    BY DEF TypeInv, TypeOK, AcceptorTypes
  <2>1. promised' \in [Acceptor -> 0 .. MaxId] /\ log' \in [Acceptor -> Seq(Calls)]
    BY NumberAssumption
  <2>2. store' \in [Acceptor -> KV!Stores]
    BY EmptyType DEF TypeInv, TypeOK, AcceptorTypes
  <2>3. syncLog' \in [Acceptor -> [Index -> Op \cup {""}]]
    BY EmptyType DEF TypeInv, TypeOK, AcceptorTypes
  <2> QED BY <2>1, <2>2, <2>3 DEF TypeInv, TypeOK, AcceptorTypes
<1>2. ProcessTypes'
  BY ProcessAssumption DEF TypeInv, TypeOK, ProcessTypes, bufferVars
<1>3. HandlerInv'
  BY DEF TypeInv, HandlerInv, handlerVars, proposerVars
<1>4. /\ HandlerTypes' /\ ProposerTypes' /\ NetTypes' /\ HistoryTypes'
  BY DEF TypeInv, TypeOK, HandlerTypes, ProposerTypes, parserVars, NetTypes, HistoryTypes,
         handlerVars, proposerVars, netVars, history
<1> QED BY <1>1, <1>2, <1>3, <1>4 DEF TypeInv, TypeOK

\* The threads that meet in get_tokens(), and what they take for a number.
LEMMA ParserType ==
    ASSUME TypeInv, NEW s \in Server, NEW a \in Acceptor, NEW others \in Meetings(s, a),
           LeaveParser(s, a, others)
    PROVE  mixed' \in [Server -> SUBSET Acceptor] /\ mixes' \in Nat
<1>1. others \subseteq Acceptor
  BY DEF Meetings, Parsing
<1>2. Cardinality(others) \in Nat
  BY <1>1, ProcessAssumption, FS_Subset, FS_CardinalityType
<1>3. mixed \in [Server -> SUBSET Acceptor] /\ mixes \in Nat
  BY DEF TypeInv, TypeOK, ProposerTypes
<1> QED BY <1>1, <1>2, <1>3 DEF LeaveParser

LEMMA NumberType ==
    ASSUME TypeInv, NEW s \in Server, NEW a \in Acceptor, NEW m \in toThread, NEW others,
           NEW id \in NumbersRead(s, a, m, others)
    PROVE  id \in 0 .. MaxId
<1>1. \A k \in toThread : k.id \in 0 .. MaxId
  BY DEF TypeInv, TypeOK, NetTypes, ToThread
<1>2. promiseId[s] \in [Acceptor -> 0 .. MaxId] /\ 0 \in 0 .. MaxId
  BY NumberAssumption DEF TypeInv, TypeOK, ProposerTypes
<1>3. Range(promiseId[s]) \subseteq 0 .. MaxId
  BY <1>2 DEF Range
<1> QED BY <1>1, <1>2, <1>3 DEF NumbersRead

\* The steps of the threads.  Those that send nothing and count nothing ...
LEMMA ThreadType ==
    ASSUME TypeInv, NEW s \in Server, NEW a \in Acceptor,
           \/ ConnectFail(s, a) \/ EndOfFile(s, a)
    PROVE  TypeInv'
<1> USE DEF ConnectFail, EndOfFile, Goto
<1>1. ProposerTypes'
  <2> thread \in [Server -> [Acceptor -> ThreadState]]
    BY DEF TypeInv, TypeOK, ProposerTypes
  <2>1. thread' \in [Server -> [Acceptor -> ThreadState]]
    BY DEF ThreadState
  <2>2. mixed' \in [Server -> SUBSET Acceptor] /\ mixes' \in Nat
    BY ParserType DEF TypeInv, TypeOK, ProposerTypes, parserVars
  <2> QED BY <2>1, <2>2 DEF TypeInv, TypeOK, ProposerTypes
<1>2. HandlerInv'
  BY DEF TypeInv, HandlerInv, handlerVars
<1>3. HandlerTypes' /\ NetTypes' /\ AcceptorTypes' /\ ProcessTypes' /\ HistoryTypes'
  BY DEF TypeInv, TypeOK, HandlerTypes, NetTypes, AcceptorTypes, ProcessTypes, bufferVars, HistoryTypes,
         handlerVars, netVars, acceptorVars, processVars, history
<1> QED BY <1>1, <1>2, <1>3 DEF TypeInv, TypeOK

LEMMA ConnectType ==
    ASSUME TypeInv, NEW s \in Server, NEW a \in Acceptor, Connect(s, a)
    PROVE  TypeInv'
<1> USE DEF Connect, Goto, At, Coordinating
<1>1. ProposerTypes'
  BY DEF TypeInv, TypeOK, ProposerTypes, parserVars, ThreadState
<1>2. HandlerInv'
  BY DEF TypeInv, HandlerInv, handlerVars
<1>3. AcceptorTypes'
  <2> conns \in [Acceptor -> Seq(Calls)]
    BY DEF TypeInv, TypeOK, AcceptorTypes
  <2>1. conns' \in [Acceptor -> Seq(Calls)]
    BY CurrentType
  <2> QED BY <2>1 DEF TypeInv, TypeOK, AcceptorTypes
<1>4. HandlerTypes' /\ NetTypes' /\ ProcessTypes' /\ HistoryTypes'
  BY DEF TypeInv, TypeOK, HandlerTypes, NetTypes, ProcessTypes, bufferVars, HistoryTypes,
         handlerVars, netVars, processVars, history
<1> QED BY <1>1, <1>2, <1>3, <1>4 DEF TypeInv, TypeOK

\* ... those that send ...
LEMMA ProposeType ==
    ASSUME TypeInv, NEW s \in Server, NEW a \in Acceptor, Propose(s, a)
    PROVE  TypeInv'
<1> USE DEF Propose, Goto, At, Coordinating
<1>1. \A id \in ProposalIds(s) : id <= MaxId => id \in 0 .. MaxId
  BY NumberAssumption, ProcessAssumption DEF TypeInv, TypeOK, ProcessTypes, bufferVars, ProposalIds
<1>2. NetTypes'
  BY <1>1, SendType DEF TypeInv, TypeOK, NetTypes
<1>3. ProposerTypes'
  <2>1. \A n \in AliveCounts : QuorumOf(n) \in Nat
    BY NumberAssumption DEF QuorumOf
  <2> QED BY <2>1 DEF TypeInv, TypeOK, ProposerTypes, parserVars, ThreadState
<1>4. HandlerInv'
  BY DEF TypeInv, HandlerInv, handlerVars
<1>5. HandlerTypes' /\ AcceptorTypes' /\ ProcessTypes' /\ HistoryTypes'
  BY DEF TypeInv, TypeOK, HandlerTypes, AcceptorTypes, ProcessTypes, bufferVars, HistoryTypes,
         handlerVars, acceptorVars, processVars, history
<1> QED BY <1>2, <1>3, <1>4, <1>5 DEF TypeInv, TypeOK

LEMMA SendAcceptType ==
    ASSUME TypeInv, NEW s \in Server, NEW a \in Acceptor, SendAccept(s, a)
    PROVE  TypeInv'
<1> USE DEF SendAccept, Goto, At, Coordinating
<1>1. promiseId[s][a] \in 0 .. MaxId
  BY DEF TypeInv, TypeOK, ProposerTypes, parserVars
<1>2. NetTypes'
  BY <1>1, SendType DEF TypeInv, TypeOK, NetTypes
<1>3. ProposerTypes'
  BY DEF TypeInv, TypeOK, ProposerTypes, parserVars, ThreadState
<1>4. HandlerInv'
  BY DEF TypeInv, HandlerInv, handlerVars
<1>5. HandlerTypes' /\ AcceptorTypes' /\ ProcessTypes' /\ HistoryTypes'
  BY DEF TypeInv, TypeOK, HandlerTypes, AcceptorTypes, ProcessTypes, bufferVars, HistoryTypes,
         handlerVars, acceptorVars, processVars, history
<1> QED BY <1>2, <1>3, <1>4, <1>5 DEF TypeInv, TypeOK

LEMMA SendLearnType ==
    ASSUME TypeInv, NEW s \in Server, NEW a \in Acceptor, SendLearn(s, a)
    PROVE  TypeInv'
<1> USE DEF SendLearn, Goto, At, Coordinating
<1>1. NetTypes'
  BY NumberAssumption, SendType DEF TypeInv, TypeOK, NetTypes
<1>2. ProposerTypes'
  BY DEF TypeInv, TypeOK, ProposerTypes, parserVars, ThreadState
<1>3. HistoryTypes'
  BY CurrentType DEF TypeInv, TypeOK, HistoryTypes
<1>4. HandlerInv'
  BY DEF TypeInv, HandlerInv, handlerVars
<1>5. HandlerTypes' /\ AcceptorTypes' /\ ProcessTypes'
  BY DEF TypeInv, TypeOK, HandlerTypes, AcceptorTypes, ProcessTypes, bufferVars,
         handlerVars, acceptorVars, processVars
<1> QED BY <1>1, <1>2, <1>3, <1>4, <1>5 DEF TypeInv, TypeOK

\* ... and those that receive.
LEMMA RetryType ==
    ASSUME TypeInv, NEW s \in Server, NEW a \in Acceptor, Retry(s, a)
    PROVE  TypeInv'
<1> USE DEF Retry, Goto, At, Coordinating
<1>1. PICK m \in Answers(s, a, "NACK"), others \in Meetings(s, a) :
          /\ \E id \in NumbersRead(s, a, m, others) :
                 id + 1 <= MaxId /\ Send(s, a, "prepare", id + 1)
          /\ toThread' = toThread \ {m}
          /\ LeaveParser(s, a, others)
  OBVIOUS
<1>2. PICK id \in NumbersRead(s, a, m, others) : id + 1 <= MaxId /\ Send(s, a, "prepare", id + 1)
  BY <1>1
<1>3. id + 1 \in 0 .. MaxId
  BY <1>2, NumberType, NumberAssumption DEF Answers
<1>4. NetTypes'
  BY <1>1, <1>2, <1>3, SendType DEF TypeInv, TypeOK, NetTypes
<1>5. ProposerTypes'
  BY <1>1, ParserType DEF TypeInv, TypeOK, ProposerTypes, parserVars, ThreadState
<1>6. HandlerInv'
  BY DEF TypeInv, HandlerInv, handlerVars
<1>7. HandlerTypes' /\ AcceptorTypes' /\ ProcessTypes' /\ HistoryTypes'
  BY DEF TypeInv, TypeOK, HandlerTypes, AcceptorTypes, ProcessTypes, bufferVars, HistoryTypes,
         handlerVars, acceptorVars, processVars, history
<1> QED BY <1>4, <1>5, <1>6, <1>7 DEF TypeInv, TypeOK

LEMMA ReceiveType ==
    ASSUME TypeInv, NEW s \in Server, NEW a \in Acceptor,
           ReceivePromise(s, a) \/ ReceiveAccepted(s, a)
    PROVE  TypeInv'
<1> USE DEF ReceivePromise, ReceiveAccepted, Goto, Answers
<1>1. \E others \in Meetings(s, a) : LeaveParser(s, a, others)
  OBVIOUS
<1>2. NetTypes'
  BY DEF TypeInv, TypeOK, NetTypes
<1>3. ProposerTypes'
  <2>1. mixed' \in [Server -> SUBSET Acceptor] /\ mixes' \in Nat
    BY <1>1, ParserType
  <2>2. CASE ReceivePromise(s, a)
    <3>1. PICK id \in 0 .. MaxId : promiseId' = [promiseId EXCEPT ![s][a] = id]
      BY <2>2, NumberType
    <3> QED BY <2>1, <2>2, <3>1 DEF TypeInv, TypeOK, ProposerTypes, ThreadState
  <2>3. CASE ReceiveAccepted(s, a)
    BY <2>1, <2>3 DEF TypeInv, TypeOK, ProposerTypes, ThreadState
  <2> QED BY <2>2, <2>3
<1>4. HandlerInv'
  BY DEF TypeInv, HandlerInv, handlerVars
<1>5. HandlerTypes' /\ AcceptorTypes' /\ ProcessTypes' /\ HistoryTypes'
  BY DEF TypeInv, TypeOK, HandlerTypes, AcceptorTypes, ProcessTypes, bufferVars, HistoryTypes,
         handlerVars, acceptorVars, processVars, history
<1> QED BY <1>2, <1>3, <1>4, <1>5 DEF TypeInv, TypeOK

\* The steps of the acceptors.
LEMMA PromiseType ==
    ASSUME TypeInv, NEW a \in Acceptor, Promise(a)
    PROVE  TypeInv'
<1> USE DEF Promise, Inbox, Enter
<1>1. \A m \in toAcceptor : m.id \in 0 .. MaxId
  BY DEF TypeInv, TypeOK, NetTypes, ToAcceptor
<1>2. NetTypes'
  BY DEF TypeInv, TypeOK, NetTypes
<1>3. AcceptorTypes'
  BY <1>1 DEF TypeInv, TypeOK, AcceptorTypes, AcceptorPhase
<1>4. ProcessTypes'
  BY DEF TypeInv, TypeOK, ProcessTypes, bufferVars, processVars
<1>5. HandlerInv'
  BY DEF TypeInv, HandlerInv, handlerVars, proposerVars
<1>6. HandlerTypes' /\ ProposerTypes'
  BY DEF TypeInv, TypeOK, HandlerTypes, ProposerTypes, parserVars,
         handlerVars, proposerVars
<1>7. HistoryTypes'
  BY DEF TypeInv, TypeOK, HistoryTypes,
         history
<1> QED BY <1>2, <1>3, <1>4, <1>5, <1>6, <1>7 DEF TypeInv, TypeOK

LEMMA StorePromiseType ==
    ASSUME TypeInv, NEW a \in Acceptor, StorePromise(a)
    PROVE  TypeInv'
<1> USE DEF StorePromise, In, Enter
<1>1. promised[a] \in 0 .. MaxId
  BY DEF TypeInv, TypeOK, AcceptorTypes
<1>2. NetTypes'
  BY <1>1, ReplyType DEF TypeInv, TypeOK, NetTypes
<1>3. AcceptorTypes'
  BY DEF TypeInv, TypeOK, AcceptorTypes, AcceptorPhase
<1>4. ProcessTypes'
  BY <1>1 DEF TypeInv, TypeOK, ProcessTypes, bufferVars, processVars
<1>5. HistoryTypes'
  BY ServingType DEF TypeInv, TypeOK, HistoryTypes
<1>6. HandlerInv'
  BY DEF TypeInv, HandlerInv, handlerVars, proposerVars
<1>7. HandlerTypes' /\ ProposerTypes'
  BY DEF TypeInv, TypeOK, HandlerTypes, ProposerTypes, parserVars,
         handlerVars, proposerVars
<1> QED BY <1>2, <1>3, <1>4, <1>5, <1>6, <1>7 DEF TypeInv, TypeOK

LEMMA RefusePrepareType ==
    ASSUME TypeInv, NEW a \in Acceptor, RefusePrepare(a)
    PROVE  TypeInv'
<1> USE DEF RefusePrepare, In, Inbox
<1>1. \A m \in toAcceptor : m.id \in 0 .. MaxId
  BY DEF TypeInv, TypeOK, NetTypes, ToAcceptor
<1>2. NetTypes'
  BY <1>1, ReplyType DEF TypeInv, TypeOK, NetTypes
<1>3. HandlerInv'
  BY DEF TypeInv, HandlerInv, handlerVars, proposerVars
<1>4. HandlerTypes' /\ ProposerTypes'
  BY DEF TypeInv, TypeOK, HandlerTypes, ProposerTypes, parserVars,
         handlerVars, proposerVars
<1>5. AcceptorTypes' /\ ProcessTypes' /\ HistoryTypes'
  BY DEF TypeInv, TypeOK, AcceptorTypes, ProcessTypes, bufferVars, HistoryTypes,
         acceptorVars, processVars, history
<1> QED BY <1>2, <1>3, <1>4, <1>5 DEF TypeInv, TypeOK

LEMMA AnswerAcceptType ==
    ASSUME TypeInv, NEW a \in Acceptor, AnswerAccept(a)
    PROVE  TypeInv'
<1> USE DEF AnswerAccept, In, Inbox, Enter
<1>1. \A m \in toAcceptor : m.id \in 0 .. MaxId /\ m.call.rq.op \in Op
  BY CallType DEF TypeInv, TypeOK, NetTypes, ToAcceptor
<1>2. NetTypes'
  BY <1>1, ReplyType DEF TypeInv, TypeOK, NetTypes
<1>3. AcceptorTypes'
  <2> /\ syncLog \in [Acceptor -> [Index -> Op \cup {""}]]
      /\ phase \in [Acceptor -> AcceptorPhase]
    BY DEF TypeInv, TypeOK, AcceptorTypes
  <2>1. syncLog' \in [Acceptor -> [Index -> Op \cup {""}]]
    <3>1. PICK m \in toAcceptor :
              \/ syncLog' = [syncLog EXCEPT ![a][m.id] = m.call.rq.op]
              \/ syncLog' = syncLog
      OBVIOUS
    <3> DEFINE w == m.call.rq.op
    <3>2. w \in Op \cup {""}
      BY <1>1
    <3> HIDE DEF w
    <3>3. CASE syncLog' = [syncLog EXCEPT ![a][m.id] = w]
      BY <3>2, <3>3
    <3> QED BY <3>1, <3>3 DEF w
  <2>2. phase' \in [Acceptor -> AcceptorPhase]
    BY DEF AcceptorPhase
  <2> QED BY <2>1, <2>2 DEF TypeInv, TypeOK, AcceptorTypes
<1>4. HistoryTypes'
  BY ServingType DEF TypeInv, TypeOK, HistoryTypes
<1>5. HandlerInv'
  BY DEF TypeInv, HandlerInv, handlerVars, proposerVars
<1>6. HandlerTypes' /\ ProposerTypes'
  BY DEF TypeInv, TypeOK, HandlerTypes, ProposerTypes, parserVars,
         handlerVars, proposerVars
<1>7. ProcessTypes'
  BY DEF TypeInv, TypeOK, ProcessTypes, bufferVars,
         processVars
<1> QED BY <1>2, <1>3, <1>4, <1>5, <1>6, <1>7 DEF TypeInv, TypeOK

LEMMA LearnType ==
    ASSUME TypeInv, NEW a \in Acceptor, LearnWrite(a) \/ LearnRead(a)
    PROVE  TypeInv'
<1> USE DEF LearnWrite, LearnRead, In, Close, Enter
<1>1. NetTypes'
  BY DEF TypeInv, TypeOK, NetTypes
<1>2. AcceptorTypes'
  <2>1. CASE LearnWrite(a)
    <3> USE <2>1
    <3>1. Serving(a) \in Calls /\ Serving(a).rq \in Request /\ Tail(conns[a]) \in Seq(Calls)
      BY ServingType, CallType
    <3>2. store' \in [Acceptor -> KV!Stores]
      BY <3>1, StoreType DEF TypeInv, TypeOK, AcceptorTypes
    <3> log \in [Acceptor -> Seq(Calls)]
      BY DEF TypeInv, TypeOK, AcceptorTypes
    <3>3. log' \in [Acceptor -> Seq(Calls)]
      BY <3>1
    <3>4. conns' \in [Acceptor -> Seq(Calls)] /\ phase' \in [Acceptor -> AcceptorPhase]
      BY <3>1 DEF TypeInv, TypeOK, AcceptorTypes, AcceptorPhase
    <3> QED BY <3>2, <3>3, <3>4 DEF TypeInv, TypeOK, AcceptorTypes
  <2>2. CASE LearnRead(a)
    BY <2>2 DEF TypeInv, TypeOK, AcceptorTypes, AcceptorPhase
  <2> QED BY <2>1, <2>2
<1>3. ProcessTypes'
  BY DEF TypeInv, TypeOK, ProcessTypes, bufferVars, processVars, Content
<1>4. HandlerInv'
  BY DEF TypeInv, HandlerInv, handlerVars, proposerVars
<1>5. HandlerTypes' /\ ProposerTypes'
  BY DEF TypeInv, TypeOK, HandlerTypes, ProposerTypes, parserVars,
         handlerVars, proposerVars
<1>6. HistoryTypes'
  BY DEF TypeInv, TypeOK, HistoryTypes,
         history
<1> QED BY <1>1, <1>2, <1>3, <1>4, <1>5, <1>6 DEF TypeInv, TypeOK

LEMMA CloseType ==
    ASSUME TypeInv, NEW a \in Acceptor, conns[a] # <<>>, Close(a),
           UNCHANGED <<promised, syncLog, store, log>>
    PROVE  AcceptorTypes'
<1>1. Tail(conns[a]) \in Seq(Calls)
  BY ServingType
<1> QED BY <1>1 DEF Close, TypeInv, TypeOK, AcceptorTypes, AcceptorPhase

LEMMA EndReadType ==
    ASSUME TypeInv, NEW a \in Acceptor, WriteBuffer(a) \/ OrphanCloses(a)
    PROVE  TypeInv'
<1> USE DEF WriteBuffer, OrphanCloses, Orphaned, In
<1>1. AcceptorTypes'
  BY CloseType
<1>2. ProcessTypes'
  <2>1. CASE WriteBuffer(a)
    <3> DEFINE val == KV!GET(store[a], Serving(a).rq.key)
    <3>1. Serving(a) \in Calls /\ Serving(a).rq \in Request /\ store[a] \in KV!Stores
      BY <2>1, ServingType, CallType DEF TypeInv, TypeOK, AcceptorTypes
    <3>2. val \in Value \cup {Blank, InvalidKey}
      BY <3>1, StoreType
    <3>3. buffer' = [of |-> Serving(a), val |-> val] /\ evals' = Append(evals, Serving(a))
      BY <2>1
    <3> HIDE DEF val
    <3>4. buffer' \in Content
      BY <3>1, <3>2, <3>3 DEF Content
    <3>5. evals' \in Seq(Calls)
      BY <3>1, <3>3 DEF TypeInv, TypeOK, ProcessTypes
    <3> QED BY <2>1, <3>4, <3>5 DEF TypeInv, TypeOK, ProcessTypes, processVars
  <2>2. CASE OrphanCloses(a)
    BY <2>2 DEF TypeInv, TypeOK, ProcessTypes, bufferVars, processVars
  <2> QED BY <2>1, <2>2
<1>3. HandlerInv'
  BY DEF TypeInv, HandlerInv, handlerVars, proposerVars
<1>4. HandlerTypes' /\ ProposerTypes'
  BY DEF TypeInv, TypeOK, HandlerTypes, ProposerTypes, parserVars,
         handlerVars, proposerVars
<1>5. NetTypes' /\ HistoryTypes'
  BY DEF TypeInv, TypeOK, NetTypes, HistoryTypes,
         netVars, history
<1> QED BY <1>1, <1>2, <1>3, <1>4, <1>5 DEF TypeInv, TypeOK

LEMMA AcceptorFailsType ==
    ASSUME TypeInv, NEW a \in Acceptor,
           \/ AcceptFaults(a) \/ OrphanDies(a)
           \/ AcceptorDies(a) /\ UNCHANGED file
    PROVE  TypeInv'
<1>1. AcceptorDies(a)
  BY DEF AcceptFaults, OrphanDies
<1>2. file' \in [Disk -> 0 .. MaxId \cup {Torn}]
  BY NumberAssumption DEF AcceptFaults, OrphanDies, TypeInv, TypeOK, ProcessTypes, bufferVars
<1> QED BY <1>1, <1>2, AcceptorDiesType
-----------------------------------------------------------------------------
LEMMA NextType == TypeInv /\ [Next]_vars => TypeInv'
<1> SUFFICES ASSUME TypeInv, [Next]_vars PROVE TypeInv'
  OBVIOUS
<1>1. ASSUME NEW h \in Handler, NEW r \in Request, Invoke(h, r) PROVE TypeInv'
  BY <1>1, InvokeType
<1>2. ASSUME NEW h \in Handler, Acquire(h) PROVE TypeInv'
  BY <1>2, AcquireType
<1>3. ASSUME NEW s \in Server, Return(s) PROVE TypeInv'
  BY <1>3, ReturnType
<1>4. ASSUME NEW s \in Server, NEW a \in Acceptor, ThreadStep(s, a) PROVE TypeInv'
  BY <1>4, ThreadType, ConnectType, ProposeType, SendAcceptType, SendLearnType, RetryType,
     ReceiveType, ServerDiesType DEF ThreadStep, EndOfFileFaults, ParseFaults, BrokenPipe
<1>5. ASSUME NEW a \in Acceptor, AcceptorStep(a) PROVE TypeInv'
  BY <1>5, PromiseType, StorePromiseType, RefusePrepareType, AnswerAcceptType, LearnType,
     EndReadType, AcceptorFailsType DEF AcceptorStep
<1>6. ASSUME NEW a \in Acceptor, Restart(a) PROVE TypeInv'
  BY <1>6, RestartType
<1>7. CASE Crash
  BY <1>7, ServerDiesType, AcceptorFailsType DEF Crash
<1>8. CASE UNCHANGED vars
  <2> USE <1>8 DEF vars
  <2>1. HandlerInv'
    BY DEF TypeInv, HandlerInv, handlerVars, proposerVars
  <2>2. HandlerTypes' /\ ProposerTypes' /\ NetTypes' /\ AcceptorTypes'
    BY DEF TypeInv, TypeOK, HandlerTypes, ProposerTypes, parserVars, NetTypes, AcceptorTypes,
           handlerVars, proposerVars, netVars, acceptorVars
  <2>3. ProcessTypes' /\ HistoryTypes'
    BY DEF TypeInv, TypeOK, ProcessTypes, bufferVars, HistoryTypes, processVars, history
  <2> QED BY <2>1, <2>2, <2>3 DEF TypeInv, TypeOK
<1> QED BY <1>1, <1>2, <1>3, <1>4, <1>5, <1>6, <1>7, <1>8 DEF Next, Work

\* Every variable keeps its type: the calls, numbers and messages that threads
\* and acceptors exchange, the tables, the files.
THEOREM TypeCorrect == Spec => []TypeOK
<1>1. Spec => []TypeInv
  BY InitType, NextType, PTL DEF Spec
<1>2. TypeInv => TypeOK
  BY DEF TypeInv
<1> QED BY <1>1, <1>2, PTL
-----------------------------------------------------------------------------
(***************************************************************************)
(* A quorum accepted what is learnt, and promised what is accepted.  Both  *)
(* histories only grow, and a quorum that was reached stays reached.       *)
(***************************************************************************)
LEMMA QuorumGrows ==
    ASSUME NEW S, NEW T, S \subseteq T, T \subseteq Acceptor, IsQuorum(S)
    PROVE  IsQuorum(T)
<1>1. IsFiniteSet(T) /\ IsFiniteSet(S)
  BY ProcessAssumption, FS_Subset
<1>2. Cardinality(S) <= Cardinality(T) /\ Cardinality(S) \in Nat /\ Cardinality(T) \in Nat
  BY <1>1, FS_Subset, FS_CardinalityType
<1> QED BY <1>2, NumberAssumption DEF IsQuorum, QuorumOf

LEMMA ForGrows ==
    ASSUME NEW c, NEW P, NEW R, P \subseteq R, IsQuorum(For(c, P))
    PROVE  IsQuorum(For(c, R))
<1>1. For(c, P) \subseteq For(c, R) /\ For(c, R) \subseteq Acceptor
  BY DEF For
<1> QED BY <1>1, QuorumGrows

\* A thread that passes a spin loop for a write has seen a quorum.
LEMMA SpinPassed ==
    ASSUME TypeInv, QuorumInv, CountInv, RecountInv, NEW s \in Server, NEW a \in Acceptor,
           lock[s] # None, ~ IsRead(Current(s))
    PROVE  /\ thread[s][a] = "spin" /\ PromisesComplete(s, a) =>
                  IsQuorum(promises[s]) /\ IsQuorum(For(Current(s), promisedBy))
           /\ thread[s][a] = "learnSpin" /\ AcceptsComplete(s, a) =>
                  IsQuorum(For(Current(s), acceptedBy))
<1>1. ASSUME NEW set, set \subseteq Acceptor, Cardinality(set) >= quorum[s][a],
             thread[s][a] \in {"spin", "learnSpin"}
      PROVE  IsQuorum(set)
  BY <1>1 DEF QuorumInv, IsQuorum
<1>2. /\ promises[s] \subseteq For(Current(s), promisedBy)
      /\ accepts[s] \subseteq For(Current(s), acceptedBy)
      /\ promises[s] \subseteq Acceptor /\ accepts[s] \subseteq Acceptor
  BY DEF CountInv, TypeInv, TypeOK, ProposerTypes, parserVars
<1>3. \A c, pairs : For(c, pairs) \subseteq Acceptor
  BY DEF For
<1>4. thread[s][a] = "spin" /\ PromisesComplete(s, a) => IsQuorum(promises[s])
  <2>1. recounts[s] \in Nat /\ Cardinality(promises[s]) \in Nat
    BY <1>2, ProcessAssumption, FS_Subset, FS_CardinalityType DEF TypeInv, TypeOK, ProposerTypes
  <2>2. recounts[s] > 0 => IsQuorum(promises[s])
    BY DEF RecountInv
  <2>3. ~ recounts[s] > 0 /\ PromisesComplete(s, a) => Cardinality(promises[s]) >= quorum[s][a]
    BY <2>1 DEF PromisesComplete
  <2> QED BY <1>1, <1>2, <2>2, <2>3
<1>5. thread[s][a] = "learnSpin" /\ AcceptsComplete(s, a) => IsQuorum(accepts[s])
  BY <1>1, <1>2 DEF AcceptsComplete
<1> QED BY <1>2, <1>3, <1>4, <1>5, QuorumGrows

\* The part of QuorumIndInv that the steps below have to keep.
QuorumParts ==
    QuorumInv /\ CountInv /\ AnswerInv /\ MessageInv /\ QuorumBeforeAccept /\ LogInv

Rest == QuorumParts /\ RecountInv

\* Counting again needs a quorum of counted threads, which only grows while
\* the request is served.
LEMMA RecountKept ==
    ASSUME TypeInv', RecountInv,
           \A s \in Server : lock'[s] # None =>
               /\ lock[s] # None /\ Current(s)' = Current(s)
               /\ promises[s] \subseteq promises'[s]
               /\ recounts'[s] = recounts[s] \/ IsRead(Current(s)) \/ IsQuorum(promises[s])
               /\ \A a \in Acceptor :
                      \/ thread'[s][a] = thread[s][a]
                         /\ (a \in promises'[s] => a \in promises[s])
                      \/ thread'[s][a] = "propose" /\ thread[s][a] = "connect"
                         /\ (a \in promises'[s] => a \in promises[s])
                      \/ thread'[s][a] = "promise" /\ thread[s][a] = "propose"
                         /\ (a \in promises'[s] => a \in promises[s])
                      \/ thread'[s][a] \in {"none", "spin", "done"}
                      \/ ~ IsRead(Current(s)) => IsQuorum(promises[s])
                         /\ thread'[s][a] \notin {"connect", "propose"}
    PROVE  RecountInv'
<1> SUFFICES ASSUME NEW s \in Server, lock'[s] # None, ~ IsRead(Current(s)'), NEW a \in Acceptor
             PROVE  /\ recounts'[s] > 0 => IsQuorum(promises'[s])
                    /\ thread'[s][a] \in {"connect", "propose"} => a \notin promises'[s]
                    /\ thread'[s][a] = "promise" /\ a \in promises'[s] => IsQuorum(promises'[s])
                    /\ thread'[s][a] \in {"accepted", "learnSpin"} => IsQuorum(promises'[s])
  BY ProcessAssumption DEF RecountInv, IsRead, IsQuorum
<1>1. lock[s] # None /\ ~ IsRead(Current(s))
  BY DEF IsRead
<1>2. IsQuorum(promises[s]) => IsQuorum(promises'[s])
  BY QuorumGrows DEF TypeInv, TypeOK, ProposerTypes
<1> QED BY <1>1, <1>2 DEF RecountInv

LEMMA InitQuorum == Init => Rest
BY DEF Init, Rest, QuorumParts, QuorumInv, CountInv, RecountInv, AnswerInv, MessageInv, QuorumBeforeAccept, LogInv

\* The steps of the handlers and the ends of processes leave the histories
\* alone and send nothing.
LEMMA InvokeQuorum ==
    ASSUME TypeInv, Rest, NEW h \in Handler, NEW r \in Request, Invoke(h, r)
    PROVE  QuorumParts'
<1> USE DEF Invoke, proposerVars, netVars, acceptorVars, history
<1>1. CountInv'
  BY DEF TypeInv, TypeOK, HandlerTypes, ProposerTypes, parserVars, HandlerInv, Rest, QuorumParts, CountInv, Current
<1>2. QuorumInv' /\ AnswerInv' /\ MessageInv' /\ QuorumBeforeAccept' /\ LogInv'
  BY DEF Rest, QuorumParts, QuorumInv, AnswerInv, MessageInv, QuorumBeforeAccept, LogInv
<1> QED BY <1>1, <1>2 DEF Rest, QuorumParts

LEMMA AcquireQuorum ==
    ASSUME TypeInv, Rest, NEW h \in Handler, Acquire(h)
    PROVE  QuorumParts'
<1> USE DEF Acquire, handlerVars, netVars, acceptorVars, history
<1>1. CountInv'
  BY ProcessAssumption DEF TypeInv, TypeOK, ProposerTypes, parserVars, Rest, QuorumParts, CountInv, Current
<1>2. QuorumInv'
  BY ProcessAssumption DEF TypeInv, TypeOK, ProposerTypes, parserVars, Rest, QuorumParts, QuorumInv
<1>3. AnswerInv' /\ MessageInv' /\ QuorumBeforeAccept' /\ LogInv'
  BY DEF Rest, QuorumParts, AnswerInv, MessageInv, QuorumBeforeAccept, LogInv
<1> QED BY <1>1, <1>2, <1>3 DEF Rest, QuorumParts

LEMMA ReturnQuorum ==
    ASSUME TypeInv, Rest, NEW s \in Server, Return(s)
    PROVE  QuorumParts'
<1> USE DEF Return, EndThreads, Coordinating, netVars, acceptorVars, history
<1>1. CountInv'
  <2> SUFFICES ASSUME NEW t \in Server, lock'[t] # None
               PROVE  /\ promises[t] \subseteq For(Current(t)', promisedBy)
                      /\ accepts[t] \subseteq For(Current(t)', acceptedBy)
    BY DEF CountInv, For
  <2>1. t # s /\ lock'[t] = lock[t]
    BY DEF TypeInv, TypeOK, ProposerTypes, parserVars
  <2>2. lock[t] # lock[s]
    BY <2>1, CurrentType
  <2>3. Current(t)' = Current(t)
    BY <2>1, <2>2, CurrentType DEF Current, TypeInv, TypeOK, HandlerTypes
  <2> QED BY <2>1, <2>3 DEF Rest, QuorumParts, CountInv
<1>2. QuorumInv'
  BY DEF TypeInv, TypeOK, ProposerTypes, parserVars, Rest, QuorumParts, QuorumInv
<1>3. AnswerInv' /\ MessageInv' /\ QuorumBeforeAccept' /\ LogInv'
  BY DEF Rest, QuorumParts, AnswerInv, MessageInv, QuorumBeforeAccept, LogInv
<1> QED BY <1>1, <1>2, <1>3 DEF Rest, QuorumParts

LEMMA ServerDiesQuorum ==
    ASSUME TypeInv, Rest, NEW s \in Server, ServerDies(s)
    PROVE  QuorumParts'
<1> USE DEF ServerDies, EndThreads, handlerVars, acceptorVars, history
<1>1. CountInv'
  BY DEF TypeInv, TypeOK, ProposerTypes, parserVars, Rest, QuorumParts, CountInv, Current
<1>2. QuorumInv'
  BY DEF TypeInv, TypeOK, ProposerTypes, parserVars, Rest, QuorumParts, QuorumInv
<1>3. AnswerInv' /\ MessageInv' /\ QuorumBeforeAccept' /\ LogInv'
  BY DEF Rest, QuorumParts, AnswerInv, MessageInv, QuorumBeforeAccept, LogInv
<1> QED BY <1>1, <1>2, <1>3 DEF Rest, QuorumParts

LEMMA AcceptorDiesQuorum ==
    ASSUME TypeInv, Rest, NEW a \in Acceptor, AcceptorDies(a)
    PROVE  QuorumParts'
<1> USE DEF AcceptorDies, handlerVars, history
<1>1. CountInv' /\ QuorumInv'
  BY DEF Rest, QuorumParts, CountInv, QuorumInv, Current
<1>2. AnswerInv' /\ MessageInv' /\ QuorumBeforeAccept' /\ LogInv'
  BY DEF Rest, QuorumParts, AnswerInv, MessageInv, QuorumBeforeAccept, LogInv
<1> QED BY <1>1, <1>2 DEF Rest, QuorumParts

LEMMA RestartQuorum ==
    ASSUME TypeInv, Rest, NEW a \in Acceptor, Restart(a)
    PROVE  QuorumParts'
<1> USE DEF Restart, handlerVars, proposerVars, netVars, history
<1>1. CountInv' /\ QuorumInv'
  BY DEF Rest, QuorumParts, CountInv, QuorumInv, Current
<1>2. LogInv'
  <2> log \in [Acceptor -> Seq(Calls)]
    BY DEF TypeInv, TypeOK, AcceptorTypes
  <2> SUFFICES ASSUME NEW b \in Acceptor, NEW i \in DOMAIN log'[b]
               PROVE  IsQuorum(For(log[b][i], acceptedBy))'
    BY DEF LogInv
  <2>1. log'[b] = log[b] /\ acceptedBy' = acceptedBy
    OBVIOUS
  <2>2. IsQuorum(For(log[b][i], acceptedBy))
    BY <2>1 DEF Rest, QuorumParts, LogInv
  <2> QED BY <2>1, <2>2 DEF For, IsQuorum
<1>3. AnswerInv' /\ MessageInv' /\ QuorumBeforeAccept'
  BY DEF Rest, QuorumParts, AnswerInv, MessageInv, QuorumBeforeAccept
<1> QED BY <1>1, <1>2, <1>3 DEF Rest, QuorumParts

\* The steps of the threads.  What a step sends is kept by MessageInv if it is
\* for the messages that are new.
LEMMA SendQuorum ==
    ASSUME MessageInv, NEW s, NEW a, NEW type, NEW id, Send(s, a, type, id),
           UNCHANGED <<promisedBy, acceptedBy>>,
           /\ type = "accept" /\ ~ IsRead(Current(s)) => IsQuorum(For(Current(s), promisedBy))
           /\ type = "learn" /\ ~ IsRead(Current(s)) => IsQuorum(For(Current(s), acceptedBy))
    PROVE  MessageInv'
<1> SUFFICES ASSUME NEW m \in toAcceptor', ~ IsRead(m.call)
             PROVE  /\ m.type = "accept" => IsQuorum(For(m.call, promisedBy))
                    /\ m.type = "learn" => IsQuorum(For(m.call, acceptedBy))
  BY DEF MessageInv, IsRead, For, IsQuorum
<1>1. CASE m \in toAcceptor
  BY <1>1 DEF MessageInv
<1>2. CASE m = Message(s, a, type, id)
  BY <1>2 DEF Message
<1> QED BY <1>1, <1>2 DEF Send

LEMMA ThreadQuorum ==
    ASSUME TypeInv, Rest, NEW s \in Server, NEW a \in Acceptor,
           Connect(s, a) \/ ConnectFail(s, a) \/ EndOfFile(s, a)
    PROVE  QuorumParts'
<1> USE DEF Connect, ConnectFail, EndOfFile, Goto, At, handlerVars, netVars, acceptorVars, history
<1>1. CountInv'
  BY DEF Rest, QuorumParts, CountInv, Current
<1>2. QuorumInv'
  <2> /\ quorum' = quorum
      /\ thread \in [Server -> [Acceptor -> ThreadState]]
    BY DEF TypeInv, TypeOK, ProposerTypes, parserVars
  <2>1. CASE thread' \in {[thread EXCEPT ![s][a] = "propose"], [thread EXCEPT ![s][a] = "done"]}
    BY <2>1 DEF Rest, QuorumParts, QuorumInv
  <2>2. CASE /\ thread[s][a] \in {"promise", "accepted"}
             /\ thread' \in {[thread EXCEPT ![s][a] = "spin"], [thread EXCEPT ![s][a] = "learnSpin"]}
    BY <2>2 DEF Rest, QuorumParts, QuorumInv
  <2> QED BY <2>1, <2>2
<1>3. AnswerInv' /\ MessageInv' /\ QuorumBeforeAccept' /\ LogInv'
  BY DEF Rest, QuorumParts, AnswerInv, MessageInv, QuorumBeforeAccept, LogInv
<1> QED BY <1>1, <1>2, <1>3 DEF Rest, QuorumParts

LEMMA ProposeQuorum ==
    ASSUME TypeInv, Rest, NEW s \in Server, NEW a \in Acceptor, Propose(s, a)
    PROVE  QuorumParts'
<1> USE DEF Propose, Goto, handlerVars, acceptorVars, history
<1>1. CountInv'
  BY DEF Rest, QuorumParts, CountInv, Current
<1>2. QuorumInv'
  BY DEF TypeInv, TypeOK, ProposerTypes, parserVars, Rest, QuorumParts, QuorumInv
<1>3. MessageInv'
  BY SendQuorum DEF Rest, QuorumParts
<1>4. AnswerInv' /\ QuorumBeforeAccept' /\ LogInv'
  BY DEF Rest, QuorumParts, AnswerInv, QuorumBeforeAccept, LogInv
<1> QED BY <1>1, <1>2, <1>3, <1>4 DEF Rest, QuorumParts

LEMMA RetryQuorum ==
    ASSUME TypeInv, Rest, NEW s \in Server, NEW a \in Acceptor, Retry(s, a)
    PROVE  QuorumParts'
<1> USE DEF Retry, At, Goto, handlerVars, acceptorVars, history
<1>1. CountInv'
  BY DEF Rest, QuorumParts, CountInv, Current
<1>2. QuorumInv'
  BY DEF TypeInv, TypeOK, ProposerTypes, parserVars, Rest, QuorumParts, QuorumInv
<1>3. MessageInv'
  BY SendQuorum DEF Rest, QuorumParts
<1>4. AnswerInv' /\ QuorumBeforeAccept' /\ LogInv'
  BY DEF Rest, QuorumParts, AnswerInv, QuorumBeforeAccept, LogInv
<1> QED BY <1>1, <1>2, <1>3, <1>4 DEF Rest, QuorumParts

\* A thread sends accept and learn after its spin loop.
LEMMA SendAcceptQuorum ==
    ASSUME TypeInv, Rest, NEW s \in Server, NEW a \in Acceptor, SendAccept(s, a)
    PROVE  QuorumParts'
<1> USE DEF SendAccept, At, Coordinating, Goto, handlerVars, acceptorVars, history
<1>1. CountInv'
  BY DEF Rest, QuorumParts, CountInv, Current
<1>2. QuorumInv'
  BY DEF TypeInv, TypeOK, ProposerTypes, parserVars, Rest, QuorumParts, QuorumInv
<1>3. MessageInv'
  BY SpinPassed, SendQuorum DEF Rest, QuorumParts
<1>4. AnswerInv' /\ QuorumBeforeAccept' /\ LogInv'
  BY DEF Rest, QuorumParts, AnswerInv, QuorumBeforeAccept, LogInv
<1> QED BY <1>1, <1>2, <1>3, <1>4 DEF Rest, QuorumParts

LEMMA SendLearnQuorum ==
    ASSUME TypeInv, Rest, NEW s \in Server, NEW a \in Acceptor, SendLearn(s, a)
    PROVE  QuorumParts'
<1> USE DEF SendLearn, At, Coordinating, Goto, handlerVars, acceptorVars
<1>1. CountInv'
  BY DEF Rest, QuorumParts, CountInv, Current
<1>2. QuorumInv'
  BY DEF TypeInv, TypeOK, ProposerTypes, parserVars, Rest, QuorumParts, QuorumInv
<1>3. MessageInv'
  BY SpinPassed, SendQuorum DEF Rest, QuorumParts
<1>4. AnswerInv' /\ QuorumBeforeAccept' /\ LogInv'
  BY DEF Rest, QuorumParts, AnswerInv, QuorumBeforeAccept, LogInv
<1> QED BY <1>1, <1>2, <1>3, <1>4 DEF Rest, QuorumParts

\* A thread counts an answer to its own call: AnswerInv makes CountInv hold.
LEMMA ReceiveQuorum ==
    ASSUME TypeInv, Rest, NEW s \in Server, NEW a \in Acceptor,
           ReceivePromise(s, a) \/ ReceiveAccepted(s, a)
    PROVE  QuorumParts'
<1> USE DEF ReceivePromise, ReceiveAccepted, At, Coordinating, Goto, handlerVars, acceptorVars, history
<1>1. CountInv'
  <2>1. \A t \in Server : Current(t)' = Current(t)
    BY DEF Current
  <2>2. CASE ReceivePromise(s, a)
    <3>1. <<Current(s), a>> \in promisedBy
      BY <2>2 DEF Answers, Rest, QuorumParts, AnswerInv
    <3> QED BY <2>1, <2>2, <3>1 DEF TypeInv, TypeOK, ProposerTypes, parserVars, Rest, QuorumParts, CountInv, For
  <2>3. CASE ReceiveAccepted(s, a)
    <3>1. <<Current(s), a>> \in acceptedBy
      BY <2>3 DEF Answers, Rest, QuorumParts, AnswerInv
    <3> QED BY <2>1, <2>3, <3>1 DEF TypeInv, TypeOK, ProposerTypes, parserVars, Rest, QuorumParts, CountInv, For
  <2> QED BY <2>2, <2>3
<1>2. QuorumInv'
  <2> /\ quorum' = quorum
      /\ thread \in [Server -> [Acceptor -> ThreadState]]
    BY DEF TypeInv, TypeOK, ProposerTypes, parserVars
  <2>1. /\ thread[s][a] \in {"promise", "accepted"}
        /\ thread' \in {[thread EXCEPT ![s][a] = "spin"], [thread EXCEPT ![s][a] = "learnSpin"]}
    OBVIOUS
  <2> QED BY <2>1 DEF Rest, QuorumParts, QuorumInv
<1>3. AnswerInv'
  BY DEF Rest, QuorumParts, AnswerInv
<1>4. MessageInv' /\ QuorumBeforeAccept' /\ LogInv'
  BY DEF Rest, QuorumParts, MessageInv, QuorumBeforeAccept, LogInv
<1> QED BY <1>1, <1>2, <1>3, <1>4 DEF Rest, QuorumParts

\* The steps of the acceptors.  When the histories grow and nothing else that
\* Rest is about changes, only the new pairs have to be looked at.
LEMMA HistoryGrows ==
    ASSUME Rest, UNCHANGED <<req, proposerVars, log>>, toAcceptor' \subseteq toAcceptor,
           promisedBy \subseteq promisedBy', acceptedBy \subseteq acceptedBy'
    PROVE  QuorumInv' /\ CountInv' /\ MessageInv' /\ LogInv'
<1> USE DEF proposerVars
<1>1. QuorumInv'
  BY DEF Rest, QuorumParts, QuorumInv
<1>2. CountInv'
  BY DEF Rest, QuorumParts, CountInv, Current, For
<1>3. \A c : /\ IsQuorum(For(c, promisedBy)) => IsQuorum(For(c, promisedBy'))
             /\ IsQuorum(For(c, acceptedBy)) => IsQuorum(For(c, acceptedBy'))
  BY ForGrows
<1>4. MessageInv'
  <2> SUFFICES ASSUME NEW m \in toAcceptor', ~ IsRead(m.call)
               PROVE  /\ m.type = "accept" => IsQuorum(For(m.call, promisedBy'))
                      /\ m.type = "learn" => IsQuorum(For(m.call, acceptedBy'))
    BY DEF MessageInv, IsRead, For, IsQuorum
  <2> QED BY <1>3 DEF Rest, QuorumParts, MessageInv
<1>5. LogInv'
  <2> SUFFICES ASSUME NEW b \in Acceptor, NEW i \in DOMAIN log[b]
               PROVE  IsQuorum(For(log[b][i], acceptedBy'))
    BY DEF LogInv, For, IsQuorum
  <2> QED BY <1>3 DEF Rest, QuorumParts, LogInv
<1> QED BY <1>1, <1>2, <1>4, <1>5

\* An answer is kept by AnswerInv if the history holds what it says.
LEMMA ReplyQuorum ==
    ASSUME AnswerInv, NEW a, NEW type, NEW id, Reply(a, type, id),
           promisedBy \subseteq promisedBy', acceptedBy \subseteq acceptedBy',
           type = "promise" => <<Serving(a), a>> \in promisedBy',
           type = "accepted" => <<Serving(a), a>> \in acceptedBy'
    PROVE  AnswerInv'
<1> SUFFICES ASSUME NEW m \in toThread'
             PROVE  /\ m.type = "promise" => <<m.call, m.acceptor>> \in promisedBy'
                    /\ m.type = "accepted" => <<m.call, m.acceptor>> \in acceptedBy'
  BY DEF AnswerInv
<1>1. CASE m \in toThread
  BY <1>1 DEF AnswerInv
<1>2. CASE m = [type |-> type, call |-> Serving(a), acceptor |-> a, id |-> id]
  BY <1>2
<1> QED BY <1>1, <1>2 DEF Reply

LEMMA AcceptorFrame ==
    ASSUME Rest, NEW a \in Acceptor,
           \/ Promise(a) \/ RefusePrepare(a) \/ LearnRead(a)
           \/ WriteBuffer(a) \/ OrphanCloses(a)
    PROVE  QuorumParts'
<1> USE DEF Promise, RefusePrepare, LearnRead, WriteBuffer, OrphanCloses,
            handlerVars, netVars, acceptorVars, history
<1>1. QuorumInv' /\ CountInv' /\ MessageInv' /\ LogInv'
  BY HistoryGrows
<1>2. AnswerInv'
  <2>1. CASE RefusePrepare(a)
    BY <2>1, ReplyQuorum DEF Rest, QuorumParts
  <2>2. CASE UNCHANGED <<toThread, promisedBy, acceptedBy>>
    BY <2>2 DEF Rest, QuorumParts, AnswerInv
  <2> QED BY <2>1, <2>2
<1>3. QuorumBeforeAccept'
  BY DEF Rest, QuorumParts, QuorumBeforeAccept
<1> QED BY <1>1, <1>2, <1>3 DEF Rest, QuorumParts

LEMMA StorePromiseQuorum ==
    ASSUME TypeInv, Rest, NEW a \in Acceptor, StorePromise(a)
    PROVE  QuorumParts'
<1> USE DEF StorePromise, handlerVars
<1>1. QuorumInv' /\ CountInv' /\ MessageInv' /\ LogInv'
  BY HistoryGrows
<1>2. AnswerInv'
  BY ReplyQuorum DEF Rest, QuorumParts
<1>3. QuorumBeforeAccept'
  <2>1. \A c : IsQuorum(For(c, promisedBy)) => IsQuorum(For(c, promisedBy'))
    BY ForGrows
  <2> SUFFICES ASSUME NEW c \in Calls, NEW b \in Acceptor, <<c, b>> \in acceptedBy, ~ IsRead(c)
               PROVE  IsQuorum(For(c, promisedBy'))
    BY DEF QuorumBeforeAccept, IsRead, For, IsQuorum
  <2> QED BY <2>1 DEF Rest, QuorumParts, QuorumBeforeAccept
<1> QED BY <1>1, <1>2, <1>3 DEF Rest, QuorumParts

\* An acceptor accepts the call of the message it read.
LEMMA AnswerAcceptQuorum ==
    ASSUME TypeInv, Rest, NEW a \in Acceptor, AnswerAccept(a)
    PROVE  QuorumParts'
<1> USE DEF AnswerAccept, handlerVars
<1>1. PICK m \in Inbox(a, "accept") :
          \/ /\ acceptedBy' = acceptedBy \cup {<<Serving(a), a>>}
             /\ Reply(a, "accepted", m.id)
          \/ /\ UNCHANGED acceptedBy
             /\ Reply(a, "NACK", m.id)
  OBVIOUS
<1>2. m \in toAcceptor /\ m.call = Serving(a) /\ m.type = "accept"
  BY DEF Inbox
<1>3. QuorumInv' /\ CountInv' /\ MessageInv' /\ LogInv'
  BY <1>1, HistoryGrows
<1>4. AnswerInv'
  BY <1>1, ReplyQuorum DEF Rest, QuorumParts
<1>5. QuorumBeforeAccept'
  <2> SUFFICES ASSUME NEW c \in Calls, NEW b \in Acceptor, <<c, b>> \in acceptedBy', ~ IsRead(c)
               PROVE  IsQuorum(For(c, promisedBy))
    BY DEF QuorumBeforeAccept, IsRead, For, IsQuorum
  <2>1. CASE <<c, b>> \in acceptedBy
    BY <2>1 DEF Rest, QuorumParts, QuorumBeforeAccept
  <2>2. CASE c = Serving(a)
    BY <2>2, <1>2 DEF Rest, QuorumParts, MessageInv
  <2> QED BY <1>1, <2>1, <2>2
<1> QED BY <1>3, <1>4, <1>5 DEF Rest, QuorumParts

\* A table that grows by an accepted call is a table of accepted calls.
LEMMA LogGrows ==
    ASSUME LogInv, log \in [Acceptor -> Seq(Calls)], acceptedBy' = acceptedBy,
           NEW a \in Acceptor, NEW c \in Calls, IsQuorum(For(c, acceptedBy)),
           log' = [log EXCEPT ![a] = Append(log[a], c)]
    PROVE  LogInv'
<1> SUFFICES ASSUME NEW b \in Acceptor, NEW i \in DOMAIN log'[b]
             PROVE  IsQuorum(For(log[b][i], acceptedBy))'
  BY DEF LogInv
<1>1. CASE b # a
  <2>1. log'[b] = log[b]
    BY <1>1
  <2>2. IsQuorum(For(log[b][i], acceptedBy))
    BY <2>1 DEF LogInv
  <2> QED BY <2>1, <2>2 DEF For, IsQuorum
<1>2. CASE b = a
  <2>1. log'[b] = Append(log[b], c) /\ log[b] \in Seq(Calls)
    BY <1>2
  <2>2. (i \in DOMAIN log[b] /\ log'[b][i] = log[b][i]) \/ log'[b][i] = c
    BY <2>1
  <2>3. IsQuorum(For(log'[b][i], acceptedBy))
    BY <2>2 DEF LogInv
  <2> QED BY <2>3 DEF For, IsQuorum
<1> QED BY <1>1, <1>2

\* An acceptor learns the call of the message it read.
LEMMA LearnWriteQuorum ==
    ASSUME TypeInv, Rest, NEW a \in Acceptor, LearnWrite(a)
    PROVE  QuorumParts'
<1> USE DEF LearnWrite, handlerVars, proposerVars, history
<1>1. PICK m \in Inbox(a, "learn") : toAcceptor' = toAcceptor \ {m}
  OBVIOUS
<1>2. IsQuorum(For(Serving(a), acceptedBy))
  BY DEF Inbox, Rest, QuorumParts, MessageInv
<1>3. CountInv' /\ QuorumInv'
  BY DEF Rest, QuorumParts, CountInv, QuorumInv, Current
<1>4. AnswerInv' /\ QuorumBeforeAccept'
  BY DEF Rest, QuorumParts, AnswerInv, QuorumBeforeAccept
<1>5. MessageInv'
  BY <1>1 DEF Rest, QuorumParts, MessageInv
<1>6. LogInv'
  <2>1. log \in [Acceptor -> Seq(Calls)] /\ Serving(a) \in Calls
    BY ServingType DEF In, TypeInv, TypeOK, AcceptorTypes
  <2>2. LogInv /\ log' = [log EXCEPT ![a] = Append(log[a], Serving(a))] /\ acceptedBy' = acceptedBy
    BY DEF Rest, QuorumParts
  <2> QED BY <1>2, <2>1, <2>2, LogGrows
<1> QED BY <1>3, <1>4, <1>5, <1>6 DEF Rest, QuorumParts
-----------------------------------------------------------------------------
\* A thread that goes on after "promise" has seen what RecountInv asks for.
LEMMA RecountThread ==
    ASSUME TypeInv, TypeInv', Rest, NEW s \in Server, NEW b \in Acceptor, ThreadStep(s, b),
           lock'[s] # None
    PROVE  RecountInv'
<1> USE DEF handlerVars, proposerVars, parserVars
<1>1. CASE EndOfFileFaults(s, b) \/ ParseFaults(s, b) \/ BrokenPipe(s, b)
  BY <1>1 DEF EndOfFileFaults, ParseFaults, BrokenPipe, ServerDies, TypeInv, TypeOK, ProposerTypes
<1>2. CASE ~ (EndOfFileFaults(s, b) \/ ParseFaults(s, b) \/ BrokenPipe(s, b))
  <2>1. /\ lock' = lock /\ req' = req /\ lock[s] # None
        /\ promises' = promises \/ ReceivePromise(s, b)
        /\ recounts' = recounts \/ ReceivePromise(s, b)
    BY <1>2 DEF ThreadStep, Connect, ConnectFail, Propose, ReceivePromise, Retry, SendAccept,
                ReceiveAccepted, SendLearn, EndOfFile, NoAnswer, At, Coordinating
  <2>2. \A t \in Server : Current(t)' = Current(t)
    BY <2>1 DEF Current
  <2>3. /\ \A t \in Server : t # s => thread'[t] = thread[t]
        /\ \A a \in Acceptor : a # b => thread'[s][a] = thread[s][a]
    <3>1. \E state : Goto(s, b, state)
      BY <1>2 DEF ThreadStep, Connect, ConnectFail, Propose, ReceivePromise, Retry, SendAccept,
                  ReceiveAccepted, SendLearn, EndOfFile
    <3> QED BY <3>1 DEF Goto, TypeInv, TypeOK, ProposerTypes
  <2>4. \/ thread'[s][b] \in {"spin", "done"}
        \/ thread'[s][b] = "propose" /\ thread[s][b] = "connect"
        \/ thread'[s][b] = "promise" /\ thread[s][b] = "propose"
        \/ thread'[s][b] = "promise" /\ thread[s][b] = "promise"
        \/ thread'[s][b] = "promise" /\ thread[s][b] = "accepted"
        \/ thread'[s][b] = "learnSpin" /\ thread[s][b] = "accepted"
        \/ thread'[s][b] = "accepted" /\ thread[s][b] = "spin" /\ PromisesComplete(s, b)
    BY <1>2 DEF ThreadStep, Connect, ConnectFail, Propose, ReceivePromise, Retry, SendAccept,
                ReceiveAccepted, SendLearn, EndOfFile, At, Goto, TypeInv, TypeOK, ProposerTypes
  <2>5. ~ IsRead(Current(s)) =>
            /\ thread[s][b] = "spin" /\ PromisesComplete(s, b) => IsQuorum(promises[s])
            /\ thread[s][b] = "accepted" => IsQuorum(promises[s])
    BY <2>1, SpinPassed DEF Rest, QuorumParts, RecountInv
  <2>6. CASE ~ ReceivePromise(s, b)
    BY <2>1, <2>2, <2>3, <2>4, <2>5, <2>6, RecountKept DEF Rest
  <2>7. CASE ReceivePromise(s, b)
    <3>1. /\ thread[s][b] = "promise" /\ thread'[s][b] = "spin"
          /\ promises'[s] = promises[s] \cup {b}
          /\ recounts'[s] = recounts[s] \/ b \in promises[s]
          /\ \A t \in Server : t # s => promises'[t] = promises[t] /\ recounts'[t] = recounts[t]
      BY <2>7 DEF ReceivePromise, At, Goto, TypeInv, TypeOK, ProposerTypes
    <3>2. ~ IsRead(Current(s)) /\ b \in promises[s] => IsQuorum(promises[s])
      BY <2>1, <3>1 DEF Rest, RecountInv
    <3> QED BY <2>1, <2>2, <2>3, <3>1, <3>2, RecountKept DEF Rest
  <2> QED BY <2>6, <2>7
<1> QED BY <1>1, <1>2

LEMMA NextRecount ==
    ASSUME TypeInv, TypeInv', Rest, [Next]_vars
    PROVE  RecountInv'
<1> USE DEF handlerVars, proposerVars, parserVars
<1>1. ASSUME NEW h \in Handler, NEW r \in Request, Invoke(h, r) PROVE RecountInv'
  <2>1. \A s \in Server : lock[s] # None => Current(s)' = Current(s)
    BY <1>1 DEF Invoke, Current, TypeInv, TypeOK, HandlerInv, HandlerTypes, ProposerTypes
  <2> QED BY <1>1, <2>1, RecountKept DEF Invoke, Rest
<1>2. ASSUME NEW h \in Handler, Acquire(h) PROVE RecountInv'
  <2>1. /\ \A s \in Server : s # Home[h] =>
              /\ lock'[s] = lock[s] /\ thread'[s] = thread[s]
              /\ promises'[s] = promises[s] /\ recounts'[s] = recounts[s]
        /\ promises'[Home[h]] = {} /\ recounts'[Home[h]] = 0 /\ req' = req
        /\ \A a \in Acceptor : thread'[Home[h]][a] \in {"none", "connect"}
    BY <1>2, ProcessAssumption DEF Acquire, TypeInv, TypeOK, ProposerTypes
  <2> QED BY <2>1 DEF Rest, RecountInv, Current, IsRead, IsQuorum
<1>3. ASSUME NEW s \in Server, Return(s) \/ ServerDies(s) PROVE RecountInv'
  <2>1. /\ lock'[s] = None
        /\ \A t \in Server : t # s =>
              /\ lock'[t] = lock[t] /\ thread'[t] = thread[t]
              /\ promises'[t] = promises[t] /\ recounts'[t] = recounts[t]
    BY <1>3 DEF Return, ServerDies, EndThreads, TypeInv, TypeOK, ProposerTypes
  <2>2. \A t \in Server : t # s /\ lock[t] # None => Current(t)' = Current(t)
    BY <1>3, <2>1 DEF Return, ServerDies, Coordinating, Current, TypeInv, TypeOK, HandlerInv,
                      HandlerTypes, ProposerTypes
  <2> QED BY <2>1, <2>2, RecountKept DEF Rest
<1>4. ASSUME NEW s \in Server, NEW b \in Acceptor, ThreadStep(s, b) PROVE RecountInv'
  <2>1. CASE lock'[s] # None
    BY <1>4, <2>1, RecountThread
  <2>2. CASE lock'[s] = None
    <3>1. ServerDies(s)
      BY <1>4, <2>2 DEF ThreadStep, EndOfFileFaults, ParseFaults, BrokenPipe, Connect, ConnectFail,
         Propose, ReceivePromise, Retry, SendAccept, ReceiveAccepted, SendLearn, EndOfFile,
         NoAnswer, At, Coordinating
    <3> QED BY <3>1, <1>3
  <2> QED BY <2>1, <2>2
<1>5. CASE UNCHANGED <<lock, req, promises, recounts, thread>>
  BY <1>5, RecountKept DEF Rest, Current
<1>6. CASE \E b \in Acceptor : AcceptorStep(b) \/ Restart(b) \/ AcceptorDies(b)
  BY <1>5, <1>6 DEF AcceptorStep, Promise, StorePromise, RefusePrepare, AnswerAccept, AcceptFaults,
         LearnWrite, LearnRead, WriteBuffer, OrphanDies, OrphanCloses, AcceptorDies, Restart
<1>7. CASE UNCHANGED vars
  BY <1>5, <1>7 DEF vars
<1> QED BY <1>1, <1>2, <1>3, <1>4, <1>6, <1>7 DEF Next, Work, Crash

LEMMA NextQuorum == TypeInv /\ Rest /\ [Next]_vars => Rest'
<1> SUFFICES ASSUME TypeInv, Rest, [Next]_vars PROVE QuorumParts'
  BY NextType, NextRecount DEF Rest
<1>1. ASSUME NEW h \in Handler, NEW r \in Request, Invoke(h, r) PROVE QuorumParts'
  BY <1>1, InvokeQuorum
<1>2. ASSUME NEW h \in Handler, Acquire(h) PROVE QuorumParts'
  BY <1>2, AcquireQuorum
<1>3. ASSUME NEW s \in Server, Return(s) PROVE QuorumParts'
  BY <1>3, ReturnQuorum
<1>4. ASSUME NEW s \in Server, NEW a \in Acceptor, ThreadStep(s, a) PROVE QuorumParts'
  BY <1>4, ThreadQuorum, ProposeQuorum, RetryQuorum, SendAcceptQuorum, SendLearnQuorum,
     ReceiveQuorum, ServerDiesQuorum DEF ThreadStep, EndOfFileFaults, ParseFaults, BrokenPipe
<1>5. ASSUME NEW a \in Acceptor, AcceptorStep(a) PROVE QuorumParts'
  BY <1>5, AcceptorFrame, StorePromiseQuorum, AnswerAcceptQuorum, LearnWriteQuorum,
     AcceptorDiesQuorum DEF AcceptorStep, AcceptFaults, OrphanDies
<1>6. ASSUME NEW a \in Acceptor, Restart(a) PROVE QuorumParts'
  BY <1>6, RestartQuorum
<1>7. CASE Crash
  BY <1>7, ServerDiesQuorum, AcceptorDiesQuorum DEF Crash
<1>8. CASE UNCHANGED vars
  <2> USE <1>8 DEF vars, handlerVars, proposerVars, netVars, acceptorVars, history
  <2>1. QuorumInv' /\ CountInv' /\ MessageInv' /\ LogInv'
    BY HistoryGrows
  <2>2. AnswerInv' /\ QuorumBeforeAccept'
    BY DEF Rest, QuorumParts, AnswerInv, QuorumBeforeAccept
  <2> QED BY <2>1, <2>2 DEF QuorumParts
<1> QED BY <1>1, <1>2, <1>3, <1>4, <1>5, <1>6, <1>7, <1>8 DEF Next, Work

\* The counters of a server, the answers under way, the messages an acceptor
\* has not read and the writes it learnt all agree with what was promised and
\* accepted: the inductive invariant behind the next two theorems.
THEOREM QuorumInvariant == Spec => []QuorumIndInv
<1>1. Init => TypeInv /\ Rest
  BY InitType, InitQuorum
<1>2. TypeInv /\ Rest /\ [Next]_vars => TypeInv' /\ Rest'
  BY NextType, NextQuorum
<1>3. TypeInv /\ Rest => QuorumIndInv
  BY DEF TypeInv, Rest, QuorumParts, QuorumIndInv
<1> QED BY <1>1, <1>2, <1>3, PTL DEF Spec

\* A write is accepted only after a quorum promised it, for any number of
\* servers and acceptors, deaths and restarts.
THEOREM QuorumPromises == Spec => []QuorumBeforeAccept
<1>1. QuorumIndInv => QuorumBeforeAccept
  BY DEF QuorumIndInv
<1> QED BY <1>1, QuorumInvariant, PTL

\* A write is learnt, or its learn is under way, only after a quorum accepted
\* it.
THEOREM LearntByQuorum == Spec => []LearntIsAccepted
<1>1. QuorumIndInv => LearntIsAccepted
  BY DEF QuorumIndInv, LearntIsAccepted, LearnSent, LogInv, MessageInv, Range
<1> QED BY <1>1, QuorumInvariant, PTL
-----------------------------------------------------------------------------
(***************************************************************************)
(* run() answers a write TRUE although threads may have ended early: one   *)
(* that could connect did not end before it saw a quorum accept.           *)
(***************************************************************************)
\* The threads of a write were started, and the one for a, if it is done, saw
\* a quorum in its last loop.
PassedBy(a) ==
    \A s \in Server : lock[s] # None /\ ~ IsRead(Current(s)) =>
        /\ thread[s][a] # "none"
        /\ thread[s][a] = "done" => IsQuorum(For(Current(s), acceptedBy))

AnsweredInv(a) == PassedBy(a) /\ AnsweredIsAccepted

LEMMA InitAnswered ==
    ASSUME NEW a \in Acceptor, Init
    PROVE  AnsweredInv(a)
BY DEF Init, AnsweredInv, PassedBy, AnsweredIsAccepted

\* A thread ends only when it saw a quorum, or its call is a read.
MayEnd(s, a) ==
    thread[s][a] = "done" \/ IsRead(Current(s)) \/ IsQuorum(For(Current(s), acceptedBy))

LEMMA PassedKept ==
    ASSUME NEW a \in Acceptor, AnsweredInv(a),
           acceptedBy \subseteq acceptedBy', answered' = answered,
           \A s \in Server : lock'[s] # None =>
               /\ lock[s] # None /\ Current(s)' = Current(s)
               /\ thread[s][a] # "none" => thread'[s][a] # "none"
               /\ thread'[s][a] = "done" => MayEnd(s, a)
    PROVE  AnsweredInv(a)'
<1>1. \A c : IsQuorum(For(c, acceptedBy)) => IsQuorum(For(c, acceptedBy'))
  BY ForGrows
<1>2. AnsweredIsAccepted'
  <2> SUFFICES ASSUME NEW c \in answered PROVE IsQuorum(For(c, acceptedBy'))
    BY DEF AnsweredIsAccepted, For, IsQuorum
  <2> QED BY <1>1 DEF AnsweredInv, AnsweredIsAccepted
<1>3. PassedBy(a)'
  <2> SUFFICES ASSUME NEW s \in Server, lock'[s] # None, ~ IsRead(Current(s)')
               PROVE  /\ thread'[s][a] # "none"
                      /\ thread'[s][a] = "done" => IsQuorum(For(Current(s)', acceptedBy'))
    BY DEF PassedBy, IsRead, For, IsQuorum
  <2> QED BY <1>1 DEF AnsweredInv, PassedBy, MayEnd, IsRead
<1> QED BY <1>2, <1>3 DEF AnsweredInv

\* The steps of the handlers.
LEMMA HandlerAnswered ==
    ASSUME NEW a \in Acceptor, TypeInv, AnsweredInv(a),
           \/ \E h \in Handler, r \in Request : Invoke(h, r)
           \/ \E h \in Handler : Acquire(h)
           \/ \E s \in Server : Return(s) \/ ServerDies(s)
    PROVE  AnsweredInv(a)'
<1> USE DEF proposerVars, handlerVars, history
<1>1. ASSUME NEW h \in Handler, NEW r \in Request, Invoke(h, r) PROVE AnsweredInv(a)'
  <2>1. \A s \in Server : lock[s] # None => Current(s)' = Current(s)
    BY <1>1 DEF Invoke, Current, TypeInv, TypeOK, HandlerInv, HandlerTypes, ProposerTypes, parserVars
  <2> QED BY <1>1, <2>1, PassedKept DEF Invoke, MayEnd
<1>2. ASSUME NEW h \in Handler, Acquire(h) PROVE AnsweredInv(a)'
  <2>1. /\ \A s \in Server : s # Home[h] => lock'[s] = lock[s] /\ thread'[s] = thread[s]
        /\ lock'[Home[h]] = h /\ req' = req /\ acceptedBy' = acceptedBy /\ answered' = answered
        /\ ~ IsRead(req[h]) => thread'[Home[h]][a] = "connect"
    BY <1>2, ProcessAssumption DEF Acquire, TypeInv, TypeOK, ProposerTypes, parserVars
  <2> QED BY <2>1 DEF AnsweredInv, PassedBy, AnsweredIsAccepted, Current, For, IsQuorum, IsRead
<1>3. ASSUME NEW s \in Server, Return(s) PROVE AnsweredInv(a)'
  <2>1. ~ IsRead(Current(s)) => IsQuorum(For(Current(s), acceptedBy))
    BY <1>3 DEF Return, Coordinating, Joined, AnsweredInv, PassedBy
  <2>2. /\ \A t \in Server : t # s => lock'[t] = lock[t] /\ thread'[t] = thread[t]
        /\ lock'[s] = None
    BY <1>3 DEF Return, EndThreads, TypeInv, TypeOK, ProposerTypes, parserVars
  <2>5. ASSUME NEW t \in Server, t # s, lock[t] # None PROVE Current(t)' = Current(t)
    <3>1. lock[t] # lock[s] /\ lock'[t] = lock[t]
      BY <1>3, <2>2, <2>5 DEF Return, Coordinating, TypeInv, HandlerInv
    <3> QED BY <1>3, <3>1 DEF Return, Current, TypeInv, TypeOK, HandlerTypes
  <2>3. PassedBy(a)'
    BY <1>3, <2>2, <2>5 DEF Return, AnsweredInv, PassedBy, For, IsQuorum, IsRead
  <2>4. AnsweredIsAccepted'
    BY <1>3, <2>1 DEF Return, AnsweredInv, AnsweredIsAccepted, For, IsQuorum
  <2> QED BY <2>3, <2>4 DEF AnsweredInv
<1>4. ASSUME NEW s \in Server, ServerDies(s) PROVE AnsweredInv(a)'
  <2>1. \A t \in Server : lock'[t] # None =>
            lock'[t] = lock[t] /\ thread'[t] = thread[t] /\ Current(t)' = Current(t)
    BY <1>4 DEF ServerDies, EndThreads, Current, TypeInv, TypeOK, ProposerTypes, parserVars
  <2> QED BY <1>4, <2>1, PassedKept DEF ServerDies, MayEnd
<1> QED BY <1>1, <1>2, <1>3, <1>4

\* The steps of the threads.  An acceptor that runs does not refuse to connect.
LEMMA ThreadAnswered ==
    ASSUME NEW a \in Acceptor, a \in up, TypeInv, Rest, AnsweredInv(a),
           NEW s \in Server, NEW b \in Acceptor, ThreadStep(s, b)
    PROVE  AnsweredInv(a)'
<1> USE DEF proposerVars, handlerVars, acceptorVars, history
<1>1. CASE EndOfFileFaults(s, b) \/ ParseFaults(s, b) \/ BrokenPipe(s, b)
  BY <1>1, HandlerAnswered DEF EndOfFileFaults, ParseFaults, BrokenPipe
<1>2. CASE ~ (EndOfFileFaults(s, b) \/ ParseFaults(s, b) \/ BrokenPipe(s, b))
  <2>1. \E state \in ThreadState \ {"none"} :
            /\ Goto(s, b, state)
            /\ state = "done" => (thread[s][b] = "learnSpin" /\ AcceptsComplete(s, b)) \/ b # a
    <3>1. CASE ConnectFail(s, b)
      BY <3>1 DEF ConnectFail, ThreadState
    <3>2. CASE SendLearn(s, b)
      BY <3>2 DEF SendLearn, At, ThreadState
    <3>3. CASE Connect(s, b) \/ Propose(s, b) \/ ReceivePromise(s, b) \/ Retry(s, b)
      <4>1. Goto(s, b, "propose") \/ Goto(s, b, "promise") \/ Goto(s, b, "spin")
        BY <3>3 DEF Connect, Propose, ReceivePromise, Retry
      <4> QED BY <4>1 DEF ThreadState
    <3>4. CASE SendAccept(s, b) \/ ReceiveAccepted(s, b) \/ EndOfFile(s, b)
      <4>1. Goto(s, b, "accepted") \/ Goto(s, b, "learnSpin") \/ Goto(s, b, "spin")
        BY <3>4 DEF SendAccept, ReceiveAccepted, EndOfFile
      <4> QED BY <4>1 DEF ThreadState
    <3> QED BY <1>2, <3>1, <3>2, <3>3, <3>4 DEF ThreadStep
  <2>2. lock[s] # None /\ lock' = lock /\ req' = req /\ acceptedBy' = acceptedBy /\ answered' = answered
    BY <1>2 DEF ThreadStep, Connect, ConnectFail, Propose, ReceivePromise, Retry, SendAccept,
                ReceiveAccepted, SendLearn, EndOfFile, NoAnswer, At, Coordinating
  <2>3. \A t \in Server : Current(t)' = Current(t)
    BY <2>2 DEF Current
  <2>4. ASSUME NEW t \in Server, lock[t] # None
        PROVE  /\ thread[t][a] # "none" => thread'[t][a] # "none"
               /\ thread'[t][a] = "done" => MayEnd(t, a)
    <3>1. CASE t = s /\ b = a
      <4>1. thread[s][a] = "learnSpin" /\ AcceptsComplete(s, a) => MayEnd(s, a)
        BY <2>2, SpinPassed DEF Rest, QuorumParts, MayEnd
      <4>2. \E state \in ThreadState \ {"none"} : thread'[s][a] = state
        BY <2>1, <3>1 DEF Goto, TypeInv, TypeOK, ProposerTypes, parserVars
      <4>3. thread'[s][a] = "done" => thread[s][a] = "learnSpin" /\ AcceptsComplete(s, a)
        BY <2>1, <3>1 DEF Goto, TypeInv, TypeOK, ProposerTypes, parserVars
      <4> QED BY <3>1, <4>1, <4>2, <4>3
    <3>2. CASE ~ (t = s /\ b = a)
      <4>1. thread'[t][a] = thread[t][a]
        BY <2>1, <3>2 DEF Goto, TypeInv, TypeOK, ProposerTypes, parserVars
      <4> QED BY <4>1 DEF MayEnd
    <3> QED BY <3>1, <3>2
  <2> QED BY <2>2, <2>3, <2>4, PassedKept
<1> QED BY <1>1, <1>2

\* No step of an acceptor, nor its end or start, changes what a server waits for.
LEMMA AcceptorAnswered ==
    ASSUME NEW a \in Acceptor, AnsweredInv(a),
           UNCHANGED <<lock, req, thread, answered>>, acceptedBy \subseteq acceptedBy'
    PROVE  AnsweredInv(a)'
BY PassedKept DEF Current, MayEnd

LEMMA NextAnswered ==
    ASSUME NEW a \in Acceptor, a \in up, TypeInv, Rest, AnsweredInv(a), [Next]_vars
    PROVE  AnsweredInv(a)'
<1> USE DEF proposerVars, handlerVars, acceptorVars, processVars, history
<1>1. CASE \E b \in Acceptor : AcceptorStep(b) \/ Restart(b) \/ AcceptorDies(b)
  <2>1. UNCHANGED <<lock, req, thread, answered>> /\ acceptedBy \subseteq acceptedBy'
    BY <1>1 DEF AcceptorStep, Promise, StorePromise, RefusePrepare, AnswerAccept, AcceptFaults,
                LearnWrite, LearnRead, WriteBuffer, OrphanDies, OrphanCloses, AcceptorDies, Restart
  <2> QED BY <2>1, AcceptorAnswered
<1>2. CASE UNCHANGED vars
  BY <1>2, AcceptorAnswered DEF vars
<1> QED BY <1>1, <1>2, HandlerAnswered, ThreadAnswered DEF Next, Work, Crash

LEMMA TypeRest == Spec => [](TypeInv /\ Rest)
BY InitType, InitQuorum, NextType, NextQuorum, PTL DEF Spec

\* Until an acceptor is started again, and while some acceptor runs, a write
\* that was answered TRUE was accepted by a quorum: had all the threads failed
\* to connect, no acceptor would run.
THEOREM AnswersAreAccepted ==
    Spec => [](restarts = 0 /\ up \cap Acceptor # {} => AnsweredIsAccepted)
<1> DEFINE Inv == \A a \in Acceptor : restarts = 0 /\ a \in up => AnsweredInv(a)
<1>1. Init => Inv
  BY InitAnswered
<1>2. TypeInv /\ Rest /\ Inv /\ [Next]_vars => Inv'
  <2> SUFFICES ASSUME TypeInv, Rest, Inv, [Next]_vars,
                      NEW a \in Acceptor, restarts' = 0, a \in up'
               PROVE  AnsweredInv(a)'
    BY DEF AnsweredInv, PassedBy, AnsweredIsAccepted, For, IsQuorum, Current, IsRead
  <2>1. a \in up /\ restarts = 0
    <3> USE DEF processVars
    <3>1. CASE \E b \in Acceptor : Restart(b)
      BY <3>1 DEF Restart, TypeInv, TypeOK, ProcessTypes, bufferVars
    <3>2. ASSUME NEW s \in Server, NEW b \in Acceptor, ThreadStep(s, b) PROVE a \in up /\ restarts = 0
      BY <3>2 DEF ThreadStep, Connect, ConnectFail, Propose, ReceivePromise, Retry, SendAccept,
                  ReceiveAccepted, SendLearn, EndOfFile, EndOfFileFaults, ParseFaults,
                  BrokenPipe, ServerDies
    <3>3. ASSUME NEW b \in Acceptor, AcceptorStep(b) PROVE a \in up /\ restarts = 0
      BY <3>3 DEF AcceptorStep, Promise, StorePromise, RefusePrepare, AnswerAccept, AcceptFaults,
                  LearnWrite, LearnRead, WriteBuffer, OrphanDies, OrphanCloses, AcceptorDies
    <3>4. CASE (\E h \in Handler, r \in Request : Invoke(h, r)) \/ (\E h \in Handler : Acquire(h))
      BY <3>4 DEF Invoke, Acquire
    <3>5. CASE \E s \in Server : Return(s)
      BY <3>5 DEF Return
    <3>6. CASE Crash \/ UNCHANGED vars
      BY <3>6 DEF Crash, ServerDies, AcceptorDies, vars
    <3> QED BY <3>1, <3>2, <3>3, <3>4, <3>5, <3>6 DEF Next, Work
  <2> QED BY <2>1, NextAnswered
<1>3. Inv => (restarts = 0 /\ up \cap Acceptor # {} => AnsweredIsAccepted)
  BY DEF AnsweredInv
<1> QED BY <1>1, <1>2, <1>3, TypeRest, PTL DEF Spec

\* As long as one acceptor does not die, whatever the others do, started again
\* or not, a write that was answered TRUE was accepted by a quorum.
THEOREM AnswersAreAcceptedWhile ==
    ASSUME NEW a \in Acceptor
    PROVE  Spec /\ [](a \in up) => []AnsweredIsAccepted
<1>1. Init => AnsweredInv(a)
  BY InitAnswered
<1>2. a \in up /\ TypeInv /\ Rest /\ AnsweredInv(a) /\ [Next]_vars => AnsweredInv(a)'
  BY NextAnswered
<1>3. AnsweredInv(a) => AnsweredIsAccepted
  BY DEF AnsweredInv
<1> QED BY <1>1, <1>2, <1>3, TypeRest, PTL DEF Spec
=============================================================================
