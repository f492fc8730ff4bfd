------------------------- MODULE PaxosKVOrderProofs -------------------------
(***************************************************************************)
(* What follows from where the two ends of a connection of PaxosKV stand:  *)
(* an answered write is on its way to every acceptor that was not started  *)
(* again and a GET sees it, one server makes a replicated log, and with    *)
(* enough acceptors nobody waits for ever.                                 *)
(***************************************************************************)
EXTENDS PaxosKVProofs

\* The thread of c's server for acceptor a works for c.
Working(c) == lock[Caller(c)] = c.handler /\ req[c.handler] = c
State(c, a) == thread[Caller(c)][a]

\* Calls are numbered: one that was answered, or has a connection, is not given
\* to a handler again.
CallInv ==
    /\ \A h \in Handler : req[h] # None => req[h].handler = h /\ req[h].n <= issued[h]
    /\ \A h \in Handler : before[h] \subseteq answered
    /\ \A c \in answered : c.n <= issued[c.handler] /\ req[c.handler] # c /\ ~ IsRead(c)
    /\ \A a \in Acceptor : \A c \in Range(conns[a]) : c.n <= issued[c.handler]

\* Only an acceptor that runs has connections; of a call that is being served
\* it has one after connect(), until it dies.
ConnInv ==
    /\ \A s \in Server : lock[s] # None => s \in up
    /\ \A a \in Acceptor : conns[a] = <<>> => phase[a] = "prepare"
    /\ \A a \in Acceptor : \A c \in Range(conns[a]) :
        /\ a \in up
        /\ Caller(c) \in up /\ req[c.handler] = c =>
              /\ Working(c) /\ State(c, a) \notin {"none", "connect"}
              /\ a \notin broken[Caller(c)]

\* Where the acceptor is with the connection a message came on, and where the
\* thread that sent it is.
SentOK(m) ==
    LET a == m.acceptor
        c == m.call
    IN  /\ c \in Range(conns[a])
        /\ m.type = "prepare" => (Serving(a) = c => phase[a] = "prepare")
        /\ m.type = "accept" => Serving(a) = c /\ phase[a] = "accept"
        /\ m.type = "learn" => Serving(a) = c /\ phase[a] = "learn"
        /\ Caller(c) \in up =>
             /\ m.type = "prepare" => Working(c) /\ State(c, a) = "promise"
             /\ m.type = "accept" => Working(c) /\ State(c, a) = "accepted"
             /\ m.type = "learn" /\ Working(c) => State(c, a) = "done"

\* One message at a time is on a connection.
ToAcceptorInv ==
    /\ \A m \in toAcceptor : SentOK(m)
    /\ \A m, k \in toAcceptor : m.call = k.call /\ m.acceptor = k.acceptor => m = k

\* Where a thread may be that an answer finds: a NACK refuses a prepare or an
\* accept.
Awaits(state, type) ==
    \/ state = "promise" /\ type # "accepted"
    \/ state = "accepted" /\ type # "promise"

\* The same for an answer, as long as the acceptor that sent it has not died.
AnswerOK(m) ==
    LET a == m.acceptor
        c == m.call
    IN  /\ Caller(c) \in up /\ Working(c)
        /\ Awaits(State(c, a), m.type)
        /\ c \in Range(conns[a]) =>
             /\ Serving(a) = c
             /\ m.type = "promise" => phase[a] = "accept"
             /\ m.type = "NACK" => phase[a] = "prepare"
             /\ m.type = "accepted" => phase[a] = "learn"
        /\ \A k \in toAcceptor : ~ (k.call = c /\ k.acceptor = a)

ToThreadInv ==
    /\ \A m \in toThread : AnswerOK(m)
    /\ \A m, k \in toThread : m.call = k.call /\ m.acceptor = k.acceptor => m = k

Open == {"propose", "promise", "spin", "accepted", "learnSpin"}

\* Where the acceptor is with the connection of a thread that has sent nothing.
ThreadOK(s, a) ==
    /\ thread[s][a] = "connect" => a \notin broken[s]
    /\ a \notin broken[s] /\ thread[s][a] \in Open =>
         /\ Current(s) \in Range(conns[a])
         /\ thread[s][a] = "propose" => (Serving(a) = Current(s) => phase[a] = "prepare")
         /\ thread[s][a] = "spin" =>
              Serving(a) = Current(s) /\ phase[a] = "accept"
         /\ thread[s][a] = "learnSpin" => Serving(a) = Current(s) /\ phase[a] = "learn"

ThreadInv == \A s \in Server, a \in Acceptor : lock[s] # None => ThreadOK(s, a)

\* Where the thread is while the acceptor writes a file.
FileInv ==
    \A a \in Acceptor : conns[a] # <<>> /\ Caller(Serving(a)) \in up =>
        /\ phase[a] = "store" => Working(Serving(a)) /\ State(Serving(a), a) = "promise"
        /\ phase[a] = "write" /\ Working(Serving(a)) => State(Serving(a), a) = "done"

ChannelInv == CallInv /\ ConnInv /\ ToAcceptorInv /\ ToThreadInv /\ ThreadInv /\ FileInv
-----------------------------------------------------------------------------
LEMMA InitChannel == Init => ChannelInv
<1> SUFFICES ASSUME Init PROVE ChannelInv
  OBVIOUS
<1> USE DEF Init, Range
<1>1. CallInv /\ ConnInv
  BY DEF CallInv, ConnInv
<1>2. ToAcceptorInv /\ ToThreadInv
  BY DEF ToAcceptorInv, ToThreadInv
<1>3. ThreadInv /\ FileInv
  BY DEF ThreadInv, ThreadOK, FileInv
<1> QED BY <1>1, <1>2, <1>3 DEF ChannelInv

\* What s works for.
LEMMA CurrentWorks ==
    ASSUME TypeInv, ChannelInv, NEW s \in Server, lock[s] # None
    PROVE  /\ Current(s) \in Calls /\ Current(s).handler = lock[s] /\ Caller(Current(s)) = s
           /\ Working(Current(s)) /\ s \in up
           /\ \A a : State(Current(s), a) = thread[s][a]
<1>1. /\ lock[s] \in Handler /\ Home[lock[s]] = s /\ Current(s) \in Calls
      /\ req[lock[s]] = Current(s)
  BY CurrentType DEF Current
<1>2. Current(s).handler = lock[s] /\ s \in up
  BY <1>1, NoneAssumption DEF ChannelInv, CallInv, ConnInv
<1> QED BY <1>1, <1>2 DEF Caller, Working, State

LEMMA WorkingCurrent ==
    ASSUME TypeInv, NEW c \in Calls, Working(c)
    PROVE  lock[Caller(c)] # None /\ Current(Caller(c)) = c
BY CallType, NoneAssumption DEF Working, Current

\* The connections of an acceptor.
LEMMA ConnCalls ==
    ASSUME TypeInv, NEW a \in Acceptor
    PROVE  /\ Range(conns[a]) \subseteq Calls
           /\ conns[a] # <<>> => Serving(a) \in Range(conns[a])
           /\ \A c \in Range(conns[a]) : conns[a] # <<>>
<1>1. conns[a] \in Seq(Calls)
  BY DEF TypeInv, TypeOK, AcceptorTypes
<1>2. Len(conns[a]) \in Nat /\ DOMAIN conns[a] = 1 .. Len(conns[a])
  BY <1>1
<1>3. ASSUME NEW c \in Range(conns[a]) PROVE c \in Calls /\ conns[a] # <<>>
  <2>1. PICK i \in 1 .. Len(conns[a]) : conns[a][i] = c
    BY <1>2, <1>3 DEF Range
  <2> QED BY <1>1, <2>1
<1>4. ASSUME conns[a] # <<>> PROVE Serving(a) \in Range(conns[a])
  <2>1. 1 \in DOMAIN conns[a] /\ Serving(a) = conns[a][1]
    BY <1>1, <1>2, <1>4 DEF Serving
  <2> QED BY <2>1 DEF Range
<1> QED BY <1>3, <1>4

LEMMA MessageType ==
    ASSUME TypeInv
    PROVE  /\ \A m \in toAcceptor : m.acceptor \in Acceptor /\ m.call \in Calls /\ m.id \in 0 .. MaxId
           /\ \A m \in toThread : m.acceptor \in Acceptor /\ m.call \in Calls /\ m.id \in 0 .. MaxId
BY DEF TypeInv, TypeOK, NetTypes, ToAcceptor, ToThread
-----------------------------------------------------------------------------
\* The steps of the handlers.
LEMMA InvokeChannel ==
    ASSUME TypeInv, ChannelInv, NEW h \in Handler, NEW r \in Request, Invoke(h, r)
    PROVE  ChannelInv'
<1>1. /\ UNCHANGED <<answered, lock, thread, broken, toAcceptor, toThread, conns,
                     phase, promised, up>>
      /\ req[h] = None /\ issued[h] \in Nat /\ issued'[h] = issued[h] + 1
      /\ req'[h].handler = h /\ req'[h].n = issued[h] + 1
      /\ \A k \in Handler : k # h => req'[k] = req[k] /\ issued'[k] = issued[k]
      /\ \A k \in Handler : before'[k] \in {before[k], answered}
  BY DEF Invoke, TypeInv, TypeOK, HandlerTypes, proposerVars, netVars, acceptorVars, processVars
<1>2. \A c \in Calls : /\ c.handler \in Handler /\ c # None /\ c.n \in Nat
                       /\ issued[c.handler] \in Nat /\ issued'[c.handler] \in Nat
                       /\ issued[c.handler] <= issued'[c.handler]
  BY <1>1, CallType DEF TypeInv, TypeOK, HandlerTypes
<1>3. \A c \in Calls : c.n <= issued[c.handler] => (req'[c.handler] = c <=> req[c.handler] = c)
  BY <1>1, <1>2
<1>4. \A s \in Server : lock[s] # None => Current(s)' = Current(s)
  BY <1>1, CurrentType DEF Current, TypeInv, HandlerInv
<1>5. \A c \in Calls : Working(c) => Working(c)'
  BY <1>1, <1>2 DEF Working, Caller
<1>6. \A c \in Calls : c.n <= issued[c.handler] => (Working(c)' <=> Working(c))
  BY <1>1, <1>3 DEF Working, Caller
<1>7. CallInv'
  <2>1. answered \subseteq Calls
    BY DEF TypeInv, TypeOK, HandlerTypes
  <2>2. \A a \in Acceptor : \A c \in Range(conns[a]) : c.n <= issued'[c.handler]
    <3> SUFFICES ASSUME NEW a \in Acceptor, NEW c \in Range(conns[a])
                 PROVE  c.n <= issued'[c.handler]
      OBVIOUS
    <3>1. c \in Calls /\ c.n <= issued[c.handler]
      BY ConnCalls DEF ChannelInv, CallInv
    <3> QED BY <1>2, <3>1
  <2> QED BY <1>1, <1>2, <1>3, <2>1, <2>2 DEF ChannelInv, CallInv, IsRead
<1>8. ConnInv'
  BY <1>1, <1>3, <1>6, ConnCalls DEF ChannelInv, CallInv, ConnInv, State, Caller
<1>9. \A m \in toAcceptor : Working(m.call)' <=> Working(m.call)
  <2> SUFFICES ASSUME NEW m \in toAcceptor PROVE Working(m.call)' <=> Working(m.call)
    OBVIOUS
  <2>1. m.acceptor \in Acceptor /\ m.call \in Calls /\ m.call \in Range(conns[m.acceptor])
    BY MessageType DEF ChannelInv, ToAcceptorInv, SentOK
  <2> QED BY <1>6, <2>1 DEF ChannelInv, CallInv
<1>10. ToAcceptorInv'
  BY <1>1, <1>9 DEF ChannelInv, ToAcceptorInv, SentOK, State, Caller, Serving
<1>11. ToThreadInv'
  BY <1>1, <1>5, MessageType DEF ChannelInv, ToThreadInv, AnswerOK, State, Caller, Serving
<1>12. ThreadInv'
  BY <1>1, <1>4 DEF ChannelInv, ThreadInv, ThreadOK, Serving
<1>13. FileInv'
  <2>1. \A a \in Acceptor : conns[a] # <<>> => (Working(Serving(a))' <=> Working(Serving(a)))
    BY <1>1, <1>6, ConnCalls DEF ChannelInv, CallInv, Serving
  <2> QED BY <1>1, <2>1 DEF ChannelInv, FileInv, State, Caller, Serving
<1> QED BY <1>7, <1>8, <1>10, <1>11, <1>12, <1>13 DEF ChannelInv

LEMMA AcquireChannel ==
    ASSUME TypeInv, ChannelInv, NEW h \in Handler, Acquire(h)
    PROVE  ChannelInv'
<1> DEFINE s == Home[h]
<1>1. s \in Server
  BY ProcessAssumption
<1>2. /\ UNCHANGED <<issued, req, before, answered, toAcceptor, toThread, conns,
                     phase, promised, up>>
      /\ s \in up /\ lock[s] = None /\ lock'[s] = h /\ req[h] # None
      /\ \A t \in Server : t # s =>
            lock'[t] = lock[t] /\ thread'[t] = thread[t] /\ broken'[t] = broken[t]
      /\ broken'[s] = {} /\ \A a \in Acceptor : thread'[s][a] \in {"connect", "none"}
  BY <1>1 DEF Acquire, TypeInv, TypeOK, ProposerTypes, parserVars, handlerVars, netVars, acceptorVars,
              processVars
<1> HIDE DEF s
<1>3. /\ req[h] \in Calls /\ req[h].handler = h /\ Caller(req[h]) = s
      /\ Current(s)' = req[h]
  BY <1>2 DEF TypeInv, TypeOK, HandlerTypes, ChannelInv, CallInv, Caller, Current, s
<1>4. \A t \in Server : t # s => Current(t)' = Current(t)
  BY <1>2 DEF Current
<1>5. \A c \in Calls : Caller(c) = s => ~ Working(c)
  BY <1>2, CallType, NoneAssumption DEF Working
<1>6. \A c \in Calls : Caller(c) # s =>
          (Working(c)' <=> Working(c)) /\ \A a : State(c, a)' = State(c, a)
  BY <1>2, CallType DEF Working, State, Caller
<1>7. \A a \in Acceptor : \A c \in Range(conns[a]) :
          c \in Calls /\ (Caller(c) = s => req[c.handler] # c /\ ~ Working(c)')
  BY <1>2, <1>5, ConnCalls DEF ChannelInv, ConnInv, Working, Caller
<1>8. \A m \in toThread : Caller(m.call) # s
  BY <1>5, MessageType DEF ChannelInv, ToThreadInv, AnswerOK
<1>9. \A m \in toAcceptor : Caller(m.call) = s => m.type = "learn" /\ ~ Working(m.call)'
  <2> SUFFICES ASSUME NEW m \in toAcceptor, Caller(m.call) = s
               PROVE  m.type = "learn" /\ ~ Working(m.call)'
    OBVIOUS
  <2>1. m.call \in Range(conns[m.acceptor]) /\ m.acceptor \in Acceptor /\ m.call \in Calls
    BY MessageType DEF ChannelInv, ToAcceptorInv, SentOK
  <2>2. m.type \in {"prepare", "accept", "learn"}
    BY DEF TypeInv, TypeOK, NetTypes, ToAcceptor
  <2> QED BY <1>2, <1>5, <1>7, <2>1, <2>2 DEF ChannelInv, ToAcceptorInv, SentOK
<1>10. CallInv'
  BY <1>2 DEF ChannelInv, CallInv, IsRead
<1>11. ConnInv'
  <2>1. \A t \in Server : lock'[t] # None => t \in up
    BY <1>2 DEF ChannelInv, ConnInv
  <2>2. ASSUME NEW a \in Acceptor, NEW c \in Range(conns[a]), Caller(c) \in up, req[c.handler] = c
        PROVE  Working(c)' /\ State(c, a)' \notin {"none", "connect"} /\ a \notin broken'[Caller(c)]
    BY <1>2, <1>6, <1>7, <2>2, CallType DEF ChannelInv, ConnInv
  <2> QED BY <1>2, <2>1, <2>2 DEF ChannelInv, ConnInv, Caller
<1>12. ToAcceptorInv'
  BY <1>2, <1>6, <1>9, MessageType DEF ChannelInv, ToAcceptorInv, SentOK, Caller, Serving
<1>13. ToThreadInv'
  BY <1>2, <1>6, <1>8, MessageType DEF ChannelInv, ToThreadInv, AnswerOK, Caller, Serving
<1>14. ThreadInv'
  BY <1>2, <1>4 DEF ChannelInv, ThreadInv, ThreadOK, Serving, Open
<1>15. FileInv'
  <2> SUFFICES ASSUME NEW a \in Acceptor, conns[a] # <<>>, NEW c, c = Serving(a), Caller(c) \in up
               PROVE  /\ phase[a] = "store" => Working(c)' /\ State(c, a)' = "promise"
                      /\ phase[a] = "write" /\ Working(c)' => State(c, a)' = "done"
    BY <1>2 DEF FileInv, Serving, Caller, Working, State
  <2>1. c \in Range(conns[a])
    BY ConnCalls
  <2> QED BY <1>5, <1>6, <1>7, <2>1 DEF ChannelInv, FileInv
<1> QED BY <1>10, <1>11, <1>12, <1>13, <1>14, <1>15 DEF ChannelInv

LEMMA ReturnChannel ==
    ASSUME TypeInv, ChannelInv, NEW s \in Server, Return(s)
    PROVE  ChannelInv'
<1> DEFINE d == Current(s)
<1>1. /\ UNCHANGED <<issued, before, broken, toAcceptor, toThread, conns, phase, promised, up>>
      /\ s \in up /\ lock[s] # None /\ lock'[s] = None
      /\ \A a \in Acceptor : thread[s][a] \in {"none", "done"}
      /\ \A t \in Server : t # s =>
            lock'[t] = lock[t] /\ thread'[t] = thread[t]
      /\ \A k \in Handler : k # lock[s] => req'[k] = req[k]
      /\ req'[lock[s]] = None
      /\ answered' \subseteq answered \cup {d} /\ answered \subseteq answered'
      /\ IsRead(d) => answered' = answered
  BY CurrentType DEF Return, Coordinating, Joined, EndThreads, TypeInv, TypeOK, HandlerTypes,
     ProposerTypes, parserVars, netVars, acceptorVars, processVars
<1>2. /\ d \in Calls /\ d.handler = lock[s] /\ Caller(d) = s /\ Working(d) /\ lock[s] \in Handler
      /\ req[lock[s]] = d /\ \A a : State(d, a) = thread[s][a]
  BY <1>1, CurrentWorks, CurrentType DEF Working
<1> HIDE DEF d
<1>3. \A t \in Server : t # s /\ lock[t] # None => Current(t)' = Current(t)
  <2>1. \A t \in Server : t # s /\ lock[t] # None => lock[t] \in Handler /\ lock[t] # lock[s]
    BY <1>1, CurrentType
  <2> QED BY <1>1, <2>1 DEF Current
<1>4. \A c \in Calls : Working(c) /\ c # d => Caller(c) # s /\ Working(c)'
  BY <1>1, <1>2, CallType DEF Working, Caller
<1>5. \A c \in Calls : Working(c)' => c # d /\ Working(c) /\ Caller(c) # s
  BY <1>1, <1>2, CallType, NoneAssumption DEF Working, Caller
<1>6. \A c \in Calls : Caller(c) # s => \A a : State(c, a)' = State(c, a)
  BY <1>1, CallType DEF State, Caller
<1>7. \A m \in toThread : m.call # d
  BY <1>1, <1>2, MessageType DEF ChannelInv, ToThreadInv, AnswerOK, Awaits
<1>8. \A m \in toAcceptor : m.call = d => m.type = "learn"
  <2> SUFFICES ASSUME NEW m \in toAcceptor, m.call = d PROVE m.type = "learn"
    OBVIOUS
  <2>1. m.type \in {"prepare", "accept", "learn"} /\ m.acceptor \in Acceptor
    BY DEF TypeInv, TypeOK, NetTypes, ToAcceptor
  <2>2. State(d, m.acceptor) \in {"none", "done"}
    BY <1>1, <1>2, <2>1
  <2> QED BY <1>1, <1>2, <2>1, <2>2 DEF ChannelInv, ToAcceptorInv, SentOK
<1>9. CallInv'
  <2>1. req[lock[s]].n <= issued[lock[s]]
    BY <1>1, <1>2, CallType DEF ChannelInv, CallInv
  <2>2. \A h \in Handler : req'[h] # None => req'[h] = req[h]
    BY <1>1
  <2>3. ASSUME NEW c \in answered' PROVE c.n <= issued[c.handler] /\ req'[c.handler] # c /\ ~ IsRead(c)
    <3>1. c \in Calls /\ c.handler \in Handler /\ c # None
      BY <1>1, <1>2, <2>3, CallType DEF TypeInv, TypeOK, HandlerTypes
    <3> QED BY <1>1, <1>2, <2>1, <2>2, <2>3, <3>1 DEF ChannelInv, CallInv
  <2> QED BY <1>1, <2>2, <2>3 DEF ChannelInv, CallInv, IsRead
<1>10. ConnInv'
  <2>1. \A t \in Server : lock'[t] # None => t \in up
    BY <1>1 DEF ChannelInv, ConnInv
  <2>2. ASSUME NEW a \in Acceptor, NEW c \in Range(conns[a]), Caller(c) \in up, req'[c.handler] = c
        PROVE  Working(c)' /\ State(c, a)' \notin {"none", "connect"} /\ a \notin broken[Caller(c)]
    <3>1. c \in Calls /\ c.handler \in Handler /\ c # None
      BY ConnCalls, CallType
    <3>2. req[c.handler] = c /\ c # d
      BY <1>1, <1>2, <2>2, <3>1
    <3> QED BY <1>4, <1>6, <2>2, <3>1, <3>2 DEF ChannelInv, ConnInv
  <2> QED BY <1>1, <2>1, <2>2 DEF ChannelInv, ConnInv, Caller
<1>11. ToAcceptorInv'
  <2>1. \A m \in toAcceptor : /\ m.type \in {"prepare", "accept"} => m.call # d
                              /\ m.call \in Calls
    BY <1>8, MessageType
  <2> QED BY <1>1, <1>4, <1>5, <1>6, <2>1 DEF ChannelInv, ToAcceptorInv, SentOK, Caller, Serving
<1>12. ToThreadInv'
  BY <1>1, <1>4, <1>6, <1>7, MessageType DEF ChannelInv, ToThreadInv, AnswerOK, Caller, Serving
<1>13. ThreadInv'
  BY <1>1, <1>3 DEF ChannelInv, ThreadInv, ThreadOK, Serving, Open
<1>14. FileInv'
  <2> SUFFICES ASSUME NEW a \in Acceptor, conns[a] # <<>>, NEW c, c = Serving(a), Caller(c) \in up
               PROVE  /\ phase[a] = "store" => Working(c)' /\ State(c, a)' = "promise"
                      /\ phase[a] = "write" /\ Working(c)' => State(c, a)' = "done"
    BY <1>1 DEF FileInv, Serving, Caller, Working, State
  <2>1. c \in Calls
    BY ConnCalls
  <2>2. phase[a] = "store" => c # d
    BY <1>1, <1>2 DEF ChannelInv, FileInv
  <2> QED BY <1>4, <1>5, <1>6, <2>1, <2>2 DEF ChannelInv, FileInv
<1> QED BY <1>9, <1>10, <1>11, <1>12, <1>13, <1>14 DEF ChannelInv

LEMMA ServerDiesChannel ==
    ASSUME TypeInv, ChannelInv, NEW s \in Server, ServerDies(s)
    PROVE  ChannelInv'
<1>1. /\ UNCHANGED <<issued, req, before, answered, broken, toAcceptor, conns, phase, promised>>
      /\ up' = up \ {s} /\ lock'[s] = None
      /\ \A t \in Server : t # s =>
            lock'[t] = lock[t] /\ thread'[t] = thread[t]
      /\ \A m \in toThread' : m \in toThread /\ Caller(m.call) # s
  BY DEF ServerDies, EndThreads, TypeInv, TypeOK, ProposerTypes, parserVars, handlerVars, acceptorVars
<1>2. \A a \in Acceptor : a \in up => a \in up'
  BY <1>1, ProcessAssumption
<1>3. \A t \in Server : lock'[t] # None => t # s /\ Current(t)' = Current(t)
  BY <1>1 DEF Current
<1>4. \A c \in Calls : Caller(c) # s =>
          (Working(c)' <=> Working(c)) /\ \A a : State(c, a)' = State(c, a)
  BY <1>1, CallType DEF Working, State, Caller
<1>5. \A a \in Acceptor : Range(conns[a]) \subseteq Calls
  BY ConnCalls
<1>6. CallInv'
  BY <1>1 DEF ChannelInv, CallInv, IsRead
<1>7. ConnInv'
  BY <1>1, <1>2, <1>3, <1>4, <1>5 DEF ChannelInv, ConnInv, Caller
<1>8. ToAcceptorInv'
  BY <1>1, <1>4, MessageType DEF ChannelInv, ToAcceptorInv, SentOK, Caller, Serving
<1>9. ToThreadInv'
  BY <1>1, <1>4, MessageType DEF ChannelInv, ToThreadInv, AnswerOK, Caller, Serving
<1>10. ThreadInv'
  BY <1>1, <1>3 DEF ChannelInv, ThreadInv, ThreadOK, Serving, Open
<1>11. FileInv'
  <2> SUFFICES ASSUME NEW a \in Acceptor, conns[a] # <<>>, NEW c, c = Serving(a), Caller(c) \in up'
               PROVE  /\ phase[a] = "store" => Working(c)' /\ State(c, a)' = "promise"
                      /\ phase[a] = "write" /\ Working(c)' => State(c, a)' = "done"
    BY <1>1 DEF FileInv, Serving, Caller, Working, State
  <2>1. c \in Calls /\ Caller(c) \in up /\ Caller(c) # s
    BY <1>1, ConnCalls
  <2> QED BY <1>4, <2>1 DEF ChannelInv, FileInv
<1> QED BY <1>6, <1>7, <1>8, <1>9, <1>10, <1>11 DEF ChannelInv

LEMMA AcceptorDiesChannel ==
    ASSUME TypeInv, ChannelInv, NEW a \in Acceptor, AcceptorDies(a)
    PROVE  ChannelInv'
<1>1. /\ UNCHANGED <<issued, req, before, answered, lock, thread, toThread, promised>>
      /\ up' = up \ {a}
      /\ \A s \in Server : /\ broken'[s] \in {broken[s], broken[s] \cup {a}}
                           /\ thread[s][a] \in Open => broken'[s] = broken[s] \cup {a}
                           /\ thread[s][a] = "connect" => broken'[s] = broken[s]
      /\ \A m \in toAcceptor' : m \in toAcceptor /\ m.acceptor # a
      /\ conns'[a] = <<>> /\ phase'[a] = "prepare"
      /\ \A b \in Acceptor : b # a => conns'[b] = conns[b] /\ phase'[b] = phase[b]
  BY DEF AcceptorDies, Open, TypeInv, TypeOK, AcceptorTypes, handlerVars
<1>2. \A s \in Server : s \in up' <=> s \in up
  BY <1>1, ProcessAssumption
<1>3. /\ \A s \in Server : Current(s)' = Current(s)
      /\ \A c : Working(c)' = Working(c) /\ Caller(c)' = Caller(c) /\ \A b : State(c, b)' = State(c, b)
  BY <1>1 DEF Current, Working, Caller, State
<1>4. Range(conns'[a]) = {}
  BY <1>1 DEF Range
<1>5. \A b \in Acceptor : Range(conns[b]) \subseteq Calls
  BY ConnCalls
<1>6. CallInv'
  BY <1>1, <1>4 DEF ChannelInv, CallInv, IsRead
<1>7. ConnInv'
  <2>1. \A s \in Server : lock'[s] # None => s \in up'
    BY <1>1, <1>2 DEF ChannelInv, ConnInv
  <2>2. \A b \in Acceptor : conns'[b] = <<>> => phase'[b] = "prepare"
    BY <1>1 DEF ChannelInv, ConnInv
  <2>3. ASSUME NEW b \in Acceptor, NEW c \in Range(conns'[b])
        PROVE  /\ b \in up'
               /\ Caller(c) \in up' /\ req[c.handler] = c =>
                     /\ Working(c) /\ State(c, b) \notin {"none", "connect"}
                     /\ b \notin broken'[Caller(c)]
    <3>1. b # a /\ c \in Range(conns[b]) /\ Caller(c) \in Server
      BY <1>1, <1>4, <1>5, <2>3, CallType
    <3> QED BY <1>1, <1>2, <3>1 DEF ChannelInv, ConnInv
  <2> QED BY <1>1, <1>3, <2>1, <2>2, <2>3 DEF ConnInv
<1>8. ToAcceptorInv'
  BY <1>1, <1>2, <1>3, MessageType, CallType DEF ChannelInv, ToAcceptorInv, SentOK, Serving
<1>9. ToThreadInv'
  <2>1. \A m \in toThread : m.acceptor \in Acceptor /\ Caller(m.call) \in Server
    BY MessageType, CallType
  <2> QED BY <1>1, <1>2, <1>3, <1>4, <2>1 DEF ChannelInv, ToThreadInv, AnswerOK, Serving
<1>10. ThreadInv'
  <2> SUFFICES ASSUME NEW s \in Server, NEW b \in Acceptor, lock[s] # None
               PROVE  /\ thread[s][b] = "connect" => b \notin broken'[s]
                      /\ b \notin broken'[s] /\ thread[s][b] \in Open => b # a /\ b \notin broken[s]
    BY <1>1, <1>3 DEF ChannelInv, ThreadInv, ThreadOK, Serving
  <2> QED BY <1>1 DEF ChannelInv, ThreadInv, ThreadOK
<1>11. FileInv'
  <2> SUFFICES ASSUME NEW b \in Acceptor, conns'[b] # <<>>, NEW c, c = Head(conns'[b]), Caller(c) \in up'
               PROVE  /\ phase'[b] = "store" => Working(c) /\ State(c, b) = "promise"
                      /\ phase'[b] = "write" /\ Working(c) => State(c, b) = "done"
    BY <1>3 DEF FileInv, Serving
  <2>1. b # a /\ c = Serving(b) /\ c \in Range(conns[b])
    BY <1>1, ConnCalls DEF Serving
  <2>2. Caller(c) \in up
    BY <1>1
  <2> QED BY <1>1, <2>1, <2>2 DEF ChannelInv, FileInv
<1> QED BY <1>6, <1>7, <1>8, <1>9, <1>10, <1>11 DEF ChannelInv

LEMMA RestartChannel ==
    ASSUME TypeInv, ChannelInv, NEW a \in Acceptor, Restart(a)
    PROVE  ChannelInv'
<1>1. /\ UNCHANGED <<issued, req, before, answered, lock, thread, broken, toAcceptor,
                     toThread, conns, phase>>
      /\ a \notin up /\ up' = up \cup {a}
      /\ \A b \in Acceptor : b # a => promised'[b] = promised[b]
  BY DEF Restart, TypeInv, TypeOK, AcceptorTypes, handlerVars, proposerVars, netVars
<1>2. Range(conns[a]) = {}
  BY <1>1 DEF ChannelInv, ConnInv
<1>3. /\ \A s \in Server : Current(s)' = Current(s) /\ (s \in up' <=> s \in up)
      /\ \A c : Working(c)' = Working(c) /\ Caller(c)' = Caller(c) /\ \A b : State(c, b)' = State(c, b)
      /\ \A b : Serving(b)' = Serving(b)
  BY <1>1, ProcessAssumption DEF Current, Working, Caller, State, Serving
<1>4. CallInv'
  BY <1>1 DEF ChannelInv, CallInv, IsRead
<1>5. ConnInv'
  <2>1. \A b \in Acceptor : \A c \in Range(conns[b]) : Caller(c) \in Server
    BY ConnCalls, CallType
  <2> QED BY <1>1, <1>3, <2>1 DEF ChannelInv, ConnInv
<1>6. ToAcceptorInv'
  <2>1. \A m \in toAcceptor : m.acceptor # a /\ m.acceptor \in Acceptor /\ Caller(m.call) \in Server
    BY <1>2, MessageType, CallType DEF ChannelInv, ToAcceptorInv, SentOK
  <2> QED BY <1>1, <1>3, <2>1 DEF ChannelInv, ToAcceptorInv, SentOK
<1>7. ToThreadInv'
  <2>1. \A m \in toThread : m.acceptor \in Acceptor /\ Caller(m.call) \in Server
    BY MessageType, CallType
  <2> QED BY <1>1, <1>2, <1>3, <2>1 DEF ChannelInv, ToThreadInv, AnswerOK
<1>8. ThreadInv'
  BY <1>1, <1>2, <1>3 DEF ChannelInv, ThreadInv, ThreadOK
<1>9. FileInv'
  <2>1. \A b \in Acceptor : conns[b] # <<>> => Caller(Serving(b)) \in Server
    BY ConnCalls, CallType
  <2> QED BY <1>1, <1>3, <2>1 DEF ChannelInv, FileInv
<1> QED BY <1>4, <1>5, <1>6, <1>7, <1>8, <1>9 DEF ChannelInv

-----------------------------------------------------------------------------
(* The steps of the thread of server s for acceptor a. *)

Between(m, s, a) == m.call = Current(s) /\ m.acceptor = a

\* What all of them but connect() leave alone.
ThreadMoves(s, a) ==
    /\ lock[s] # None /\ thread[s][a] # "done" /\ thread'[s][a] \notin {"none", "connect"}
    /\ UNCHANGED <<issued, req, before, answered, lock, broken, conns, phase, promised, up>>
    /\ \A t \in Server, b \in Acceptor :
          ~ (t = s /\ b = a) => thread'[t][b] = thread[t][b]
    /\ toThread' \subseteq toThread

\* It reads the answer there is, if there is one, and may send a message.
LEMMA MoveChannel ==
    ASSUME TypeInv, ChannelInv, NEW s \in Server, NEW a \in Acceptor, ThreadMoves(s, a),
           \A m \in toAcceptor \cup toThread' : ~ Between(m, s, a),
           \A m \in toAcceptor' : m \in toAcceptor \/ (Between(m, s, a) /\ SentOK(m)'),
           \A m, k \in toAcceptor' \ toAcceptor : m = k,
           toAcceptor \subseteq toAcceptor',
           Current(s) \in Range(conns[a]) /\ Serving(a) = Current(s) => phase[a] # "store",
           ThreadOK(s, a)'
    PROVE  ChannelInv'
<1>x. PICK x : x = Current(s)
  OBVIOUS
<1>1. /\ x \in Calls /\ Caller(x) = s /\ Working(x) /\ s \in up
      /\ \A b : State(x, b) = thread[s][b]
  BY <1>x, CurrentWorks DEF ThreadMoves
<1> USE DEF ThreadMoves
<1>2. /\ \A t \in Server : Current(t)' = Current(t)
      /\ \A c : Working(c)' = Working(c) /\ Caller(c)' = Caller(c)
      /\ \A b : Serving(b)' = Serving(b)
  BY DEF Current, Working, Caller, Serving
<1>3. \A c \in Calls, b \in Acceptor : Working(c) /\ ~ (c = x /\ b = a) => State(c, b)' = State(c, b)
  <2> SUFFICES ASSUME NEW c \in Calls, NEW b \in Acceptor, Working(c), ~ (c = x /\ b = a)
               PROVE  thread'[Caller(c)][b] = thread[Caller(c)][b]
    BY <1>2 DEF State
  <2>1. Caller(c) \in Server /\ (Caller(c) = s => c = x)
    BY <1>x, WorkingCurrent, CallType
  <2> QED BY <2>1
<1>4. State(x, a)' = thread'[s][a]
  BY <1>1, <1>2 DEF State
<1>5. CallInv'
  BY DEF ChannelInv, CallInv, IsRead
<1>6. ConnInv'
  <2>1. ASSUME NEW b \in Acceptor, NEW c \in Range(conns[b]), Caller(c) \in up, req[c.handler] = c
        PROVE  State(c, b)' \notin {"none", "connect"}
    <3>1. c \in Calls /\ Working(c) /\ State(c, b) \notin {"none", "connect"}
      BY <2>1, ConnCalls DEF ChannelInv, ConnInv
    <3>2. CASE c = x /\ b = a
      BY <1>4, <3>2
    <3>3. CASE ~ (c = x /\ b = a)
      BY <1>3, <3>1, <3>3
    <3> QED BY <3>2, <3>3
  <2> QED BY <1>2, <2>1 DEF ChannelInv, ConnInv
<1>7. ToAcceptorInv'
  <2>1. ASSUME NEW m \in toAcceptor PROVE SentOK(m)'
    <3>1. m.call \in Calls /\ m.acceptor \in Acceptor /\ SentOK(m)
      BY MessageType DEF ChannelInv, ToAcceptorInv
    <3>2. Working(m.call) => State(m.call, m.acceptor)' = State(m.call, m.acceptor)
      BY <1>3, <1>x, <2>1, <3>1 DEF Between
    <3> QED BY <1>2, <3>1, <3>2 DEF SentOK
  <2> QED BY <2>1 DEF ChannelInv, ToAcceptorInv, Between
<1>8. ToThreadInv'
  <2>1. ASSUME NEW m \in toThread' PROVE AnswerOK(m)'
    <3>1. m.call \in Calls /\ m.acceptor \in Acceptor /\ AnswerOK(m)
      BY <2>1, MessageType DEF ChannelInv, ToThreadInv
    <3>2. State(m.call, m.acceptor)' = State(m.call, m.acceptor)
      BY <1>3, <1>x, <2>1, <3>1 DEF Between, AnswerOK
    <3>3. \A k \in toAcceptor' : ~ (k.call = m.call /\ k.acceptor = m.acceptor)
      BY <2>1, <3>1 DEF Between, AnswerOK
    <3> QED BY <1>2, <3>1, <3>2, <3>3 DEF AnswerOK
  <2> QED BY <2>1 DEF ChannelInv, ToThreadInv
<1>9. ThreadInv'
  <2> SUFFICES ASSUME NEW t \in Server, NEW b \in Acceptor, lock[t] # None, ~ (t = s /\ b = a)
               PROVE  ThreadOK(t, b)'
    BY DEF ThreadInv
  <2> QED BY <1>2 DEF ChannelInv, ThreadInv, ThreadOK
<1>10. FileInv'
  <2> SUFFICES ASSUME NEW b \in Acceptor, conns[b] # <<>>, NEW c, c = Serving(b), Caller(c) \in up
               PROVE  /\ phase[b] = "store" => Working(c) /\ State(c, b)' = "promise"
                      /\ phase[b] = "write" /\ Working(c) => State(c, b)' = "done"
    BY <1>2 DEF FileInv
  <2>1. c \in Calls /\ c \in Range(conns[b])
    BY ConnCalls
  <2> QED BY <1>1, <1>x, <1>3, <2>1 DEF ChannelInv, FileInv
<1> QED BY <1>5, <1>6, <1>7, <1>8, <1>9, <1>10 DEF ChannelInv

\* What there can be between the two ends of a thread's connection.
LEMMA ThreadEnd ==
    ASSUME TypeInv, ChannelInv, NEW s \in Server, NEW a \in Acceptor, lock[s] # None
    PROVE  /\ \A m \in toAcceptor : Between(m, s, a) => thread[s][a] \in {"promise", "accepted", "done"}
           /\ \A m \in toThread : Between(m, s, a) =>
                 /\ AnswerOK(m)
                 /\ Awaits(thread[s][a], m.type)
           /\ Current(s) \in Range(conns[a]) /\ Serving(a) = Current(s) /\ phase[a] = "store" =>
                 thread[s][a] = "promise"
           /\ a \in broken[s] => Current(s) \notin Range(conns[a])
           /\ ThreadOK(s, a)
<1>x. PICK x : x = Current(s)
  OBVIOUS
<1>1. /\ x \in Calls /\ Caller(x) = s /\ Working(x) /\ s \in up
      /\ State(x, a) = thread[s][a] /\ req[x.handler] = x
  BY <1>x, CurrentWorks DEF Working
<1>2. ASSUME NEW m \in toAcceptor, Between(m, s, a)
      PROVE  thread[s][a] \in {"promise", "accepted", "done"}
  <2>1. m.type \in {"prepare", "accept", "learn"} /\ SentOK(m)
    BY DEF TypeInv, TypeOK, NetTypes, ToAcceptor, ChannelInv, ToAcceptorInv
  <2> QED BY <1>x, <1>1, <1>2, <2>1 DEF Between, SentOK
<1>3. ASSUME NEW m \in toThread, Between(m, s, a)
      PROVE  /\ AnswerOK(m)
             /\ Awaits(thread[s][a], m.type)
  BY <1>x, <1>1, <1>3 DEF Between, ChannelInv, ToThreadInv, AnswerOK
<1>4. x \in Range(conns[a]) /\ Serving(a) = x /\ phase[a] = "store" => thread[s][a] = "promise"
  BY <1>1, ConnCalls DEF ChannelInv, FileInv
<1>5. a \in broken[s] => x \notin Range(conns[a])
  BY <1>1 DEF ChannelInv, ConnInv
<1> QED BY <1>x, <1>2, <1>3, <1>4, <1>5 DEF ChannelInv, ThreadInv

\* What a thread may send, when, and where it stands then.
Sends(s, a, type, id) ==
    /\ Send(s, a, type, id)
    /\ a \notin broken[s] =>
         /\ Current(s) \in Range(conns[a])
         /\ \/ /\ type = "prepare" /\ thread'[s][a] = "promise"
               /\ Serving(a) = Current(s) => phase[a] = "prepare"
            \/ /\ type = "accept" /\ thread'[s][a] = "accepted"
               /\ Serving(a) = Current(s) /\ phase[a] = "accept"
            \/ /\ type = "learn" /\ thread'[s][a] = "done"
               /\ Serving(a) = Current(s) /\ phase[a] = "learn"

LEMMA SendChannel ==
    ASSUME TypeInv, ChannelInv, NEW s \in Server, NEW a \in Acceptor, ThreadMoves(s, a),
           NEW type, NEW id, Sends(s, a, type, id),
           \A m \in toAcceptor \cup toThread' : ~ Between(m, s, a),
           Current(s) \in Range(conns[a]) /\ Serving(a) = Current(s) => phase[a] # "store",
           thread'[s][a] \in {"promise", "accepted", "done"}
    PROVE  ChannelInv'
<1>x. PICK x : x = Current(s)
  OBVIOUS
<1>m. PICK k : k = Message(s, a, type, id)
  OBVIOUS
<1>1. /\ x \in Calls /\ Caller(x) = s /\ Working(x) /\ s \in up
      /\ k.call = x /\ k.acceptor = a /\ k.type = type /\ k.id = id
  BY <1>x, <1>m, CurrentWorks DEF ThreadMoves, Message
<1>2. /\ Current(s)' = x /\ Working(x)' /\ Caller(x)' = s /\ Serving(a)' = Serving(a)
      /\ State(x, a)' = thread'[s][a]
  BY <1>x, <1>1 DEF ThreadMoves, Current, Working, Caller, Serving, State
<1>3. a \notin broken[s] => SentOK(k)'
  <2>1. UNCHANGED <<conns, phase, promised, up>>
    BY DEF ThreadMoves
  <2> QED BY <1>x, <1>1, <1>2, <2>1 DEF Sends, SentOK
<1>4. toAcceptor' = IF a \in broken[s] THEN toAcceptor ELSE toAcceptor \cup {k}
  BY <1>m DEF Sends, Send
<1>5. \A m \in toAcceptor' : m \in toAcceptor \/ (Between(m, s, a) /\ SentOK(m)')
  BY <1>x, <1>1, <1>3, <1>4 DEF Between
<1>6. ThreadOK(s, a)'
  BY <1>x, <1>2 DEF ThreadOK, Sends, Open, ThreadMoves
<1>7. toAcceptor \subseteq toAcceptor' /\ \A m, n \in toAcceptor' \ toAcceptor : m = n
  BY <1>4
<1> QED BY <1>5, <1>6, <1>7, MoveChannel

LEMMA QuietChannel ==
    ASSUME TypeInv, ChannelInv, NEW s \in Server, NEW a \in Acceptor, ThreadMoves(s, a),
           UNCHANGED toAcceptor,
           \A m \in toAcceptor \cup toThread' : ~ Between(m, s, a),
           Current(s) \in Range(conns[a]) /\ Serving(a) = Current(s) => phase[a] # "store",
           ThreadOK(s, a)'
    PROVE  ChannelInv'
BY MoveChannel

LEMMA ConnectFailChannel ==
    ASSUME TypeInv, ChannelInv, NEW s \in Server, NEW a \in Acceptor, ConnectFail(s, a)
    PROVE  ChannelInv'
<1>1. /\ lock[s] # None /\ thread[s][a] = "connect" /\ thread'[s][a] = "done"
      /\ ThreadMoves(s, a) /\ UNCHANGED <<toAcceptor, toThread>>
  BY DEF ConnectFail, At, Coordinating, Goto, ThreadMoves, TypeInv, TypeOK, ProposerTypes, parserVars,
         handlerVars, acceptorVars, netVars, processVars
<1>2. ThreadOK(s, a)'
  BY <1>1 DEF ThreadOK, Open
<1> QED BY <1>1, <1>2, ThreadEnd, QuietChannel DEF Awaits

LEMMA ProposeChannel ==
    ASSUME TypeInv, ChannelInv, NEW s \in Server, NEW a \in Acceptor, Propose(s, a)
    PROVE  ChannelInv'
<1>1. PICK id : Send(s, a, "prepare", id)
  BY DEF Propose
<1>2. /\ lock[s] # None /\ thread[s][a] = "propose" /\ thread'[s][a] = "promise"
      /\ ThreadMoves(s, a) /\ UNCHANGED toThread
  BY DEF Propose, At, Coordinating, Goto, ThreadMoves, TypeInv, TypeOK, ProposerTypes, parserVars,
         handlerVars, acceptorVars, processVars
<1>3. Sends(s, a, "prepare", id)
  BY <1>1, <1>2, ThreadEnd DEF Sends, ThreadOK, Open
<1> QED BY <1>2, <1>3, ThreadEnd, SendChannel DEF Awaits

LEMMA SendAcceptChannel ==
    ASSUME TypeInv, ChannelInv, NEW s \in Server, NEW a \in Acceptor, SendAccept(s, a)
    PROVE  ChannelInv'
<1>1. /\ lock[s] # None /\ thread[s][a] = "spin" /\ thread'[s][a] = "accepted"
      /\ ThreadMoves(s, a) /\ UNCHANGED toThread
      /\ Send(s, a, "accept", promiseId[s][a])
  BY DEF SendAccept, At, Coordinating, Goto, ThreadMoves, TypeInv, TypeOK, ProposerTypes, parserVars,
         handlerVars, acceptorVars, processVars
<1>2. Sends(s, a, "accept", promiseId[s][a])
  BY <1>1, ThreadEnd DEF Sends, ThreadOK, Open
<1> QED BY <1>1, <1>2, ThreadEnd, SendChannel DEF Awaits

LEMMA SendLearnChannel ==
    ASSUME TypeInv, ChannelInv, NEW s \in Server, NEW a \in Acceptor, SendLearn(s, a)
    PROVE  ChannelInv'
<1>1. /\ lock[s] # None /\ thread[s][a] = "learnSpin" /\ thread'[s][a] = "done"
      /\ ThreadMoves(s, a) /\ UNCHANGED toThread
      /\ Send(s, a, "learn", 0)
  BY DEF SendLearn, At, Coordinating, Goto, ThreadMoves, TypeInv, TypeOK, ProposerTypes, parserVars,
         handlerVars, acceptorVars, processVars
<1>2. Sends(s, a, "learn", 0)
  BY <1>1, ThreadEnd DEF Sends, ThreadOK, Open
<1> QED BY <1>1, <1>2, ThreadEnd, SendChannel DEF Awaits

\* A thread that reads an answer reads the only one, and then nothing is
\* between the two ends.
LEMMA AnswerRead ==
    ASSUME TypeInv, ChannelInv, NEW s \in Server, NEW a \in Acceptor, lock[s] # None,
           NEW m \in toThread, Between(m, s, a), toThread' = toThread \ {m}
    PROVE  /\ \A k \in toAcceptor \cup toThread' : ~ Between(k, s, a)
           /\ Awaits(thread[s][a], m.type)
           /\ Current(s) \in Range(conns[a]) =>
                 /\ Serving(a) = Current(s) /\ phase[a] # "store"
                 /\ m.type = "promise" => phase[a] = "accept"
                 /\ m.type = "NACK" => phase[a] = "prepare"
                 /\ m.type = "accepted" => phase[a] = "learn"
<1>1. AnswerOK(m) /\ Awaits(thread[s][a], m.type)
  BY ThreadEnd
<1>2. m.type \in {"promise", "NACK", "accepted"}
  BY DEF TypeInv, TypeOK, NetTypes, ToThread
<1>3. \A k \in toThread : Between(k, s, a) => k = m
  BY DEF ChannelInv, ToThreadInv, Between
<1>4. \A k \in toAcceptor : ~ Between(k, s, a)
  BY <1>1 DEF AnswerOK, Between
<1>5. Current(s) \in Range(conns[a]) =>
         /\ Serving(a) = Current(s)
         /\ m.type = "promise" => phase[a] = "accept"
         /\ m.type = "NACK" => phase[a] = "prepare"
         /\ m.type = "accepted" => phase[a] = "learn"
  BY <1>1 DEF AnswerOK, Between
<1> QED BY <1>1, <1>2, <1>3, <1>4, <1>5

LEMMA ReceivePromiseChannel ==
    ASSUME TypeInv, ChannelInv, NEW s \in Server, NEW a \in Acceptor, ReceivePromise(s, a)
    PROVE  ChannelInv'
<1>1. PICK m \in toThread : /\ Between(m, s, a) /\ m.type = "promise"
                            /\ toThread' = toThread \ {m}
  BY DEF ReceivePromise, Answers, Between
<1>2. /\ lock[s] # None /\ thread[s][a] = "promise" /\ thread'[s][a] = "spin"
      /\ ThreadMoves(s, a) /\ UNCHANGED toAcceptor
  BY <1>1 DEF ReceivePromise, At, Coordinating, Goto, ThreadMoves, TypeInv, TypeOK, ProposerTypes, parserVars,
         handlerVars, acceptorVars, processVars
<1>3. ThreadOK(s, a)'
  BY <1>1, <1>2, AnswerRead, ThreadEnd DEF ThreadOK, Open, ThreadMoves, Current, Serving
<1> QED BY <1>1, <1>2, <1>3, AnswerRead, QuietChannel

LEMMA ReceiveAcceptedChannel ==
    ASSUME TypeInv, ChannelInv, NEW s \in Server, NEW a \in Acceptor, ReceiveAccepted(s, a)
    PROVE  ChannelInv'
<1>1. PICK m \in toThread : /\ Between(m, s, a) /\ m.type = "accepted"
                            /\ toThread' = toThread \ {m}
  BY DEF ReceiveAccepted, Answers, Between
<1>2. /\ lock[s] # None /\ thread[s][a] = "accepted" /\ thread'[s][a] = "learnSpin"
      /\ ThreadMoves(s, a) /\ UNCHANGED toAcceptor
  BY <1>1 DEF ReceiveAccepted, At, Coordinating, Goto, ThreadMoves, TypeInv, TypeOK, ProposerTypes, parserVars,
         handlerVars, acceptorVars, processVars
<1>3. ThreadOK(s, a)'
  BY <1>1, <1>2, AnswerRead, ThreadEnd DEF ThreadOK, Open, ThreadMoves, Current, Serving
<1> QED BY <1>1, <1>2, <1>3, AnswerRead, QuietChannel

LEMMA RetryChannel ==
    ASSUME TypeInv, ChannelInv, NEW s \in Server, NEW a \in Acceptor, Retry(s, a)
    PROVE  ChannelInv'
<1>1. PICK m \in toThread : /\ Between(m, s, a) /\ m.type = "NACK"
                            /\ toThread' = toThread \ {m}
                            /\ \E id : Send(s, a, "prepare", id)
  BY DEF Retry, Answers, Between
<1>4. PICK id : Send(s, a, "prepare", id)
  BY <1>1
<1>2. /\ lock[s] # None /\ thread[s][a] \in {"promise", "accepted"} /\ thread'[s][a] = "promise"
      /\ ThreadMoves(s, a)
  BY <1>1 DEF Retry, At, Coordinating, Goto, ThreadMoves, TypeInv, TypeOK, ProposerTypes, parserVars,
         handlerVars, acceptorVars, processVars
<1>3. Sends(s, a, "prepare", id)
  BY <1>1, <1>2, <1>4, AnswerRead, ThreadEnd DEF Sends, ThreadOK, Open
<1> QED BY <1>1, <1>2, <1>3, AnswerRead, SendChannel

LEMMA EndOfFileChannel ==
    ASSUME TypeInv, ChannelInv, NEW s \in Server, NEW a \in Acceptor, EndOfFile(s, a)
    PROVE  ChannelInv'
<1>1. /\ lock[s] # None /\ thread[s][a] \in {"promise", "accepted"} /\ a \in broken[s]
      /\ thread'[s][a] \in {"spin", "learnSpin"}
      /\ \A m \in toThread : ~ Between(m, s, a)
      /\ ThreadMoves(s, a) /\ UNCHANGED <<toAcceptor, toThread>>
  BY DEF EndOfFile, NoAnswer, At, Coordinating, Goto, ThreadMoves, TypeInv, TypeOK, ProposerTypes, parserVars,
         Between, handlerVars, acceptorVars, netVars, processVars
<1>2. Current(s) \notin Range(conns[a])
  BY <1>1, ThreadEnd
<1>3. \A m \in toAcceptor : ~ Between(m, s, a)
  BY <1>2 DEF ChannelInv, ToAcceptorInv, SentOK, Between
<1>4. ThreadOK(s, a)'
  BY <1>1 DEF ThreadOK, ThreadMoves
<1> QED BY <1>1, <1>2, <1>3, <1>4, QuietChannel

LEMMA AppendRange ==
    ASSUME NEW S, NEW seq \in Seq(S), NEW x \in S
    PROVE  /\ Range(Append(seq, x)) = Range(seq) \cup {x}
           /\ Append(seq, x) # <<>>
           /\ seq # <<>> => Head(Append(seq, x)) = Head(seq)
           /\ seq = <<>> => Head(Append(seq, x)) = x
<1>1. /\ Len(seq) \in Nat /\ DOMAIN seq = 1 .. Len(seq)
      /\ DOMAIN Append(seq, x) = 1 .. Len(seq) + 1
      /\ Append(seq, x)[Len(seq) + 1] = x
      /\ \A i \in 1 .. Len(seq) : Append(seq, x)[i] = seq[i]
  OBVIOUS
<1>2. Range(Append(seq, x)) \subseteq Range(seq) \cup {x}
  BY <1>1 DEF Range
<1>3. x \in Range(Append(seq, x))
  BY <1>1 DEF Range
<1>4. Range(seq) \subseteq Range(Append(seq, x))
  BY <1>1 DEF Range
<1> QED BY <1>2, <1>3, <1>4

LEMMA ConnectChannel ==
    ASSUME TypeInv, ChannelInv, NEW s \in Server, NEW a \in Acceptor, Connect(s, a)
    PROVE  ChannelInv'
<1>x. PICK x : x = Current(s)
  OBVIOUS
<1>1. /\ UNCHANGED <<issued, req, before, answered, lock, broken, toAcceptor, toThread,
                     phase, promised, up>>
      /\ lock[s] # None /\ a \in up /\ thread[s][a] = "connect" /\ thread'[s][a] = "propose"
      /\ \A t \in Server, b \in Acceptor : ~ (t = s /\ b = a) => thread'[t][b] = thread[t][b]
      /\ conns'[a] = Append(conns[a], x) /\ conns[a] \in Seq(Calls)
      /\ \A b \in Acceptor : b # a => conns'[b] = conns[b]
  BY <1>x DEF Connect, At, Coordinating, Goto, TypeInv, TypeOK, ProposerTypes, parserVars, AcceptorTypes,
              handlerVars, netVars, processVars
<1>2. /\ x \in Calls /\ Caller(x) = s /\ Working(x) /\ s \in up /\ req[x.handler] = x
      /\ State(x, a) = "connect" /\ a \notin broken[s]
  BY <1>1, <1>x, CurrentWorks, ThreadEnd DEF Working, ThreadOK
<1>3. /\ \A t \in Server : Current(t)' = Current(t)
      /\ \A c : Working(c)' = Working(c) /\ Caller(c)' = Caller(c)
  BY <1>1 DEF Current, Working, Caller
<1>4. \A c \in Calls, b \in Acceptor : Working(c) /\ ~ (c = x /\ b = a) => State(c, b)' = State(c, b)
  <2> SUFFICES ASSUME NEW c \in Calls, NEW b \in Acceptor, Working(c), ~ (c = x /\ b = a)
               PROVE  thread'[Caller(c)][b] = thread[Caller(c)][b]
    BY <1>3 DEF State
  <2>1. Caller(c) \in Server /\ (Caller(c) = s => c = x)
    BY <1>x, WorkingCurrent, CallType
  <2> QED BY <1>1, <2>1
<1>5. State(x, a)' = "propose"
  BY <1>1, <1>2, <1>3 DEF State
<1>6. /\ Range(conns'[a]) = Range(conns[a]) \cup {x} /\ x \notin Range(conns[a])
      /\ conns[a] # <<>> => Serving(a)' = Serving(a)
      /\ conns[a] = <<>> => Serving(a)' = x /\ phase[a] = "prepare"
      /\ conns'[a] # <<>>
      /\ \A b \in Acceptor : b # a => Serving(b)' = Serving(b)
  BY <1>1, <1>2, AppendRange DEF ChannelInv, ConnInv, Serving
<1>7. \A c : ~ (c = x) => (Serving(a)' = c => conns[a] # <<>> /\ Serving(a) = c)
  BY <1>6
<1>8. CallInv'
  <2>1. x.n <= issued[x.handler]
    BY <1>2, CallType DEF ChannelInv, CallInv
  <2> QED BY <1>1, <1>6, <2>1 DEF ChannelInv, CallInv, IsRead
<1>9. ConnInv'
  <2>1. ASSUME NEW b \in Acceptor, NEW c \in Range(conns'[b])
        PROVE  /\ b \in up
               /\ Caller(c) \in up /\ req[c.handler] = c =>
                     /\ Working(c) /\ State(c, b)' \notin {"none", "connect"}
                     /\ b \notin broken[Caller(c)]
    <3>1. CASE c = x /\ b = a
      BY <1>1, <1>2, <1>5, <3>1
    <3>2. CASE ~ (c = x /\ b = a)
      <4>3. c \in Range(conns[b])
        <5>1. CASE b = a
          BY <1>6, <2>1, <3>2, <5>1
        <5>2. CASE b # a
          BY <1>1, <2>1, <5>2
        <5> QED BY <5>1, <5>2
      <4>1. c \in Range(conns[b]) /\ c \in Calls
        BY <4>3, ConnCalls
      <4>2. /\ b \in up
            /\ Caller(c) \in up /\ req[c.handler] = c =>
                  /\ Working(c) /\ State(c, b) \notin {"none", "connect"}
                  /\ b \notin broken[Caller(c)]
        BY <4>1 DEF ChannelInv, ConnInv
      <4> QED BY <1>4, <3>2, <4>1, <4>2
    <3> QED BY <3>1, <3>2
  <2>2. \A b \in Acceptor : conns'[b] = <<>> => phase[b] = "prepare"
    BY <1>1, <1>6 DEF ChannelInv, ConnInv
  <2> QED BY <1>1, <1>3, <2>1, <2>2 DEF ChannelInv, ConnInv
<1>10. ToAcceptorInv'
  <2>1. ASSUME NEW m \in toAcceptor PROVE SentOK(m)'
    <3>1. m.call \in Calls /\ m.acceptor \in Acceptor /\ SentOK(m)
      BY MessageType DEF ChannelInv, ToAcceptorInv
    <3>2. m.call \in Range(conns[m.acceptor]) /\ conns[m.acceptor] # <<>>
      BY <3>1, ConnCalls DEF SentOK
    <3>3. Serving(m.acceptor)' = Serving(m.acceptor) /\ m.call \in Range(conns'[m.acceptor])
      BY <1>1, <1>6, <3>1, <3>2
    <3>4. Working(m.call) => State(m.call, m.acceptor)' = State(m.call, m.acceptor)
      BY <1>4, <1>6, <3>1, <3>2
    <3> QED BY <1>1, <1>3, <3>1, <3>3, <3>4 DEF SentOK
  <2> QED BY <1>1, <2>1 DEF ChannelInv, ToAcceptorInv
<1>11. ToThreadInv'
  <2>1. ASSUME NEW m \in toThread PROVE AnswerOK(m)'
    <3>1. m.call \in Calls /\ m.acceptor \in Acceptor /\ AnswerOK(m)
      BY MessageType DEF ChannelInv, ToThreadInv
    <3>2. ~ (m.call = x /\ m.acceptor = a)
      BY <1>2, <3>1 DEF AnswerOK, Awaits
    <3>3. State(m.call, m.acceptor)' = State(m.call, m.acceptor)
      BY <1>4, <3>1, <3>2 DEF AnswerOK
    <3>4. m.call \in Range(conns'[m.acceptor]) =>
             m.call \in Range(conns[m.acceptor]) /\ Serving(m.acceptor)' = Serving(m.acceptor)
      <4>1. m.call \in Range(conns'[m.acceptor]) => m.call \in Range(conns[m.acceptor])
        BY <1>1, <1>6, <3>1, <3>2
      <4>2. m.call \in Range(conns[m.acceptor]) => conns[m.acceptor] # <<>>
        BY <3>1, ConnCalls
      <4> QED BY <1>6, <3>1, <4>1, <4>2
    <3> QED BY <1>1, <1>3, <3>1, <3>3, <3>4 DEF AnswerOK
  <2> QED BY <1>1, <2>1 DEF ChannelInv, ToThreadInv
<1>12. ThreadInv'
  <2> SUFFICES ASSUME NEW t \in Server, NEW b \in Acceptor, lock[t] # None PROVE ThreadOK(t, b)'
    BY <1>1 DEF ThreadInv
  <2>1. CASE t = s /\ b = a
    <3>1. Serving(a)' = x => phase[a] = "prepare"
      BY <1>6, ConnCalls
    <3>2. Current(s)' = x /\ x \in Range(conns'[a])
      BY <1>x, <1>3, <1>6
    <3> QED BY <1>1, <2>1, <3>1, <3>2 DEF ThreadOK, Open
  <2>2. CASE ~ (t = s /\ b = a)
    <3>1. ThreadOK(t, b) /\ thread'[t][b] = thread[t][b]
      BY <1>1, <2>2 DEF ChannelInv, ThreadInv
    <3>2. Current(t) \in Range(conns[b]) =>
             Serving(b)' = Serving(b) /\ Current(t) \in Range(conns'[b])
      BY <1>1, <1>6, ConnCalls
    <3> QED BY <1>1, <1>3, <3>1, <3>2 DEF ThreadOK
  <2> QED BY <2>1, <2>2
<1>13. FileInv'
  <2> SUFFICES ASSUME NEW b \in Acceptor, conns'[b] # <<>>, NEW c, c = Serving(b)', Caller(c) \in up
               PROVE  /\ phase[b] = "store" => Working(c) /\ State(c, b)' = "promise"
                      /\ phase[b] = "write" /\ Working(c) => State(c, b)' = "done"
    BY <1>1, <1>3 DEF FileInv, State, Caller
  <2>1. CASE b = a /\ conns[a] = <<>>
    BY <1>6, <2>1
  <2>2. CASE ~ (b = a /\ conns[a] = <<>>)
    <3>1. conns[b] # <<>> /\ c = Serving(b) /\ c \in Range(conns[b]) /\ c \in Calls
      BY <1>1, <1>6, <2>2, ConnCalls
    <3>2. ~ (c = x /\ b = a)
      BY <1>6, <3>1
    <3> QED BY <1>4, <3>1, <3>2 DEF ChannelInv, FileInv
  <2> QED BY <2>1, <2>2
<1> QED BY <1>8, <1>9, <1>10, <1>11, <1>12, <1>13 DEF ChannelInv

-----------------------------------------------------------------------------
(* The steps of acceptor a, which serves call d. *)

With(m, d, a) == m.call = d /\ m.acceptor = a

\* What all of them leave alone.
AcceptorMoves(a) ==
    /\ a \in up /\ conns[a] # <<>>
    /\ UNCHANGED <<issued, req, before, answered, lock, thread, broken, up>>
    /\ \A b \in Acceptor : b # a => /\ conns'[b] = conns[b] /\ phase'[b] = phase[b]
                                    /\ promised'[b] = promised[b]
    /\ toAcceptor' \subseteq toAcceptor

LEMMA AcceptorFrameCalls ==
    ASSUME NEW a \in Acceptor, AcceptorMoves(a)
    PROVE  /\ \A t \in Server : Current(t)' = Current(t)
           /\ \A c : Working(c)' = Working(c) /\ Caller(c)' = Caller(c)
           /\ \A c : \A b : State(c, b)' = State(c, b)
           /\ \A b \in Acceptor : b # a => Serving(b)' = Serving(b)
BY DEF AcceptorMoves, Current, Working, Caller, State, Serving

\* It reads the message there is, if there is one, and may answer.
LEMMA ServeChannel ==
    ASSUME TypeInv, ChannelInv, NEW a \in Acceptor, NEW d, AcceptorMoves(a),
           d = Serving(a), UNCHANGED conns,
           \A m \in toAcceptor' : ~ With(m, d, a),
           \A m \in toThread : ~ With(m, d, a),
           \A m \in toThread' : m \in toThread \/ (With(m, d, a) /\ AnswerOK(m)'),
           \A m, k \in toThread' \ toThread : m = k,
           \A s \in Server : lock[s] # None /\ Current(s) = d => ThreadOK(s, a)',
           Caller(d) \in up => /\ phase'[a] = "store" => Working(d) /\ State(d, a) = "promise"
                               /\ phase'[a] = "write" /\ Working(d) => State(d, a) = "done"
    PROVE  ChannelInv'
<1> USE DEF AcceptorMoves
<1>1. /\ \A t \in Server : Current(t)' = Current(t)
      /\ \A c : Working(c)' = Working(c) /\ Caller(c)' = Caller(c)
      /\ \A c : \A b : State(c, b)' = State(c, b)
      /\ \A b \in Acceptor : Serving(b)' = Serving(b)
  BY AcceptorFrameCalls DEF Serving
<1>2. CallInv'
  BY DEF ChannelInv, CallInv, IsRead
<1>3. ConnInv'
  <2>1. \A b \in Acceptor : conns[b] = <<>> => phase'[b] = "prepare"
    BY DEF ChannelInv, ConnInv
  <2> QED BY <1>1, <2>1 DEF ChannelInv, ConnInv
<1>4. ToAcceptorInv'
  <2>1. ASSUME NEW m \in toAcceptor' PROVE SentOK(m)'
    <3>1. m.acceptor \in Acceptor /\ SentOK(m) /\ (m.acceptor = a => Serving(a) # m.call)
      BY <2>1, MessageType DEF ChannelInv, ToAcceptorInv, With
    <3>2. CASE m.acceptor = a
      BY <1>1, <3>1, <3>2 DEF SentOK
    <3>3. CASE m.acceptor # a
      BY <1>1, <3>1, <3>3 DEF SentOK
    <3> QED BY <3>2, <3>3
  <2> QED BY <2>1 DEF ChannelInv, ToAcceptorInv
<1>5. ToThreadInv'
  <2>1. ASSUME NEW m \in toThread' PROVE AnswerOK(m)'
    <3> SUFFICES ASSUME m \in toThread PROVE AnswerOK(m)'
      BY <2>1
    <3>1. /\ m.acceptor \in Acceptor /\ AnswerOK(m)
          /\ m.acceptor = a => Serving(a) # m.call
      BY <2>1, MessageType DEF ChannelInv, ToThreadInv, With
    <3>2. CASE m.acceptor = a
      BY <1>1, <3>1, <3>2 DEF AnswerOK
    <3>3. CASE m.acceptor # a
      BY <1>1, <3>1, <3>3 DEF AnswerOK
    <3> QED BY <3>2, <3>3
  <2>2. ASSUME NEW m \in toThread', NEW k \in toThread', m.call = k.call, m.acceptor = k.acceptor
        PROVE  m = k
    BY <2>2 DEF ChannelInv, ToThreadInv, With
  <2> QED BY <2>1, <2>2 DEF ToThreadInv
<1>6. ThreadInv'
  <2> SUFFICES ASSUME NEW t \in Server, NEW b \in Acceptor, lock[t] # None PROVE ThreadOK(t, b)'
    BY DEF ThreadInv
  <2>1. ThreadOK(t, b)
    BY DEF ChannelInv, ThreadInv
  <2>2. CASE b = a /\ Current(t) = d
    BY <2>2
  <2>3. CASE b = a /\ Current(t) # d
    BY <1>1, <2>1, <2>3 DEF ThreadOK
  <2>4. CASE b # a
    BY <1>1, <2>1, <2>4 DEF ThreadOK
  <2> QED BY <2>2, <2>3, <2>4
<1>7. FileInv'
  <2> SUFFICES ASSUME NEW b \in Acceptor, conns[b] # <<>>, NEW c, c = Serving(b), Caller(c) \in up
               PROVE  /\ phase'[b] = "store" => Working(c) /\ State(c, b) = "promise"
                      /\ phase'[b] = "write" /\ Working(c) => State(c, b) = "done"
    BY <1>1 DEF FileInv
  <2> QED BY DEF ChannelInv, FileInv
<1> QED BY <1>2, <1>3, <1>4, <1>5, <1>6, <1>7 DEF ChannelInv

LEMMA TailRange ==
    ASSUME NEW S, NEW seq \in Seq(S), seq # <<>>
    PROVE  /\ Range(Tail(seq)) \subseteq Range(seq)
           /\ \A c \in Range(seq) : c # Head(seq) => c \in Range(Tail(seq))
<1>1. /\ Len(seq) \in Nat \ {0} /\ DOMAIN seq = 1 .. Len(seq)
      /\ DOMAIN Tail(seq) = 1 .. Len(seq) - 1 /\ Head(seq) = seq[1]
      /\ \A i \in 1 .. Len(seq) - 1 : Tail(seq)[i] = seq[i + 1]
  OBVIOUS
<1>2. ASSUME NEW c \in Range(Tail(seq)) PROVE c \in Range(seq)
  <2>1. PICK i \in 1 .. Len(seq) - 1 : Tail(seq)[i] = c
    BY <1>1, <1>2 DEF Range
  <2>2. i + 1 \in 1 .. Len(seq) /\ seq[i + 1] = c
    BY <1>1, <2>1
  <2> QED BY <1>1, <2>2 DEF Range
<1>3. ASSUME NEW c \in Range(seq), c # Head(seq) PROVE c \in Range(Tail(seq))
  <2>1. PICK i \in 1 .. Len(seq) : seq[i] = c
    BY <1>1, <1>3 DEF Range
  <2>2. i - 1 \in 1 .. Len(seq) - 1 /\ i = (i - 1) + 1
    BY <1>1, <1>3, <2>1
  <2>3. Tail(seq)[i - 1] = c
    BY <1>1, <2>1, <2>2
  <2> QED BY <1>1, <2>2, <2>3 DEF Range
<1> QED BY <1>2, <1>3

\* It closes the connection and turns to the next.
LEMMA CloseChannel ==
    ASSUME TypeInv, ChannelInv, NEW a \in Acceptor, NEW d, AcceptorMoves(a),
           d = Serving(a), Close(a), UNCHANGED <<promised, toThread>>,
           \A m \in toAcceptor' \cup toThread : ~ With(m, d, a),
           \A s \in Server : lock[s] # None /\ Current(s) = d => thread[s][a] = "done"
    PROVE  ChannelInv'
<1> USE DEF AcceptorMoves
<1>1. /\ \A t \in Server : Current(t)' = Current(t)
      /\ \A c : Working(c)' = Working(c) /\ Caller(c)' = Caller(c)
      /\ \A c : \A b : State(c, b)' = State(c, b)
      /\ \A b \in Acceptor : b # a => Serving(b)' = Serving(b)
  BY AcceptorFrameCalls
<1>2. /\ conns'[a] = Tail(conns[a]) /\ phase'[a] = "prepare" /\ conns[a] \in Seq(Calls)
  BY DEF Close, TypeInv, TypeOK, AcceptorTypes
<1>3. /\ \A b \in Acceptor : Range(conns'[b]) \subseteq Range(conns[b])
      /\ \A c \in Range(conns[a]) : c # d => c \in Range(conns'[a])
  BY <1>2, TailRange DEF Serving
<1>4. CallInv'
  BY <1>3 DEF ChannelInv, CallInv, IsRead
<1>5. ConnInv'
  <2>1. \A b \in Acceptor : conns'[b] = <<>> => phase'[b] = "prepare"
    BY <1>2 DEF ChannelInv, ConnInv
  <2> QED BY <1>1, <1>3, <2>1 DEF ChannelInv, ConnInv
<1>6. ToAcceptorInv'
  <2>1. ASSUME NEW m \in toAcceptor' PROVE SentOK(m)'
    <3>1. m.acceptor \in Acceptor /\ SentOK(m) /\ (m.acceptor = a => d # m.call)
      BY <2>1, MessageType DEF ChannelInv, ToAcceptorInv, With
    <3>2. CASE m.acceptor = a
      BY <1>1, <1>2, <1>3, <3>1, <3>2 DEF SentOK
    <3>3. CASE m.acceptor # a
      BY <1>1, <3>1, <3>3 DEF SentOK
    <3> QED BY <3>2, <3>3
  <2> QED BY <2>1 DEF ChannelInv, ToAcceptorInv
<1>7. ToThreadInv'
  <2>1. ASSUME NEW m \in toThread PROVE AnswerOK(m)'
    <3>1. m.acceptor \in Acceptor /\ AnswerOK(m) /\ (m.acceptor = a => d # m.call)
      BY <2>1, MessageType DEF ChannelInv, ToThreadInv, With
    <3>2. CASE m.acceptor = a
      BY <1>1, <1>3, <3>1, <3>2 DEF AnswerOK
    <3>3. CASE m.acceptor # a
      BY <1>1, <3>1, <3>3 DEF AnswerOK
    <3> QED BY <3>2, <3>3
  <2> QED BY <2>1 DEF ChannelInv, ToThreadInv
<1>8. ThreadInv'
  <2> SUFFICES ASSUME NEW t \in Server, NEW b \in Acceptor, lock[t] # None PROVE ThreadOK(t, b)'
    BY DEF ThreadInv
  <2>1. ThreadOK(t, b)
    BY DEF ChannelInv, ThreadInv
  <2>2. CASE b = a /\ Current(t) = d
    BY <2>2 DEF ThreadOK, Open
  <2>3. CASE b = a /\ Current(t) # d
    BY <1>1, <1>2, <1>3, <2>1, <2>3 DEF ThreadOK
  <2>4. CASE b # a
    BY <1>1, <2>1, <2>4 DEF ThreadOK
  <2> QED BY <2>2, <2>3, <2>4
<1>9. FileInv'
  <2> SUFFICES ASSUME NEW b \in Acceptor, b # a, conns[b] # <<>>, NEW c, c = Serving(b), Caller(c) \in up
               PROVE  /\ phase[b] = "store" => Working(c) /\ State(c, b) = "promise"
                      /\ phase[b] = "write" /\ Working(c) => State(c, b) = "done"
    BY <1>1, <1>2 DEF FileInv
  <2> QED BY DEF ChannelInv, FileInv
<1> QED BY <1>4, <1>5, <1>6, <1>7, <1>8, <1>9 DEF ChannelInv

\* What there can be on the connection an acceptor serves.
LEMMA AcceptorEnd ==
    ASSUME TypeInv, ChannelInv, NEW a \in Acceptor, NEW d, conns[a] # <<>>, d = Serving(a)
    PROVE  /\ d \in Calls /\ d \in Range(conns[a]) /\ a \in up
           /\ \A m \in toAcceptor : With(m, d, a) =>
                 /\ SentOK(m) /\ \A k \in toThread : ~ With(k, d, a)
                 /\ \A k \in toAcceptor : With(k, d, a) => k = m
                 /\ m.type = phase[a]
           /\ \A m \in toThread : With(m, d, a) =>
                 phase[a] \in {"prepare", "accept", "learn"} /\ Caller(d) \in up
           /\ \A s \in Server : lock[s] # None /\ Current(s) = d =>
                 /\ Working(d) /\ Caller(d) = s /\ s \in up /\ State(d, a) = thread[s][a]
                 /\ ThreadOK(s, a)
<1>1. d \in Range(conns[a]) /\ d \in Calls /\ a \in up
  BY ConnCalls DEF ChannelInv, ConnInv
<1>2. ASSUME NEW m \in toAcceptor, With(m, d, a)
      PROVE  /\ SentOK(m) /\ \A k \in toThread : ~ With(k, d, a)
             /\ \A k \in toAcceptor : With(k, d, a) => k = m
             /\ m.type = phase[a]
  <2>1. m.type \in {"prepare", "accept", "learn"}
    BY DEF TypeInv, TypeOK, NetTypes, ToAcceptor
  <2>2. SentOK(m) /\ \A k \in toAcceptor : With(k, d, a) => k = m
    BY <1>2 DEF ChannelInv, ToAcceptorInv, With
  <2>3. \A k \in toThread : ~ With(k, d, a)
    BY <1>2 DEF ChannelInv, ToThreadInv, AnswerOK, With
  <2> QED BY <1>2, <2>1, <2>2, <2>3 DEF SentOK, With
<1>3. ASSUME NEW m \in toThread, With(m, d, a)
      PROVE  phase[a] \in {"prepare", "accept", "learn"} /\ Caller(d) \in up
  <2>1. m.type \in {"promise", "NACK", "accepted"}
    BY DEF TypeInv, TypeOK, NetTypes, ToThread
  <2> QED BY <1>1, <1>3, <2>1 DEF ChannelInv, ToThreadInv, AnswerOK, With
<1>4. ASSUME NEW s \in Server, lock[s] # None, Current(s) = d
      PROVE  /\ Working(d) /\ Caller(d) = s /\ s \in up /\ State(d, a) = thread[s][a]
             /\ ThreadOK(s, a)
  BY <1>4, CurrentWorks DEF ChannelInv, ThreadInv
<1> QED BY <1>1, <1>2, <1>3, <1>4

\* It reads a message: the only one.
LEMMA MessageRead ==
    ASSUME TypeInv, ChannelInv, NEW a \in Acceptor, NEW d, conns[a] # <<>>, d = Serving(a),
           NEW type, NEW m \in Inbox(a, type), toAcceptor' = toAcceptor \ {m}
    PROVE  /\ m \in toAcceptor /\ m.type = type /\ With(m, d, a) /\ SentOK(m)
           /\ \A k \in toAcceptor' \cup toThread : ~ With(k, d, a)
<1>1. m \in toAcceptor /\ m.type = type /\ With(m, d, a)
  BY DEF Inbox, With
<1> QED BY <1>1, AcceptorEnd

\* It answers what the thread waits for.
Replies(a, d, type, id) ==
    /\ Reply(a, type, id)
    /\ Caller(d) \in up =>
         /\ Working(d) /\ Awaits(State(d, a), type)
         /\ type = "promise" => phase'[a] = "accept"
         /\ type = "NACK" => phase'[a] = "prepare"
         /\ type = "accepted" => phase'[a] = "learn"

LEMMA ReplyChannel ==
    ASSUME TypeInv, ChannelInv, NEW a \in Acceptor, NEW d, AcceptorMoves(a),
           d = Serving(a), UNCHANGED conns,
           \A m \in toAcceptor' : ~ With(m, d, a),
           \A m \in toThread : ~ With(m, d, a),
           NEW type \in {"promise", "NACK", "accepted"}, NEW id, Replies(a, d, type, id),
           phase'[a] \in {"prepare", "accept", "learn"}
    PROVE  ChannelInv'
<1>m. PICK k : k = [type |-> type, call |-> d, acceptor |-> a, id |-> id]
  OBVIOUS
<1>1. toThread' = IF Caller(d) \notin up THEN toThread ELSE toThread \cup {k}
  BY <1>m DEF Replies, Reply
<1>2. With(k, d, a) /\ k.type = type /\ k.id = id /\ k.call = d /\ k.acceptor = a
  BY <1>m DEF With
<1>3. Caller(d) \in up => AnswerOK(k)'
  <2>1. /\ Serving(a)' = d /\ Working(d)' = Working(d) /\ Caller(d)' = Caller(d)
        /\ State(d, a)' = State(d, a) /\ up' = up
    BY AcceptorFrameCalls DEF Serving, AcceptorMoves
  <2> QED BY <1>2, <2>1 DEF Replies, AnswerOK, With
<1>4. \A m \in toThread' : m \in toThread \/ (With(m, d, a) /\ AnswerOK(m)')
  BY <1>1, <1>2, <1>3
<1>5. \A m, n \in toThread' \ toThread : m = n
  BY <1>1
<1>6. \A s \in Server : lock[s] # None /\ Current(s) = d => ThreadOK(s, a)'
  <2> SUFFICES ASSUME NEW s \in Server, lock[s] # None, Current(s) = d PROVE ThreadOK(s, a)'
    OBVIOUS
  <2>1. /\ conns[a] # <<>> /\ UNCHANGED <<broken, thread, conns>> /\ Current(s)' = Current(s)
    BY AcceptorFrameCalls DEF AcceptorMoves
  <2>2. ThreadOK(s, a) /\ thread[s][a] \in {"promise", "accepted"}
    BY <2>1, AcceptorEnd DEF Replies, Awaits
  <2> QED BY <2>1, <2>2 DEF ThreadOK
<1> QED BY <1>4, <1>5, <1>6, ServeChannel

LEMMA PromiseChannel ==
    ASSUME TypeInv, ChannelInv, NEW a \in Acceptor, Promise(a)
    PROVE  ChannelInv'
<1>d. PICK d : d = Serving(a)
  OBVIOUS
<1>1. PICK m \in Inbox(a, "prepare") : toAcceptor' = toAcceptor \ {m}
  BY DEF Promise
<1>2. /\ conns[a] # <<>> /\ AcceptorMoves(a) /\ UNCHANGED <<conns, toThread>>
      /\ phase'[a] = "store"
  BY DEF Promise, In, Enter, AcceptorMoves, TypeInv, TypeOK, AcceptorTypes, handlerVars, proposerVars,
         processVars
<1>3. /\ m.type = "prepare" /\ With(m, d, a) /\ SentOK(m)
      /\ \A k \in toAcceptor' \cup toThread : ~ With(k, d, a)
  BY <1>d, <1>1, <1>2, MessageRead
<1>4. Caller(d) \in up => Working(d) /\ State(d, a) = "promise"
  BY <1>3 DEF SentOK, With
<1>5. \A s \in Server : lock[s] # None /\ Current(s) = d => ThreadOK(s, a)'
  <2> SUFFICES ASSUME NEW s \in Server, lock[s] # None, Current(s) = d PROVE ThreadOK(s, a)'
    OBVIOUS
  <2>1. ThreadOK(s, a) /\ thread[s][a] = "promise"
    BY <1>d, <1>2, <1>4, AcceptorEnd
  <2>2. UNCHANGED <<broken, thread>> /\ Current(s)' = Current(s)
    BY <1>2, AcceptorFrameCalls DEF AcceptorMoves
  <2> QED BY <1>2, <2>1, <2>2 DEF ThreadOK
<1> QED BY <1>d, <1>2, <1>3, <1>4, <1>5, ServeChannel

LEMMA StorePromiseChannel ==
    ASSUME TypeInv, ChannelInv, NEW a \in Acceptor, StorePromise(a)
    PROVE  ChannelInv'
<1>d. PICK d : d = Serving(a)
  OBVIOUS
<1>1. /\ conns[a] # <<>> /\ phase[a] = "store" /\ AcceptorMoves(a)
      /\ UNCHANGED <<conns, toAcceptor, promised>>
      /\ phase'[a] = "accept" /\ Reply(a, "promise", promised[a])
  BY DEF StorePromise, In, Enter, AcceptorMoves, TypeInv, TypeOK, AcceptorTypes, handlerVars,
         proposerVars, processVars
<1>2. /\ \A m \in toAcceptor' : ~ With(m, d, a)
      /\ \A m \in toThread : ~ With(m, d, a)
  <2>1. \A m \in toAcceptor : m.type \in {"prepare", "accept", "learn"}
    BY DEF TypeInv, TypeOK, NetTypes, ToAcceptor
  <2> QED BY <1>d, <1>1, <2>1, AcceptorEnd
<1>3. Caller(d) \in up => Working(d) /\ State(d, a) = "promise"
  BY <1>d, <1>1 DEF ChannelInv, FileInv
<1>4. Replies(a, d, "promise", promised[a])
  BY <1>1, <1>3 DEF Replies, Awaits
<1> QED BY <1>d, <1>1, <1>2, <1>4, ReplyChannel

LEMMA RefusePrepareChannel ==
    ASSUME TypeInv, ChannelInv, NEW a \in Acceptor, RefusePrepare(a)
    PROVE  ChannelInv'
<1>d. PICK d : d = Serving(a)
  OBVIOUS
<1>1. PICK m \in Inbox(a, "prepare") : toAcceptor' = toAcceptor \ {m} /\ Reply(a, "NACK", m.id)
  BY DEF RefusePrepare
<1>2. /\ conns[a] # <<>> /\ AcceptorMoves(a) /\ UNCHANGED conns
      /\ phase'[a] = "prepare"
  BY DEF RefusePrepare, In, AcceptorMoves, handlerVars, proposerVars, acceptorVars, processVars
<1>3. /\ m.type = "prepare" /\ With(m, d, a) /\ SentOK(m)
      /\ \A k \in toAcceptor' \cup toThread : ~ With(k, d, a)
  BY <1>d, <1>1, <1>2, MessageRead
<1>4. Replies(a, d, "NACK", m.id)
  BY <1>1, <1>2, <1>3 DEF Replies, SentOK, With, Awaits
<1> QED BY <1>d, <1>2, <1>3, <1>4, ReplyChannel

LEMMA AnswerAcceptChannel ==
    ASSUME TypeInv, ChannelInv, NEW a \in Acceptor, AnswerAccept(a)
    PROVE  ChannelInv'
<1>d. PICK d : d = Serving(a)
  OBVIOUS
<1>1. conns[a] # <<>>
  BY DEF AnswerAccept, In
<1>2. PICK m \in Inbox(a, "accept") :
          /\ toAcceptor' = toAcceptor \ {m}
          /\ \/ Reply(a, "accepted", m.id) /\ Enter(a, "learn")
             \/ Reply(a, "NACK", m.id) /\ Enter(a, "prepare")
  BY <1>1 DEF AnswerAccept
<1>3. AcceptorMoves(a) /\ UNCHANGED conns /\ phase'[a] \in {"learn", "prepare"}
  BY <1>2 DEF AnswerAccept, In, Enter, AcceptorMoves, TypeInv, TypeOK, AcceptorTypes, handlerVars,
              proposerVars, processVars
<1>4. /\ m.type = "accept" /\ With(m, d, a) /\ SentOK(m)
      /\ \A k \in toAcceptor' \cup toThread : ~ With(k, d, a)
  BY <1>d, <1>1, <1>2, MessageRead
<1>5. Replies(a, d, "accepted", m.id) \/ Replies(a, d, "NACK", m.id)
  <2>1. (Caller(d) \in up => Working(d) /\ State(d, a) = "accepted") /\ phase \in [Acceptor -> AcceptorPhase]
    BY <1>4 DEF SentOK, With, TypeInv, TypeOK, AcceptorTypes
  <2> QED BY <1>2, <2>1 DEF Replies, Enter, Awaits
<1> QED BY <1>d, <1>3, <1>4, <1>5, ReplyChannel

\* Who waits for nothing any more: the thread has ended, or goes on elsewhere.
LEMMA LearnTaken ==
    ASSUME TypeInv, ChannelInv, NEW a \in Acceptor, conns[a] # <<>>,
           NEW m \in Inbox(a, "learn"), NEW d, d = Serving(a), toAcceptor' = toAcceptor \ {m}
    PROVE  /\ \A k \in toAcceptor' \cup toThread : ~ With(k, d, a)
           /\ Caller(d) \in up /\ Working(d) => State(d, a) = "done"
           /\ \A s \in Server : lock[s] # None /\ Current(s) = d => thread[s][a] = "done"
<1>1. /\ m.type = "learn" /\ With(m, d, a) /\ SentOK(m)
      /\ \A k \in toAcceptor' \cup toThread : ~ With(k, d, a)
  BY MessageRead
<1>2. Caller(d) \in up /\ Working(d) => State(d, a) = "done"
  BY <1>1 DEF SentOK, With
<1> QED BY <1>1, <1>2, AcceptorEnd

LEMMA LearnWriteChannel ==
    ASSUME TypeInv, ChannelInv, NEW a \in Acceptor, LearnWrite(a)
    PROVE  ChannelInv'
<1>d. PICK d : d = Serving(a)
  OBVIOUS
<1>1. PICK m \in Inbox(a, "learn") : toAcceptor' = toAcceptor \ {m}
  BY DEF LearnWrite
<1>2. conns[a] # <<>> /\ AcceptorMoves(a) /\ Close(a) /\ UNCHANGED <<promised, toThread>>
  BY DEF LearnWrite, In, Close, AcceptorMoves, TypeInv, TypeOK, AcceptorTypes, handlerVars,
         proposerVars, processVars
<1>3. /\ \A k \in toAcceptor' \cup toThread : ~ With(k, d, a)
      /\ \A s \in Server : lock[s] # None /\ Current(s) = d => thread[s][a] = "done"
  BY <1>d, <1>1, <1>2, LearnTaken
<1> QED BY <1>d, <1>2, <1>3, CloseChannel

LEMMA LearnReadChannel ==
    ASSUME TypeInv, ChannelInv, NEW a \in Acceptor, LearnRead(a)
    PROVE  ChannelInv'
<1>d. PICK d : d = Serving(a)
  OBVIOUS
<1>1. PICK m \in Inbox(a, "learn") : toAcceptor' = toAcceptor \ {m}
  BY DEF LearnRead
<1>2. /\ conns[a] # <<>> /\ AcceptorMoves(a) /\ UNCHANGED <<conns, toThread>>
      /\ phase'[a] = "write"
  BY DEF LearnRead, In, Enter, AcceptorMoves, TypeInv, TypeOK, AcceptorTypes, handlerVars,
         proposerVars, processVars
<1>3. /\ \A k \in toAcceptor' \cup toThread : ~ With(k, d, a)
      /\ Caller(d) \in up /\ Working(d) => State(d, a) = "done"
      /\ \A s \in Server : lock[s] # None /\ Current(s) = d => thread[s][a] = "done"
  BY <1>d, <1>1, <1>2, LearnTaken
<1>4. \A s \in Server : lock[s] # None /\ Current(s) = d => ThreadOK(s, a)'
  <2> SUFFICES ASSUME NEW s \in Server, lock[s] # None, Current(s) = d PROVE ThreadOK(s, a)'
    OBVIOUS
  <2>1. thread'[s][a] = "done"
    BY <1>2, <1>3 DEF AcceptorMoves
  <2> QED BY <2>1 DEF ThreadOK, Open
<1> QED BY <1>d, <1>2, <1>3, <1>4, ServeChannel

LEMMA WriteBufferChannel ==
    ASSUME TypeInv, ChannelInv, NEW a \in Acceptor, WriteBuffer(a)
    PROVE  ChannelInv'
<1>d. PICK d : d = Serving(a)
  OBVIOUS
<1>1. /\ conns[a] # <<>> /\ phase[a] = "write" /\ AcceptorMoves(a) /\ Close(a)
      /\ UNCHANGED <<promised, toThread, toAcceptor>>
  BY DEF WriteBuffer, In, Close, AcceptorMoves, TypeInv, TypeOK, AcceptorTypes, handlerVars,
         proposerVars, netVars, processVars
<1>2. \A k \in toAcceptor' \cup toThread : ~ With(k, d, a)
  <2>1. \A m \in toAcceptor : m.type \in {"prepare", "accept", "learn"}
    BY DEF TypeInv, TypeOK, NetTypes, ToAcceptor
  <2> QED BY <1>d, <1>1, <2>1, AcceptorEnd
<1>3. \A s \in Server : lock[s] # None /\ Current(s) = d => thread[s][a] = "done"
  <2> SUFFICES ASSUME NEW s \in Server, lock[s] # None, Current(s) = d PROVE thread[s][a] = "done"
    OBVIOUS
  <2>1. Working(d) /\ Caller(d) \in up /\ State(d, a) = thread[s][a]
    BY <1>d, <1>1, AcceptorEnd
  <2> QED BY <1>d, <1>1, <2>1 DEF ChannelInv, FileInv
<1> QED BY <1>d, <1>1, <1>2, <1>3, CloseChannel

LEMMA OrphanClosesChannel ==
    ASSUME TypeInv, ChannelInv, NEW a \in Acceptor, OrphanCloses(a)
    PROVE  ChannelInv'
<1>d. PICK d : d = Serving(a)
  OBVIOUS
<1>1. /\ conns[a] # <<>> /\ Caller(d) \notin up /\ AcceptorMoves(a) /\ Close(a)
      /\ UNCHANGED <<promised, toThread, toAcceptor>>
      /\ \A m \in toAcceptor : ~ With(m, d, a)
  BY <1>d DEF OrphanCloses, Orphaned, In, With, Close, AcceptorMoves, TypeInv, TypeOK, AcceptorTypes,
              handlerVars, proposerVars, netVars, processVars
<1>2. \A k \in toAcceptor' \cup toThread : ~ With(k, d, a)
  BY <1>d, <1>1, AcceptorEnd
<1>3. \A s \in Server : ~ (lock[s] # None /\ Current(s) = d)
  BY <1>d, <1>1, AcceptorEnd
<1> QED BY <1>d, <1>1, <1>2, <1>3, CloseChannel

-----------------------------------------------------------------------------
LEMMA NextChannel == TypeInv /\ ChannelInv /\ [Next]_vars => ChannelInv'
<1> SUFFICES ASSUME TypeInv, ChannelInv, [Next]_vars PROVE ChannelInv'
  OBVIOUS
<1>1. ASSUME NEW h \in Handler, NEW r \in Request, Invoke(h, r) PROVE ChannelInv'
  BY <1>1, InvokeChannel
<1>2. ASSUME NEW h \in Handler, Acquire(h) PROVE ChannelInv'
  BY <1>2, AcquireChannel
<1>3. ASSUME NEW s \in Server, Return(s) PROVE ChannelInv'
  BY <1>3, ReturnChannel
<1>4. ASSUME NEW s \in Server, NEW a \in Acceptor, ThreadStep(s, a) PROVE ChannelInv'
  BY <1>4, ConnectChannel, ConnectFailChannel, ProposeChannel, ReceivePromiseChannel, RetryChannel,
     SendAcceptChannel, ReceiveAcceptedChannel, SendLearnChannel, EndOfFileChannel,
     ServerDiesChannel DEF ThreadStep, EndOfFileFaults, ParseFaults, BrokenPipe
<1>5. ASSUME NEW a \in Acceptor, AcceptorStep(a) PROVE ChannelInv'
  BY <1>5, PromiseChannel, StorePromiseChannel, RefusePrepareChannel, AnswerAcceptChannel,
     LearnWriteChannel, LearnReadChannel, WriteBufferChannel, OrphanClosesChannel,
     AcceptorDiesChannel DEF AcceptorStep, AcceptFaults, OrphanDies
<1>6. ASSUME NEW a \in Acceptor, Restart(a) PROVE ChannelInv'
  BY <1>6, RestartChannel
<1>7. CASE Crash
  BY <1>7, ServerDiesChannel, AcceptorDiesChannel DEF Crash
<1>8. CASE UNCHANGED vars
  <2> USE <1>8 DEF vars, handlerVars, proposerVars, netVars, acceptorVars, processVars
  <2>1. /\ \A s \in Server : Current(s)' = Current(s)
        /\ \A c : Working(c)' = Working(c) /\ Caller(c)' = Caller(c)
        /\ \A c : \A b : State(c, b)' = State(c, b)
        /\ \A b \in Acceptor : Serving(b)' = Serving(b)
    BY DEF Current, Working, Caller, State, Serving
  <2>2. CallInv'
    BY DEF ChannelInv, CallInv, IsRead
  <2>3. ConnInv'
    BY <2>1 DEF ChannelInv, ConnInv
  <2>4. ToAcceptorInv'
    BY <2>1, MessageType DEF ChannelInv, ToAcceptorInv, SentOK
  <2>5. ToThreadInv'
    BY <2>1, MessageType DEF ChannelInv, ToThreadInv, AnswerOK
  <2>6. ThreadInv' /\ FileInv'
    BY <2>1 DEF ChannelInv, ThreadInv, ThreadOK, FileInv
  <2> QED BY <2>2, <2>3, <2>4, <2>5, <2>6 DEF ChannelInv
<1> QED BY <1>1, <1>2, <1>3, <1>4, <1>5, <1>6, <1>7, <1>8 DEF Next, Work

LEMMA ChannelInvariant == Spec => [](TypeInv /\ ChannelInv)
BY InitType, NextType, InitChannel, NextChannel, PTL DEF Spec

-----------------------------------------------------------------------------
(***************************************************************************)
(* Nobody acknowledges a learn.  Still, as long as no acceptor is started  *)
(* again, an acceptor that runs has been sent every write whose thread     *)
(* ended: the thread reached it, and its connection did not break.         *)
(***************************************************************************)
OnItsWay == \A a \in Acceptor : a \in up => \A c \in answered : LearnSent(c, a)

DoneInv ==
    \A s \in Server, a \in Acceptor :
        a \in up /\ lock[s] # None /\ ~ IsRead(Current(s)) =>
            /\ thread[s][a] # "none"
            /\ thread[s][a] = "done" => LearnSent(Current(s), a)

SentInv ==
    restarts = 0 => /\ \A s \in Server : \A a \in broken[s] : a \notin up
                    /\ DoneInv /\ OnItsWay

\* A step after which every learn of a write is still on its way or executed.
KeepsLearns ==
    \A a \in Acceptor : a \in up' =>
        /\ Range(log[a]) \subseteq Range(log'[a])
        /\ \A m \in toAcceptor : m.acceptor = a /\ m.type = "learn" /\ ~ IsRead(m.call) =>
               m \in toAcceptor' \/ m.call \in Range(log'[a])

LEMMA LearnKept ==
    ASSUME KeepsLearns, NEW a \in Acceptor, a \in up', NEW c, ~ IsRead(c), LearnSent(c, a)
    PROVE  LearnSent(c, a)'
BY DEF KeepsLearns, LearnSent

\* The call the threads of s work for stays the same, and so does, for acceptor
\* a, what SentInv says of them.
SameWork(s, a) ==
    /\ lock[s] # None /\ Current(s)' = Current(s)
    /\ thread'[s][a] = thread[s][a] \/ thread'[s][a] \notin {"none", "done"}

LEMMA SentStep ==
    ASSUME TypeInv, ChannelInv, SentInv, restarts = 0, up' \subseteq up, KeepsLearns,
           \A s \in Server : \A a \in broken'[s] : a \notin up',
           \A s \in Server, a \in Acceptor : a \in up' /\ lock'[s] # None =>
               \/ SameWork(s, a)
               \/ thread'[s][a] # "none" /\ (thread'[s][a] = "done" => LearnSent(Current(s), a)')
               \/ IsRead(Current(s))',
           \A c \in answered' : c \in answered \/ \A a \in Acceptor : a \in up' => LearnSent(c, a)'
    PROVE  SentInv'
<1>1. \A c \in answered : ~ IsRead(c)
  BY DEF ChannelInv, CallInv
<1>2. OnItsWay'
  <2> SUFFICES ASSUME NEW a \in Acceptor, a \in up', NEW c \in answered' PROVE LearnSent(c, a)'
    BY DEF OnItsWay
  <2> SUFFICES ASSUME c \in answered PROVE LearnSent(c, a)'
    OBVIOUS
  <2>1. LearnSent(c, a)
    BY DEF SentInv, OnItsWay
  <2> QED BY <1>1, <2>1, LearnKept
<1>3. DoneInv'
  <2> SUFFICES ASSUME NEW s \in Server, NEW a \in Acceptor, a \in up', lock'[s] # None,
                      ~ IsRead(Current(s))'
               PROVE  thread'[s][a] # "none" /\ (thread'[s][a] = "done" => LearnSent(Current(s), a)')
    BY DEF DoneInv
  <2> SUFFICES ASSUME SameWork(s, a), thread'[s][a] = thread[s][a]
               PROVE  thread'[s][a] # "none" /\ (thread'[s][a] = "done" => LearnSent(Current(s), a)')
    BY DEF SameWork
  <2>1. PICK x : x = Current(s)
    OBVIOUS
  <2>2. x = Current(s)' /\ ~ IsRead(x) /\ lock[s] # None /\ a \in up
    BY <2>1 DEF SameWork, IsRead
  <2>3. thread[s][a] # "none" /\ (thread[s][a] = "done" => LearnSent(x, a))
    BY <2>1, <2>2 DEF SentInv, DoneInv
  <2>4. thread'[s][a] = "done" => LearnSent(x, a)'
    BY <2>2, <2>3, LearnKept
  <2>5. LearnSent(x, a)' => LearnSent(Current(s), a)'
    BY <2>2 DEF LearnSent
  <2> QED BY <2>3, <2>4, <2>5
<1> QED BY <1>2, <1>3 DEF SentInv

LEMMA InitSent == Init => SentInv
BY DEF Init, SentInv, DoneInv, OnItsWay

LEMMA InvokeSent ==
    ASSUME TypeInv, ChannelInv, SentInv, restarts = 0, NEW h \in Handler, NEW r \in Request, Invoke(h, r)
    PROVE  SentInv'
<1>1. /\ UNCHANGED <<answered, lock, thread, broken, toAcceptor, log, up>>
      /\ req[h] = None /\ \A k \in Handler : k # h => req'[k] = req[k]
  BY DEF Invoke, TypeInv, TypeOK, HandlerTypes, proposerVars, netVars, acceptorVars, processVars
<1>2. \A s \in Server : lock[s] # None => Current(s)' = Current(s)
  BY <1>1, CurrentType DEF Current, TypeInv, HandlerInv
<1>3. KeepsLearns
  BY <1>1 DEF KeepsLearns
<1>4. \A s \in Server : \A a \in broken'[s] : a \notin up'
  BY <1>1 DEF SentInv
<1> QED BY <1>1, <1>2, <1>3, <1>4, SentStep DEF SameWork

LEMMA AcquireSent ==
    ASSUME TypeInv, ChannelInv, SentInv, restarts = 0, NEW h \in Handler, Acquire(h)
    PROVE  SentInv'
<1>s. PICK s \in Server : s = Home[h]
  BY ProcessAssumption
<1>1. /\ UNCHANGED <<req, answered, toAcceptor, log, up>>
      /\ lock'[s] = h
      /\ \A t \in Server : t # s =>
            lock'[t] = lock[t] /\ thread'[t] = thread[t] /\ broken'[t] = broken[t]
      /\ broken'[s] = {} /\ \A a \in Acceptor : ~ IsRead(req[h]) => thread'[s][a] = "connect"
  BY <1>s DEF Acquire, TypeInv, TypeOK, ProposerTypes, parserVars, handlerVars, netVars, acceptorVars,
              processVars
<1>2. /\ \A t \in Server : t # s => Current(t)' = Current(t)
      /\ IsRead(req[h]) => IsRead(Current(s))'
  BY <1>1 DEF Current, IsRead
<1>3. KeepsLearns
  BY <1>1 DEF KeepsLearns
<1>4. \A t \in Server : \A a \in broken'[t] : a \notin up'
  BY <1>1 DEF SentInv
<1>5. ASSUME NEW t \in Server, NEW a \in Acceptor, a \in up', lock'[t] # None
      PROVE  \/ SameWork(t, a)
             \/ thread'[t][a] # "none" /\ (thread'[t][a] = "done" => LearnSent(Current(t), a)')
             \/ IsRead(Current(t))'
  <2>1. CASE t = s
    BY <1>1, <1>2, <2>1
  <2>2. CASE t # s
    BY <1>1, <1>2, <1>5, <2>2 DEF SameWork
  <2> QED BY <2>1, <2>2
<1> QED BY <1>1, <1>3, <1>4, <1>5, SentStep

LEMMA ReturnSent ==
    ASSUME TypeInv, ChannelInv, SentInv, restarts = 0, NEW s \in Server, Return(s)
    PROVE  SentInv'
<1>x. PICK x : x = Current(s)
  OBVIOUS
<1>1. /\ UNCHANGED <<broken, toAcceptor, log, up>>
      /\ lock[s] # None /\ lock'[s] = None
      /\ \A a \in Acceptor : thread[s][a] \in {"none", "done"}
      /\ \A t \in Server : t # s => lock'[t] = lock[t] /\ thread'[t] = thread[t]
      /\ \A k \in Handler : k # lock[s] => req'[k] = req[k]
      /\ answered' \subseteq answered \cup {x}
      /\ IsRead(x) => answered' = answered
  BY <1>x, CurrentType DEF Return, Coordinating, Joined, EndThreads, TypeInv, TypeOK, HandlerTypes,
     ProposerTypes, parserVars, netVars, acceptorVars, processVars
<1>2. \A t \in Server : t # s /\ lock[t] # None => Current(t)' = Current(t)
  <2>1. \A t \in Server : t # s /\ lock[t] # None => lock[t] \in Handler /\ lock[t] # lock[s]
    BY <1>1, CurrentType
  <2> QED BY <1>1, <2>1 DEF Current
<1>3. KeepsLearns
  BY <1>1 DEF KeepsLearns
<1>4. ASSUME ~ IsRead(x), NEW a \in Acceptor, a \in up' PROVE LearnSent(x, a)'
  <2>1. LearnSent(x, a)
    BY <1>x, <1>1, <1>4 DEF SentInv, DoneInv
  <2> QED BY <1>3, <1>4, <2>1, LearnKept
<1>5. \A t \in Server : \A a \in broken'[t] : a \notin up'
  BY <1>1 DEF SentInv
<1>6. \A t \in Server, a \in Acceptor : lock'[t] # None => SameWork(t, a)
  BY <1>1, <1>2 DEF SameWork
<1>7. \A c \in answered' : c \in answered \/ \A a \in Acceptor : a \in up' => LearnSent(c, a)'
  BY <1>1, <1>4
<1> QED BY <1>1, <1>3, <1>5, <1>6, <1>7, SentStep

\* The ends of processes: what was sent to the acceptors that go on stays.
LEMMA DiesSent ==
    ASSUME TypeInv, ChannelInv, SentInv, restarts = 0,
           \/ \E s \in Server : ServerDies(s)
           \/ \E a \in Acceptor : AcceptorDies(a)
    PROVE  SentInv'
<1>1. CASE \E s \in Server : ServerDies(s)
  <2>1. PICK s \in Server : ServerDies(s)
    BY <1>1
  <2>2. /\ UNCHANGED <<req, answered, broken, toAcceptor, log>> /\ up' \subseteq up
        /\ lock'[s] = None
        /\ \A t \in Server : t # s => lock'[t] = lock[t] /\ thread'[t] = thread[t]
    BY <2>1 DEF ServerDies, EndThreads, TypeInv, TypeOK, ProposerTypes, parserVars, handlerVars, acceptorVars
  <2>3. KeepsLearns
    BY <2>2 DEF KeepsLearns
  <2>4. \A t \in Server : \A a \in broken'[t] : a \notin up'
    BY <2>2 DEF SentInv
  <2>5. \A t \in Server, a \in Acceptor : lock'[t] # None => SameWork(t, a)
    BY <2>2 DEF SameWork, Current
  <2> QED BY <2>2, <2>3, <2>4, <2>5, SentStep
<1>2. CASE \E a \in Acceptor : AcceptorDies(a)
  <2>1. PICK a \in Acceptor : AcceptorDies(a)
    BY <1>2
  <2>2. /\ UNCHANGED <<req, answered, lock, thread, log>> /\ up' = up \ {a}
        /\ \A s \in Server : broken'[s] \subseteq broken[s] \cup {a}
        /\ \A m \in toAcceptor : m.acceptor # a => m \in toAcceptor'
    BY <2>1 DEF AcceptorDies, handlerVars
  <2>3. KeepsLearns
    BY <2>2 DEF KeepsLearns
  <2>4. \A t \in Server : \A b \in broken'[t] : b \notin up'
    BY <2>2 DEF SentInv
  <2>5. \A t \in Server, b \in Acceptor : lock'[t] # None => SameWork(t, b)
    BY <2>2 DEF SameWork, Current
  <2> QED BY <2>2, <2>3, <2>4, <2>5, SentStep
<1> QED BY <1>1, <1>2

\* A step of a thread: it ends at a dead acceptor, or after the learn.
LEMMA ThreadMoveSent ==
    ASSUME TypeInv, ChannelInv, SentInv, restarts = 0, NEW s \in Server, NEW a \in Acceptor,
           lock[s] # None,
           UNCHANGED <<req, answered, lock, broken, log, up>>,
           toAcceptor \subseteq toAcceptor',
           \A t \in Server, b \in Acceptor : ~ (t = s /\ b = a) => thread'[t][b] = thread[t][b],
           thread'[s][a] # "none",
           thread'[s][a] = "done" => a \notin up \/ LearnSent(Current(s), a)'
    PROVE  SentInv'
<1>1. \A t \in Server : Current(t)' = Current(t)
  BY DEF Current
<1>2. KeepsLearns
  BY DEF KeepsLearns
<1>3. \A t \in Server : \A b \in broken'[t] : b \notin up'
  BY DEF SentInv
<1>4. ASSUME NEW t \in Server, NEW b \in Acceptor, b \in up', lock'[t] # None
      PROVE  \/ SameWork(t, b)
             \/ thread'[t][b] # "none" /\ (thread'[t][b] = "done" => LearnSent(Current(t), b)')
  <2>1. CASE t = s /\ b = a
    BY <1>4, <2>1
  <2>2. CASE ~ (t = s /\ b = a)
    BY <1>1, <1>4, <2>2 DEF SameWork
  <2> QED BY <2>1, <2>2
<1> QED BY <1>2, <1>3, <1>4, SentStep

LEMMA SendGrows ==
    ASSUME NEW s, NEW a, NEW type, NEW id, Send(s, a, type, id)
    PROVE  toAcceptor \subseteq toAcceptor'
BY DEF Send

LEMMA ThreadSent ==
    ASSUME TypeInv, ChannelInv, SentInv, restarts = 0, NEW s \in Server, NEW a \in Acceptor,
           ThreadStep(s, a)
    PROVE  SentInv'
<1> DEFINE Moves ==
        /\ lock[s] # None
        /\ UNCHANGED <<req, answered, lock, broken, log, up>>
        /\ \A t \in Server, b \in Acceptor : ~ (t = s /\ b = a) => thread'[t][b] = thread[t][b]
        /\ thread'[s][a] # "none"
<1> USE DEF At, Coordinating, Goto, TypeInv, TypeOK, ProposerTypes, parserVars, handlerVars, acceptorVars,
            processVars, netVars
<1>1. CASE Connect(s, a)
  <2>1. Moves /\ thread'[s][a] # "done" /\ UNCHANGED toAcceptor
    BY <1>1 DEF Connect
  <2> QED BY <2>1, ThreadMoveSent
<1>2. CASE ConnectFail(s, a)
  <2>1. Moves /\ a \notin up /\ UNCHANGED toAcceptor
    BY <1>2 DEF ConnectFail
  <2> QED BY <2>1, ThreadMoveSent
<1>3. CASE Propose(s, a)
  <2>1. Moves /\ thread'[s][a] # "done" /\ toAcceptor \subseteq toAcceptor'
    BY <1>3, SendGrows DEF Propose
  <2> QED BY <2>1, ThreadMoveSent
<1>4. CASE ReceivePromise(s, a)
  <2>1. Moves /\ thread'[s][a] # "done" /\ UNCHANGED toAcceptor
    BY <1>4 DEF ReceivePromise
  <2> QED BY <2>1, ThreadMoveSent
<1>5. CASE Retry(s, a)
  <2>1. Moves /\ thread'[s][a] # "done" /\ toAcceptor \subseteq toAcceptor'
    BY <1>5, SendGrows DEF Retry
  <2> QED BY <2>1, ThreadMoveSent
<1>6. CASE SendAccept(s, a)
  <2>1. Moves /\ thread'[s][a] # "done" /\ toAcceptor \subseteq toAcceptor'
    BY <1>6, SendGrows DEF SendAccept
  <2> QED BY <2>1, ThreadMoveSent
<1>7. CASE ReceiveAccepted(s, a)
  <2>1. Moves /\ thread'[s][a] # "done" /\ UNCHANGED toAcceptor
    BY <1>7 DEF ReceiveAccepted
  <2> QED BY <2>1, ThreadMoveSent
<1>8. CASE SendLearn(s, a)
  <2>1. Moves /\ toAcceptor \subseteq toAcceptor' /\ Send(s, a, "learn", 0)
    BY <1>8, SendGrows DEF SendLearn
  <2>2. ASSUME a \in up PROVE LearnSent(Current(s), a)'
    <3>1. PICK k : k = Message(s, a, "learn", 0)
      OBVIOUS
    <3>2. a \notin broken[s]
      BY <2>2 DEF SentInv
    <3>3. k \in toAcceptor' /\ k.type = "learn" /\ k.call = Current(s) /\ k.acceptor = a
      BY <2>1, <3>1, <3>2 DEF Send, Message
    <3>4. Current(s)' = Current(s)
      BY <2>1 DEF Current
    <3> QED BY <3>3, <3>4 DEF LearnSent
  <2> QED BY <2>1, <2>2, ThreadMoveSent
<1>9. CASE EndOfFile(s, a)
  <2>1. Moves /\ thread'[s][a] # "done" /\ UNCHANGED toAcceptor
    BY <1>9 DEF EndOfFile
  <2> QED BY <2>1, ThreadMoveSent
<1>10. CASE EndOfFileFaults(s, a) \/ ParseFaults(s, a) \/ BrokenPipe(s, a)
  BY <1>10, DiesSent DEF EndOfFileFaults, ParseFaults, BrokenPipe
<1> QED BY <1>1, <1>2, <1>3, <1>4, <1>5, <1>6, <1>7, <1>8, <1>9, <1>10 DEF ThreadStep

\* A step of an acceptor: the learn of a write it takes is in its log.
LEMMA AcceptorSent ==
    ASSUME TypeInv, ChannelInv, SentInv, restarts = 0, NEW a \in Acceptor, AcceptorStep(a)
    PROVE  SentInv'
<1> DEFINE Frame == UNCHANGED <<req, answered, lock, thread, broken, up>>
           Takes == \E m \in Inbox(a, "prepare") \cup Inbox(a, "accept") :
                        toAcceptor' = toAcceptor \ {m}
<1>1. ASSUME Frame, KeepsLearns PROVE SentInv'
  <2>1. \A t \in Server : Current(t)' = Current(t)
    BY <1>1 DEF Current
  <2>2. \A t \in Server : \A b \in broken'[t] : b \notin up'
    BY <1>1 DEF SentInv
  <2>3. \A t \in Server, b \in Acceptor : lock'[t] # None => SameWork(t, b)
    BY <1>1, <2>1 DEF SameWork
  <2> QED BY <1>1, <2>2, <2>3, SentStep
<1> USE DEF handlerVars, proposerVars, acceptorVars, processVars, netVars
<1>2. ASSUME Takes, UNCHANGED log PROVE KeepsLearns
  BY <1>2 DEF KeepsLearns, Inbox
<1>3. ASSUME UNCHANGED <<toAcceptor, log>> PROVE KeepsLearns
  BY <1>3 DEF KeepsLearns
<1>4. CASE Promise(a)
  BY <1>1, <1>2, <1>4 DEF Promise
<1>5. CASE StorePromise(a)
  BY <1>1, <1>3, <1>5 DEF StorePromise
<1>6. CASE RefusePrepare(a)
  BY <1>1, <1>2, <1>6 DEF RefusePrepare
<1>7. CASE AnswerAccept(a)
  BY <1>1, <1>2, <1>7 DEF AnswerAccept
<1>8. CASE LearnWrite(a)
  <2>1. PICK m \in Inbox(a, "learn") : toAcceptor' = toAcceptor \ {m}
    BY <1>8 DEF LearnWrite
  <2>2. /\ Frame /\ m.call = Serving(a) /\ m.acceptor = a
        /\ log'[a] = Append(log[a], Serving(a)) /\ log[a] \in Seq(Calls) /\ Serving(a) \in Calls
        /\ \A b \in Acceptor : b # a => log'[b] = log[b]
    BY <1>8, ServingType DEF LearnWrite, In, Inbox, TypeInv, TypeOK, AcceptorTypes
  <2>3. Range(log'[a]) = Range(log[a]) \cup {m.call}
    BY <2>2, AppendRange
  <2>4. KeepsLearns
    BY <2>1, <2>2, <2>3 DEF KeepsLearns
  <2> QED BY <1>1, <2>2, <2>4
<1>9. CASE LearnRead(a)
  <2>1. /\ Frame /\ UNCHANGED log
        /\ \E m \in toAcceptor : IsRead(m.call) /\ toAcceptor' = toAcceptor \ {m}
    BY <1>9 DEF LearnRead, Inbox
  <2>2. KeepsLearns
    BY <2>1 DEF KeepsLearns
  <2> QED BY <1>1, <2>1, <2>2
<1>10. CASE WriteBuffer(a)
  BY <1>1, <1>3, <1>10 DEF WriteBuffer
<1>11. CASE OrphanCloses(a)
  BY <1>1, <1>3, <1>11 DEF OrphanCloses
<1>12. CASE AcceptFaults(a) \/ OrphanDies(a)
  BY <1>12, DiesSent DEF AcceptFaults, OrphanDies
<1> QED BY <1>4, <1>5, <1>6, <1>7, <1>8, <1>9, <1>10, <1>11, <1>12 DEF AcceptorStep

\* Only Restart counts.
LEMMA RestartsGrow ==
    ASSUME TypeInv, [Next]_vars, restarts' = 0
    PROVE  restarts = 0
<1> USE DEF processVars
<1>1. \A a \in Acceptor : ~ Restart(a)
  BY DEF Restart, TypeInv, TypeOK, ProcessTypes, bufferVars
<1>2. ASSUME NEW s \in Server, NEW a \in Acceptor, ThreadStep(s, a) PROVE UNCHANGED restarts
  BY <1>2 DEF ThreadStep, Connect, ConnectFail, Propose, ReceivePromise, Retry, SendAccept,
              ReceiveAccepted, SendLearn, EndOfFile, EndOfFileFaults, ParseFaults, BrokenPipe, ServerDies
<1>3. ASSUME NEW a \in Acceptor, AcceptorStep(a) PROVE UNCHANGED restarts
  BY <1>3 DEF AcceptorStep, Promise, StorePromise, RefusePrepare, AnswerAccept, AcceptFaults,
              LearnWrite, LearnRead, WriteBuffer, OrphanDies, OrphanCloses, AcceptorDies
<1>4. ASSUME \/ \E h \in Handler, r \in Request : Invoke(h, r)
             \/ \E h \in Handler : Acquire(h)
             \/ \E s \in Server : Return(s)
             \/ Crash \/ UNCHANGED vars
      PROVE  UNCHANGED restarts
  BY <1>4 DEF Invoke, Acquire, Return, Crash, ServerDies, AcceptorDies, vars
<1> QED BY <1>1, <1>2, <1>3, <1>4 DEF Next, Work

LEMMA NextSent == TypeInv /\ ChannelInv /\ SentInv /\ [Next]_vars => SentInv'
<1> SUFFICES ASSUME TypeInv, ChannelInv, SentInv, [Next]_vars, restarts' = 0 PROVE SentInv'
  BY DEF SentInv
<1>1. restarts = 0
  BY RestartsGrow
<1>2. \A a \in Acceptor : ~ Restart(a)
  BY DEF Restart, TypeInv, TypeOK, ProcessTypes, bufferVars
<1>3. CASE UNCHANGED vars
  BY <1>3 DEF vars, handlerVars, proposerVars, netVars, acceptorVars, processVars,
              SentInv, DoneInv, OnItsWay, LearnSent, Current, IsRead
<1>4. CASE Next
  BY <1>1, <1>2, <1>4, InvokeSent, AcquireSent, ReturnSent, ThreadSent, AcceptorSent, DiesSent
     DEF Next, Work, Crash
<1> QED BY <1>3, <1>4

LEMMA SentInvariant == Spec => [](TypeInv /\ ChannelInv /\ SentInv)
BY InitType, NextType, InitChannel, NextChannel, InitSent, NextSent, PTL DEF Spec

\* As long as no acceptor was started again, a write that was answered is in the
\* table of every acceptor that runs, or the learn is on a connection that is
\* open, for any number of servers, acceptors and deaths.
THEOREM AnswersAreSent == Spec => []AnsweredOnItsWay
<1>1. SentInv => AnsweredOnItsWay
  BY DEF SentInv, OnItsWay, AnsweredOnItsWay
<1> QED BY <1>1, SentInvariant, PTL

\* Until an acceptor is started again, a GET that an acceptor evaluates sees
\* every write that was answered before the GET arrived: no learn can be waiting
\* at an acceptor that writes the answer of a GET.
THEOREM ReadsSeeWrites == Spec => [](restarts = 0 => ReadAfterWrite)
<1>1. TypeInv /\ ChannelInv /\ SentInv => (restarts = 0 => ReadAfterWrite)
  <2> SUFFICES ASSUME TypeInv, ChannelInv, SentInv, restarts = 0,
                      NEW a \in Acceptor, In(a, "write"), NEW c \in before[Serving(a).handler]
               PROVE  c \in Range(log[a])
    BY DEF ReadAfterWrite
  <2>1. a \in up /\ phase[a] = "write" /\ Serving(a).handler \in Handler
    BY ServingType, CallType DEF In
  <2>2. c \in answered
    BY <2>1 DEF ChannelInv, CallInv
  <2>3. LearnSent(c, a)
    BY <2>1, <2>2 DEF SentInv, OnItsWay
  <2>4. \A m \in toAcceptor : ~ (m.type = "learn" /\ m.acceptor = a)
    BY <2>1 DEF ChannelInv, ToAcceptorInv, SentOK
  <2> QED BY <2>3, <2>4 DEF LearnSent
<1> QED BY <1>1, SentInvariant, PTL

-----------------------------------------------------------------------------
(***************************************************************************)
(* One server, and no acceptor started again: a replicated log.  A server  *)
(* works for one request at a time, so a write is decided only when the    *)
(* ones before it were answered; a learn that is sent to an acceptor finds *)
(* them in its log, since its connection was served before.                *)
(***************************************************************************)
DecidedInv ==
    /\ \A i, j \in DOMAIN decided : decided[i] = decided[j] => i = j
    /\ \A c \in Range(decided) : ~ IsRead(c) /\ (c \in answered \/ Working(c) \/ Caller(c) \notin up)
    /\ \A i \in DOMAIN decided : i < Len(decided) => decided[i] \in answered

\* The learn of a write that is under way to a is of the next one a lacks.
LogsInv ==
    \A a \in Acceptor :
        /\ Len(log[a]) <= Len(decided)
        /\ \A i \in 1 .. Len(log[a]) : log[a][i] = decided[i]
        /\ \A m \in toAcceptor : m.acceptor = a /\ m.type = "learn" /\ ~ IsRead(m.call) =>
              Len(log[a]) < Len(decided) /\ m.call = decided[Len(log[a]) + 1]
        /\ \A s \in Server : lock[s] # None /\ thread[s][a] # "done" => Current(s) \notin Range(log[a])

PrefixInv == DecidedInv /\ LogsInv

LEMMA SequenceType ==
    ASSUME TypeInv, NEW a \in Acceptor
    PROVE  /\ decided \in Seq(Calls) /\ log[a] \in Seq(Calls)
           /\ Len(decided) \in Nat /\ DOMAIN decided = 1 .. Len(decided)
           /\ Len(log[a]) \in Nat /\ DOMAIN log[a] = 1 .. Len(log[a])
<1>1. decided \in Seq(Calls) /\ log[a] \in Seq(Calls)
  BY DEF TypeInv, TypeOK, AcceptorTypes, HistoryTypes
<1> QED BY <1>1

LEMMA LogDecided ==
    ASSUME TypeInv, LogsInv, NEW a \in Acceptor
    PROVE  Range(log[a]) \subseteq Range(decided)
<1> SUFFICES ASSUME NEW c \in Range(log[a]) PROVE c \in Range(decided)
  OBVIOUS
<1>1. PICK i \in 1 .. Len(log[a]) : log[a][i] = c
  BY SequenceType DEF Range
<1>2. i \in DOMAIN decided /\ decided[i] = c
  BY <1>1, SequenceType DEF LogsInv
<1> QED BY <1>2 DEF Range

\* A step that decides and executes nothing.
LEMMA PrefixSame ==
    ASSUME TypeInv, PrefixInv, UNCHANGED <<decided, log>>, answered \subseteq answered',
           \A c \in Range(decided) : Working(c) => c \in answered' \/ Working(c)' \/ Caller(c) \notin up',
           \A s \in Server : s \in up' => s \in up,
           \A m \in toAcceptor' : m.type = "learn" /\ ~ IsRead(m.call) => m \in toAcceptor,
           \A s \in Server, a \in Acceptor : lock'[s] # None /\ thread'[s][a] # "done" =>
               \/ lock[s] # None /\ Current(s)' = Current(s) /\ thread[s][a] # "done"
               \/ Current(s)' \notin Range(decided)
    PROVE  PrefixInv' /\ UNCHANGED <<decided, log>>
<1>1. \A c \in Range(decided) : Caller(c) \in Server /\ Caller(c)' = Caller(c)
  <2> SUFFICES ASSUME NEW c \in Range(decided) PROVE Caller(c) \in Server
    BY DEF Caller
  <2>1. c \in Calls
    BY DEF TypeInv, TypeOK, HistoryTypes, Range
  <2> QED BY <2>1, CallType
<1>2. DecidedInv'
  BY <1>1 DEF PrefixInv, DecidedInv, IsRead
<1>3. LogsInv'
  <2> SUFFICES ASSUME NEW s \in Server, NEW a \in Acceptor, lock'[s] # None, thread'[s][a] # "done"
               PROVE  Current(s)' \notin Range(log[a])
    BY DEF PrefixInv, LogsInv, IsRead
  <2> QED BY LogDecided DEF PrefixInv, LogsInv
<1> QED BY <1>2, <1>3 DEF PrefixInv

LEMMA DecidedCalls == ASSUME TypeInv PROVE Range(decided) \subseteq Calls
BY DEF TypeInv, TypeOK, HistoryTypes, Range

LEMMA InitPrefix == Init => PrefixInv
<1> SUFFICES ASSUME Init PROVE PrefixInv
  OBVIOUS
<1>1. decided = <<>> /\ toAcceptor = {} /\ \A s \in Server : lock[s] = None
  BY DEF Init
<1>2. \A a \in Acceptor : log[a] = <<>>
  BY DEF Init
<1>3. DecidedInv
  BY <1>1 DEF DecidedInv, Range
<1>4. LogsInv
  BY <1>1, <1>2 DEF LogsInv
<1> QED BY <1>3, <1>4 DEF PrefixInv

LEMMA InvokePrefix ==
    ASSUME TypeInv, PrefixInv, NEW h \in Handler, NEW r \in Request, Invoke(h, r)
    PROVE  PrefixInv' /\ UNCHANGED <<decided, log>>
<1>1. /\ UNCHANGED <<answered, lock, thread, toAcceptor, log, decided, up>>
      /\ req[h] = None /\ \A k \in Handler : k # h => req'[k] = req[k]
  BY DEF Invoke, TypeInv, TypeOK, HandlerTypes, proposerVars, netVars, acceptorVars, processVars,
         history
<1>2. \A s \in Server : lock[s] # None => Current(s)' = Current(s)
  BY <1>1, CurrentType DEF Current, TypeInv, HandlerInv
<1>3. \A c \in Range(decided) : Working(c) => Working(c)'
  BY <1>1, DecidedCalls, CallType DEF Working, Caller
<1> QED BY <1>1, <1>2, <1>3, PrefixSame

LEMMA AcquirePrefix ==
    ASSUME TypeInv, ChannelInv, PrefixInv, NEW h \in Handler, Acquire(h)
    PROVE  PrefixInv' /\ UNCHANGED <<decided, log>>
<1>s. PICK s \in Server : s = Home[h]
  BY ProcessAssumption
<1>1. /\ UNCHANGED <<req, answered, toAcceptor, log, decided, up>>
      /\ s \in up /\ lock[s] = None /\ lock'[s] = h /\ req[h] # None
      /\ \A t \in Server : t # s => lock'[t] = lock[t] /\ thread'[t] = thread[t]
  BY <1>s DEF Acquire, TypeInv, TypeOK, ProposerTypes, parserVars, handlerVars, netVars, acceptorVars,
              processVars, history
<1>2. req[h] \in Calls /\ req[h].handler = h /\ Caller(req[h]) = s /\ Current(s)' = req[h]
  BY <1>s, <1>1 DEF TypeInv, TypeOK, HandlerTypes, ChannelInv, CallInv, Caller, Current
<1>3. \A t \in Server : t # s => Current(t)' = Current(t)
  BY <1>1 DEF Current
<1>4. \A c \in Range(decided) : Working(c) => Working(c)' /\ Caller(c) # s
  BY <1>1, DecidedCalls, CallType, NoneAssumption DEF Working, Caller
<1>5. Current(s)' \notin Range(decided)
  BY <1>1, <1>2, <1>4 DEF PrefixInv, DecidedInv, ChannelInv, CallInv
<1>6. \A t \in Server, a \in Acceptor : lock'[t] # None /\ thread'[t][a] # "done" =>
          \/ lock[t] # None /\ Current(t)' = Current(t) /\ thread[t][a] # "done"
          \/ Current(t)' \notin Range(decided)
  BY <1>1, <1>3, <1>5
<1> QED BY <1>1, <1>4, <1>6, PrefixSame

LEMMA ReturnPrefix ==
    ASSUME TypeInv, PrefixInv, NEW s \in Server, Return(s)
    PROVE  PrefixInv' /\ UNCHANGED <<decided, log>>
<1>x. PICK x : x = Current(s)
  OBVIOUS
<1>1. /\ UNCHANGED <<toAcceptor, log, decided, up>>
      /\ lock[s] # None /\ lock'[s] = None
      /\ \A t \in Server : t # s => lock'[t] = lock[t] /\ thread'[t] = thread[t]
      /\ \A k \in Handler : k # lock[s] => req'[k] = req[k]
      /\ answered \subseteq answered'
      /\ ~ IsRead(x) => x \in answered'
  BY <1>x, CurrentType DEF Return, Coordinating, EndThreads, TypeInv, TypeOK, HandlerTypes,
     ProposerTypes, parserVars, netVars, acceptorVars, processVars, history
<1>2. \A t \in Server : t # s /\ lock[t] # None => Current(t)' = Current(t)
  <2>1. \A t \in Server : t # s /\ lock[t] # None => lock[t] \in Handler /\ lock[t] # lock[s]
    BY <1>1, CurrentType
  <2> QED BY <1>1, <2>1 DEF Current
<1>3. ASSUME NEW c \in Range(decided), Working(c) PROVE c \in answered' \/ Working(c)'
  <2>1. c \in Calls /\ ~ IsRead(c)
    BY DecidedCalls DEF PrefixInv, DecidedInv
  <2>2. CASE c = x
    BY <1>1, <2>1, <2>2
  <2>3. CASE c # x
    <3>1. Caller(c) \in Server /\ Caller(c) # s /\ c.handler \in Handler
      BY <1>x, <1>3, <2>1, <2>3, WorkingCurrent, CallType
    <3>2. c.handler # lock[s] /\ lock'[Caller(c)] = lock[Caller(c)]
      BY <1>1, <3>1, CurrentType DEF Caller
    <3> QED BY <1>1, <1>3, <3>1, <3>2 DEF Working, Caller
  <2> QED BY <2>2, <2>3
<1>4. \A t \in Server, a \in Acceptor : lock'[t] # None /\ thread'[t][a] # "done" =>
          lock[t] # None /\ Current(t)' = Current(t) /\ thread[t][a] # "done"
  BY <1>1, <1>2
<1> QED BY <1>1, <1>3, <1>4, PrefixSame

LEMMA DiesPrefix ==
    ASSUME TypeInv, PrefixInv,
           \/ \E s \in Server : ServerDies(s)
           \/ \E a \in Acceptor : AcceptorDies(a)
    PROVE  PrefixInv' /\ UNCHANGED <<decided, log>>
<1>1. CASE \E s \in Server : ServerDies(s)
  <2>1. PICK s \in Server : ServerDies(s)
    BY <1>1
  <2>2. /\ UNCHANGED <<req, answered, toAcceptor, log, decided>> /\ up' = up \ {s}
        /\ lock'[s] = None
        /\ \A t \in Server : t # s => lock'[t] = lock[t] /\ thread'[t] = thread[t]
    BY <2>1 DEF ServerDies, EndThreads, TypeInv, TypeOK, ProposerTypes, parserVars, handlerVars, acceptorVars,
                history
  <2>3. \A c \in Range(decided) : Working(c) => Working(c)' \/ Caller(c) \notin up'
    BY <2>2, DecidedCalls, CallType DEF Working, Caller
  <2>4. \A t \in Server, a \in Acceptor : lock'[t] # None /\ thread'[t][a] # "done" =>
            lock[t] # None /\ Current(t)' = Current(t) /\ thread[t][a] # "done"
    BY <2>2 DEF Current
  <2> QED BY <2>2, <2>3, <2>4, PrefixSame
<1>2. CASE \E a \in Acceptor : AcceptorDies(a)
  <2>1. PICK a \in Acceptor : AcceptorDies(a)
    BY <1>2
  <2>2. /\ UNCHANGED <<req, answered, lock, thread, log, decided>> /\ up' = up \ {a}
        /\ toAcceptor' \subseteq toAcceptor
    BY <2>1 DEF AcceptorDies, handlerVars, history
  <2>3. \A c \in Range(decided) : Working(c) => Working(c)'
    BY <2>2 DEF Working, Caller
  <2>4. \A t \in Server : Current(t)' = Current(t)
    BY <2>2 DEF Current
  <2> QED BY <2>2, <2>3, <2>4, PrefixSame
<1> QED BY <1>1, <1>2

LEMMA ThreadPrefix ==
    ASSUME TypeInv, PrefixInv, NEW s \in Server, NEW a \in Acceptor,
           ThreadStep(s, a), ~ SendLearn(s, a)
    PROVE  PrefixInv' /\ UNCHANGED <<decided, log>>
<1> DEFINE Frame ==
        /\ lock[s] # None
        /\ UNCHANGED <<req, answered, lock, log, decided, up>>
        /\ thread[s][a] # "done"
        /\ \A t \in Server, b \in Acceptor : ~ (t = s /\ b = a) => thread'[t][b] = thread[t][b]
           SendsA(type) == \E id : Send(s, a, type, id)
<1>1. ASSUME Frame, \A m \in toAcceptor' : m.type = "learn" => m \in toAcceptor
      PROVE  PrefixInv' /\ UNCHANGED <<decided, log>>
  <2>1. /\ \A t \in Server : Current(t)' = Current(t)
        /\ \A c : Working(c) => Working(c)'
    BY <1>1 DEF Current, Working, Caller
  <2>2. \A t \in Server, b \in Acceptor : lock'[t] # None /\ thread'[t][b] # "done" =>
            lock[t] # None /\ Current(t)' = Current(t) /\ thread[t][b] # "done"
    BY <1>1, <2>1
  <2> QED BY <1>1, <2>1, <2>2, PrefixSame
<1>2. ASSUME NEW type \in {"prepare", "accept"}, SendsA(type)
      PROVE  \A m \in toAcceptor' : m.type = "learn" => m \in toAcceptor
  BY <1>2 DEF Send, Message
<1> USE DEF At, Coordinating, Goto, TypeInv, TypeOK, ProposerTypes, parserVars, handlerVars, acceptorVars,
            processVars, netVars, history
<1>3. CASE Connect(s, a)
  BY <1>1, <1>3 DEF Connect
<1>4. CASE ConnectFail(s, a)
  BY <1>1, <1>4 DEF ConnectFail
<1>5. CASE Propose(s, a)
  <2>1. Frame /\ SendsA("prepare")
    BY <1>5 DEF Propose
  <2> QED BY <1>1, <1>2, <2>1
<1>6. CASE ReceivePromise(s, a)
  BY <1>1, <1>6 DEF ReceivePromise
<1>7. CASE Retry(s, a)
  <2>1. Frame /\ SendsA("prepare")
    BY <1>7 DEF Retry
  <2> QED BY <1>1, <1>2, <2>1
<1>8. CASE SendAccept(s, a)
  <2>1. Frame /\ SendsA("accept")
    BY <1>8 DEF SendAccept
  <2> QED BY <1>1, <1>2, <2>1
<1>9. CASE ReceiveAccepted(s, a)
  BY <1>1, <1>9 DEF ReceiveAccepted
<1>10. CASE EndOfFile(s, a)
  BY <1>1, <1>10 DEF EndOfFile
<1>11. CASE EndOfFileFaults(s, a) \/ ParseFaults(s, a) \/ BrokenPipe(s, a)
  BY <1>11, DiesPrefix DEF EndOfFileFaults, ParseFaults, BrokenPipe
<1> QED BY <1>3, <1>4, <1>5, <1>6, <1>7, <1>8, <1>9, <1>10, <1>11 DEF ThreadStep

LEMMA AcceptorPrefix ==
    ASSUME TypeInv, PrefixInv, NEW a \in Acceptor, AcceptorStep(a), ~ LearnWrite(a)
    PROVE  PrefixInv' /\ UNCHANGED <<decided, log>>
<1> DEFINE Frame == UNCHANGED <<req, answered, lock, thread, up, log, decided>>
                    /\ toAcceptor' \subseteq toAcceptor
<1>1. ASSUME Frame PROVE PrefixInv' /\ UNCHANGED <<decided, log>>
  <2>1. /\ \A t \in Server : Current(t)' = Current(t)
        /\ \A c : Working(c) => Working(c)'
    BY <1>1 DEF Current, Working, Caller
  <2> QED BY <1>1, <2>1, PrefixSame
<1>2. CASE AcceptFaults(a) \/ OrphanDies(a)
  BY <1>2, DiesPrefix DEF AcceptFaults, OrphanDies
<1>3. CASE ~ (AcceptFaults(a) \/ OrphanDies(a))
  <2>1. Frame
    BY <1>3 DEF AcceptorStep, Promise, StorePromise, RefusePrepare, AnswerAccept, LearnRead,
                WriteBuffer, OrphanCloses, handlerVars, proposerVars, acceptorVars, processVars,
                netVars, history
  <2> QED BY <1>1, <2>1
<1> QED BY <1>2, <1>3

\* D is decided, or decided with one more write, and d is its last.
LastDecided(D, d) ==
    /\ D \in Seq(Calls) /\ D # <<>> /\ D[Len(D)] = d /\ Len(decided) <= Len(D)
    /\ \A i, j \in 1 .. Len(D) : D[i] = D[j] => i = j
    /\ \A i \in 1 .. Len(decided) : D[i] = decided[i]
    /\ \A i \in 1 .. Len(D) : i < Len(D) => D[i] \in answered

\* Where a's log stands when the learn of d, the last decided write, is sent.
LEMMA LacksLast ==
    ASSUME TypeInv, ChannelInv, SentInv, LogsInv, restarts = 0, NEW s \in Server, NEW a \in Acceptor,
           NEW d, d = Current(s), lock[s] # None, thread[s][a] = "learnSpin", a \notin broken[s],
           NEW D, LastDecided(D, d)
    PROVE  Len(log[a]) = Len(D) - 1
<1> USE DEF LastDecided
<1>1. /\ Len(D) \in Nat /\ Len(D) # 0
      /\ Len(decided) \in Nat /\ Len(log[a]) \in Nat /\ DOMAIN log[a] = 1 .. Len(log[a])
      /\ Len(log[a]) <= Len(decided)
      /\ \A i \in 1 .. Len(log[a]) : log[a][i] = D[i]
  BY SequenceType DEF LogsInv
<1>2. /\ d \in Calls /\ req[d.handler] = d /\ d \notin answered
  BY CurrentWorks DEF Working, ChannelInv, CallInv
<1>3. Serving(a) = d /\ a \in up
  BY ThreadEnd DEF ThreadOK, Open, ChannelInv, ConnInv
<1>4. Len(log[a]) # Len(D)
  <2>1. d \notin Range(log[a])
    BY DEF LogsInv
  <2> QED BY <1>1, <2>1 DEF Range
<1>5. ASSUME Len(log[a]) + 1 < Len(D) PROVE FALSE
  <2> DEFINE i == Len(log[a]) + 1
             c == D[i]
  <2>1. i \in 1 .. Len(D) /\ c \in answered
    BY <1>1, <1>5
  <2>2. LearnSent(c, a)
    BY <1>3, <2>1 DEF SentInv, OnItsWay
  <2>3. c \notin Range(log[a])
    <3> SUFFICES ASSUME c \in Range(log[a]) PROVE FALSE
      OBVIOUS
    <3>1. PICK j \in 1 .. Len(log[a]) : log[a][j] = c
      BY <1>1 DEF Range
    <3>2. j \in 1 .. Len(D) /\ D[j] = D[i] /\ j # i
      BY <1>1, <1>5, <3>1
    <3> QED BY <2>1, <3>2
  <2>4. PICK m \in toAcceptor : m.type = "learn" /\ m.call = c /\ m.acceptor = a
    BY <2>2, <2>3 DEF LearnSent
  <2>5. c = d
    BY <1>3, <2>4 DEF ChannelInv, ToAcceptorInv, SentOK
  <2> QED BY <1>2, <2>1, <2>5
<1> QED BY <1>1, <1>4, <1>5

LEMMA SendLearnPrefix ==
    ASSUME TypeInv, ChannelInv, SentInv, PrefixInv, restarts = 0, NEW s, Server = {s},
           NEW a \in Acceptor, SendLearn(s, a)
    PROVE  PrefixInv' /\ [RL!Next]_<<decided, log>>
<1>x. PICK d : d = Current(s)
  OBVIOUS
<1>y. PICK D : D = decided'
  OBVIOUS
<1>1. /\ UNCHANGED <<req, answered, lock, log, up>>
      /\ lock[s] # None /\ thread[s][a] = "learnSpin" /\ thread'[s][a] = "done"
      /\ \A b \in Acceptor : b # a => thread'[s][b] = thread[s][b]
      /\ Send(s, a, "learn", 0)
      /\ D = IF IsRead(d) \/ d \in Range(decided) THEN decided ELSE Append(decided, d)
  BY <1>x, <1>y DEF SendLearn, At, Coordinating, Goto, TypeInv, TypeOK, ProposerTypes, parserVars,
                    handlerVars, acceptorVars, processVars
<1>2. /\ d \in Calls /\ Working(d) /\ Caller(d) = s /\ s \in up /\ d \notin answered
      /\ req[d.handler] = d
  BY <1>x, <1>1, CurrentWorks DEF Working, ChannelInv, CallInv
<1>3. /\ Current(s)' = d /\ \A c : Working(c)' = Working(c)
      /\ \A c : Caller(c)' = Caller(c)
  BY <1>x, <1>1 DEF Current, Working, Caller
<1>4. \A m \in toAcceptor' : \/ m \in toAcceptor
                             \/ m.call = d /\ m.acceptor = a /\ a \notin broken[s]
  BY <1>x, <1>1 DEF Send, Message
<1>5. CASE IsRead(d)
  <2>1. D = decided /\ \A m \in toAcceptor' : m.type = "learn" /\ ~ IsRead(m.call) => m \in toAcceptor
    BY <1>1, <1>4, <1>5
  <2>2. \A t \in Server, b \in Acceptor : lock'[t] # None /\ thread'[t][b] # "done" =>
            lock[t] # None /\ Current(t)' = Current(t) /\ thread[t][b] # "done"
    BY <1>x, <1>1, <1>3
  <2> QED BY <1>y, <1>1, <1>3, <2>1, <2>2, PrefixSame
<1>6. CASE ~ IsRead(d)
  <2>1. /\ decided \in Seq(Calls) /\ Len(decided) \in Nat /\ DOMAIN decided = 1 .. Len(decided)
        /\ \A i, j \in 1 .. Len(decided) : decided[i] = decided[j] => i = j
        /\ \A i \in 1 .. Len(decided) : i < Len(decided) => decided[i] \in answered
    BY SequenceType DEF PrefixInv, DecidedInv
  <2>2. /\ D \in Seq(Calls) /\ D # <<>> /\ D[Len(D)] = d /\ Len(decided) <= Len(D)
        /\ \A i, j \in 1 .. Len(D) : D[i] = D[j] => i = j
        /\ \A i \in 1 .. Len(decided) : D[i] = decided[i]
        /\ \A i \in 1 .. Len(D) : i < Len(D) => D[i] \in answered
        /\ Range(D) \subseteq Range(decided) \cup {d}
    <3>1. CASE d \in Range(decided)
      <4>1. D = decided
        BY <1>1, <3>1
      <4>2. PICK i \in 1 .. Len(decided) : decided[i] = d
        BY <2>1, <3>1 DEF Range
      <4>3. i = Len(decided)
        <5>1. ~ (i < Len(decided))
          BY <1>2, <2>1, <4>2
        <5>2. Len(decided) \in Nat
          BY <2>1
        <5> QED BY <5>1, <5>2
      <4>4. decided # <<>> /\ decided[Len(decided)] = d
        BY <2>1, <4>2, <4>3
      <4>5. Len(D) = Len(decided) /\ Range(D) = Range(decided)
        BY <4>1
      <4>6. D \in Seq(Calls) /\ D # <<>> /\ D[Len(D)] = d /\ Len(decided) <= Len(D)
        BY <2>1, <4>1, <4>4
      <4>7. /\ \A j, k \in 1 .. Len(D) : D[j] = D[k] => j = k
            /\ \A j \in 1 .. Len(decided) : D[j] = decided[j]
        BY <2>1, <4>1
      <4>8. \A j \in 1 .. Len(D) : j < Len(D) => D[j] \in answered
        BY <2>1, <4>1
      <4> QED BY <4>5, <4>6, <4>7, <4>8
    <3>2. CASE d \notin Range(decided)
      <4>1. D = Append(decided, d)
        BY <1>1, <1>6, <3>2
      <4>2. /\ D \in Seq(Calls) /\ D # <<>> /\ Len(D) = Len(decided) + 1 /\ D[Len(D)] = d
            /\ \A i \in 1 .. Len(decided) : D[i] = decided[i]
        BY <1>2, <2>1, <4>1
      <4>3. Range(D) = Range(decided) \cup {d}
        BY <1>2, <2>1, <4>1, AppendRange
      <4>4. ASSUME NEW i \in 1 .. Len(decided) PROVE decided[i] \in answered /\ decided[i] # d
        <5>1. decided[i] \in Range(decided) /\ decided[i] # d
          BY <2>1, <3>2 DEF Range
        <5>2. decided[i] \in Calls /\ Caller(decided[i]) = s
          BY <5>1, DecidedCalls, CallType
        <5>3. ~ Working(decided[i])
          BY <1>x, <5>1, <5>2, WorkingCurrent
        <5> QED BY <1>2, <5>1, <5>2, <5>3 DEF PrefixInv, DecidedInv
      <4>5. \A i, j \in 1 .. Len(D) : D[i] = D[j] => i = j
        <5> SUFFICES ASSUME NEW i \in 1 .. Len(D), NEW j \in 1 .. Len(D), D[i] = D[j] PROVE i = j
          OBVIOUS
        <5>1. \A k \in 1 .. Len(D) : k \in 1 .. Len(decided) \/ k = Len(D)
          BY <2>1, <4>2
        <5> QED BY <2>1, <4>2, <4>4, <5>1
      <4>6. \A i \in 1 .. Len(D) : i < Len(D) => D[i] \in answered
        BY <2>1, <4>2, <4>4
      <4> QED BY <2>1, <4>2, <4>3, <4>5, <4>6
    <3> QED BY <3>1, <3>2
  <2>3. Len(D) \in Nat /\ DOMAIN D = 1 .. Len(D)
    BY <2>2
  <2>4. DecidedInv'
    <3>1. \A c \in Range(D) : ~ IsRead(c) /\ (c \in answered \/ Working(c) \/ Caller(c) \notin up)
      BY <1>2, <1>6, <2>2 DEF PrefixInv, DecidedInv
    <3> QED BY <1>y, <1>1, <1>3, <2>2, <2>3, <3>1 DEF DecidedInv, IsRead
  <2>5. LogsInv'
    <3> SUFFICES ASSUME NEW b \in Acceptor
                 PROVE  /\ Len(log[b]) <= Len(D)
                        /\ \A i \in 1 .. Len(log[b]) : log[b][i] = D[i]
                        /\ \A m \in toAcceptor' : m.acceptor = b /\ m.type = "learn" /\ ~ IsRead(m.call) =>
                              Len(log[b]) < Len(D) /\ m.call = D[Len(log[b]) + 1]
                        /\ \A t \in Server : lock[t] # None /\ thread'[t][b] # "done" =>
                              Current(t) \notin Range(log[b])
      BY <1>x, <1>y, <1>1, <1>3 DEF LogsInv, IsRead
    <3>1. Len(log[b]) \in Nat
      BY SequenceType
    <3>2. Len(log[b]) <= Len(D) /\ \A i \in 1 .. Len(log[b]) : log[b][i] = D[i]
      BY <2>1, <2>2, <2>3, <3>1 DEF PrefixInv, LogsInv
    <3>3. ASSUME NEW m \in toAcceptor', m.acceptor = b, m.type = "learn", ~ IsRead(m.call)
          PROVE  Len(log[b]) < Len(D) /\ m.call = D[Len(log[b]) + 1]
      <4>1. CASE m \in toAcceptor
        <5>1. Len(log[b]) < Len(decided) /\ m.call = decided[Len(log[b]) + 1]
          BY <3>3, <4>1 DEF PrefixInv, LogsInv
        <5>2. Len(log[b]) + 1 \in 1 .. Len(decided)
          BY <2>1, <3>1, <5>1
        <5> QED BY <2>1, <2>2, <2>3, <3>1, <5>1, <5>2
      <4>2. CASE m \notin toAcceptor
        <5>1. m.call = d /\ b = a /\ a \notin broken[s]
          BY <1>4, <3>3, <4>2
        <5>2. Len(log[a]) = Len(D) - 1
          <6>1. s \in Server /\ LogsInv
            BY DEF PrefixInv
          <6>2. LastDecided(D, d)
            BY <2>2 DEF LastDecided
          <6> QED BY <1>x, <1>1, <5>1, <6>1, <6>2, LacksLast
        <5>3. Len(log[b]) < Len(D) /\ Len(log[b]) + 1 = Len(D)
          <6>1. Len(D) \in Nat /\ Len(log[b]) = Len(D) - 1
            BY <2>3, <5>1, <5>2
          <6> QED BY <6>1
        <5> QED BY <2>2, <5>1, <5>3
      <4> QED BY <4>1, <4>2
    <3>4. \A t \in Server : lock[t] # None /\ thread'[t][b] # "done" => Current(t) \notin Range(log[b])
      BY <1>1 DEF PrefixInv, LogsInv
    <3> QED BY <3>2, <3>3, <3>4
  <2>6. [RL!Next]_<<decided, log>>
    <3>1. CASE d \in Range(decided)
      BY <1>y, <1>1, <3>1
    <3>2. CASE d \notin Range(decided)
      <4>1. RL!Decide(d)
        BY <1>y, <1>1, <1>6, <3>2 DEF RL!Decide, RL!Range, Range
      <4> QED BY <1>2, <4>1 DEF RL!Next
    <3> QED BY <3>1, <3>2
  <2> QED BY <2>4, <2>5, <2>6 DEF PrefixInv
<1> QED BY <1>5, <1>6

LEMMA LearnWritePrefix ==
    ASSUME TypeInv, ChannelInv, PrefixInv, NEW a \in Acceptor, LearnWrite(a)
    PROVE  PrefixInv' /\ RL!Next
<1>x. PICK d : d = Serving(a)
  OBVIOUS
<1>1. PICK m \in Inbox(a, "learn") : toAcceptor' = toAcceptor \ {m}
  BY DEF LearnWrite
<1>2. /\ UNCHANGED <<req, answered, lock, thread, up, decided>>
      /\ conns[a] # <<>> /\ d \in Calls /\ ~ IsRead(d) /\ toAcceptor' \subseteq toAcceptor
      /\ log' = [log EXCEPT ![a] = Append(@, d)]
      /\ log'[a] = Append(log[a], d)
      /\ \A b \in Acceptor : b # a => log'[b] = log[b]
      /\ m \in toAcceptor /\ m.type = "learn" /\ m.call = d /\ m.acceptor = a
  <2>1. /\ UNCHANGED <<req, answered, lock, thread, up, decided>>
        /\ conns[a] # <<>> /\ ~ IsRead(d)
        /\ log' = [log EXCEPT ![a] = Append(@, d)]
    BY <1>x DEF LearnWrite, In, handlerVars, proposerVars, processVars, history
  <2>2. d \in Calls /\ log \in [Acceptor -> Seq(Calls)]
    BY <1>x, <2>1, ServingType DEF TypeInv, TypeOK, AcceptorTypes
  <2>3. m \in toAcceptor /\ m.type = "learn" /\ m.call = d /\ m.acceptor = a
    BY <1>x DEF Inbox
  <2> QED BY <1>1, <2>1, <2>2, <2>3
<1>3. /\ \A k \in toAcceptor' : ~ With(k, d, a)
      /\ \A s \in Server : lock[s] # None /\ Current(s) = d => thread[s][a] = "done"
  BY <1>x, <1>1, <1>2, LearnTaken
<1>4. \A k \in toAcceptor' : ~ (k.acceptor = a /\ k.type = "learn")
  BY <1>x, <1>2, <1>3 DEF ChannelInv, ToAcceptorInv, SentOK, With
<1>5. /\ Len(log[a]) \in Nat /\ Len(decided) \in Nat /\ log[a] \in Seq(Calls)
      /\ Len(log[a]) < Len(decided) /\ d = decided[Len(log[a]) + 1]
      /\ \A i \in 1 .. Len(log[a]) : log[a][i] = decided[i]
  BY <1>2, SequenceType DEF PrefixInv, LogsInv
<1>6. /\ Len(log'[a]) = Len(log[a]) + 1 /\ log'[a][Len(log[a]) + 1] = d
      /\ \A i \in 1 .. Len(log[a]) : log'[a][i] = log[a][i]
      /\ Range(log'[a]) = Range(log[a]) \cup {d}
  BY <1>2, <1>5, AppendRange
<1>7. /\ \A s \in Server : Current(s)' = Current(s)
      /\ \A c : Working(c)' = Working(c) /\ Caller(c)' = Caller(c)
  BY <1>2 DEF Current, Working, Caller
<1>8. DecidedInv'
  BY <1>2, <1>7 DEF PrefixInv, DecidedInv, IsRead
<1>9. LogsInv'
  <2> SUFFICES ASSUME NEW b \in Acceptor
               PROVE  /\ Len(log'[b]) <= Len(decided)
                      /\ \A i \in 1 .. Len(log'[b]) : log'[b][i] = decided[i]
                      /\ \A k \in toAcceptor' : k.acceptor = b /\ k.type = "learn" /\ ~ IsRead(k.call) =>
                            Len(log'[b]) < Len(decided) /\ k.call = decided[Len(log'[b]) + 1]
                      /\ \A t \in Server : lock[t] # None /\ thread[t][b] # "done" =>
                            Current(t) \notin Range(log'[b])
    BY <1>2, <1>7 DEF LogsInv, IsRead
  <2>1. CASE b = a
    <3>1. Len(log'[a]) <= Len(decided) /\ \A i \in 1 .. Len(log'[a]) : log'[a][i] = decided[i]
      <4>1. Len(log'[a]) <= Len(decided)
        BY <1>5, <1>6
      <4>2. ASSUME NEW i \in 1 .. Len(log'[a]) PROVE log'[a][i] = decided[i]
        <5>1. i \in 1 .. Len(log[a]) \/ i = Len(log[a]) + 1
          BY <1>5, <1>6
        <5> QED BY <1>5, <1>6, <5>1
      <4> QED BY <4>1, <4>2
    <3>2. \A t \in Server : lock[t] # None /\ thread[t][a] # "done" => Current(t) \notin Range(log'[a])
      BY <1>3, <1>6 DEF PrefixInv, LogsInv
    <3> QED BY <1>4, <2>1, <3>1, <3>2
  <2>2. CASE b # a
    BY <1>2, <2>2 DEF PrefixInv, LogsInv
  <2> QED BY <2>1, <2>2
<1>10. RL!Apply(a)
  BY <1>2, <1>5 DEF RL!Apply
<1> QED BY <1>8, <1>9, <1>10 DEF PrefixInv, RL!Next

LEMMA NextPrefix ==
    ASSUME NEW s, Server = {s}
    PROVE  TypeInv /\ ChannelInv /\ SentInv /\ PrefixInv /\ [Next]_vars /\ restarts' = 0 =>
               PrefixInv' /\ [RL!Next]_<<decided, log>>
<1> SUFFICES ASSUME TypeInv, ChannelInv, SentInv, PrefixInv, [Next]_vars, restarts' = 0
             PROVE  PrefixInv' /\ [RL!Next]_<<decided, log>>
  OBVIOUS
<1>1. restarts = 0
  BY RestartsGrow
<1>2. ASSUME NEW h \in Handler, (\E r \in Request : Invoke(h, r)) \/ Acquire(h)
      PROVE  PrefixInv' /\ [RL!Next]_<<decided, log>>
  BY <1>2, InvokePrefix, AcquirePrefix
<1>3. ASSUME NEW t \in Server, Return(t)
      PROVE  PrefixInv' /\ [RL!Next]_<<decided, log>>
  BY <1>3, ReturnPrefix
<1>4. ASSUME NEW t \in Server, NEW a \in Acceptor, ThreadStep(t, a)
      PROVE  PrefixInv' /\ [RL!Next]_<<decided, log>>
  <2>1. t = s
    OBVIOUS
  <2>2. CASE SendLearn(t, a)
    BY <1>1, <2>1, <2>2, SendLearnPrefix
  <2>3. CASE ~ SendLearn(t, a)
    BY <1>4, <2>3, ThreadPrefix
  <2> QED BY <2>2, <2>3
<1>5. ASSUME NEW a \in Acceptor, AcceptorStep(a)
      PROVE  PrefixInv' /\ [RL!Next]_<<decided, log>>
  BY <1>5, LearnWritePrefix, AcceptorPrefix
<1>6. \A a \in Acceptor : ~ Restart(a)
  BY <1>1 DEF Restart, TypeInv, TypeOK, ProcessTypes
<1>7. CASE Crash
  BY <1>7, DiesPrefix DEF Crash
<1>8. CASE UNCHANGED vars
  <2> USE <1>8 DEF vars, handlerVars, proposerVars, netVars, acceptorVars, processVars, history
  <2>1. /\ \A t \in Server : Current(t)' = Current(t)
        /\ \A c : Working(c)' = Working(c) /\ Caller(c)' = Caller(c)
    BY DEF Current, Working, Caller
  <2> QED BY <2>1, PrefixSame
<1> QED BY <1>2, <1>3, <1>4, <1>5, <1>6, <1>7, <1>8 DEF Next, Work

\* One server and its acceptors are a replicated log, for any number of
\* requests and whoever dies, until an acceptor is started again: every
\* acceptor executes the writes in the order of their first learn, without a gap.
THEOREM IsReplicatedLog ==
    ASSUME NEW s, Server = {s}
    PROVE  Spec => ImplementsReplicatedLog
<1> DEFINE Inv == restarts = 0 => PrefixInv
<1>1. Init => RL!Init /\ Inv
  BY InitPrefix DEF Init, RL!Init
<1>2. TypeInv /\ ChannelInv /\ SentInv /\ Inv /\ [Next]_vars =>
          Inv' /\ [restarts' = 0 => RL!Next]_RL!vars
  <2> SUFFICES ASSUME TypeInv, ChannelInv, SentInv, Inv, [Next]_vars, restarts' = 0
               PROVE  PrefixInv' /\ [RL!Next]_<<decided, log>>
    BY DEF RL!vars
  <2> QED BY RestartsGrow, NextPrefix
<1> QED BY <1>1, <1>2, SentInvariant, PTL DEF Spec, ImplementsReplicatedLog
-----------------------------------------------------------------------------
(***************************************************************************)
(* Deadlock.  On an open connection it is always somebody's turn: a thread *)
(* is to send, a message is unread, or the acceptor writes a file.  So     *)
(* when everybody waits, an acceptor with connections serves a thread that *)
(* spins for a quorum.                                                     *)
(***************************************************************************)
ToSend == {"propose", "spin", "learnSpin"}

Turn(c, a) ==
    \/ Working(c) /\ State(c, a) \in ToSend
    \/ \E m \in toAcceptor \cup toThread : With(m, c, a)
    \/ Serving(a) = c /\ phase[a] \in {"store", "write"}

\* A call has one connection to an acceptor.
OnceInv == \A a \in Acceptor : \A i, j \in DOMAIN conns[a] : conns[a][i] = conns[a][j] => i = j

TurnInv ==
    /\ OnceInv
    /\ \A a \in Acceptor : \A c \in Range(conns[a]) : Caller(c) \in up => Turn(c, a)

LEMMA InitTurn == Init => TurnInv
BY DEF Init, TurnInv, OnceInv, Range

LEMMA TailOnce ==
    ASSUME NEW S, NEW seq \in Seq(S), seq # <<>>,
           \A i, j \in DOMAIN seq : seq[i] = seq[j] => i = j
    PROVE  /\ \A i, j \in DOMAIN Tail(seq) : Tail(seq)[i] = Tail(seq)[j] => i = j
           /\ Head(seq) \notin Range(Tail(seq))
<1>1. /\ Len(seq) \in Nat \ {0} /\ DOMAIN seq = 1 .. Len(seq)
      /\ DOMAIN Tail(seq) = 1 .. Len(seq) - 1 /\ Head(seq) = seq[1]
      /\ \A i \in 1 .. Len(seq) - 1 : Tail(seq)[i] = seq[i + 1] /\ i + 1 \in 1 .. Len(seq)
  OBVIOUS
<1>2. ASSUME NEW i \in DOMAIN Tail(seq), NEW j \in DOMAIN Tail(seq), Tail(seq)[i] = Tail(seq)[j]
      PROVE  i = j
  <2>1. seq[i + 1] = seq[j + 1] /\ i + 1 \in DOMAIN seq /\ j + 1 \in DOMAIN seq
    BY <1>1, <1>2
  <2>2. i + 1 = j + 1
    BY <2>1
  <2> QED BY <1>1, <2>2
<1>3. ASSUME Head(seq) \in Range(Tail(seq)) PROVE FALSE
  <2>1. PICK i \in 1 .. Len(seq) - 1 : Tail(seq)[i] = seq[1]
    BY <1>1, <1>3 DEF Range
  <2>2. seq[i + 1] = seq[1] /\ i + 1 \in DOMAIN seq /\ 1 \in DOMAIN seq
    BY <1>1, <2>1
  <2>3. i + 1 = 1
    BY <2>2
  <2> QED BY <1>1, <2>3
<1> QED BY <1>2, <1>3

LEMMA AppendOnce ==
    ASSUME NEW S, NEW seq \in Seq(S), NEW c \in S, c \notin Range(seq),
           \A i, j \in DOMAIN seq : seq[i] = seq[j] => i = j
    PROVE  \A i, j \in DOMAIN Append(seq, c) : Append(seq, c)[i] = Append(seq, c)[j] => i = j
<1>1. /\ Len(seq) \in Nat /\ DOMAIN seq = 1 .. Len(seq)
      /\ DOMAIN Append(seq, c) = 1 .. Len(seq) + 1 /\ Append(seq, c)[Len(seq) + 1] = c
      /\ \A i \in 1 .. Len(seq) : Append(seq, c)[i] = seq[i] /\ seq[i] # c
  BY DEF Range
<1>2. \A i \in DOMAIN Append(seq, c) : i \in 1 .. Len(seq) \/ i = Len(seq) + 1
  BY <1>1
<1> QED BY <1>1, <1>2

\* The steps of the handlers, and the end of a server.
LEMMA HandlerTurn ==
    ASSUME TypeInv, TurnInv, UNCHANGED <<conns, phase, toAcceptor>>, up' \subseteq up,
           \A m \in toThread : m \in toThread' \/ Caller(m.call) \notin up',
           \A c \in Calls, a \in Acceptor : Caller(c) \in up' /\ Working(c) /\ State(c, a) \in ToSend =>
               Working(c)' /\ State(c, a)' \in ToSend
    PROVE  TurnInv'
<1>1. OnceInv'
  BY DEF TurnInv, OnceInv
<1>2. ASSUME NEW a \in Acceptor, NEW c \in Range(conns[a]), Caller(c) \in up' PROVE Turn(c, a)'
  <2>1. c \in Calls /\ Turn(c, a)
    BY <1>2, ConnCalls DEF TurnInv
  <2>2. CASE Working(c) /\ State(c, a) \in ToSend
    BY <1>2, <2>1, <2>2 DEF Turn, ToSend
  <2>3. CASE \E m \in toAcceptor \cup toThread : With(m, c, a)
    <3>1. PICK m \in toAcceptor \cup toThread : With(m, c, a)
      BY <2>3
    <3>2. m \in toAcceptor' \cup toThread' /\ With(m, c, a)'
      BY <1>2, <3>1 DEF With
    <3> QED BY <3>2 DEF Turn
  <2>4. CASE Serving(a) = c /\ phase[a] \in {"store", "write"}
    BY <2>4 DEF Turn, Serving
  <2> QED BY <2>1, <2>2, <2>3, <2>4 DEF Turn
<1>3. \A c : Caller(c)' = Caller(c)
  BY DEF Caller
<1> QED BY <1>1, <1>2, <1>3 DEF TurnInv

LEMMA HandlersTurn ==
    ASSUME TypeInv, ChannelInv, TurnInv,
           \/ \E h \in Handler, r \in Request : Invoke(h, r)
           \/ \E h \in Handler : Acquire(h)
           \/ \E s \in Server : Return(s) \/ ServerDies(s)
    PROVE  TurnInv'
<1> USE DEF handlerVars, proposerVars, netVars, acceptorVars, processVars
<1>1. ASSUME NEW h \in Handler, NEW r \in Request, Invoke(h, r) PROVE TurnInv'
  <2>1. /\ UNCHANGED <<conns, phase, toAcceptor, toThread, up, lock, thread>> /\ req[h] = None
        /\ \A k \in Handler : k # h => req'[k] = req[k]
    BY <1>1 DEF Invoke, TypeInv, TypeOK, HandlerTypes
  <2>2. \A c \in Calls : Working(c) => Working(c)' /\ \A a : State(c, a)' = State(c, a)
    BY <2>1, CallType DEF Working, State, Caller
  <2> QED BY <2>1, <2>2, HandlerTurn
<1>2. ASSUME NEW h \in Handler, Acquire(h) PROVE TurnInv'
  <2>1. /\ UNCHANGED <<conns, phase, toAcceptor, toThread, up, req>> /\ lock[Home[h]] = None
        /\ \A s \in Server : s # Home[h] => lock'[s] = lock[s] /\ thread'[s] = thread[s]
    BY <1>2 DEF Acquire, TypeInv, TypeOK, ProposerTypes, parserVars
  <2>2. \A c \in Calls : Working(c) => Working(c)' /\ \A a : State(c, a)' = State(c, a)
    BY <2>1, CallType, NoneAssumption DEF Working, State, Caller
  <2> QED BY <2>1, <2>2, HandlerTurn
<1>3. ASSUME NEW s \in Server, Return(s) PROVE TurnInv'
  <2>1. /\ UNCHANGED <<conns, phase, toAcceptor, toThread, up>> /\ lock[s] # None
        /\ \A a \in Acceptor : thread[s][a] \in {"none", "done"}
        /\ \A t \in Server : t # s => lock'[t] = lock[t] /\ thread'[t] = thread[t]
        /\ \A k \in Handler : k # lock[s] => req'[k] = req[k]
    BY <1>3, CurrentType DEF Return, Coordinating, Joined, EndThreads, TypeInv, TypeOK, HandlerTypes,
                ProposerTypes, parserVars
  <2>2. ASSUME NEW c \in Calls, NEW a \in Acceptor, Working(c), State(c, a) \in ToSend
        PROVE  Working(c)' /\ State(c, a)' = State(c, a)
    <3>1. Caller(c) \in Server /\ Caller(c) # s
      BY <2>1, <2>2, CallType DEF State, ToSend
    <3>2. c.handler \in Handler /\ Home[c.handler] # s /\ Home[lock[s]] = s
      BY <2>1, <3>1, CallType, CurrentType DEF Caller
    <3> QED BY <2>1, <2>2, <3>1, <3>2 DEF Working, State, Caller
  <2> QED BY <2>1, <2>2, HandlerTurn
<1>4. ASSUME NEW s \in Server, ServerDies(s) PROVE TurnInv'
  <2>1. /\ UNCHANGED <<conns, phase, toAcceptor, req>> /\ up' = up \ {s}
        /\ \A t \in Server : t # s => lock'[t] = lock[t] /\ thread'[t] = thread[t]
        /\ \A m \in toThread : m \in toThread' \/ Caller(m.call) = s
    BY <1>4 DEF ServerDies, EndThreads, TypeInv, TypeOK, ProposerTypes, parserVars
  <2>2. \A c \in Calls : Caller(c) \in up' /\ Working(c) => Working(c)' /\ \A a : State(c, a)' = State(c, a)
    BY <2>1, CallType DEF Working, State, Caller
  <2> QED BY <2>1, <2>2, HandlerTurn
<1> QED BY <1>1, <1>2, <1>3, <1>4

\* A step of a thread.  When it ends, it has sent something or there is no
\* connection.
LEMMA ThreadTurn ==
    ASSUME TypeInv, ChannelInv, TurnInv, NEW s \in Server, NEW b \in Acceptor, lock[s] # None,
           UNCHANGED <<req, lock, phase, up>>,
           \A t \in Server, a \in Acceptor : ~ (t = s /\ a = b) => thread'[t][a] = thread[t][a],
           toAcceptor \subseteq toAcceptor',
           \A m \in toThread : m \in toThread' \/ With(m, Current(s), b),
           \A a \in Acceptor : a # b => conns'[a] = conns[a],
           \/ conns'[b] = conns[b]
           \/ Current(s) \notin Range(conns[b]) /\ conns'[b] = Append(conns[b], Current(s)),
           \/ thread'[s][b] \in ToSend
           \/ \E m \in toAcceptor' : With(m, Current(s), b)
           \/ Current(s) \notin Range(conns'[b])
    PROVE  TurnInv'
<1>x. PICK x : x = Current(s)
  OBVIOUS
<1>1. x \in Calls /\ Working(x) /\ Caller(x) = s
  BY <1>x, CurrentWorks
<1>2. conns[b] \in Seq(Calls)
  BY DEF TypeInv, TypeOK, AcceptorTypes
<1>3. OnceInv'
  <2>1. ASSUME conns'[b] = Append(conns[b], x), x \notin Range(conns[b])
        PROVE  \A i, j \in DOMAIN conns'[b] : conns'[b][i] = conns'[b][j] => i = j
    BY <1>1, <1>2, <2>1, AppendOnce DEF TurnInv, OnceInv
  <2> QED BY <1>x, <2>1 DEF TurnInv, OnceInv
<1>4. ASSUME NEW a \in Acceptor, NEW c \in Range(conns'[a]), Caller(c) \in up PROVE Turn(c, a)'
  <2>1. CASE a = b /\ c = x
    <3>1. /\ Working(x)' /\ State(x, b)' = thread'[s][b]
          /\ \A m : With(m, x, b)' = With(m, x, b)
      BY <1>1 DEF Working, State, Caller, With
    <3> QED BY <1>x, <1>4, <2>1, <3>1 DEF Turn
  <2>2. CASE ~ (a = b /\ c = x)
    <3>1. c \in Range(conns[a]) /\ conns[a] # <<>> /\ c \in Calls /\ Serving(a)' = Serving(a)
      <4>1. CASE conns'[a] = conns[a]
        BY <1>4, <4>1, ConnCalls DEF Serving
      <4>2. CASE conns'[a] # conns[a]
        <5>1. a = b /\ conns'[b] = Append(conns[b], x) /\ c # x
          BY <1>x, <2>2, <4>2
        <5>2. c \in Range(conns[b])
          BY <1>1, <1>2, <1>4, <5>1, AppendRange
        <5>3. conns[b] # <<>> /\ c \in Calls
          BY <5>2, ConnCalls
        <5>4. Head(Append(conns[b], x)) = Head(conns[b])
          BY <1>1, <1>2, <5>3
        <5> QED BY <5>1, <5>2, <5>3, <5>4 DEF Serving
      <4> QED BY <4>1, <4>2
    <3>2. Turn(c, a)
      BY <1>4, <3>1 DEF TurnInv
    <3>3. CASE Working(c) /\ State(c, a) \in ToSend
      <4>1. Caller(c) \in Server /\ (Caller(c) = s => c = x)
        BY <1>x, <3>1, <3>3, WorkingCurrent, CallType
      <4>2. thread'[Caller(c)][a] = thread[Caller(c)][a]
        BY <2>2, <4>1
      <4> QED BY <3>3, <4>2 DEF Turn, Working, State, Caller
    <3>4. CASE \E m \in toAcceptor \cup toThread : With(m, c, a)
      <4>1. PICK m \in toAcceptor \cup toThread : With(m, c, a)
        BY <3>4
      <4>2. m \in toAcceptor' \cup toThread' /\ With(m, c, a)'
        BY <1>x, <2>2, <4>1 DEF With
      <4> QED BY <4>2 DEF Turn
    <3>5. CASE Serving(a) = c /\ phase[a] \in {"store", "write"}
      BY <3>1, <3>5 DEF Turn
    <3> QED BY <3>2, <3>3, <3>4, <3>5 DEF Turn
  <2> QED BY <2>1, <2>2
<1>5. \A c : Caller(c)' = Caller(c)
  BY DEF Caller
<1> QED BY <1>3, <1>4, <1>5 DEF TurnInv

LEMMA ThreadsTurn ==
    ASSUME TypeInv, ChannelInv, TurnInv, NEW s \in Server, NEW b \in Acceptor, ThreadStep(s, b)
    PROVE  TurnInv'
<1> USE DEF handlerVars, proposerVars, netVars, acceptorVars, processVars
<1>c. CASE EndOfFileFaults(s, b) \/ ParseFaults(s, b) \/ BrokenPipe(s, b)
  BY <1>c, HandlersTurn DEF EndOfFileFaults, ParseFaults, BrokenPipe
<1>d. CASE ~ (EndOfFileFaults(s, b) \/ ParseFaults(s, b) \/ BrokenPipe(s, b))
  <2>1. /\ lock[s] # None /\ UNCHANGED <<req, lock, phase, up>>
        /\ \E state : Goto(s, b, state)
    BY <1>d DEF ThreadStep, Connect, ConnectFail, Propose, ReceivePromise, Retry, SendAccept,
               ReceiveAccepted, SendLearn, EndOfFile, NoAnswer, At, Coordinating
  <2>2. \A t \in Server, a \in Acceptor : ~ (t = s /\ a = b) => thread'[t][a] = thread[t][a]
    BY <2>1 DEF Goto, TypeInv, TypeOK, ProposerTypes, parserVars
  <2>3. \A state : Goto(s, b, state) => thread'[s][b] = state
    BY DEF Goto, TypeInv, TypeOK, ProposerTypes, parserVars
  <2>4. \A a \in Acceptor : a # b => conns'[a] = conns[a]
    BY <1>d DEF ThreadStep, Connect, ConnectFail, Propose, ReceivePromise, Retry, SendAccept,
               ReceiveAccepted, SendLearn, EndOfFile, TypeInv, TypeOK, AcceptorTypes
  <2>5. /\ toAcceptor \subseteq toAcceptor'
        /\ \A m \in toThread : m \in toThread' \/ With(m, Current(s), b)
    BY <1>d, SendGrows DEF ThreadStep, Connect, ConnectFail, Propose, ReceivePromise, Retry, SendAccept,
               ReceiveAccepted, SendLearn, EndOfFile, Answers, With
  <2>6. CASE Connect(s, b)
    <3>1. thread'[s][b] \in ToSend /\ conns'[b] = Append(conns[b], Current(s))
      BY <2>3, <2>6 DEF Connect, ToSend, TypeInv, TypeOK, AcceptorTypes
    <3>2. Current(s) \notin Range(conns[b])
      <4>1. /\ Working(Current(s)) /\ State(Current(s), b) = "connect"
            /\ Caller(Current(s)) \in up
        BY <2>1, <2>6, CurrentWorks DEF Connect, At
      <4> QED BY <4>1 DEF ChannelInv, ConnInv, Working
    <3> QED BY <2>1, <2>2, <2>4, <2>5, <3>1, <3>2, ThreadTurn
  <2>7. CASE ConnectFail(s, b)
    <3>1. conns'[b] = conns[b] /\ Current(s) \notin Range(conns[b])
      BY <2>7 DEF ConnectFail, ChannelInv, ConnInv
    <3> QED BY <2>1, <2>2, <2>4, <2>5, <3>1, ThreadTurn
  <2>8. CASE ReceivePromise(s, b) \/ ReceiveAccepted(s, b) \/ EndOfFile(s, b)
    <3>1. thread'[s][b] \in ToSend /\ conns'[b] = conns[b]
      BY <2>3, <2>8 DEF ReceivePromise, ReceiveAccepted, EndOfFile, ToSend
    <3> QED BY <2>1, <2>2, <2>4, <2>5, <3>1, ThreadTurn
  <2>9. CASE Propose(s, b) \/ Retry(s, b) \/ SendAccept(s, b) \/ SendLearn(s, b)
    <3>1. conns'[b] = conns[b] /\ \E type, id : Send(s, b, type, id)
      BY <2>9 DEF Propose, Retry, SendAccept, SendLearn
    <3>2. ASSUME Current(s) \in Range(conns[b]) PROVE \E m \in toAcceptor' : With(m, Current(s), b)
      <4>1. b \notin broken[s]
        BY <2>1, <3>2, CurrentWorks DEF ChannelInv, ConnInv, Working
      <4>2. PICK type, id : Send(s, b, type, id)
        BY <3>1
      <4>3. PICK k : k = Message(s, b, type, id)
        OBVIOUS
      <4>4. k \in toAcceptor' /\ With(k, Current(s), b)
        BY <4>1, <4>2, <4>3 DEF Send, Message, With
      <4> QED BY <4>4
    <3> QED BY <2>1, <2>2, <2>4, <2>5, <3>1, <3>2, ThreadTurn
  <2> QED BY <1>d, <2>6, <2>7, <2>8, <2>9 DEF ThreadStep
<1> QED BY <1>c, <1>d

\* A step of an acceptor concerns the connection it serves: it closes it, goes
\* on to write a file or answers.
LEMMA AcceptorTurn ==
    ASSUME TypeInv, TurnInv, NEW b \in Acceptor, conns[b] # <<>>,
           UNCHANGED <<req, lock, thread, up>>,
           \A a \in Acceptor : a # b => conns'[a] = conns[a] /\ phase'[a] = phase[a],
           \A m \in toAcceptor : m \in toAcceptor' \/ With(m, Serving(b), b),
           toThread \subseteq toThread',
           \/ conns'[b] = Tail(conns[b])
           \/ /\ conns'[b] = conns[b]
              /\ \/ phase'[b] \in {"store", "write"}
                 \/ Caller(Serving(b)) \notin up
                 \/ \E m \in toThread' : With(m, Serving(b), b)
    PROVE  TurnInv'
<1>1. conns[b] \in Seq(Calls)
  BY DEF TypeInv, TypeOK, AcceptorTypes
<1>2. /\ \A i, j \in DOMAIN Tail(conns[b]) : Tail(conns[b])[i] = Tail(conns[b])[j] => i = j
      /\ Serving(b) \notin Range(Tail(conns[b]))
  BY <1>1, TailOnce DEF TurnInv, OnceInv, Serving
<1>3. OnceInv'
  BY <1>2 DEF TurnInv, OnceInv
<1>4. ASSUME NEW a \in Acceptor, NEW c \in Range(conns'[a]), Caller(c) \in up PROVE Turn(c, a)'
  <2>1. CASE a = b /\ c = Serving(b)
    <3>1. conns'[b] = conns[b]
      BY <1>2, <1>4, <2>1
    <3>2. Serving(b)' = Serving(b)
      BY <3>1 DEF Serving
    <3>3. CASE phase'[b] \in {"store", "write"}
      BY <2>1, <3>2, <3>3 DEF Turn
    <3>4. CASE \E m \in toThread' : With(m, Serving(b), b)
      BY <2>1, <3>4 DEF Turn, With
    <3> QED BY <1>4, <2>1, <3>1, <3>3, <3>4, <1>2
  <2>2. CASE ~ (a = b /\ c = Serving(b))
    <3>1. c \in Range(conns[a])
      BY <1>1, <1>4, TailRange
    <3>2. Turn(c, a)
      BY <1>4, <3>1 DEF TurnInv
    <3>3. CASE Working(c) /\ State(c, a) \in ToSend
      BY <3>3 DEF Turn, Working, State, Caller
    <3>4. CASE \E m \in toAcceptor \cup toThread : With(m, c, a)
      <4>1. PICK m \in toAcceptor \cup toThread : With(m, c, a)
        BY <3>4
      <4>2. m \in toAcceptor' \cup toThread' /\ With(m, c, a)'
        BY <2>2, <4>1 DEF With
      <4> QED BY <4>2 DEF Turn
    <3>5. CASE Serving(a) = c /\ phase[a] \in {"store", "write"}
      BY <2>2, <3>5 DEF Turn, Serving
    <3> QED BY <3>2, <3>3, <3>4, <3>5 DEF Turn
  <2> QED BY <2>1, <2>2
<1>5. \A c : Caller(c)' = Caller(c)
  BY DEF Caller
<1> QED BY <1>3, <1>4, <1>5 DEF TurnInv

\* The end or the start of an acceptor.
LEMMA ProcessTurn ==
    ASSUME TypeInv, ChannelInv, TurnInv, NEW b \in Acceptor, AcceptorDies(b) \/ Restart(b)
    PROVE  TurnInv'
<1> USE DEF handlerVars, proposerVars, netVars, acceptorVars, processVars
<1>1. /\ UNCHANGED <<req, lock, thread, toThread>>
      /\ \A a \in Acceptor : a # b => conns'[a] = conns[a] /\ phase'[a] = phase[a]
      /\ \A m \in toAcceptor : m \in toAcceptor' \/ m.acceptor = b
      /\ \A s \in Server : s \in up' => s \in up
  <2>1. CASE AcceptorDies(b)
    BY <2>1 DEF AcceptorDies, TypeInv, TypeOK, AcceptorTypes
  <2>2. CASE Restart(b)
    BY <2>2, ProcessAssumption DEF Restart
  <2> QED BY <2>1, <2>2
<1>b. conns'[b] = <<>>
  <2>1. conns[b] # <<>> => b \in up
    BY ConnCalls DEF ChannelInv, ConnInv
  <2> QED BY <2>1 DEF AcceptorDies, Restart, TypeInv, TypeOK, AcceptorTypes
<1>2. OnceInv'
  BY <1>1, <1>b DEF TurnInv, OnceInv
<1>3. ASSUME NEW a \in Acceptor, NEW c \in Range(conns'[a]), Caller(c) \in up' PROVE Turn(c, a)'
  <2>1. a # b
    BY <1>b, <1>3 DEF Range
  <2>2. c \in Calls
    BY <1>1, <1>3, <2>1, ConnCalls
  <2>3. Turn(c, a)
    BY <1>1, <1>3, <2>1, <2>2, CallType DEF TurnInv
  <2>4. CASE Working(c) /\ State(c, a) \in ToSend
    BY <1>1, <2>4 DEF Turn, Working, State, Caller
  <2>5. CASE \E m \in toAcceptor \cup toThread : With(m, c, a)
    <3>1. PICK m \in toAcceptor \cup toThread : With(m, c, a)
      BY <2>5
    <3>2. m \in toAcceptor' \cup toThread' /\ With(m, c, a)'
      BY <1>1, <2>1, <3>1 DEF With
    <3> QED BY <3>2 DEF Turn
  <2>6. CASE Serving(a) = c /\ phase[a] \in {"store", "write"}
    BY <1>1, <2>1, <2>6 DEF Turn, Serving
  <2> QED BY <2>3, <2>4, <2>5, <2>6 DEF Turn
<1>4. \A c : Caller(c)' = Caller(c)
  BY DEF Caller
<1> QED BY <1>2, <1>3, <1>4 DEF TurnInv

LEMMA AcceptorsTurn ==
    ASSUME TypeInv, ChannelInv, TurnInv, NEW b \in Acceptor, AcceptorStep(b)
    PROVE  TurnInv'
<1> USE DEF handlerVars, proposerVars, netVars, acceptorVars, processVars
<1>1. CASE AcceptFaults(b) \/ OrphanDies(b)
  BY <1>1, ProcessTurn DEF AcceptFaults, OrphanDies
<1>2. CASE ~ (AcceptFaults(b) \/ OrphanDies(b))
  <2>1. conns[b] # <<>> /\ UNCHANGED <<req, lock, thread, up>>
    BY <1>2 DEF AcceptorStep, Promise, StorePromise, RefusePrepare, AnswerAccept, LearnWrite, LearnRead,
                WriteBuffer, OrphanCloses, Orphaned, In
  <2>2. \A a \in Acceptor : a # b => conns'[a] = conns[a] /\ phase'[a] = phase[a]
    BY <1>2 DEF AcceptorStep, Promise, StorePromise, RefusePrepare, AnswerAccept, LearnWrite, LearnRead,
                WriteBuffer, OrphanCloses, Close, Enter, TypeInv, TypeOK, AcceptorTypes
  <2>3. \A m \in toAcceptor : m \in toAcceptor' \/ With(m, Serving(b), b)
    BY <1>2 DEF AcceptorStep, Promise, StorePromise, RefusePrepare, AnswerAccept, LearnWrite, LearnRead,
                WriteBuffer, OrphanCloses, Inbox, With
  <2>4. ASSUME NEW type, NEW id, Reply(b, type, id)
        PROVE  /\ toThread \subseteq toThread'
               /\ Caller(Serving(b)) \notin up \/ \E m \in toThread' : With(m, Serving(b), b)
    <3>1. PICK k : k = [type |-> type, call |-> Serving(b), acceptor |-> b, id |-> id]
      OBVIOUS
    <3>2. With(k, Serving(b), b)
      BY <3>1 DEF With
    <3> QED BY <2>4, <3>1, <3>2 DEF Reply
  <2>5. CASE Promise(b) \/ LearnRead(b)
    <3>1. conns'[b] = conns[b] /\ phase'[b] \in {"store", "write"} /\ UNCHANGED toThread
      BY <2>5 DEF Promise, LearnRead, Enter, TypeInv, TypeOK, AcceptorTypes
    <3> QED BY <2>1, <2>2, <2>3, <3>1, AcceptorTurn
  <2>6. CASE StorePromise(b) \/ RefusePrepare(b) \/ AnswerAccept(b)
    <3>1. conns'[b] = conns[b] /\ \E type, id : Reply(b, type, id)
      BY <2>6 DEF StorePromise, RefusePrepare, AnswerAccept
    <3> QED BY <2>1, <2>2, <2>3, <2>4, <3>1, AcceptorTurn
  <2>7. CASE LearnWrite(b) \/ WriteBuffer(b) \/ OrphanCloses(b)
    <3>1. conns'[b] = Tail(conns[b]) /\ UNCHANGED toThread
      BY <2>7 DEF LearnWrite, WriteBuffer, OrphanCloses, Close, TypeInv, TypeOK, AcceptorTypes
    <3> QED BY <2>1, <2>2, <2>3, <3>1, AcceptorTurn
  <2> QED BY <1>2, <2>5, <2>6, <2>7 DEF AcceptorStep
<1> QED BY <1>1, <1>2

LEMMA NextTurn == TypeInv /\ ChannelInv /\ TurnInv /\ [Next]_vars => TurnInv'
<1> SUFFICES ASSUME TypeInv, ChannelInv, TurnInv, [Next]_vars PROVE TurnInv'
  OBVIOUS
<1>1. CASE UNCHANGED vars
  BY <1>1, HandlerTurn DEF vars, handlerVars, proposerVars, netVars, acceptorVars, processVars,
                           Working, State, Caller
<1>2. CASE Next
  BY <1>2, HandlersTurn, ThreadsTurn, AcceptorsTurn, ProcessTurn DEF Next, Work, Crash
<1> QED BY <1>1, <1>2

LEMMA TurnInvariant == Spec => [](TypeInv /\ ChannelInv /\ Rest /\ TurnInv)
BY TypeRest, ChannelInvariant, InitTurn, NextTurn, PTL DEF Spec

\* What the counters of a write owe to an acceptor that does not die.
Past(s, a) ==
    /\ thread[s][a] # "none"
    /\ thread[s][a] \in {"spin", "accepted", "learnSpin", "done"} => a \in promises[s]
    /\ thread[s][a] \in {"learnSpin", "done"} => a \in accepts[s]

CountedBy(a) ==
    \A s \in Server :
        /\ a \notin broken[s]
        /\ lock[s] # None /\ ~ IsRead(Current(s)) => Past(s, a)

LEMMA CountedKept ==
    ASSUME NEW a, CountedBy(a), \A s \in Server : a \notin broken'[s],
           \A s \in Server : lock'[s] # None =>
               \/ /\ lock[s] # None /\ Current(s)' = Current(s) /\ thread'[s][a] = thread[s][a]
                  /\ promises[s] \subseteq promises'[s] /\ accepts[s] \subseteq accepts'[s]
               \/ Past(s, a)' \/ IsRead(Current(s))'
    PROVE  CountedBy(a)'
BY DEF CountedBy, Past, IsRead

LEMMA HandlersCounted ==
    ASSUME TypeInv, NEW a \in Acceptor, CountedBy(a),
           \/ \E h \in Handler, r \in Request : Invoke(h, r)
           \/ \E h \in Handler : Acquire(h)
           \/ \E s \in Server : Return(s) \/ ServerDies(s)
    PROVE  CountedBy(a)'
<1> USE DEF handlerVars, proposerVars
<1>1. ASSUME NEW h \in Handler, NEW r \in Request, Invoke(h, r) PROVE CountedBy(a)'
  <2>1. \A s \in Server : lock[s] # None => Current(s)' = Current(s)
    BY <1>1, CurrentType DEF Invoke, Current, TypeInv, TypeOK, HandlerInv, HandlerTypes
  <2> QED BY <1>1, <2>1, CountedKept DEF Invoke, CountedBy
<1>2. ASSUME NEW h \in Handler, Acquire(h) PROVE CountedBy(a)'
  <2>1. /\ \A s \in Server : s # Home[h] =>
                lock'[s] = lock[s] /\ thread'[s] = thread[s] /\ broken'[s] = broken[s]
                /\ promises'[s] = promises[s] /\ accepts'[s] = accepts[s]
        /\ lock'[Home[h]] = h /\ req' = req /\ broken'[Home[h]] = {}
        /\ ~ IsRead(req[h]) => thread'[Home[h]][a] = "connect"
    BY <1>2, ProcessAssumption DEF Acquire, TypeInv, TypeOK, ProposerTypes, parserVars
  <2>2. Past(Home[h], a)' \/ IsRead(Current(Home[h]))'
    BY <2>1 DEF Past, IsRead, Current
  <2> QED BY <2>1, <2>2, CountedKept DEF CountedBy, Current
<1>3. ASSUME NEW s \in Server, Return(s) PROVE CountedBy(a)'
  <2>1. /\ \A t \in Server : t # s => lock'[t] = lock[t] /\ thread'[t] = thread[t]
        /\ lock'[s] = None /\ UNCHANGED <<broken, promises, accepts>>
    BY <1>3 DEF Return, EndThreads, TypeInv, TypeOK, ProposerTypes, parserVars
  <2>2. ASSUME NEW t \in Server, t # s, lock[t] # None PROVE Current(t)' = Current(t)
    <3>1. lock[t] # lock[s] /\ lock'[t] = lock[t]
      BY <1>3, <2>1, <2>2 DEF Return, Coordinating, TypeInv, HandlerInv
    <3> QED BY <1>3, <3>1 DEF Return, Current, TypeInv, TypeOK, HandlerTypes
  <2> QED BY <2>1, <2>2, CountedKept DEF CountedBy
<1>4. ASSUME NEW s \in Server, ServerDies(s) PROVE CountedBy(a)'
  <2>1. /\ \A t \in Server : t # s =>
               lock'[t] = lock[t] /\ thread'[t] = thread[t] /\ Current(t)' = Current(t)
               /\ promises'[t] = promises[t] /\ accepts'[t] = accepts[t]
        /\ lock'[s] = None /\ UNCHANGED broken
    BY <1>4 DEF ServerDies, EndThreads, Current, TypeInv, TypeOK, ProposerTypes, parserVars
  <2> QED BY <2>1, CountedKept DEF CountedBy
<1> QED BY <1>1, <1>2, <1>3, <1>4

LEMMA ThreadsCounted ==
    ASSUME TypeInv, NEW a \in Acceptor, a \in up, CountedBy(a),
           NEW s \in Server, NEW b \in Acceptor, ThreadStep(s, b)
    PROVE  CountedBy(a)'
<1> USE DEF handlerVars
<1>1. CASE EndOfFileFaults(s, b) \/ ParseFaults(s, b) \/ BrokenPipe(s, b)
  BY <1>1, HandlersCounted DEF EndOfFileFaults, ParseFaults, BrokenPipe
<1>2. CASE ~ (EndOfFileFaults(s, b) \/ ParseFaults(s, b) \/ BrokenPipe(s, b))
  <2>1. /\ lock[s] # None /\ UNCHANGED <<req, lock, broken>>
        /\ \E state : Goto(s, b, state)
    BY <1>2 DEF ThreadStep, Connect, ConnectFail, Propose, ReceivePromise, Retry, SendAccept,
                ReceiveAccepted, SendLearn, EndOfFile, NoAnswer, At, Coordinating
  <2>2. \A t \in Server : Current(t)' = Current(t)
    BY <2>1 DEF Current
  <2>3. \A t \in Server : promises[t] \subseteq promises'[t] /\ accepts[t] \subseteq accepts'[t]
    <3>1. CASE ReceivePromise(s, b)
      BY <3>1 DEF ReceivePromise, TypeInv, TypeOK, ProposerTypes, parserVars
    <3>2. CASE ReceiveAccepted(s, b)
      BY <3>2 DEF ReceiveAccepted, TypeInv, TypeOK, ProposerTypes, parserVars
    <3>3. CASE ~ (ReceivePromise(s, b) \/ ReceiveAccepted(s, b))
      <4>1. UNCHANGED <<promises, accepts>>
        BY <1>2, <3>3 DEF ThreadStep, Connect, ConnectFail, Propose, Retry, SendAccept, SendLearn, EndOfFile
      <4> QED BY <4>1
    <3> QED BY <3>1, <3>2, <3>3
  <2>4. \A t \in Server : ~ (t = s /\ a = b) => thread'[t][a] = thread[t][a]
    BY <2>1 DEF Goto, TypeInv, TypeOK, ProposerTypes, parserVars
  <2>5. CASE b = a /\ ~ IsRead(Current(s))
    <3> DEFINE Now == thread[s][a]
               Then == thread'[s][a]
    <3>1. Past(s, a) /\ a \notin broken[s]
      BY <2>1, <2>5 DEF CountedBy
    <3>2. \A state : Goto(s, a, state) => Then = state
      BY DEF Goto, TypeInv, TypeOK, ProposerTypes, parserVars
    <3>3. ASSUME Connect(s, a) \/ Propose(s, a) \/ Retry(s, a) PROVE Past(s, a)'
      <4>1. Then \in {"propose", "promise"}
        BY <3>2, <3>3 DEF Connect, Propose, Retry
      <4> QED BY <4>1 DEF Past
    <3>4. ASSUME ReceivePromise(s, a) PROVE Past(s, a)'
      <4>1. Then = "spin" /\ a \in promises'[s]
        BY <3>2, <3>4 DEF ReceivePromise, TypeInv, TypeOK, ProposerTypes, parserVars
      <4> QED BY <4>1 DEF Past
    <3>5. ASSUME SendAccept(s, a) PROVE Past(s, a)'
      <4>1. Now = "spin" /\ Then = "accepted"
        BY <3>2, <3>5 DEF SendAccept, At
      <4>2. a \in promises'[s]
        BY <2>3, <3>1, <4>1 DEF Past
      <4> QED BY <4>1, <4>2 DEF Past
    <3>6. ASSUME ReceiveAccepted(s, a) PROVE Past(s, a)'
      <4>1. Now = "accepted" /\ Then = "learnSpin" /\ a \in accepts'[s]
        BY <3>2, <3>6 DEF ReceiveAccepted, At, TypeInv, TypeOK, ProposerTypes, parserVars
      <4>2. a \in promises'[s]
        BY <2>3, <3>1, <4>1 DEF Past
      <4> QED BY <4>1, <4>2 DEF Past
    <3>7. ASSUME SendLearn(s, a) PROVE Past(s, a)'
      <4>1. Now = "learnSpin" /\ Then = "done"
        BY <3>2, <3>7 DEF SendLearn, At
      <4>2. a \in promises'[s] /\ a \in accepts'[s]
        BY <2>3, <3>1, <4>1 DEF Past
      <4> QED BY <4>1, <4>2 DEF Past
    <3>8. ~ ConnectFail(s, a) /\ ~ EndOfFile(s, a)
      BY <3>1 DEF ConnectFail, EndOfFile, NoAnswer
    <3>9. Past(s, a)'
      BY <1>2, <2>5, <3>3, <3>4, <3>5, <3>6, <3>7, <3>8 DEF ThreadStep
    <3> HIDE DEF Now, Then
    <3> QED BY <2>1, <2>2, <2>3, <2>4, <3>9, CountedKept DEF CountedBy
  <2>6. CASE b # a \/ IsRead(Current(s))
    BY <2>1, <2>2, <2>3, <2>4, <2>6, CountedKept DEF CountedBy, IsRead
  <2> QED BY <2>5, <2>6
<1> QED BY <1>1, <1>2

LEMMA NextCounted ==
    ASSUME TypeInv, NEW a \in Acceptor, a \in up, a \in up', CountedBy(a), [Next]_vars
    PROVE  CountedBy(a)'
<1> USE DEF handlerVars, proposerVars
<1>1. CASE \E b \in Acceptor : AcceptorStep(b) \/ Restart(b) \/ AcceptorDies(b)
  <2>1. UNCHANGED <<lock, req, thread, promises, accepts>>
    BY <1>1 DEF AcceptorStep, Promise, StorePromise, RefusePrepare, AnswerAccept, AcceptFaults,
                LearnWrite, LearnRead, WriteBuffer, OrphanDies, OrphanCloses, AcceptorDies, Restart
  <2>2. \A s \in Server : a \notin broken'[s]
    <3>1. CASE UNCHANGED broken
      BY <3>1 DEF CountedBy
    <3>2. CASE \E b \in Acceptor : AcceptorDies(b)
      BY <3>2 DEF AcceptorDies, CountedBy
    <3>3. CASE ~ \E b \in Acceptor : AcceptorDies(b)
      BY <1>1, <3>1, <3>3 DEF AcceptorStep, Promise, StorePromise, RefusePrepare, AnswerAccept, AcceptFaults,
                LearnWrite, LearnRead, WriteBuffer, OrphanDies, OrphanCloses, Restart
    <3> QED BY <3>2, <3>3
  <2> QED BY <2>1, <2>2, CountedKept DEF Current
<1>2. CASE UNCHANGED vars
  BY <1>2, CountedKept DEF vars, Current, CountedBy
<1> QED BY <1>1, <1>2, HandlersCounted, ThreadsCounted DEF Next, Work, Crash

-----------------------------------------------------------------------------
\* If every u is in one of the sets D[s], of at most k elements each ...
LEMMA Pigeons ==
    ASSUME NEW U, NEW S, IsFiniteSet(S), NEW k \in Nat, NEW D \in [S -> SUBSET U],
           \A s \in S : IsFiniteSet(D[s]) /\ Cardinality(D[s]) <= k,
           \A u \in U : \E s \in S : u \in D[s]
    PROVE  Cardinality(U) <= Cardinality(S) * k
<1> DEFINE Inj(s) == {g \in [D[s] -> 1 .. k] : \A x, y \in D[s] : g[x] = g[y] => x = y}
           G(s) == CHOOSE g \in Inj(s) : TRUE
           W(u) == CHOOSE s \in S : u \in D[s]
           f == [u \in U |-> <<W(u), G(W(u))[u]>>]
<1>1. ASSUME NEW s \in S PROVE G(s) \in Inj(s)
  <2>1. PICK n \in Nat : n = Cardinality(D[s]) /\ ExistsBijection(D[s], 1 .. n)
    <3>1. IsFiniteSet(D[s]) /\ Cardinality(D[s]) \in Nat
      BY FS_CardinalityType
    <3>2. PICK n : n = Cardinality(D[s])
      OBVIOUS
    <3>3. IsFiniteSet(1 .. n) /\ Cardinality(1 .. n) = n
      BY <3>1, <3>2, FS_Interval
    <3> QED BY <3>1, <3>2, <3>3, FS_SameCardinalityBij
  <2>2. PICK g \in Bijection(D[s], 1 .. n) : TRUE
    BY <2>1 DEF ExistsBijection
  <2>3. g \in [D[s] -> 1 .. n] /\ \A x, y \in D[s] : g[x] = g[y] => x = y
    BY <2>2 DEF Bijection, Injection, IsInjective
  <2>4. n <= k /\ \A i \in 1 .. n : i \in 1 .. k
    BY <2>1
  <2>5. g \in [D[s] -> 1 .. k]
    BY <2>3, <2>4
  <2> QED BY <2>3, <2>5
<1>2. ASSUME NEW u \in U PROVE W(u) \in S /\ u \in D[W(u)]
  OBVIOUS
<1>3. f \in Injection(U, S \X (1 .. k))
  <2> HIDE DEF G, W
  <2>1. f \in [U -> S \X (1 .. k)]
    BY <1>1, <1>2
  <2>2. ASSUME NEW u \in U, NEW v \in U, f[u] = f[v] PROVE u = v
    <3>1. W(u) = W(v) /\ G(W(u))[u] = G(W(u))[v]
      BY <2>2
    <3> QED BY <1>1, <1>2, <3>1
  <2> HIDE DEF f
  <2> QED BY <2>1, <2>2 DEF Injection, IsInjective
<1>4. IsFiniteSet(1 .. k) /\ Cardinality(1 .. k) = k
  BY FS_Interval
<1>5. IsFiniteSet(S \X (1 .. k)) /\ Cardinality(S \X (1 .. k)) = Cardinality(S) * k
  <2>1. Cardinality(S \X (1 .. k)) = Cardinality(S) * Cardinality(1 .. k)
    BY <1>4, FS_Product
  <2> QED BY <1>4, <2>1, FS_Product
<1>6. Cardinality(U) <= Cardinality(S \X (1 .. k))
  <2> HIDE DEF f
  <2> QED BY <1>3, <1>5, FS_Injection
<1> QED BY <1>5, <1>6

\* The loop in which a thread of s finds too few promises, or accepts.
Short(s, q) ==
    /\ lock[s] # None /\ ~ IsRead(Current(s))
    /\ \/ Cardinality(promises[s]) < q /\ \E b \in Acceptor : thread[s][b] = "spin"
       \/ Cardinality(accepts[s]) < q /\ \E b \in Acceptor : thread[s][b] = "learnSpin"

LEMMA SpinShort ==
    ASSUME TypeInv, Rest, NEW s \in Server, lock[s] # None, NEW b \in Acceptor, ThreadWaits(s, b),
           thread[s][b] \in {"spin", "learnSpin"},
           NEW q \in Nat, \A n \in AliveCounts : QuorumOf(n) <= q
    PROVE  /\ Short(s, q)
           /\ thread[s][b] = "spin" => Cardinality(promises[s]) < q
           /\ thread[s][b] = "learnSpin" => Cardinality(accepts[s]) < q
<1>1. PICK n \in AliveCounts : quorum[s][b] = QuorumOf(n)
  BY DEF Rest, QuorumParts, QuorumInv
<1>2. /\ quorum[s][b] <= q /\ quorum[s][b] \in Nat
      /\ Cardinality(promises[s]) \in Nat /\ Cardinality(accepts[s]) \in Nat
      /\ recounts[s] \in Nat
  <2>1. IsFiniteSet(promises[s]) /\ IsFiniteSet(accepts[s])
    BY ProcessAssumption, FS_Subset DEF TypeInv, TypeOK, ProposerTypes, parserVars
  <2> QED BY <1>1, <2>1, FS_CardinalityType DEF TypeInv, TypeOK, ProposerTypes, parserVars
<1>3. thread[s][b] = "spin" => ~ PromisesComplete(s, b)
  BY DEF ThreadWaits
<1>4. thread[s][b] = "learnSpin" => ~ AcceptsComplete(s, b)
  BY DEF ThreadWaits
<1> QED BY <1>2, <1>3, <1>4 DEF Short, PromisesComplete, AcceptsComplete

\* When everybody waits, an acceptor with connections serves a thread that spins.
LEMMA ServesSpinner ==
    ASSUME TypeInv, ChannelInv, TurnInv, NEW a \in Acceptor, conns[a] # <<>>,
           AcceptorWaits(a), \A s \in Server : ServerWaits(s)
    PROVE  \E s \in Server : /\ lock[s] # None /\ ThreadWaits(s, a)
                             /\ thread[s][a] \in {"spin", "learnSpin"}
<1>1. PICK c : c = Serving(a)
  OBVIOUS
<1>2. c \in Calls /\ c \in Range(conns[a]) /\ a \in up
  BY <1>1, AcceptorEnd
<1>3. /\ phase[a] \in {"prepare", "accept", "learn"} /\ Caller(c) \in up
      /\ \A m \in toAcceptor : ~ With(m, c, a)
  BY <1>1, <1>2 DEF AcceptorWaits, With
<1>4. Turn(c, a)
  BY <1>2, <1>3 DEF TurnInv
<1>5. ASSUME Working(c)
      PROVE  /\ Caller(c) \in Server /\ lock[Caller(c)] # None /\ Current(Caller(c)) = c
             /\ ThreadWaits(Caller(c), a)
  BY <1>2, <1>3, <1>5, WorkingCurrent, CallType DEF ServerWaits
<1>6. CASE Working(c) /\ State(c, a) \in ToSend
  <2>1. thread[Caller(c)][a] \in {"spin", "learnSpin"}
    BY <1>5, <1>6 DEF State, ToSend, ThreadWaits
  <2> QED BY <1>5, <1>6, <2>1
<1>7. CASE \E m \in toThread : With(m, c, a)
  <2>1. PICK m \in toThread : m.call = c /\ m.acceptor = a
    BY <1>7 DEF With
  <2>2. Working(c) /\ State(c, a) \in {"promise", "accepted"}
    BY <2>1 DEF ChannelInv, ToThreadInv, AnswerOK, Awaits
  <2>3. FALSE
    BY <1>5, <2>1, <2>2 DEF State, ThreadWaits
  <2> QED BY <2>3
<1> QED BY <1>3, <1>4, <1>6, <1>7 DEF Turn

\* Then the server of an unanswered call, or one that keeps it waiting, spins.
LEMMA SomeoneShort ==
    ASSUME TypeInv, ChannelInv, TurnInv, Rest, NEW h \in Handler, Home[h] \in up, req[h] # None,
           \A s \in Server : ServerWaits(s), \A a \in Acceptor : AcceptorWaits(a),
           NEW q \in Nat, \A n \in AliveCounts : QuorumOf(n) <= q
    PROVE  \E s \in Server : Short(s, q)
<1>1. PICK s \in Server : s = Home[h]
  BY ProcessAssumption
<1>2. lock[s] # None /\ ~ Joined(s) /\ \A a \in Acceptor : ThreadWaits(s, a)
  BY <1>1 DEF ServerWaits
<1>3. PICK b \in Acceptor : thread[s][b] \notin {"none", "done"}
  BY <1>2 DEF Joined
<1>4. CASE conns[b] # <<>>
  <2>1. PICK t \in Server : lock[t] # None /\ ThreadWaits(t, b) /\ thread[t][b] \in {"spin", "learnSpin"}
    BY <1>4, ServesSpinner
  <2> QED BY <2>1, SpinShort
<1>5. CASE conns[b] = <<>>
  <2>1. Len(conns[b]) = 0 /\ Backlog \in Nat /\ Current(s) \notin Range(conns[b])
    BY <1>5, ProcessAssumption DEF Range
  <2>2. ThreadOK(s, b)
    BY <1>2 DEF ChannelInv, ThreadInv
  <2>3. thread[s][b] \in {"spin", "learnSpin"}
    BY <1>2, <1>3, <2>1, <2>2 DEF ThreadWaits, ThreadOK, Open
  <2> QED BY <1>2, <2>3, SpinShort
<1> QED BY <1>4, <1>5

\* The acceptors of U that serve a spinning thread of s, with those the short
\* server z has behind it, are fewer than a quorum for each server.
LEMMA NotAllWait ==
    ASSUME TypeInv, ChannelInv, TurnInv, Rest,
           IsFiniteSet(Server), NEW q \in Nat \ {0}, \A n \in AliveCounts : QuorumOf(n) <= q,
           NEW U \in SUBSET Acceptor, U \subseteq up, \A a \in U : CountedBy(a),
           Cardinality(U) > Cardinality(Server) * (q - 1)
    PROVE  NoStall
<1> SUFFICES ASSUME NEW h \in Handler, Home[h] \in up, req[h] # None,
                    \A s \in Server : ServerWaits(s), \A a \in Acceptor : AcceptorWaits(a)
             PROVE  FALSE
  BY DEF NoStall
<1>1. PICK z \in Server : Short(z, q)
  BY SomeoneShort
<1> DEFINE Held(s) == {a \in U : /\ lock[s] # None /\ ThreadWaits(s, a)
                                 /\ thread[s][a] \in {"spin", "learnSpin"}}
           Behind(s) == {a \in U : s = z /\ thread[s][a] = "done"}
           D == [s \in Server |-> Held(s) \cup Behind(s)]
<1>2. ASSUME NEW s \in Server PROVE IsFiniteSet(D[s]) /\ Cardinality(D[s]) <= q - 1
  <2>1. CASE Short(s, q)
    <3>1. \A a \in U : Past(s, a)
      BY <2>1 DEF CountedBy, Short
    <3>2. IsFiniteSet(promises[s]) /\ IsFiniteSet(accepts[s])
      BY ProcessAssumption, FS_Subset DEF TypeInv, TypeOK, ProposerTypes, parserVars
    <3>3. CASE Cardinality(promises[s]) < q
      <4>1. D[s] \in SUBSET promises[s]
        BY <3>1 DEF Past
      <4>2. IsFiniteSet(D[s]) /\ Cardinality(D[s]) <= Cardinality(promises[s])
        BY <3>2, <4>1, FS_Subset
      <4> QED BY <3>2, <3>3, <4>2, FS_CardinalityType
    <3>4. CASE ~ (Cardinality(promises[s]) < q)
      <4>1. \A a \in Held(s) : thread[s][a] = "learnSpin"
        BY <3>4, SpinShort
      <4>2. D[s] \in SUBSET accepts[s]
        BY <3>1, <4>1 DEF Past
      <4>3. IsFiniteSet(D[s]) /\ Cardinality(D[s]) <= Cardinality(accepts[s])
        BY <3>2, <4>2, FS_Subset
      <4>4. Cardinality(accepts[s]) < q
        BY <2>1, <3>4 DEF Short
      <4> QED BY <3>2, <4>3, <4>4, FS_CardinalityType
    <3> QED BY <3>3, <3>4
  <2>2. CASE ~ Short(s, q)
    <3>1. D[s] = {}
      BY <1>1, <2>2, SpinShort
    <3>2. IsFiniteSet({}) /\ Cardinality({}) = 0 /\ 0 <= q - 1
      BY FS_EmptySet
    <3> HIDE DEF D
    <3> QED BY <3>1, <3>2
  <2> QED BY <2>1, <2>2
<1>3. ASSUME NEW a \in U PROVE \E s \in Server : a \in D[s]
  <2>1. CASE conns[a] # <<>>
    <3>1. PICK s \in Server : lock[s] # None /\ ThreadWaits(s, a) /\ thread[s][a] \in {"spin", "learnSpin"}
      BY <2>1, ServesSpinner
    <3> QED BY <3>1
  <2>2. CASE conns[a] = <<>>
    <3>1. lock[z] # None /\ ~ IsRead(Current(z)) /\ z \in up
      BY <1>1, CurrentWorks DEF Short
    <3>2. thread[z][a] # "none" /\ a \notin broken[z] /\ thread[z][a] \in ThreadState
      BY <3>1 DEF CountedBy, Past, TypeInv, TypeOK, ProposerTypes, parserVars
    <3>3. ThreadWaits(z, a)
      BY <3>1 DEF ServerWaits
    <3>4. Len(conns[a]) = 0 /\ Backlog \in Nat /\ Current(z) \notin Range(conns[a])
      BY <2>2, ProcessAssumption DEF Range
    <3>5. thread[z][a] \notin Open
      BY <3>1, <3>2, <3>4 DEF ChannelInv, ThreadInv, ThreadOK
    <3>6. thread[z][a] = "done"
      BY <3>2, <3>3, <3>4, <3>5 DEF ThreadWaits, ThreadState, Open
    <3> QED BY <3>6
  <2> QED BY <2>1, <2>2
<1>4. D \in [Server -> SUBSET U]
  OBVIOUS
<1> HIDE DEF D
<1>5. Cardinality(U) <= Cardinality(Server) * (q - 1)
  BY <1>2, <1>3, <1>4, Pigeons
<1>6. Cardinality(U) \in Nat /\ Cardinality(Server) * (q - 1) \in Int
  <2>1. IsFiniteSet(U)
    BY ProcessAssumption, FS_Subset
  <2> QED BY <2>1, FS_CardinalityType
<1> QED BY <1>5, <1>6

\* However many servers compete: as long as more acceptors stay up than the
\* servers can hold with one promise too few each, not everybody waits.  One
\* server needs a quorum of acceptors, two need 2 * (q - 1) + 1.
THEOREM NoDeadlock ==
    ASSUME IsFiniteSet(Server), NEW q \in Nat \ {0}, \A n \in AliveCounts : QuorumOf(n) <= q,
           NEW U \in SUBSET Acceptor, Cardinality(U) > Cardinality(Server) * (q - 1)
    PROVE  Spec /\ [](U \subseteq up) => []NoStall
<1> DEFINE Counted == \A a \in U : CountedBy(a)
<1>1. Init => Counted
  BY DEF Init, CountedBy
<1>2. U \subseteq up /\ (U \subseteq up)' /\ TypeInv /\ Counted /\ [Next]_vars => Counted'
  BY NextCounted
<1>3. TypeInv /\ ChannelInv /\ Rest /\ TurnInv /\ U \subseteq up /\ Counted => NoStall
  BY NotAllWait
<1> HIDE DEF Counted
<1> QED BY <1>1, <1>2, <1>3, TurnInvariant, PTL DEF Spec

\* A message is read by the recv() it was meant for.
THEOREM MessagesFit == Spec => []MessagesMatch
<1>1. TypeInv /\ ChannelInv => MessagesMatch
  <2> SUFFICES ASSUME TypeInv, ChannelInv PROVE MessagesMatch
    OBVIOUS
  <2>1. ASSUME NEW m \in toAcceptor
        PROVE  /\ m.call \in Range(conns[m.acceptor])
               /\ m.call = Serving(m.acceptor) => phase[m.acceptor] = m.type
    <3>1. m.type \in {"prepare", "accept", "learn"}
      BY DEF TypeInv, TypeOK, NetTypes, ToAcceptor
    <3> QED BY <3>1 DEF ChannelInv, ToAcceptorInv, SentOK
  <2>2. ASSUME NEW m \in toThread, NEW s, s = Caller(m.call)
        PROVE  /\ lock[s] = m.call.handler /\ Current(s) = m.call
               /\ m.type = "promise" => thread[s][m.acceptor] = "promise"
               /\ m.type = "NACK" => thread[s][m.acceptor] \in {"promise", "accepted"}
               /\ m.type = "accepted" => thread[s][m.acceptor] = "accepted"
    <3>1. AnswerOK(m) /\ m.call \in Calls
      BY MessageType DEF ChannelInv, ToThreadInv
    <3> QED BY <2>2, <3>1, WorkingCurrent DEF AnswerOK, Awaits, Working, State
  <2> QED BY <2>1, <2>2 DEF MessagesMatch
<1> QED BY <1>1, ChannelInvariant, PTL
=============================================================================
