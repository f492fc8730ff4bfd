------------------------ MODULE TwoPhaseOrderProofs ------------------------
(***************************************************************************)
(* What follows from the invariant of TwoPhaseProofs: peers execute writes *)
(* in one order, an answered write has reached every peer that runs, a GET *)
(* sees it, and without deaths the two-phase commit is a replicated log.   *)
(***************************************************************************)
EXTENDS TwoPhaseProofs

\* The commit order holds each write once and nothing else.
OnceInv ==
    /\ \A i, j \in DOMAIN decided : decided[i] = decided[j] => i = j
    /\ \A c \in Range(decided) : ~ IsRead(c)

\* A peer executed decided writes, in the order they were decided in.
Ordered(p) ==
    /\ Range(log[p]) \subseteq Range(decided)
    /\ \A i, j \in DOMAIN log[p], k, l \in DOMAIN decided :
           i < j /\ decided[k] = log[p][i] /\ decided[l] = log[p][j] => k < l

Early == {"connect", "ack", "spin"}

\* A peer that is to execute a write, or may yet get a GO for it, has not done so.
Fresh(p) ==
    /\ Committing(p) => serving[p] \notin Range(log[p])
    /\ \A s \in Server :
           lock[s] # None /\ thread[s][p] \in Early => Current(s) \notin Range(log[p])

\* A write that p is to execute next is past the GO in its thread, if that runs.
ExecInv ==
    \A s \in Server, p \in Peer \cap up :
        lock[s] # None /\ phase[p] = "exec" /\ ~ IsRead(serving[p]) /\ serving[p] = Current(s) =>
            thread[s][p] \in Past \ {"spin"}

OrderInv ==
    /\ OnceInv /\ ExecInv
    /\ \A p \in Peer : Ordered(p) /\ Fresh(p)

\* A write has reached p.
Reached(c, p) == c \in Range(log[p]) \/ (serving[p] = c /\ phase[p] = "exec")

\* What the thread of s for p knows of p.
ThreadReach(s, p) ==
    lock[s] # None =>
        /\ ~ IsRead(Current(s)) => thread[s][p] # "none"
        /\ <<s, p>> \in goMsg => serving[p] = Current(s)
        /\ ~ IsRead(Current(s)) /\
           (thread[s][p] \in {"goSpin", "done"} \/
            (thread[s][p] = "goAck" /\ <<s, p>> \in ackMsg)) => Reached(Current(s), p)

\* A peer that runs was reached by the writes that were answered, and by those
\* that had been when a GET arrived.
ReachInv ==
    \A p \in Peer \cap up :
        /\ \A s \in Server : ThreadReach(s, p)
        /\ \A c \in Answered : Reached(c, p)
        /\ \A h \in Handler : \A c \in before[h] : ~ IsRead(c) /\ Reached(c, p)

FlowInv == CommitInv /\ OrderInv /\ ReachInv
-----------------------------------------------------------------------------
LEMMA InitFlow == Init => FlowInv
<1> SUFFICES ASSUME Init PROVE OrderInv /\ ReachInv
  BY InitCommit DEF FlowInv
<1>1. OnceInv /\ ExecInv
  BY DEF Init, OnceInv, ExecInv, Range
<1>2. \A p \in Peer : Ordered(p) /\ Fresh(p)
  BY DEF Init, Ordered, Fresh, Committing, Range
<1>3. ReachInv
  BY DEF Init, ReachInv, ThreadReach, Answered, Range
<1> QED BY <1>1, <1>2, <1>3 DEF OrderInv

\* What a step that neither decides nor executes has to keep.
LEMMA OrderStep ==
    ASSUME OrderInv, ExecInv', UNCHANGED <<decided, log>>,
           \A p \in Peer : Committing(p)' => Committing(p) /\ serving'[p] = serving[p],
           \A s \in Server, p \in Peer : lock'[s] # None /\ thread'[s][p] \in Early =>
               \/ Current(s)' \notin Range(decided)
               \/ /\ lock[s] # None /\ thread[s][p] \in Early
                  /\ Current(s)' = Current(s)
    PROVE  OrderInv'
<1>1. OnceInv'
  BY DEF OrderInv, OnceInv, IsRead
<1>2. ASSUME NEW p \in Peer PROVE Ordered(p)'
  BY DEF OrderInv, Ordered
<1>3. ASSUME NEW p \in Peer PROVE Fresh(p)'
  <2>1. Fresh(p) /\ Range(log[p]) \subseteq Range(decided)
    BY DEF OrderInv, Ordered
  <2> QED BY <2>1 DEF Fresh
<1> QED BY <1>1, <1>2, <1>3 DEF OrderInv

\* A write that has reached a peer stays there while the peer runs.
Keeps ==
    /\ up' \subseteq up
    /\ \A p \in Peer \cap up' :
          /\ Range(log[p]) \subseteq Range(log'[p])
          /\ phase[p] = "exec" /\ ~ IsRead(serving[p]) =>
                \/ serving'[p] = serving[p] /\ phase'[p] = "exec"
                \/ serving[p] \in Range(log'[p])

LEMMA ReachedStays ==
    ASSUME Keeps, NEW p \in Peer \cap up', NEW c, ~ IsRead(c), Reached(c, p)
    PROVE  Reached(c, p)'
BY DEF Keeps, Reached

LEMMA ReachStep ==
    ASSUME OrderInv, ReachInv, Keeps,
           \A p \in Peer \cap up, c \in Answered' :
               c \in Answered \/ (~ IsRead(c) /\ Reached(c, p)),
           \A h \in Handler : before'[h] \subseteq before[h] \cup Answered,
           \A s \in Server, p \in Peer \cap up' : ThreadReach(s, p)'
    PROVE  ReachInv'
<1>1. \A c \in Answered : ~ IsRead(c)
  BY DEF OrderInv, OnceInv, Answered
<1> SUFFICES ASSUME NEW p \in Peer \cap up'
             PROVE  /\ \A c \in Answered' : Reached(c, p)'
                    /\ \A h \in Handler : \A c \in before'[h] : ~ IsRead(c) /\ Reached(c, p)'
  BY DEF ReachInv, IsRead
<1>2. p \in Peer \cap up
  BY DEF Keeps
<1>3. ASSUME NEW c \in Answered' PROVE Reached(c, p)'
  <2>1. ~ IsRead(c) /\ Reached(c, p)
    BY <1>1, <1>2, <1>3 DEF ReachInv
  <2> QED BY <2>1, ReachedStays
<1>4. ASSUME NEW h \in Handler, NEW c \in before'[h] PROVE ~ IsRead(c) /\ Reached(c, p)'
  <2>1. ~ IsRead(c) /\ Reached(c, p)
    BY <1>1, <1>2, <1>4 DEF ReachInv
  <2> QED BY <2>1, ReachedStays
<1> QED BY <1>3, <1>4
-----------------------------------------------------------------------------
\* The steps of the handlers.
LEMMA InvokeFlow ==
    ASSUME FlowInv, NEW h \in Handler, NEW r \in Request, Invoke(h, r)
    PROVE  OrderInv' /\ ReachInv'
<1> USE DEF FlowInv
<1>1. TypeInv
  BY DEF CommitInv, TypeInv
<1>2. /\ UNCHANGED <<lock, thread, ackMsg, goMsg, serving, phase, up, decided, log>>
      /\ req[h] = None
      /\ \A k \in Handler : k # h => req'[k] = req[k]
      /\ before'[h] \subseteq before[h] \cup Answered
      /\ \A k \in Handler : k # h => before'[k] = before[k]
  BY <1>1 DEF Invoke, TypeInv, TypeOK, coordVars, peerVars, dataVars
<1>3. \A s \in Server : lock[s] # None => Current(s)' = Current(s)
  BY <1>1, <1>2 DEF TypeInv, TypeOK, HandlerInv, Current
<1>4. \A p \in Peer : Committing(p)' <=> Committing(p)
  BY <1>2 DEF Committing, IsRead, Caller
<1>5. ExecInv'
  BY <1>2, <1>3 DEF OrderInv, ExecInv, IsRead
<1>6. OrderInv'
  BY <1>2, <1>3, <1>4, <1>5, OrderStep
<1>7. Answered' \subseteq Answered
  <2>1. \A c \in Range(decided) : c \in Calls /\ c.handler \in Handler /\ c # None
    BY <1>1, CallType DEF TypeInv, TypeOK, Range
  <2> QED BY <1>2, <2>1 DEF Answered
<1>8. Keeps
  BY <1>2 DEF Keeps
<1>9. \A s \in Server, p \in Peer \cap up' : ThreadReach(s, p)'
  BY <1>2, <1>3 DEF ReachInv, ThreadReach, Reached, IsRead
<1>10. ReachInv'
  <2>1. \A k \in Handler : before'[k] \subseteq before[k] \cup Answered
    BY <1>2
  <2> QED BY <1>7, <1>8, <1>9, <2>1, ReachStep
<1> QED BY <1>6, <1>10

LEMMA AcquireFlow ==
    ASSUME FlowInv, NEW h \in Handler, Acquire(h)
    PROVE  OrderInv' /\ ReachInv'
<1> USE DEF FlowInv
<1> DEFINE s == Home[h]
<1>1. TypeInv /\ s \in Server
  BY ProcessAssumption DEF CommitInv, TypeInv
<1>2. /\ UNCHANGED <<req, before, ackMsg, goMsg, serving, phase, up, decided, log>>
      /\ s \in up /\ lock[s] = None /\ lock'[s] = h /\ req[h] # None
      /\ \A t \in Server : t # s => lock'[t] = lock[t] /\ thread'[t] = thread[t]
      /\ \A p \in Peer : /\ thread'[s][p] \in {"connect", "none"}
                         /\ ~ IsRead(req[h]) => thread'[s][p] = "connect"
  BY <1>1 DEF Acquire, TypeInv, TypeOK, handlerVars, peerVars, dataVars
<1> HIDE DEF s
<1>3. /\ Current(s)' = req[h] /\ req[h] \notin Range(decided)
      /\ \A t \in Server : t # s => Current(t)' = Current(t)
      /\ \A p \in Peer : <<s, p>> \notin goMsg
  <2>1. req[h] \notin Range(decided)
    BY <1>2, NoneAssumption DEF CommitInv, DecidedInv, s
  <2>2. \A p \in Peer : thread[s][p] = "none"
    BY <1>1, <1>2 DEF TypeInv, HandlerInv
  <2>3. \A p \in Peer : <<s, p>> \notin goMsg
    BY <1>1, <1>2, <2>2 DEF CommitInv, GoInv
  <2> QED BY <1>2, <2>1, <2>3 DEF Current
<1>4. \A p \in Peer : Committing(p)' <=> Committing(p)
  BY <1>2 DEF Committing, IsRead, Caller
<1>5. ExecInv'
  <2> SUFFICES ASSUME NEW t \in Server, NEW p \in Peer \cap up, lock'[t] # None,
                      phase[p] = "exec", ~ IsRead(serving[p]), serving[p] = Current(t)'
               PROVE  thread'[t][p] \in Past \ {"spin"}
    BY <1>2 DEF ExecInv, IsRead
  <2>1. serving[p] \in Range(decided)
    <3>1. IsLast(serving[p])
      BY <1>1 DEF CommitInv, LastInv, Committing, PhaseInv
    <3> QED BY <1>1, <3>1 DEF IsLast, Range, TypeInv, TypeOK
  <2>2. t # s
    BY <1>3, <2>1
  <2> QED BY <1>2, <1>3, <2>2 DEF OrderInv, ExecInv
<1>6. OrderInv'
  <2>1. \A t \in Server, p \in Peer : lock'[t] # None /\ thread'[t][p] \in Early =>
            \/ Current(t)' \notin Range(decided)
            \/ /\ lock[t] # None /\ thread[t][p] \in Early /\ Current(t)' = Current(t)
    BY <1>2, <1>3
  <2> QED BY <1>2, <1>4, <1>5, <2>1, OrderStep
<1>7. Answered' = Answered /\ Keeps
  BY <1>2 DEF Answered, Keeps
<1>8. \A t \in Server, p \in Peer \cap up' : ThreadReach(t, p)'
  <2> SUFFICES ASSUME NEW t \in Server, NEW p \in Peer \cap up
               PROVE  ThreadReach(t, p)'
    BY <1>2
  <2>1. CASE t = s
    BY <1>2, <1>3, <2>1 DEF ThreadReach, IsRead
  <2>2. CASE t # s
    BY <1>2, <1>3, <2>2 DEF ReachInv, ThreadReach, Reached, IsRead
  <2> QED BY <2>1, <2>2
<1>9. ReachInv'
  BY <1>2, <1>7, <1>8, ReachStep
<1> QED BY <1>6, <1>9

\* The step that answers: the threads of a write have seen it reach every peer
\* that runs.
LEMMA ReturnFlow ==
    ASSUME FlowInv, NEW s \in Server, Return(s)
    PROVE  OrderInv' /\ ReachInv'
<1> USE DEF FlowInv
<1>1. TypeInv
  BY DEF CommitInv, TypeInv
<1>2. /\ UNCHANGED <<before, ackMsg, goMsg, serving, phase, up, decided, log>>
      /\ lock[s] # None /\ lock'[s] = None
      /\ \A p \in Peer : thread[s][p] \in {"none", "done"}
      /\ \A t \in Server : t # s => lock'[t] = lock[t] /\ thread'[t] = thread[t]
      /\ \A k \in Handler : k # lock[s] => req'[k] = req[k]
  BY <1>1 DEF Return, Coordinating, Joined, TypeInv, TypeOK, peerVars, dataVars
<1>3. \A t \in Server : t # s /\ lock[t] # None => Current(t)' = Current(t)
  <2>1. \A t \in Server : t # s /\ lock[t] # None =>
            lock[t] \in Handler /\ lock[t] # lock[s]
    BY <1>1, <1>2, CurrentType DEF Caller
  <2> QED BY <1>2, <2>1 DEF Current
<1>4. \A p \in Peer : Committing(p)' <=> Committing(p)
  BY <1>2 DEF Committing, IsRead, Caller
<1>5. ExecInv'
  BY <1>2, <1>3 DEF OrderInv, ExecInv, IsRead
<1>6. OrderInv'
  <2>1. \A t \in Server, p \in Peer : lock'[t] # None /\ thread'[t][p] \in Early =>
            lock[t] # None /\ thread[t][p] \in Early /\ Current(t)' = Current(t)
    BY <1>2, <1>3
  <2> QED BY <1>2, <1>4, <1>5, <2>1, OrderStep
<1>7. ASSUME NEW p \in Peer \cap up, NEW c \in Answered'
      PROVE  c \in Answered \/ (~ IsRead(c) /\ Reached(c, p))
  <2>1. c \in Range(decided) /\ c \in Calls /\ c.handler \in Handler
    BY <1>1, <1>2, <1>7, CallType DEF Answered, TypeInv, TypeOK, Range
  <2>2. ~ IsRead(c)
    BY <2>1 DEF OrderInv, OnceInv
  <2>3. CASE c = Current(s)
    <3>1. ThreadReach(s, p)
      BY DEF ReachInv
    <3> QED BY <1>2, <2>2, <2>3, <3>1 DEF ThreadReach
  <2>4. CASE c # Current(s)
    BY <1>2, <1>7, <2>1, <2>4 DEF Answered, Current
  <2> QED BY <2>2, <2>3, <2>4
<1>8. Keeps
  BY <1>2 DEF Keeps
<1>9. \A t \in Server, p \in Peer \cap up' : ThreadReach(t, p)'
  BY <1>2, <1>3 DEF ReachInv, ThreadReach, Reached, IsRead
<1>10. ReachInv'
  BY <1>2, <1>7, <1>8, <1>9, ReachStep
<1> QED BY <1>6, <1>10

LEMMA ServerDiesFlow ==
    ASSUME FlowInv, NEW s \in Server, ServerDies(s)
    PROVE  OrderInv' /\ ReachInv'
<1> USE DEF FlowInv
<1>1. TypeInv
  BY DEF CommitInv, TypeInv
<1>2. /\ UNCHANGED <<req, before, goMsg, serving, phase, decided, log>>
      /\ up' \subseteq up /\ ackMsg' \subseteq ackMsg
      /\ lock'[s] = None
      /\ \A t \in Server : t # s => lock'[t] = lock[t] /\ thread'[t] = thread[t]
  BY <1>1 DEF ServerDies, TypeInv, TypeOK, handlerVars, peerVars, dataVars
<1>3. \A t \in Server : t # s => Current(t)' = Current(t)
  BY <1>2 DEF Current
<1>4. \A p \in Peer : Committing(p)' => Committing(p)
  BY <1>2 DEF Committing, IsRead, Caller
<1>5. ExecInv'
  BY <1>2, <1>3 DEF OrderInv, ExecInv, IsRead
<1>6. OrderInv'
  <2>1. \A t \in Server, p \in Peer : lock'[t] # None /\ thread'[t][p] \in Early =>
            lock[t] # None /\ thread[t][p] \in Early /\ Current(t)' = Current(t)
    BY <1>2, <1>3
  <2> QED BY <1>2, <1>4, <1>5, <2>1, OrderStep
<1>7. Answered' = Answered /\ Keeps
  BY <1>2 DEF Answered, Keeps
<1>8. \A t \in Server, p \in Peer \cap up' : ThreadReach(t, p)'
  BY <1>2, <1>3 DEF ReachInv, ThreadReach, Reached, IsRead
<1>9. ReachInv'
  BY <1>2, <1>7, <1>8, ReachStep
<1> QED BY <1>6, <1>9
-----------------------------------------------------------------------------
\* The steps of a thread, but for the one that commits.
LEMMA ThreadFlow ==
    ASSUME FlowInv, NEW s \in Server, NEW p \in Peer,
           Connect(s, p) \/ ReceiveAck(s, p) \/ ReceiveGoAck(s, p) \/ Close(s, p)
    PROVE  OrderInv' /\ ReachInv'
<1> USE DEF FlowInv
<1>1. TypeInv
  BY DEF CommitInv, TypeInv
<1>2. /\ UNCHANGED <<req, before, lock, goMsg, serving, phase, up, decided, log>>
      /\ ackMsg' \subseteq ackMsg
      /\ lock[s] # None
      /\ \A t \in Server, q \in Peer : ~ (t = s /\ q = p) => thread'[t][q] = thread[t][q]
  BY <1>1 DEF Connect, ReceiveAck, ReceiveGoAck, Close, At, Goto, Coordinating,
              TypeInv, TypeOK, handlerVars, peerVars, dataVars
<1>3. \/ thread[s][p] \in {"connect", "ack"} /\ thread'[s][p] \in {"ack", "spin"}
      \/ /\ thread[s][p] = "goAck" /\ thread'[s][p] = "goSpin"
         /\ p \in up => <<s, p>> \in ackMsg
      \/ thread[s][p] = "goSpin" /\ thread'[s][p] = "done"
  BY <1>1 DEF Connect, ReceiveAck, ReceiveGoAck, Close, At, Goto, Hears, TypeInv, TypeOK
<1>4. \A t \in Server : Current(t)' = Current(t)
  BY <1>2 DEF Current
<1>5. \A q \in Peer : Committing(q)' <=> Committing(q)
  BY <1>2 DEF Committing, IsRead, Caller
<1>6. ExecInv'
  <2> SUFFICES ASSUME NEW t \in Server, NEW q \in Peer \cap up, lock[t] # None,
                      phase[q] = "exec", ~ IsRead(serving[q]), serving[q] = Current(t)
               PROVE  thread'[t][q] \in Past \ {"spin"}
    BY <1>2, <1>4 DEF ExecInv, IsRead
  <2>1. thread[t][q] \in Past \ {"spin"}
    BY DEF OrderInv, ExecInv
  <2> QED BY <1>2, <1>3, <2>1 DEF Past
<1>7. OrderInv'
  <2>1. \A t \in Server, q \in Peer : lock'[t] # None /\ thread'[t][q] \in Early =>
            lock[t] # None /\ thread[t][q] \in Early /\ Current(t)' = Current(t)
    BY <1>2, <1>3, <1>4 DEF Early
  <2> QED BY <1>2, <1>5, <1>6, <2>1, OrderStep
<1>8. Answered' = Answered /\ Keeps
  BY <1>2 DEF Answered, Keeps
<1>9. \A t \in Server, q \in Peer \cap up' : ThreadReach(t, q)'
  <2> SUFFICES ASSUME NEW t \in Server, NEW q \in Peer \cap up
               PROVE  ThreadReach(t, q)'
    BY <1>2
  <2>1. ThreadReach(t, q)
    BY DEF ReachInv
  <2>2. CASE t = s /\ q = p
    BY <1>2, <1>3, <1>4, <2>1, <2>2 DEF ThreadReach, Reached, IsRead
  <2>3. CASE ~ (t = s /\ q = p)
    BY <1>2, <1>4, <2>1, <2>3 DEF ThreadReach, Reached, IsRead
  <2> QED BY <2>2, <2>3
<1>10. ReachInv'
  BY <1>2, <1>8, <1>9, ReachStep
<1> QED BY <1>7, <1>10

\* A write that enters the commit order enters it once, at the end.
LEMMA SendGoFlow ==
    ASSUME FlowInv, NEW s \in Server, NEW p \in Peer, SendGo(s, p)
    PROVE  OrderInv' /\ ReachInv'
<1> DEFINE c == Current(s)
           commits == ~ IsRead(c) /\ c \notin Range(decided)
<1> USE DEF FlowInv
<1>1. TypeInv
  BY DEF CommitInv, TypeInv
<1>2. /\ UNCHANGED <<req, before, lock, ackMsg, serving, phase, up, log>>
      /\ lock[s] # None /\ thread[s][p] = "spin" /\ thread'[s][p] = "goAck"
      /\ \A t \in Server, q \in Peer : ~ (t = s /\ q = p) => thread'[t][q] = thread[t][q]
      /\ goMsg' \subseteq goMsg \cup {<<s, p>>}
      /\ goMsg' # goMsg => p \in up
      /\ decided' = IF commits THEN Append(decided, c) ELSE decided
  BY <1>1 DEF SendGo, At, Goto, Coordinating, TypeInv, TypeOK, handlerVars, peerVars, dataVars
<1>3. /\ c \in Calls /\ c.handler = lock[s] /\ Caller(c) = s /\ c = req[c.handler]
      /\ decided \in Seq(Calls) /\ Len(decided) \in Nat
      /\ \A q \in Peer : log[q] \in Seq(Calls)
  BY <1>1, <1>2, CurrentType DEF Current, TypeInv, TypeOK
<1>4. p \in up => serving[p] = c /\ phase[p] = "go" /\ <<s, p>> \notin ackMsg
  BY <1>2 DEF CommitInv, AckInv, Waits
<1>5. /\ \A t \in Server : Current(t)' = Current(t)
      /\ \A x : IsRead(x)' <=> IsRead(x)
  BY <1>2 DEF Current, IsRead
<1>6. Range(decided') = IF commits THEN Range(decided) \cup {c} ELSE Range(decided)
  <2>1. Range(Append(decided, c)) = Range(decided) \cup {c}
    BY <1>3, RangeAppend
  <2> QED BY <1>2, <2>1
<1>7. commits => /\ DOMAIN decided' = 1 .. Len(decided) + 1
                 /\ DOMAIN decided = 1 .. Len(decided)
                 /\ decided'[Len(decided) + 1] = c
                 /\ \A i \in 1 .. Len(decided) : decided'[i] = decided[i]
  <2> HIDE DEF c
  <2> QED BY <1>2, <1>3
<1> HIDE DEF c, commits
<1>8. OnceInv'
  <2>1. \A x \in Range(decided') : ~ IsRead(x)
    BY <1>6 DEF OrderInv, OnceInv, commits
  <2>2. CASE ~ commits
    BY <1>2, <2>1, <2>2 DEF OrderInv, OnceInv, IsRead
  <2>3. CASE commits
    <3> SUFFICES ASSUME NEW i \in 1 .. Len(decided) + 1, NEW j \in 1 .. Len(decided) + 1,
                        decided'[i] = decided'[j]
                 PROVE  i = j
      BY <1>7, <2>1, <2>3 DEF OnceInv, IsRead
    <3>1. \A k \in 1 .. Len(decided) : decided[k] # c
      BY <1>7, <2>3 DEF Range, commits
    <3>2. /\ i \in 1 .. Len(decided) \/ i = Len(decided) + 1
          /\ j \in 1 .. Len(decided) \/ j = Len(decided) + 1
      BY <1>3
    <3>3. \A k, l \in 1 .. Len(decided) : decided[k] = decided[l] => k = l
      BY <1>7, <2>3 DEF OrderInv, OnceInv
    <3> QED BY <1>7, <2>3, <3>1, <3>2, <3>3
  <2> QED BY <2>2, <2>3
<1>9. ASSUME NEW q \in Peer PROVE Ordered(q)'
  <2>1. Ordered(q) /\ Range(log[q]) \subseteq Range(decided')
    BY <1>6 DEF OrderInv, Ordered
  <2>2. ASSUME NEW i \in DOMAIN log[q], NEW k \in DOMAIN decided', decided'[k] = log[q][i]
        PROVE  k \in DOMAIN decided /\ decided[k] = log[q][i]
    <3>1. CASE ~ commits
      BY <1>2, <2>2, <3>1
    <3>2. CASE commits
      <4>1. log[q][i] # c
        BY <2>1, <3>2 DEF Ordered, Range, commits
      <4>2. k \in 1 .. Len(decided) \/ k = Len(decided) + 1
        BY <1>3, <1>7, <3>2
      <4> QED BY <1>7, <2>2, <3>2, <4>1, <4>2
    <3> QED BY <3>1, <3>2
  <2> QED BY <1>2, <2>1, <2>2 DEF Ordered
<1>10. ASSUME NEW q \in Peer PROVE Fresh(q)'
  <2>1. Fresh(q)
    BY DEF OrderInv
  <2>2. \A t \in Server : lock[t] # None /\ thread'[t][q] \in Early =>
            Current(t) \notin Range(log[q])
    BY <1>2, <2>1 DEF Fresh, Early
  <2>3. Committing(q)' => serving[q] \notin Range(log[q])
    <3>1. CASE q = p /\ p \in up
      BY <1>2, <1>4, <2>1, <3>1 DEF Fresh, Early, c
    <3>2. CASE ~ (q = p /\ p \in up)
      <4>1. Committing(q)' => Committing(q)
        BY <1>2, <3>2 DEF Committing, IsRead, Caller
      <4> QED BY <2>1, <4>1 DEF Fresh
    <3> QED BY <3>1, <3>2
  <2> QED BY <1>2, <1>5, <2>2, <2>3 DEF Fresh
<1>11. ExecInv'
  BY <1>2, <1>5 DEF OrderInv, ExecInv, Past
<1>12. Keeps
  BY <1>2 DEF Keeps
<1>13. Answered' \subseteq Answered
  BY <1>2, <1>3, <1>6 DEF Answered
<1>14. \A t \in Server, q \in Peer \cap up' : ThreadReach(t, q)'
  <2> SUFFICES ASSUME NEW t \in Server, NEW q \in Peer \cap up
               PROVE  ThreadReach(t, q)'
    BY <1>2
  <2>1. ThreadReach(t, q)
    BY DEF ReachInv
  <2>2. CASE t = s /\ q = p
    BY <1>2, <1>4, <1>5, <2>1, <2>2 DEF ThreadReach, c
  <2>3. CASE ~ (t = s /\ q = p)
    BY <1>2, <1>5, <2>1, <2>3 DEF ThreadReach, Reached
  <2> QED BY <2>2, <2>3
<1>15. ReachInv'
  BY <1>2, <1>12, <1>13, <1>14, ReachStep
<1> QED BY <1>8, <1>9, <1>10, <1>11, <1>15 DEF OrderInv
-----------------------------------------------------------------------------
\* The steps of a peer, but for the one that executes.
LEMMA PrepareFlow ==
    ASSUME FlowInv, NEW p \in Peer, Prepare(p)
    PROVE  OrderInv' /\ ReachInv'
<1> DEFINE s == Caller(Head(backlog[p]))
<1> USE DEF FlowInv
<1>1. TypeInv
  BY DEF CommitInv, TypeInv
<1>2. /\ UNCHANGED <<req, before, lock, thread, goMsg, up, decided, log>>
      /\ p \in up /\ phase[p] = "accept" /\ phase'[p] = "go"
      /\ \A q \in Peer : q # p => serving'[q] = serving[q] /\ phase'[q] = phase[q]
      /\ \A t \in Server, q \in Peer : <<t, q>> \in ackMsg' =>
            <<t, q>> \in ackMsg \/ (t = s /\ q = p /\ s \in up)
  BY <1>1 DEF Prepare, AckTo, TypeInv, TypeOK, handlerVars, coordVars, dataVars
<1>3. s \in up => thread[s][p] = "ack"
  <2>1. 1 \in DOMAIN backlog[p] /\ backlog[p][1] = Head(backlog[p])
    BY <1>1 DEF Prepare, TypeInv, TypeOK
  <2>2. Queued(p, 1)
    BY <2>1 DEF CommitInv, QueueInv
  <2> QED BY <1>2, <2>1, <2>2 DEF Queued
<1> HIDE DEF s
<1>4. \A t \in Server : Current(t)' = Current(t) /\ <<t, p>> \notin goMsg
  BY <1>2 DEF Current, CommitInv, GoInv
<1>5. \A q \in Peer : Committing(q)' => Committing(q) /\ serving'[q] = serving[q]
  <2>1. ~ Committing(p)'
    <3>1. serving'[p] \in Calls /\ Caller(serving'[p]) \in Server
      <4>1. Head(backlog[p]) \in Calls
        BY <1>1 DEF Prepare, TypeInv, TypeOK
      <4>2. serving'[p] = Head(backlog[p])
        BY <1>1 DEF Prepare, TypeInv, TypeOK
      <4> QED BY <4>1, <4>2, CallType
    <3> QED BY <1>2, <1>4, <3>1 DEF Committing, Caller
  <2>2. \A q \in Peer : q # p => (Committing(q)' <=> Committing(q))
    BY <1>2 DEF Committing, IsRead, Caller
  <2> QED BY <1>2, <2>1, <2>2
<1>6. ExecInv'
  BY <1>2, <1>4 DEF OrderInv, ExecInv, IsRead
<1>7. OrderInv'
  BY <1>2, <1>4, <1>5, <1>6, OrderStep
<1>8. Answered' = Answered /\ Keeps
  BY <1>2 DEF Answered, Keeps
<1>9. \A t \in Server, q \in Peer \cap up' : ThreadReach(t, q)'
  <2> SUFFICES ASSUME NEW t \in Server, NEW q \in Peer \cap up
               PROVE  ThreadReach(t, q)'
    BY <1>2
  <2>1. ThreadReach(t, q)
    BY DEF ReachInv
  <2>2. CASE q = p
    BY <1>2, <1>3, <1>4, <2>1, <2>2 DEF ThreadReach, Reached, IsRead
  <2>3. CASE q # p
    BY <1>2, <1>4, <2>1, <2>3 DEF ThreadReach, Reached, IsRead
  <2> QED BY <2>2, <2>3
<1>10. ReachInv'
  BY <1>2, <1>8, <1>9, ReachStep
<1> QED BY <1>7, <1>10

\* With its second ACK a peer holds the write, before the thread can read the ACK.
LEMMA ReceiveGoFlow ==
    ASSUME FlowInv, NEW p \in Peer, ReceiveGo(p)
    PROVE  OrderInv' /\ ReachInv'
<1> DEFINE s == Caller(serving[p])
<1> USE DEF FlowInv
<1>1. TypeInv
  BY DEF CommitInv, TypeInv
<1>2. /\ UNCHANGED <<req, before, lock, thread, serving, up, decided, log>>
      /\ p \in up /\ phase[p] = "go" /\ phase'[p] = "exec"
      /\ \A q \in Peer : q # p => phase'[q] = phase[q]
      /\ \A t \in Server, q \in Peer : <<t, q>> \in ackMsg' =>
            <<t, q>> \in ackMsg \/ (t = s /\ q = p /\ s \in up)
      /\ <<s, p>> \in goMsg /\ goMsg' \subseteq goMsg
  BY <1>1 DEF ReceiveGo, AckTo, TypeInv, TypeOK, handlerVars, coordVars, dataVars
<1>3. /\ serving[p] \in Calls /\ s \in Server
      /\ s \in up => thread[s][p] = "goAck"
  BY <1>1, <1>2, ServingType DEF CommitInv, GoInv
<1> HIDE DEF s
<1>4. \A t \in Server : Current(t)' = Current(t)
  BY <1>2 DEF Current
<1>5. \A q \in Peer : Committing(q)' => Committing(q)
  BY <1>2 DEF Committing, IsRead, Caller, s
<1>6. ExecInv'
  <2> SUFFICES ASSUME NEW t \in Server, NEW q \in Peer \cap up, lock[t] # None,
                      phase'[q] = "exec", ~ IsRead(serving[q]), serving[q] = Current(t)
               PROVE  thread[t][q] \in Past \ {"spin"}
    BY <1>2, <1>4 DEF ExecInv, IsRead
  <2>1. CASE q = p
    <3>1. t = s /\ s \in up
      BY <1>1, <2>1, CurrentType DEF s, TypeInv, HandlerInv
    <3> QED BY <1>3, <2>1, <3>1 DEF Past
  <2>2. CASE q # p
    BY <1>2, <2>2 DEF OrderInv, ExecInv
  <2> QED BY <2>1, <2>2
<1>7. OrderInv'
  BY <1>2, <1>4, <1>5, <1>6, OrderStep
<1>8. Answered' = Answered /\ Keeps
  BY <1>2 DEF Answered, Keeps
<1>9. \A t \in Server, q \in Peer \cap up' : ThreadReach(t, q)'
  <2> SUFFICES ASSUME NEW t \in Server, NEW q \in Peer \cap up
               PROVE  ThreadReach(t, q)'
    BY <1>2
  <2>1. ThreadReach(t, q)
    BY DEF ReachInv
  <2>2. CASE q = p /\ t = s
    <3>1. lock[s] # None => serving[p] = Current(s)
      BY <1>2, <2>1, <2>2 DEF ThreadReach
    <3> QED BY <1>2, <1>4, <2>1, <2>2, <3>1 DEF ThreadReach, Reached, IsRead
  <2>3. CASE q = p /\ t # s
    BY <1>2, <1>4, <2>1, <2>3 DEF ThreadReach, Reached, IsRead
  <2>4. CASE q # p
    BY <1>2, <1>4, <2>1, <2>4 DEF ThreadReach, Reached, IsRead
  <2> QED BY <2>2, <2>3, <2>4
<1>10. ReachInv'
  BY <1>2, <1>8, <1>9, ReachStep
<1> QED BY <1>7, <1>10

LEMMA PeerEndsFlow ==
    ASSUME FlowInv, NEW p \in Peer,
           Abandon(p) \/ TruncateBuffer(p) \/ WriteBuffer(p) \/ PeerDies(p)
    PROVE  OrderInv' /\ ReachInv'
<1> USE DEF FlowInv
<1>1. TypeInv
  BY DEF CommitInv, TypeInv
<1>2. /\ UNCHANGED <<req, before, lock, thread, ackMsg, decided, log>>
      /\ goMsg' \subseteq goMsg /\ up' \subseteq up
      /\ \A q \in Peer : q # p => serving'[q] = serving[q] /\ phase'[q] = phase[q]
  BY <1>1 DEF Abandon, TruncateBuffer, WriteBuffer, PeerDies,
              TypeInv, TypeOK, handlerVars, coordVars, dataVars
<1>3. /\ phase'[p] # "exec"
      /\ p \in up' => \/ phase[p] # "exec"
                      \/ IsRead(serving[p])
  BY <1>1, ProcessAssumption
     DEF Abandon, NoGo, TruncateBuffer, WriteBuffer, PeerDies, TypeInv, TypeOK
<1>4. ~ Committing(p)'
  <2>1. CASE Abandon(p) \/ WriteBuffer(p) \/ PeerDies(p)
    BY <1>1, <2>1 DEF Abandon, WriteBuffer, PeerDies, Committing, TypeInv, TypeOK
  <2>2. CASE TruncateBuffer(p)
    BY <2>2 DEF TruncateBuffer, Committing, IsRead
  <2> QED BY <2>1, <2>2
<1>5. \A t \in Server : Current(t)' = Current(t)
  BY <1>2 DEF Current
<1>6. \A q \in Peer : q # p /\ Committing(q)' => Committing(q)
  BY <1>2 DEF Committing, IsRead, Caller
<1>7. ExecInv'
  BY <1>2, <1>3, <1>5 DEF OrderInv, ExecInv, IsRead
<1>8. OrderInv'
  BY <1>2, <1>4, <1>5, <1>6, <1>7, OrderStep
<1>9. Answered' = Answered
  BY <1>2 DEF Answered
<1>10. Keeps
  BY <1>2, <1>3 DEF Keeps
<1>11. ASSUME NEW t \in Server, NEW q \in Peer \cap up' PROVE ThreadReach(t, q)'
  <2>1. ThreadReach(t, q)
    BY <1>2, <1>11 DEF ReachInv
  <2>2. <<t, q>> \in goMsg' => serving'[q] = serving[q]
    <3>1. CASE q = p
      <4>1. <<t, p>> \in goMsg => phase[p] = "go" /\ Caller(serving[p]) = t
        BY DEF CommitInv, GoInv
      <4>2. CASE Abandon(p)
        BY <1>2, <3>1, <4>1, <4>2 DEF Abandon, NoGo
      <4>3. CASE TruncateBuffer(p)
        BY <3>1, <4>3 DEF TruncateBuffer
      <4>4. CASE WriteBuffer(p)
        BY <1>2, <3>1, <4>1, <4>4 DEF WriteBuffer
      <4>5. CASE PeerDies(p)
        BY <1>11, <3>1, <4>5 DEF PeerDies
      <4> QED BY <4>2, <4>3, <4>4, <4>5
    <3>2. CASE q # p
      BY <1>2, <1>11, <3>2
    <3> QED BY <3>1, <3>2
  <2>3. ~ IsRead(Current(t)) /\ Reached(Current(t), q) => Reached(Current(t), q)'
    <3>1. PICK c : c = Current(t)
      OBVIOUS
    <3>2. ~ IsRead(c) /\ Reached(c, q) => Reached(c, q)'
      BY <1>10, <1>11, ReachedStays
    <3> QED BY <1>5, <3>1, <3>2 DEF Reached
  <2> QED BY <1>2, <1>5, <2>1, <2>2, <2>3 DEF ThreadReach, IsRead, Reached
<1>12. ReachInv'
  BY <1>2, <1>9, <1>10, <1>11, ReachStep
<1> QED BY <1>8, <1>12

\* The step that executes: the write is the last decided one, so it is last here too.
LEMMA ExecuteFlow ==
    ASSUME FlowInv, NEW p \in Peer, ExecuteWrite(p)
    PROVE  OrderInv' /\ ReachInv'
<1> DEFINE c == serving[p]
<1> USE DEF FlowInv
<1>1. TypeInv
  BY DEF CommitInv, TypeInv
<1>2. /\ UNCHANGED <<req, before, lock, thread, ackMsg, goMsg, up, decided>>
      /\ p \in up /\ phase[p] = "exec" /\ ~ IsRead(c)
      /\ serving'[p] = None /\ phase'[p] = "accept"
      /\ log'[p] = Append(log[p], c)
      /\ \A q \in Peer : q # p =>
            serving'[q] = serving[q] /\ phase'[q] = phase[q] /\ log'[q] = log[q]
  BY <1>1 DEF ExecuteWrite, TypeInv, TypeOK, handlerVars, coordVars
<1>3. /\ c \in Calls /\ log[p] \in Seq(Calls) /\ decided \in Seq(Calls)
      /\ Range(log'[p]) = Range(log[p]) \cup {c}
  <2>1. c \in Calls /\ log[p] \in Seq(Calls) /\ decided \in Seq(Calls)
    BY <1>1, <1>2, ServingType DEF TypeInv, TypeOK
  <2>2. Range(Append(log[p], c)) = Range(log[p]) \cup {c}
    BY <2>1, RangeAppend
  <2> QED BY <1>2, <2>1, <2>2
<1>4. IsLast(c) /\ c \notin Range(log[p]) /\ c # None
  <2>1. Committing(p) /\ c # None
    BY <1>2, <1>3, NoneAssumption DEF Committing
  <2>2. IsLast(c)
    BY <2>1 DEF CommitInv, LastInv
  <2>3. c \notin Range(log[p])
    BY <2>1 DEF OrderInv, Fresh
  <2> QED BY <2>1, <2>2, <2>3
<1>5. \A t \in Server : <<t, p>> \notin goMsg /\ Current(t)' = Current(t)
  BY <1>2 DEF CommitInv, GoInv, Current
<1> HIDE DEF c
<1>6. OnceInv'
  BY <1>2 DEF OrderInv, OnceInv, IsRead
<1>7. Ordered(p)'
  <2>1. Range(log'[p]) \subseteq Range(decided)
    <3>1. Range(log[p]) \subseteq Range(decided)
      BY DEF OrderInv, Ordered
    <3>2. c \in Range(decided)
      BY <1>3, <1>4 DEF IsLast, Range
    <3> QED BY <1>3, <3>1, <3>2
  <2>2. ASSUME NEW i \in DOMAIN log'[p], NEW j \in DOMAIN log'[p],
               NEW k \in DOMAIN decided, NEW l \in DOMAIN decided,
               i < j, decided[k] = log'[p][i], decided[l] = log'[p][j]
        PROVE  k < l
    <3>1. /\ DOMAIN log'[p] = 1 .. Len(log[p]) + 1 /\ DOMAIN log[p] = 1 .. Len(log[p])
          /\ Len(log[p]) \in Nat
          /\ log'[p][Len(log[p]) + 1] = c
          /\ \A m \in 1 .. Len(log[p]) : log'[p][m] = log[p][m]
      BY <1>2, <1>3
    <3>2. i \in DOMAIN log[p]
      BY <2>2, <3>1
    <3>3. CASE j \in DOMAIN log[p]
      BY <2>2, <3>1, <3>2, <3>3 DEF OrderInv, Ordered
    <3>4. CASE j = Len(log[p]) + 1
      <4>1. Len(decided) \in DOMAIN decided /\ decided[Len(decided)] = c
        BY <1>3, <1>4 DEF IsLast
      <4>2. l = Len(decided)
        BY <2>2, <3>1, <3>4, <4>1 DEF OrderInv, OnceInv
      <4>3. decided[k] # c
        BY <1>4, <2>2, <3>1, <3>2 DEF Range
      <4>4. k # Len(decided) /\ k \in 1 .. Len(decided) /\ Len(decided) \in Nat
        BY <1>3, <4>1, <4>3
      <4> QED BY <4>2, <4>4
    <3> QED BY <3>1, <3>3, <3>4
  <2> QED BY <1>2, <2>1, <2>2 DEF Ordered
<1>8. ASSUME NEW q \in Peer, q # p PROVE Ordered(q)'
  BY <1>2, <1>8 DEF OrderInv, Ordered
<1>9. ~ Committing(p)'
  BY <1>2 DEF Committing
<1>10. \A q \in Peer : q # p => (Committing(q)' <=> Committing(q))
  BY <1>2 DEF Committing, IsRead, Caller
<1>11. ASSUME NEW q \in Peer PROVE Fresh(q)'
  <2>1. ASSUME NEW t \in Server, lock[t] # None, thread[t][q] \in Early
        PROVE  Current(t) \notin Range(log'[q])
    <3>1. Current(t) \notin Range(log[q])
      BY <2>1 DEF OrderInv, Fresh
    <3>2. CASE q = p
      <4>1. Current(t) # c
        BY <1>2, <2>1, <3>2 DEF OrderInv, ExecInv, Early, Past, c
      <4> QED BY <1>3, <3>1, <3>2, <4>1
    <3> QED BY <1>2, <3>1, <3>2
  <2>2. Committing(q)' => serving'[q] \notin Range(log'[q])
    BY <1>2, <1>9, <1>10 DEF OrderInv, Fresh
  <2> QED BY <1>2, <1>5, <2>1, <2>2 DEF Fresh
<1>12. ExecInv'
  BY <1>2, <1>5 DEF OrderInv, ExecInv, IsRead
<1>13. Answered' = Answered
  BY <1>2 DEF Answered
<1>14. Keeps
  BY <1>2, <1>3 DEF Keeps, c
<1>15. ASSUME NEW t \in Server, NEW q \in Peer \cap up' PROVE ThreadReach(t, q)'
  <2>1. ThreadReach(t, q)
    BY <1>2, <1>15 DEF ReachInv
  <2>2. <<t, q>> \in goMsg => serving'[q] = serving[q]
    BY <1>2, <1>5
  <2>3. ~ IsRead(Current(t)) /\ Reached(Current(t), q) => Reached(Current(t), q)'
    <3>1. PICK d : d = Current(t)
      OBVIOUS
    <3>2. ~ IsRead(d) /\ Reached(d, q) => Reached(d, q)'
      BY <1>14, <1>15, ReachedStays
    <3> QED BY <1>5, <3>1, <3>2 DEF Reached
  <2> QED BY <1>2, <1>5, <2>1, <2>2, <2>3 DEF ThreadReach, IsRead, Reached
<1>16. ReachInv'
  BY <1>2, <1>13, <1>14, <1>15, ReachStep
<1> QED BY <1>6, <1>7, <1>8, <1>11, <1>12, <1>16 DEF OrderInv

LEMMA NextFlow == FlowInv /\ [Next]_vars => FlowInv'
<1> SUFFICES ASSUME FlowInv, [Next]_vars PROVE OrderInv' /\ ReachInv'
  BY NextCommit DEF FlowInv
<1>1. ASSUME NEW h \in Handler, (\E r \in Request : Invoke(h, r)) \/ Acquire(h)
      PROVE  OrderInv' /\ ReachInv'
  BY <1>1, InvokeFlow, AcquireFlow
<1>2. ASSUME NEW s \in Server, Return(s) PROVE OrderInv' /\ ReachInv'
  BY <1>2, ReturnFlow
<1>3. ASSUME NEW s \in Server, NEW p \in Peer, ThreadStep(s, p)
      PROVE  OrderInv' /\ ReachInv'
  BY <1>3, ThreadFlow, SendGoFlow, ServerDiesFlow DEF ThreadStep, ConnectFail, BrokenPipe
<1>4. ASSUME NEW p \in Peer, PeerStep(p) PROVE OrderInv' /\ ReachInv'
  BY <1>4, PrepareFlow, ReceiveGoFlow, ExecuteFlow, PeerEndsFlow DEF PeerStep, PeerBrokenPipe
<1>5. CASE Crash
  BY <1>5, ServerDiesFlow, PeerEndsFlow DEF Crash
<1>6. CASE UNCHANGED vars
  <2> USE <1>6 DEF vars, handlerVars, coordVars, peerVars, dataVars, FlowInv
  <2>1. OnceInv' /\ ExecInv'
    BY DEF OrderInv, OnceInv, ExecInv, IsRead, Current
  <2>2. \A p \in Peer : Ordered(p)' /\ Fresh(p)'
    BY DEF OrderInv, Ordered, Fresh, Committing, IsRead, Current, Caller
  <2>3. ReachInv'
    BY DEF ReachInv, ThreadReach, Reached, Answered, IsRead, Current
  <2> QED BY <2>1, <2>2, <2>3 DEF OrderInv
<1> QED BY <1>1, <1>2, <1>3, <1>4, <1>5, <1>6 DEF Next

LEMMA FlowInvariant == Spec => []FlowInv
BY InitFlow, NextFlow, PTL DEF Spec
-----------------------------------------------------------------------------
\* Any two peers executed the writes they share in the same order, however many
\* servers coordinate and whoever dies in the middle of a commit.
THEOREM WritesInOneOrder == Spec => []SameOrder
<1>1. FlowInv => SameOrder
  <2> SUFFICES ASSUME FlowInv, NEW p \in Peer, NEW q \in Peer,
                      NEW i \in DOMAIN log[p], NEW j \in DOMAIN log[p],
                      NEW k \in DOMAIN log[q], NEW l \in DOMAIN log[q],
                      i < j, log[p][i] = log[q][k], log[p][j] = log[q][l]
               PROVE  k < l
    BY DEF SameOrder
  <2>1. decided \in Seq(Calls) /\ log[p] \in Seq(Calls) /\ log[q] \in Seq(Calls)
    BY DEF FlowInv, CommitInv, TypeOK
  <2>2. k \in Nat /\ l \in Nat
    BY <2>1
  <2>3. OnceInv /\ Ordered(p) /\ Ordered(q)
    BY DEF FlowInv, OrderInv
  <2>4. PICK a \in DOMAIN decided : decided[a] = log[p][i]
    BY <2>3 DEF Ordered, Range
  <2>5. PICK b \in DOMAIN decided : decided[b] = log[p][j]
    BY <2>3 DEF Ordered, Range
  <2>6. a < b /\ a \in Nat /\ b \in Nat
    BY <2>1, <2>3, <2>4, <2>5 DEF Ordered
  <2>7. CASE l < k
    <3>1. b < a
      BY <2>3, <2>4, <2>5, <2>7 DEF Ordered
    <3> QED BY <2>6, <3>1
  <2>8. CASE l = k
    <3>1. a = b
      BY <2>3, <2>4, <2>5, <2>8 DEF OnceInv
    <3> QED BY <2>6, <3>1
  <2> QED BY <2>2, <2>7, <2>8
<1> QED BY <1>1, FlowInvariant, PTL

\* A write that was answered has been executed, or is about to be, by every peer
\* that runs.
THEOREM AnswersMeanReached == Spec => []AnsweredEverywhere
<1>1. FlowInv => AnsweredEverywhere
  BY DEF FlowInv, ReachInv, AnsweredEverywhere, Reached
<1> QED BY <1>1, FlowInvariant, PTL

\* A GET is evaluated on a table that has every write answered before it arrived.
THEOREM ReadsSeeAnsweredWrites == Spec => []ReadAfterWrite
<1>1. FlowInv => ReadAfterWrite
  <2> SUFFICES ASSUME FlowInv, NEW p \in Peer, p \in up, phase[p] = "write",
                      NEW c \in before[serving[p].handler]
               PROVE  c \in Range(log[p])
    BY DEF ReadAfterWrite
  <2>1. serving[p].handler \in Handler
    BY ServingType, CallType DEF FlowInv, CommitInv, TypeInv
  <2>2. Reached(c, p)
    BY <2>1 DEF FlowInv, ReachInv
  <2> QED BY <2>2 DEF Reached
<1> QED BY <1>1, FlowInvariant, PTL
-----------------------------------------------------------------------------
\* When nobody dies a peer lacks at most the last decided write, and that one is
\* on its way to it.
Lagging(p) ==
    /\ decided # <<>> /\ decided = Append(log[p], decided[Len(decided)])
    /\ \/ Committing(p)
       \/ \E s \in Server : thread[s][p] = "spin" /\ IsLast(Current(s))

GapInv ==
    /\ up = Server \cup Peer
    /\ \A p \in Peer : log[p] = decided \/ Lagging(p)

LEMMA InitGap == Init => GapInv
BY DEF Init, GapInv

\* What a step that neither decides nor executes has to keep.
LEMMA GapStep ==
    ASSUME GapInv, TypeInv, UNCHANGED <<up, decided, log>>,
           \A p \in Peer : Committing(p) => Committing(p)',
           \A s \in Server, p \in Peer :
               lock[s] # None /\ thread[s][p] = "spin" /\ IsLast(Current(s)) =>
                   \/ Committing(p)'
                   \/ thread'[s][p] = "spin" /\ Current(s)' = Current(s)
    PROVE  GapInv'
<1> SUFFICES ASSUME NEW p \in Peer, Lagging(p) PROVE Lagging(p)'
  BY DEF GapInv
<1>1. CASE Committing(p)
  BY <1>1 DEF Lagging
<1>2. CASE \E s \in Server : thread[s][p] = "spin" /\ IsLast(Current(s))
  <2>1. PICK s \in Server : thread[s][p] = "spin" /\ IsLast(Current(s))
    BY <1>2
  <2>2. lock[s] # None
    BY <2>1 DEF TypeInv, HandlerInv
  <2>3. \/ Committing(p)'
        \/ thread'[s][p] = "spin" /\ Current(s)' = Current(s)
    BY <2>1, <2>2
  <2>4. Current(s)' = Current(s) => IsLast(Current(s))'
    BY <2>1 DEF IsLast
  <2> QED BY <2>1, <2>3, <2>4 DEF Lagging
<1> QED BY <1>1, <1>2 DEF Lagging

LEMMA HandlerGap ==
    ASSUME FlowInv, GapInv, NEW h \in Handler,
           (\E r \in Request : Invoke(h, r)) \/ Acquire(h)
    PROVE  GapInv' /\ UNCHANGED <<decided, log>>
<1>1. TypeInv
  BY DEF FlowInv, CommitInv, TypeInv
<1>2. UNCHANGED <<goMsg, serving, phase, up, decided, log>>
  BY DEF Invoke, Acquire, handlerVars, coordVars, peerVars, dataVars
<1>3. \A p \in Peer : Committing(p) <=> Committing(p)'
  BY <1>2 DEF Committing, IsRead, Caller
<1>4. \A s \in Server, p \in Peer : lock[s] # None =>
          thread'[s][p] = thread[s][p] /\ Current(s)' = Current(s)
  <2>1. CASE Acquire(h)
    BY <1>1, <2>1 DEF Acquire, handlerVars, Current, TypeInv, TypeOK
  <2>2. CASE \E r \in Request : Invoke(h, r)
    <3>1. /\ UNCHANGED <<lock, thread>>
          /\ req[h] = None
          /\ \A k \in Handler : k # h => req'[k] = req[k]
      BY <1>1, <2>2 DEF Invoke, coordVars, TypeInv, TypeOK
    <3> QED BY <1>1, <3>1 DEF TypeInv, TypeOK, HandlerInv, Current
  <2> QED BY <2>1, <2>2
<1> QED BY <1>1, <1>2, <1>3, <1>4, GapStep

LEMMA ReturnGap ==
    ASSUME FlowInv, GapInv, NEW s \in Server, Return(s)
    PROVE  GapInv' /\ UNCHANGED <<decided, log>>
<1>1. TypeInv
  BY DEF FlowInv, CommitInv, TypeInv
<1>2. /\ UNCHANGED <<goMsg, serving, phase, up, decided, log>>
      /\ lock[s] # None
      /\ \A p \in Peer : thread[s][p] \in {"none", "done"}
      /\ \A t \in Server : t # s => thread'[t] = thread[t]
      /\ \A k \in Handler : k # lock[s] => req'[k] = req[k]
      /\ \A t \in Server : t # s => lock'[t] = lock[t]
  BY <1>1 DEF Return, Coordinating, Joined, TypeInv, TypeOK, peerVars, dataVars
<1>3. \A p \in Peer : Committing(p) <=> Committing(p)'
  BY <1>2 DEF Committing, IsRead, Caller
<1>4. \A t \in Server : t # s /\ lock[t] # None => Current(t)' = Current(t)
  <2>1. \A t \in Server : t # s /\ lock[t] # None =>
            lock[t] \in Handler /\ lock[t] # lock[s]
    BY <1>1, <1>2, CurrentType DEF Caller
  <2> QED BY <1>2, <2>1 DEF Current
<1> QED BY <1>1, <1>2, <1>3, <1>4, GapStep

LEMMA ThreadGap ==
    ASSUME FlowInv, GapInv, NEW s \in Server, NEW p \in Peer,
           Connect(s, p) \/ ReceiveAck(s, p) \/ ReceiveGoAck(s, p) \/ Close(s, p)
    PROVE  GapInv' /\ UNCHANGED <<decided, log>>
<1>1. TypeInv
  BY DEF FlowInv, CommitInv, TypeInv
<1>2. /\ UNCHANGED <<req, lock, goMsg, serving, phase, up, decided, log>>
      /\ thread[s][p] # "spin"
      /\ \A t \in Server, q \in Peer : ~ (t = s /\ q = p) => thread'[t][q] = thread[t][q]
  BY <1>1 DEF Connect, ReceiveAck, ReceiveGoAck, Close, At, Goto,
              TypeInv, TypeOK, handlerVars, peerVars, dataVars
<1>3. \A q \in Peer : Committing(q) <=> Committing(q)'
  BY <1>2 DEF Committing, IsRead, Caller
<1>4. \A t \in Server : Current(t)' = Current(t)
  BY <1>2 DEF Current
<1> QED BY <1>1, <1>2, <1>3, <1>4, GapStep

LEMMA PeerGap ==
    ASSUME FlowInv, GapInv, NEW p \in Peer,
           Prepare(p) \/ ReceiveGo(p) \/ TruncateBuffer(p) \/ WriteBuffer(p)
    PROVE  GapInv' /\ UNCHANGED <<decided, log>>
<1>1. TypeInv
  BY DEF FlowInv, CommitInv, TypeInv
<1>2. /\ UNCHANGED <<req, lock, thread, up, decided, log>>
      /\ \A q \in Peer : q # p => serving'[q] = serving[q] /\ phase'[q] = phase[q]
      /\ \A t \in Server, q \in Peer : q # p => (<<t, q>> \in goMsg' <=> <<t, q>> \in goMsg)
  BY <1>1 DEF Prepare, ReceiveGo, TruncateBuffer, WriteBuffer,
              TypeInv, TypeOK, handlerVars, coordVars, dataVars
<1>3. ASSUME NEW q \in Peer, Committing(q) PROVE Committing(q)'
  <2>1. CASE q = p
    <3>1. CASE ReceiveGo(p)
      BY <1>1, <1>3, <2>1, <3>1 DEF ReceiveGo, Committing, IsRead, TypeInv, TypeOK
    <3>2. CASE Prepare(p) \/ WriteBuffer(p)
      <4>1. serving[p] \in Calls /\ Caller(serving[p]) \in Server
        BY <1>1, <1>3, <2>1, CallType DEF Committing, TypeInv, TypeOK
      <4> QED BY <1>3, <2>1, <3>2, <4>1
                 DEF Prepare, WriteBuffer, Committing, FlowInv, CommitInv, GoInv
    <3>3. CASE TruncateBuffer(p)
      BY <1>3, <2>1, <3>3 DEF TruncateBuffer, Committing
    <3> QED BY <3>1, <3>2, <3>3
  <2>2. CASE q # p
    <3>1. serving[q] \in Calls /\ Caller(serving[q]) \in Server
      BY <1>1, <1>3, CallType DEF Committing, TypeInv, TypeOK
    <3> QED BY <1>2, <1>3, <2>2, <3>1 DEF Committing, IsRead, Caller
  <2> QED BY <2>1, <2>2
<1>4. \A t \in Server : Current(t)' = Current(t)
  BY <1>2 DEF Current
<1> QED BY <1>1, <1>2, <1>3, <1>4, GapStep

\* A write is decided when every peer has executed all the others.
LEMMA SendGoGap ==
    ASSUME FlowInv, GapInv, NEW s \in Server, NEW p \in Peer, SendGo(s, p)
    PROVE  GapInv' /\ [RL!Next]_<<decided, log>>
<1> DEFINE c == Current(s)
           commits == ~ IsRead(c) /\ c \notin Range(decided)
<1>1. TypeInv
  BY DEF FlowInv, CommitInv, TypeInv
<1>2. /\ UNCHANGED <<req, lock, acked, serving, phase, up, log>>
      /\ s \in up /\ lock[s] # None /\ thread[s][p] = "spin"
      /\ \A t \in Server, q \in Peer : ~ (t = s /\ q = p) => thread'[t][q] = thread[t][q]
      /\ goMsg' = goMsg \cup {<<s, p>>}
      /\ decided' = IF commits THEN Append(decided, c) ELSE decided
      /\ ~ IsRead(c) => Cardinality(acked[s]) >= Cardinality(Peer)
  BY <1>1 DEF SendGo, At, Goto, Coordinating, AcksComplete, GapInv,
              TypeInv, TypeOK, handlerVars, peerVars, dataVars
<1>3. /\ c \in Calls /\ Caller(c) = s /\ c # None
      /\ decided \in Seq(Calls) /\ up = Server \cup Peer
  BY <1>1, <1>2, CurrentType, CallType DEF TypeInv, TypeOK, GapInv
<1>4. \A q \in Peer, t \in Server : thread[t][q] = "spin" =>
          serving[q] = Current(t) /\ phase[q] = "go" /\ <<t, q>> \notin goMsg
  BY <1>3 DEF FlowInv, CommitInv, AckInv, Waits
<1>5. \A t \in Server : Current(t)' = Current(t)
  BY <1>2 DEF Current
<1>6. \A q \in Peer : Committing(q) => Committing(q)'
  BY <1>2 DEF Committing, IsRead, Caller
<1>7. ~ IsRead(c) => Committing(p)'
  BY <1>2, <1>3, <1>4 DEF Committing, IsRead, Caller
<1> HIDE DEF c, commits
<1>8. CASE ~ commits
  <2>1. IsLast(c) => ~ IsRead(c)
    BY <1>3 DEF IsLast, FlowInv, OrderInv, OnceInv, Range
  <2>2. \A t \in Server, q \in Peer :
            lock[t] # None /\ thread[t][q] = "spin" /\ IsLast(Current(t)) =>
                \/ Committing(q)'
                \/ thread'[t][q] = "spin" /\ Current(t)' = Current(t)
    BY <1>2, <1>5, <1>7, <2>1 DEF c
  <2> QED BY <1>1, <1>2, <1>6, <1>8, <2>2, GapStep
<1>9. CASE commits
  <2>1. acked[s] = Peer
    BY <1>1, <1>2, <1>9, FullCount DEF commits, TypeInv, TypeOK
  <2>2. \A q \in Peer : thread[s][q] = "spin"
    BY <1>2, <1>9, <2>1 DEF FlowInv, CommitInv, CountInv, DecidedInv, Past, commits, c
  <2>3. ASSUME NEW q \in Peer PROVE log[q] = decided
    <3>1. serving[q] = c /\ phase[q] = "go" /\ <<s, q>> \notin goMsg
      BY <1>4, <2>2 DEF c
    <3>2. ~ Committing(q)
      BY <1>3, <3>1 DEF Committing
    <3>3. \A t \in Server : thread[t][q] = "spin" => ~ IsLast(Current(t))
      <4>1. ~ IsLast(c)
        BY <1>3, <1>9 DEF IsLast, Range, commits
      <4> QED BY <1>4, <3>1, <4>1
    <3> QED BY <3>2, <3>3 DEF GapInv, Lagging
  <2>4. /\ decided' = Append(decided, c) /\ decided' # <<>>
        /\ decided'[Len(decided')] = c
    BY <1>2, <1>3, <1>9
  <2>5. ASSUME NEW q \in Peer PROVE Lagging(q)'
    <3>1. decided' = Append(log'[q], decided'[Len(decided')])
      BY <1>2, <2>3, <2>4
    <3>2. CASE q = p
      BY <1>7, <1>9, <2>4, <3>1, <3>2 DEF Lagging, commits
    <3>3. CASE q # p
      <4>1. thread'[s][q] = "spin"
        BY <1>2, <2>2, <3>3
      <4>2. IsLast(Current(s))'
        BY <1>5, <2>4 DEF IsLast, c
      <4> QED BY <2>4, <3>1, <4>1, <4>2 DEF Lagging
    <3> QED BY <3>2, <3>3
  <2>6. RL!Decide(c)
    BY <1>2, <1>9, <2>4 DEF RL!Decide, RL!Range, Range, commits
  <2> QED BY <1>2, <1>3, <2>5, <2>6 DEF GapInv, RL!Next
<1> QED BY <1>8, <1>9

LEMMA ExecuteGap ==
    ASSUME FlowInv, GapInv, NEW p \in Peer, ExecuteWrite(p)
    PROVE  GapInv' /\ RL!Apply(p)
<1>1. TypeInv
  BY DEF FlowInv, CommitInv, TypeInv
<1>2. /\ UNCHANGED <<req, lock, thread, goMsg, up, decided>>
      /\ p \in up /\ phase[p] = "exec" /\ ~ IsRead(serving[p])
      /\ log' = [log EXCEPT ![p] = Append(@, serving[p])]
      /\ \A q \in Peer : q # p => serving'[q] = serving[q] /\ phase'[q] = phase[q]
  BY <1>1 DEF ExecuteWrite, TypeInv, TypeOK, handlerVars, coordVars
<1>3. /\ decided \in Seq(Calls) /\ log \in [Peer -> Seq(Calls)]
      /\ serving[p] \in Calls /\ serving[p] # None
  BY <1>1, <1>2, ServingType, NoneAssumption DEF TypeInv, TypeOK
<1>4. IsLast(serving[p]) /\ serving[p] \notin Range(log[p])
  <2>1. Committing(p)
    BY <1>2, <1>3 DEF Committing
  <2> QED BY <2>1 DEF FlowInv, CommitInv, LastInv, OrderInv, Fresh
<1>5. decided = Append(log[p], serving[p])
  <2>1. log[p] # decided
    BY <1>3, <1>4 DEF IsLast, Range
  <2> QED BY <1>4, <2>1 DEF GapInv, Lagging, IsLast
<1>6. RL!Apply(p)
  <2>1. Len(log[p]) < Len(decided) /\ decided[Len(log[p]) + 1] = serving[p]
    BY <1>3, <1>5
  <2> QED BY <1>2, <2>1 DEF RL!Apply
<1>7. ASSUME NEW q \in Peer PROVE (log[q] = decided \/ Lagging(q))'
  <2>1. CASE q = p
    BY <1>2, <1>3, <1>5, <2>1
  <2>2. CASE q # p
    <3>1. log'[q] = log[q]
      BY <1>2, <1>3, <2>2
    <3>2. Committing(q) => Committing(q)'
      BY <1>2, <2>2 DEF Committing, IsRead, Caller
    <3>3. \A s \in Server : IsLast(Current(s)) => IsLast(Current(s))'
      BY <1>2 DEF IsLast, Current
    <3> QED BY <1>2, <3>1, <3>2, <3>3 DEF GapInv, Lagging
  <2> QED BY <2>1, <2>2
<1> QED BY <1>2, <1>6, <1>7 DEF GapInv

LEMMA NextGap ==
    ASSUME Mortal = {}
    PROVE  FlowInv /\ GapInv /\ [Next]_vars => GapInv' /\ [RL!Next]_<<decided, log>>
<1> SUFFICES ASSUME FlowInv, GapInv, [Next]_vars
             PROVE  GapInv' /\ [RL!Next]_<<decided, log>>
  OBVIOUS
<1>1. ASSUME NEW h \in Handler, (\E r \in Request : Invoke(h, r)) \/ Acquire(h)
      PROVE  GapInv' /\ [RL!Next]_<<decided, log>>
  BY <1>1, HandlerGap
<1>2. ASSUME NEW s \in Server, Return(s)
      PROVE  GapInv' /\ [RL!Next]_<<decided, log>>
  BY <1>2, ReturnGap
<1>3. ASSUME NEW s \in Server, NEW p \in Peer, ThreadStep(s, p)
      PROVE  GapInv' /\ [RL!Next]_<<decided, log>>
  <2>1. ~ ConnectFail(s, p) /\ ~ BrokenPipe(s, p)
    BY DEF ConnectFail, BrokenPipe, GapInv
  <2> QED BY <1>3, <2>1, ThreadGap, SendGoGap DEF ThreadStep
<1>4. ASSUME NEW p \in Peer, PeerStep(p)
      PROVE  GapInv' /\ [RL!Next]_<<decided, log>>
  <2>1. ~ NoGo(p)
    BY ServingType DEF NoGo, GapInv, FlowInv, CommitInv, TypeInv
  <2>2. ExecuteWrite(p) => GapInv' /\ RL!Next
    BY ExecuteGap DEF RL!Next
  <2> QED BY <1>4, <2>1, <2>2, PeerGap DEF PeerStep, PeerBrokenPipe, Abandon
<1>5. ~ Crash
  BY DEF Crash
<1>6. CASE UNCHANGED vars
  BY <1>6 DEF vars, handlerVars, coordVars, peerVars, dataVars, GapInv, Lagging,
              Committing, IsLast, IsRead, Current, Caller
<1> QED BY <1>1, <1>2, <1>3, <1>4, <1>5, <1>6 DEF Next

\* Where nobody dies the two-phase commit is a replicated log, whatever the
\* number of servers that coordinate.
THEOREM IsReplicatedLog ==
    ASSUME Mortal = {}
    PROVE  Spec => ImplementsReplicatedLog
<1>1. Init => RL!Init
  BY DEF Init, RL!Init
<1>2. FlowInv /\ GapInv /\ [Next]_vars => GapInv' /\ [RL!Next]_RL!vars
  BY NextGap DEF RL!vars
<1> QED BY <1>1, <1>2, InitGap, FlowInvariant, PTL
           DEF Spec, ImplementsReplicatedLog, RL!Spec
=============================================================================
