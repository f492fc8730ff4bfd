-------------------------- MODULE UdpSessionProofs --------------------------
(***************************************************************************)
(* Proofs about UdpSession for every list of initial PUTs, every user,     *)
(* every limit of sends, and every loss and delay of datagrams.            *)
(***************************************************************************)
EXTENDS UdpSession, TLAPS

\* A client that waits has sent a command.
WaitInv == pc = "wait" => n # 0 /\ cmd # None

\* A copy is known by the numbers of its command and of its send, and what was
\* executed is not executed again.
CopyInv ==
    /\ \A x, y \in requests : x.n = y.n /\ x.copy = y.copy => x = y
    /\ \A x, y \in executed : x.n = y.n /\ x.copy = y.copy => x = y
    /\ \A x \in requests, y \in executed : ~ (x.n = y.n /\ x.copy = y.copy)

\* Of the command the client waits for there are sendCount copies at most, and
\* one if the client can still hear its answer or has shown it.
Sent(x) ==
    /\ x.n <= n
    /\ pc = "wait" /\ x.n = n => x.copy <= sendCount /\ (watched => x.copy = 1)
    /\ shown[x.n] = x.n => x.copy = 1

SentInv == \A x \in requests \cup executed : Sent(x)

\* Answers are shown for the commands before the one the client waits for.
ShownInv == \A k \in Number : shown[k] # 0 => k < n \/ (k = n /\ pc # "wait")

\* What the client can still read: its present command only, until init() times
\* out, and from then on nothing older than the command that timed out.
Unread(x) ==
    /\ deafFrom = 0 /\ watched => x.n = n /\ pc # "send"
    /\ deafFrom <= x.n

UnreadInv == \A x \in requests \cup answers : Unread(x)

\* In init() the client hears until the first timeout.
DeafInv == deafFrom <= n /\ (n <= Len(InitPuts) => watched = (deafFrom = 0))

SessionInv ==
    /\ TypeOK /\ WaitInv /\ CopyInv /\ SentInv /\ ShownInv /\ UnreadInv /\ DeafInv
    /\ OutOfStepOnlyAfterInit
-----------------------------------------------------------------------------
\* The functions of keyval.c keep a table a table and give the answers there are.
LEMMA StoreType ==
    ASSUME NEW st \in KV!Stores, NEW m \in Commands
    PROVE  /\ KV!Apply(st, m.op, m.key, m.val) \in KV!Stores
           /\ KV!Reply(st, m.op, m.key) \in KV!Replies
<1>1. m.key \in Int /\ m.val \in Value
  BY DEF Commands
<1>2. KV!GET(st, m.key) \in KV!Replies
  BY <1>1, SessionAssumption
     DEF KV!GET, KV!Present, KV!InRange, KV!Stores, KV!Slot, KV!Replies
<1>3. KV!PUT(st, m.key, m.val) \in KV!Stores
  <2>1. CASE KV!PutOK(st, m.key)
    BY <1>1, <2>1 DEF KV!PUT, KV!Stores
  <2>2. CASE ~ KV!PutOK(st, m.key)
    BY <2>2 DEF KV!PUT
  <2> QED BY <2>1, <2>2
<1>4. KV!DELETE(st, m.key) \in KV!Stores
  BY <1>1 DEF KV!DELETE, KV!Stores
<1>5. KV!Reply(st, m.op, m.key) \in KV!Replies
  BY <1>2 DEF KV!Reply, KV!Replies
<1> QED BY <1>3, <1>4, <1>5 DEF KV!Apply

LEMMA CommandTypes ==
    /\ Typed \subseteq Commands
    /\ \A k \in Nat \ {0} : InInit(k) => InitPuts[k] \in Commands
BY SessionAssumption DEF InInit

LEMMA InitInv == Init => SessionInv
<1> SUFFICES ASSUME Init PROVE SessionInv
  OBVIOUS
<1>1. KV!EmptyStore \in KV!Stores
  BY DEF KV!EmptyStore, KV!Stores
<1>2. TypeOK
  <2>1. shown \in [Number -> 0 .. MaxCommands]
    BY SessionAssumption DEF Init
  <2>2. /\ n \in 0 .. MaxCommands /\ sendCount \in 1 .. SendLimit
        /\ deafFrom \in 0 .. Len(InitPuts)
    BY SessionAssumption DEF Init
  <2> QED BY <1>1, <2>1, <2>2 DEF Init, TypeOK
<1>3. WaitInv /\ CopyInv /\ SentInv /\ UnreadInv
  BY DEF Init, WaitInv, CopyInv, SentInv, UnreadInv
<1>5. ShownInv /\ DeafInv
  <2>1. \A k \in Number : shown[k] = 0
    BY DEF Init
  <2>2. deafFrom <= n /\ watched = TRUE /\ deafFrom = 0
    BY DEF Init
  <2> QED BY <2>1, <2>2 DEF ShownInv, DeafInv
<1>4. OutOfStepOnlyAfterInit
  BY DEF Init, OutOfStepOnlyAfterInit
<1> QED BY <1>2, <1>3, <1>4, <1>5 DEF SessionInv

\* The three ways a first copy is sent: its number is new.
LEMMA SendtoInv ==
    ASSUME SessionInv, NEW c \in Commands, Sendto(c), pc = "send",
           pc' \in {"wait", "closed"}, sendCount' \in {1, sendCount},
           watched' \in BOOLEAN, deafFrom = 0 /\ watched' => watched, DeafInv',
           UNCHANGED <<shown, told, answers, serverVars, timedOut, deafFrom>>
    PROVE  SessionInv'
<1> USE DEF serverVars
<1>m. PICK m : m = [n |-> n + 1, copy |-> 1, cmd |-> c]
  OBVIOUS
<1>0. /\ n \in Nat /\ n' = n + 1 /\ n' \in Nat /\ n' \in Number /\ cmd' = c /\ sendCount' \in 1 .. SendLimit
      /\ requests' = requests \cup {m} /\ m \in Requests
      /\ m.n = n' /\ m.copy = 1
  BY <1>m, SessionAssumption DEF SessionInv, TypeOK, Sendto, Number, Requests
<1>4. \A x \in requests \cup executed : x.n <= n /\ x.n \in Nat
  BY DEF SessionInv, SentInv, Sent, TypeOK, Requests, Answers, Number
<1>1. TypeOK'
  BY <1>0 DEF SessionInv, TypeOK, Number
<1>2. WaitInv'
  BY <1>0, SessionAssumption DEF WaitInv
<1>3. CopyInv'
  BY <1>0, <1>4 DEF SessionInv, CopyInv, Number
<1>5. SentInv'
  <2>1. Sent(m)'
    BY <1>0 DEF Sent
  <2>2. ASSUME NEW x \in requests \cup executed PROVE Sent(x)'
    <3>1. Sent(x) /\ x.n <= n' /\ x.n # n'
      BY <1>0, <1>4 DEF SessionInv, SentInv
    <3> QED BY <3>1 DEF Sent
  <2> QED BY <1>0, <2>1, <2>2 DEF SentInv
<1>6. ShownInv'
  BY <1>0 DEF SessionInv, ShownInv, Number
<1>7. UnreadInv'
  <2>1. deafFrom <= n'
    BY DEF DeafInv
  <2>2. Unread(m)'
    BY <1>0, <2>1 DEF Unread
  <2>3. ASSUME NEW x \in requests \cup answers PROVE Unread(x)'
    BY DEF SessionInv, UnreadInv, Unread, TypeOK
  <2> QED BY <1>0, <2>2, <2>3 DEF UnreadInv
<1>8. OutOfStepOnlyAfterInit'
  BY DEF SessionInv, OutOfStepOnlyAfterInit
<1> QED BY <1>1, <1>2, <1>3, <1>5, <1>6, <1>7, <1>8 DEF SessionInv

LEMMA SendInv ==
    ASSUME SessionInv, SendInit \/ \E c \in Typed : SendTyped(c) \/ Quit(c)
    PROVE  SessionInv'
<1>1. /\ n \in Nat /\ Len(InitPuts) \in Nat /\ deafFrom \in Nat /\ watched \in BOOLEAN
      /\ sendCount \in Nat /\ DeafInv
  BY SessionAssumption DEF SessionInv, TypeOK
<1>2. CASE SendInit
  <2>1. InitPuts[n + 1] \in Commands
    BY <1>1, <1>2, CommandTypes DEF SendInit
  <2>2. DeafInv'
    BY <1>1, <1>2 DEF SendInit, Sendto, DeafInv
  <2> QED BY <1>1, <1>2, <2>1, <2>2, SendtoInv DEF SendInit
<1>3. ASSUME NEW c \in Typed, SendTyped(c) PROVE SessionInv'
  <2>1. c \in Commands /\ watched' \in BOOLEAN
    BY <1>3, CommandTypes DEF SendTyped
  <2>2. DeafInv'
    BY <1>1, <1>3 DEF SendTyped, Sendto, DeafInv, InInit
  <2>3. deafFrom = 0 /\ watched' => watched
    BY <1>1, <1>3 DEF SendTyped, DeafInv
  <2> QED BY <1>1, <1>3, <2>1, <2>2, <2>3, SendtoInv DEF SendTyped
<1>4. ASSUME NEW c \in Typed, Quit(c) PROVE SessionInv'
  <2>1. c \in Commands
    BY CommandTypes
  <2>2. DeafInv'
    BY <1>1, <1>4 DEF Quit, Sendto, DeafInv, InInit
  <2> QED BY <1>1, <1>4, <2>1, <2>2, SendtoInv DEF Quit
<1> QED BY <1>2, <1>3, <1>4

\* The client hears an answer: its own, unless init() has stopped hearing.
LEMMA ReceiveInv ==
    ASSUME SessionInv, NEW a \in answers, Receive(a)
    PROVE  SessionInv'
<1> USE DEF Receive, serverVars
<1>0. /\ n \in Number /\ a \in executed /\ a.n \in Number /\ a.text \in KV!Replies
      /\ n \in Nat /\ a.n \in Nat /\ a.n <= n /\ a.n # 0
      /\ deafFrom \in Nat /\ Len(InitPuts) \in Nat
  BY SessionAssumption
     DEF SessionInv, TypeOK, WaitInv, SentInv, Sent, Number, Answers
<1>1. shown' = [shown EXCEPT ![n] = a.n] /\ shown \in [Number -> 0 .. MaxCommands]
  BY DEF SessionInv, TypeOK
<1>2. TypeOK'
  BY <1>0 DEF SessionInv, TypeOK, Number
<1>3. WaitInv' /\ CopyInv' /\ DeafInv'
  BY DEF SessionInv, WaitInv, CopyInv, DeafInv
<1>4. SentInv'
  <2> SUFFICES ASSUME NEW x \in requests \cup executed PROVE Sent(x)'
    BY DEF SentInv
  <2>1. Sent(x) /\ x.n \in Number
    BY DEF SessionInv, SentInv, TypeOK, Requests, Answers
  <2>2. CASE x.n = n
    <3>1. x.copy = 1
      BY <2>1, <2>2 DEF Sent
    <3> QED BY <2>1, <3>1 DEF Sent
  <2>3. CASE x.n # n
    BY <1>1, <2>1, <2>3 DEF Sent
  <2> QED BY <2>2, <2>3
<1>5. ShownInv'
  BY <1>0, <1>1 DEF SessionInv, ShownInv
<1>6. UnreadInv'
  <2> SUFFICES ASSUME NEW x \in requests \cup answers' PROVE Unread(x)'
    BY DEF UnreadInv
  <2>1. Unread(x) /\ Unread(a) /\ Sent(x) /\ Sent(a) /\ x \in requests \cup executed
    BY DEF SessionInv, UnreadInv, SentInv, TypeOK
  <2>2. CASE deafFrom = 0
    <3>1. x.n = a.n /\ x.copy = a.copy
      BY <2>1, <2>2 DEF Unread, Sent
    <3>2. x \in answers /\ x # a
      BY <1>0, <3>1 DEF SessionInv, CopyInv
    <3>3. x \in executed
      BY <3>2 DEF SessionInv, TypeOK
    <3> QED BY <1>0, <3>1, <3>2, <3>3 DEF SessionInv, CopyInv
  <2>3. CASE deafFrom # 0
    BY <2>1, <2>3 DEF Unread
  <2> QED BY <2>2, <2>3
<1>7. OutOfStepOnlyAfterInit'
  <2>1. a.n = n \/ (0 < deafFrom /\ deafFrom <= a.n /\ a.n < n /\ ~ InInit(n))
    <3>1. Unread(a)
      BY DEF SessionInv, UnreadInv
    <3>2. deafFrom # 0 => ~ InInit(n)
      BY <1>0 DEF SessionInv, DeafInv, InInit
    <3> QED BY <1>0, <3>1, <3>2 DEF Unread
  <2> SUFFICES ASSUME NEW k \in Number
               PROVE  shown'[k] \in {0, k} \/
                      (0 < deafFrom /\ deafFrom <= shown'[k] /\ shown'[k] < k /\ ~ InInit(k))
    BY DEF OutOfStepOnlyAfterInit, InInit
  <2>2. CASE k = n
    BY <1>0, <1>1, <2>1, <2>2
  <2>3. CASE k # n
    BY <1>1, <2>3 DEF SessionInv, OutOfStepOnlyAfterInit
  <2> QED BY <2>2, <2>3
<1> QED BY <1>2, <1>3, <1>4, <1>5, <1>6, <1>7 DEF SessionInv

\* The client hears nothing: from now on it hears no answer of this command,
\* and in init() nothing older than it was left.
LEMMA NothingHeardInv ==
    ASSUME SessionInv, NothingHeard
    PROVE  /\ deafFrom' \in 0 .. Len(InitPuts) /\ deafFrom' <= n
           /\ n <= Len(InitPuts) => deafFrom' # 0
           /\ deafFrom # 0 => deafFrom' = deafFrom
           /\ \A x \in requests \cup answers : deafFrom' <= x.n
           /\ n \in Number /\ n \in Nat /\ cmd \in Commands
<1> USE DEF NothingHeard, InInit
<1>1. /\ n \in Number /\ n \in Nat /\ n # 0 /\ cmd \in Commands
      /\ Len(InitPuts) \in Nat /\ deafFrom \in 0 .. Len(InitPuts) /\ deafFrom <= n
      /\ n <= Len(InitPuts) => watched = (deafFrom = 0)
  BY SessionAssumption DEF SessionInv, TypeOK, WaitInv, DeafInv, Number
<1>2. \A x \in requests \cup answers : Unread(x)
  BY DEF SessionInv, UnreadInv
<1>3. CASE InInit(n) /\ deafFrom = 0
  <2>1. watched /\ deafFrom' = n
    BY <1>1, <1>3
  <2>2. \A x \in requests \cup answers : x.n = n
    BY <1>2, <1>3, <2>1 DEF Unread
  <2> QED BY <1>1, <1>3, <2>1, <2>2
<1>4. CASE ~ (InInit(n) /\ deafFrom = 0)
  BY <1>1, <1>2, <1>4 DEF Unread
<1> QED BY <1>3, <1>4

LEMMA ResendInv ==
    ASSUME SessionInv, Resend
    PROVE  SessionInv'
<1> USE DEF Resend, serverVars
<1>m. PICK m : m = [n |-> n, copy |-> sendCount + 1, cmd |-> cmd]
  OBVIOUS
<1>0. /\ NothingHeard /\ n' = n /\ pc' = "wait" /\ watched' = FALSE /\ timedOut' = TRUE
      /\ deafFrom' \in 0 .. Len(InitPuts) /\ deafFrom' <= n
      /\ n <= Len(InitPuts) => deafFrom' # 0
      /\ deafFrom # 0 => deafFrom' = deafFrom
      /\ \A x \in requests \cup answers : deafFrom' <= x.n
      /\ n \in Number /\ n \in Nat /\ cmd \in Commands
  BY NothingHeardInv DEF NothingHeard
<1>1. /\ m.n = n /\ m.copy = sendCount' /\ m \in Requests /\ sendCount' = sendCount + 1
      /\ requests' = requests \cup {m} /\ sendCount' \in 1 .. SendLimit /\ sendCount \in Nat
  BY <1>m, <1>0, SessionAssumption DEF SessionInv, TypeOK, Requests
<1>2. \A x \in requests \cup executed :
         Sent(x) /\ x.n \in Number /\ x.copy \in Nat /\ (x.n = n => x.copy <= sendCount)
  BY DEF SessionInv, SentInv, Sent, TypeOK, Requests, Answers, NothingHeard
<1>3. TypeOK'
  BY <1>0, <1>1 DEF SessionInv, TypeOK
<1>4. WaitInv'
  BY <1>0 DEF SessionInv, WaitInv
<1>5. CopyInv'
  BY <1>1, <1>2 DEF SessionInv, CopyInv
<1>6. SentInv'
  <2>1. Sent(m)'
    <3>1. shown[n] # n
      BY <1>0 DEF SessionInv, ShownInv, WaitInv, NothingHeard
    <3> QED BY <1>0, <1>1, <3>1 DEF Sent
  <2>2. ASSUME NEW x \in requests \cup executed PROVE Sent(x)'
    BY <1>0, <1>1, <1>2 DEF Sent
  <2> QED BY <1>1, <2>1, <2>2 DEF SentInv
<1>7. ShownInv'
  BY <1>0 DEF SessionInv, ShownInv, NothingHeard
<1>8. UnreadInv' /\ DeafInv'
  BY <1>0, <1>1 DEF UnreadInv, Unread, DeafInv
<1>9. OutOfStepOnlyAfterInit'
  BY <1>0 DEF SessionInv, OutOfStepOnlyAfterInit
<1> QED BY <1>3, <1>4, <1>5, <1>6, <1>7, <1>8, <1>9 DEF SessionInv

LEMMA GiveUpInv ==
    ASSUME SessionInv, GiveUp
    PROVE  SessionInv'
<1> USE DEF GiveUp, serverVars
<1>0. /\ NothingHeard /\ n' = n /\ pc' = "send" /\ watched' = FALSE /\ timedOut' = TRUE
      /\ deafFrom' \in 0 .. Len(InitPuts) /\ deafFrom' <= n
      /\ n <= Len(InitPuts) => deafFrom' # 0
      /\ deafFrom # 0 => deafFrom' = deafFrom
      /\ \A x \in requests \cup answers : deafFrom' <= x.n
  BY NothingHeardInv DEF NothingHeard
<1>1. TypeOK'
  BY <1>0 DEF SessionInv, TypeOK
<1>2. WaitInv' /\ CopyInv'
  BY <1>0 DEF SessionInv, WaitInv, CopyInv
<1>3. SentInv'
  BY <1>0 DEF SessionInv, SentInv, Sent
<1>4. ShownInv'
  BY <1>0 DEF SessionInv, ShownInv
<1>5. UnreadInv' /\ DeafInv'
  BY <1>0 DEF UnreadInv, Unread, DeafInv
<1>6. OutOfStepOnlyAfterInit'
  BY <1>0 DEF SessionInv, OutOfStepOnlyAfterInit
<1> QED BY <1>1, <1>2, <1>3, <1>4, <1>5, <1>6 DEF SessionInv

LEMMA ServeInv ==
    ASSUME SessionInv, NEW m \in requests, Serve(m)
    PROVE  SessionInv'
<1> USE DEF Serve, clientVars
<1>a. PICK a : a = [n |-> m.n, copy |-> m.copy, text |-> KV!Reply(store, m.cmd.op, m.cmd.key)]
  OBVIOUS
<1>0. /\ executed' = executed \cup {a} /\ answers' = answers \cup {a}
      /\ requests' = requests \ {m} /\ a.n = m.n /\ a.copy = m.copy
  BY <1>a
<1>1. TypeOK'
  <2>1. m \in Requests /\ m.cmd \in Commands /\ store \in KV!Stores
    BY DEF SessionInv, TypeOK, Requests
  <2>2. /\ KV!Reply(store, m.cmd.op, m.cmd.key) \in KV!Replies
        /\ store' \in KV!Stores
    BY <2>1, StoreType
  <2>3. a \in Answers
    BY <1>a, <2>1, <2>2 DEF Requests, Answers
  <2>4. serving' \in BOOLEAN
    OBVIOUS
  <2> QED BY <1>0, <2>2, <2>3, <2>4 DEF SessionInv, TypeOK
<1>2. WaitInv' /\ ShownInv' /\ DeafInv' /\ OutOfStepOnlyAfterInit'
  BY DEF SessionInv, WaitInv, ShownInv, DeafInv, OutOfStepOnlyAfterInit
<1>3. CopyInv'
  BY <1>0 DEF SessionInv, CopyInv
<1>4. SentInv'
  BY <1>0 DEF SessionInv, SentInv, Sent
<1>5. UnreadInv'
  BY <1>0 DEF SessionInv, UnreadInv, Unread
<1> QED BY <1>1, <1>2, <1>3, <1>4, <1>5 DEF SessionInv

LEMMA NextInv ==
    ASSUME SessionInv, [Next]_vars
    PROVE  SessionInv'
<1>1. CASE SendInit \/ \E c \in Typed : SendTyped(c) \/ Quit(c)
  BY <1>1, SendInv
<1>2. CASE Waiting
  BY <1>2, ReceiveInv, ResendInv, GiveUpInv DEF Waiting
<1>3. ASSUME NEW m \in requests, Serve(m) PROVE SessionInv'
  BY <1>3, ServeInv
<1>4. CASE UNCHANGED vars
  <2> USE <1>4 DEF vars, clientVars, serverVars
  <2>1. TypeOK' /\ WaitInv' /\ CopyInv'
    BY DEF SessionInv, TypeOK, WaitInv, CopyInv
  <2>2. SentInv' /\ ShownInv' /\ UnreadInv'
    BY DEF SessionInv, SentInv, Sent, ShownInv, UnreadInv, Unread
  <2>3. DeafInv' /\ OutOfStepOnlyAfterInit'
    BY DEF SessionInv, DeafInv, OutOfStepOnlyAfterInit
  <2> QED BY <2>1, <2>2, <2>3 DEF SessionInv
<1> QED BY <1>1, <1>2, <1>3, <1>4 DEF Next

LEMMA Invariant == Spec => []SessionInv
BY InitInv, NextInv, PTL DEF Spec

\* Every variable of the session keeps its type: send_count stays within its
\* limit, and every answer under way is one the server computed.
THEOREM TypeCorrect == Spec => []TypeOK
<1>1. SessionInv => TypeOK
  BY DEF SessionInv
<1> QED BY <1>1, Invariant, PTL

\* udpclient.c prints for a command its own answer, unless a select() of init()
\* timed out before; then possibly one of the INIT commands from there on.
THEOREM InStep == Spec => []OutOfStepOnlyAfterInit
<1>1. SessionInv => OutOfStepOnlyAfterInit
  BY DEF SessionInv
<1> QED BY <1>1, Invariant, PTL

\* A command whose own answer was printed was executed by one of its copies.
THEOREM ExecutedOnce == Spec => []AnsweredOnce
<1>1. ASSUME SessionInv PROVE AnsweredOnce
  <2> SUFFICES ASSUME NEW a \in executed, NEW b \in executed, a.n = b.n, shown[a.n] = a.n
               PROVE  a = b
    BY DEF AnsweredOnce
  <2>1. a.copy = 1 /\ b.copy = 1
    BY <1>1 DEF SessionInv, SentInv, Sent
  <2> QED BY <1>1, <2>1 DEF SessionInv, CopyInv
<1> QED BY <1>1, Invariant, PTL
-----------------------------------------------------------------------------
(* Until the first timeout the session is the service of KVService. *)

\* A request not yet served for the present command carries it, which is Q when
\* the client is gone; without a timeout nothing is lost to the client.
QuietInv ==
    /\ \A m \in requests : m.n = n => m.cmd = cmd
    /\ pc = "closed" => cmd.op = "Q"
    /\ ~ timedOut => watched /\ deafFrom = 0

LEMMA QuietInit == Init => QuietInv
BY DEF Init, QuietInv

LEMMA SendtoQuiet ==
    ASSUME SessionInv, QuietInv, NEW c, Sendto(c)
    PROVE  \A m \in requests' : m.n = n' => m.cmd = cmd'
<1>1. n \in Nat /\ n' = n + 1 /\ cmd' = c
  BY SessionAssumption DEF SessionInv, TypeOK, Sendto
<1>2. \A m \in requests : m.n <= n /\ m.n \in Nat
  BY DEF SessionInv, SentInv, Sent, TypeOK, Requests, Number
<1> QED BY <1>1, <1>2 DEF Sendto

LEMMA QuietNext ==
    ASSUME SessionInv, QuietInv, [Next]_vars
    PROVE  QuietInv'
<1>1. CASE SendInit
  BY <1>1, SendtoQuiet DEF SendInit, QuietInv, Sendto
<1>2. ASSUME NEW c \in Typed, SendTyped(c) PROVE QuietInv'
  BY <1>2, SendtoQuiet DEF SendTyped, QuietInv, Sendto
<1>3. ASSUME NEW c \in Typed, Quit(c) PROVE QuietInv'
  BY <1>3, SendtoQuiet DEF Quit, QuietInv, Sendto
<1>4. ASSUME NEW a \in answers, Receive(a) PROVE QuietInv'
  BY <1>4 DEF Receive, QuietInv
<1>5. CASE Resend
  BY <1>5 DEF Resend, NothingHeard, QuietInv
<1>6. CASE GiveUp
  BY <1>6 DEF GiveUp, NothingHeard, QuietInv
<1>7. ASSUME NEW m \in requests, Serve(m) PROVE QuietInv'
  BY <1>7 DEF Serve, clientVars, QuietInv
<1>8. CASE UNCHANGED vars
  BY <1>8 DEF vars, clientVars, QuietInv
<1> QED BY <1>1, <1>2, <1>3, <1>4, <1>5, <1>6, <1>7, <1>8 DEF Next, Waiting

LEMMA ServiceInit == Init => Service!Init
BY DEF Init, Service!Init, Service!EmptyStore, Service!Slot, KV!EmptyStore, KV!Slot

\* What the service sees of the session.
Result == IF pc = "wait" /\ \E a \in executed : a.n = n
          THEN (CHOOSE a \in executed : a.n = n).text ELSE None

ServiceStep == [timedOut' \/ Service!Next]_(Service!vars)

\* A first copy is a call.
LEMMA CallStep ==
    ASSUME SessionInv, NEW c \in Typed \cup {InitPuts[i] : i \in 1 .. Len(InitPuts)}, Sendto(c),
           pc = "send", pc' = "wait", UNCHANGED <<told, store, executed>>
    PROVE  Service!Call("user")
<1>1. ~ \E a \in executed' : a.n = n'
  <2>1. n \in Nat /\ n' = n + 1
    BY SessionAssumption DEF SessionInv, TypeOK, Sendto
  <2>2. \A a \in executed : a.n <= n /\ a.n \in Nat
    BY DEF SessionInv, SentInv, Sent, TypeOK, Answers, Number
  <2> QED BY <2>1, <2>2
<1> QED BY <1>1 DEF Service!Call, Sendto

\* Without a timeout there is one copy of the command, either under way to the
\* server or executed.
LEMMA OneCopy ==
    ASSUME SessionInv, QuietInv, ~ timedOut, pc = "wait"
    PROVE  /\ \A m \in requests : m.n = n /\ m.cmd = cmd
           /\ \A a \in answers : a.n = n
           /\ requests # {} => ~ \E a \in executed : a.n = n
           /\ \A a, b \in executed : a.n = n /\ b.n = n => a = b
<1>1. watched /\ deafFrom = 0
  BY DEF QuietInv
<1>2. \A x \in requests \cup answers : x.n = n
  BY <1>1 DEF SessionInv, UnreadInv, Unread
<1>3. \A x \in requests \cup executed : x.n = n => x.copy = 1
  BY <1>1 DEF SessionInv, SentInv, Sent
<1>4. \A m \in requests : m.cmd = cmd
  BY <1>2 DEF QuietInv
<1>5. requests # {} => ~ \E a \in executed : a.n = n
  BY <1>2, <1>3 DEF SessionInv, CopyInv
<1>6. \A a, b \in executed : a.n = n /\ b.n = n => a = b
  BY <1>3 DEF SessionInv, CopyInv
<1> QED BY <1>2, <1>4, <1>5, <1>6

\* The service executes commands on its table as the server does.
LEMMA SameTable ==
    ASSUME NEW st, NEW op, NEW k, NEW v
    PROVE  /\ Service!Reply(st, op, k) = KV!Reply(st, op, k)
           /\ Service!Apply(st, op, k, v) = KV!Apply(st, op, k, v)
<1> USE DEF Service!Present, Service!InRange, Service!PutOK, Service!DeleteOK,
            KV!Present, KV!InRange, KV!PutOK, KV!DeleteOK
<1>1. /\ Service!GET(st, k) = KV!GET(st, k)
      /\ Service!PUT(st, k, v) = KV!PUT(st, k, v)
      /\ Service!DELETE(st, k) = KV!DELETE(st, k)
  BY DEF Service!GET, KV!GET, Service!PUT, KV!PUT, Service!DELETE, KV!DELETE
<1>2. Service!PutOK(st, k) = KV!PutOK(st, k) /\ Service!DeleteOK(st, k) = KV!DeleteOK(st, k)
  OBVIOUS
<1> QED BY <1>1, <1>2, Zenon DEF Service!Reply, KV!Reply, Service!Apply, KV!Apply

LEMMA ServeStep ==
    ASSUME SessionInv, QuietInv, ~ timedOut, pc = "wait", NEW m \in requests, Serve(m)
    PROVE  Service!Serve("user")
<1>b. PICK b : b = [n |-> n, copy |-> m.copy, text |-> KV!Reply(store, cmd.op, cmd.key)]
  OBVIOUS
<1>1. /\ m.n = n /\ m.cmd = cmd
      /\ ~ \E a \in executed : a.n = n
  BY OneCopy
<1>2. /\ executed' = executed \cup {b} /\ b.n = n
      /\ n' = n /\ pc' = "wait" /\ cmd' = cmd /\ told' = told
      /\ store' = KV!Apply(store, cmd.op, cmd.key, cmd.val)
  BY <1>1, <1>b DEF Serve, clientVars
<1>3. Result = None /\ Result' = KV!Reply(store, cmd.op, cmd.key)
  <2>1. \A a \in executed' : a.n = n <=> a = b
    BY <1>1, <1>2
  <2>2. (CHOOSE a \in executed' : a.n = n) = b
    BY <1>2, <2>1
  <2> QED BY <1>1, <1>2, <1>b, <2>2 DEF Result
<1>4. cmd # None
  BY DEF SessionInv, WaitInv
<1> QED BY <1>2, <1>3, <1>4, SameTable DEF Service!Serve, Result

\* The datagram the client reads is the answer that execution gave.
LEMMA ReturnStep ==
    ASSUME SessionInv, QuietInv, ~ timedOut, NEW a \in answers, Receive(a)
    PROVE  Service!Return("user")
<1>1. /\ pc = "wait" /\ a.n = n /\ a \in executed /\ a.text \in KV!Replies
      /\ \A x \in executed : x.n = n => x = a
  BY OneCopy DEF Receive, SessionInv, TypeOK, Answers
<1>2. Result = a.text /\ Result # None
  <2>1. (CHOOSE x \in executed : x.n = n) = a
    BY <1>1
  <2> QED BY <1>1, <2>1, SessionAssumption DEF Result
<1>3. pc' = "send" /\ told' = a.text /\ store' = store
  BY DEF Receive, serverVars
<1> QED BY <1>1, <1>2, <1>3 DEF Service!Return, Result

LEMMA ServiceNext ==
    ASSUME SessionInv, QuietInv, [Next]_vars
    PROVE  ServiceStep
<1> SUFFICES ASSUME ~ timedOut' PROVE ServiceStep
  BY DEF ServiceStep
<1>0. ~ timedOut
  BY DEF Next, Waiting, SendInit, SendTyped, Quit, Receive, Resend, GiveUp, NothingHeard,
         Serve, vars
<1>1. ASSUME Service!Call("user") \/ Service!Serve("user") \/ Service!Return("user")
      PROVE  ServiceStep
  BY <1>1 DEF ServiceStep, Service!Next
<1>2. CASE SendInit
  <2>1. InitPuts[n + 1] \in {InitPuts[i] : i \in 1 .. Len(InitPuts)}
    BY <1>2, SessionAssumption DEF SendInit, InInit, SessionInv, TypeOK
  <2> QED BY <1>1, <1>2, <2>1, CallStep DEF SendInit, serverVars
<1>3. ASSUME NEW c \in Typed, SendTyped(c) PROVE ServiceStep
  BY <1>1, <1>3, CallStep DEF SendTyped, serverVars
<1>4. ASSUME NEW c \in Typed, Quit(c) PROVE ServiceStep
  BY <1>4 DEF Quit, serverVars, ServiceStep, Service!vars
<1>5. ASSUME NEW a \in answers, Receive(a) PROVE ServiceStep
  BY <1>0, <1>1, <1>5, ReturnStep
<1>6. CASE Resend \/ GiveUp
  BY <1>6 DEF Resend, GiveUp, NothingHeard
<1>7. ASSUME NEW m \in requests, Serve(m) PROVE ServiceStep
  <2>1. CASE pc = "wait"
    BY <1>0, <1>1, <1>7, <2>1, ServeStep
  <2>2. CASE pc # "wait"
    <3>1. m.cmd.op = "Q"
      BY <1>0, <2>2 DEF SessionInv, TypeOK, UnreadInv, Unread, QuietInv
    <3>2. store' = store
      BY <1>7, <3>1 DEF Serve, KV!Apply
    <3> QED BY <1>7, <2>2, <3>2 DEF Serve, clientVars, ServiceStep, Service!vars
  <2> QED BY <2>1, <2>2
<1>8. CASE UNCHANGED vars
  BY <1>8 DEF vars, clientVars, serverVars, ServiceStep, Service!vars
<1> QED BY <1>2, <1>3, <1>4, <1>5, <1>6, <1>7, <1>8 DEF Next, Waiting

\* Until the first timeout of a select() the client and the server of project_1
\* are the service: every command is executed once, after the one before was
\* answered, and the answer printed is the one its execution gave.
THEOREM IsServiceUntilTimeout == Spec => ServesUntilTimeout
<1>1. SessionInv /\ QuietInv /\ [Next]_vars => SessionInv' /\ QuietInv' /\ ServiceStep
  BY NextInv, QuietNext, ServiceNext
<1> QED BY <1>1, InitInv, QuietInit, ServiceInit, PTL DEF Spec, ServesUntilTimeout, ServiceStep
=============================================================================
