-------------------------- MODULE TcpSessionProofs --------------------------
(***************************************************************************)
(* Proofs about TcpSession for every list of initial PUTs and of their     *)
(* lengths, every user, every limit of sends, every merging of sends by    *)
(* recv() and every end of either program.                                 *)
(***************************************************************************)
EXTENDS TcpSession, FiniteSetTheorems, WellFoundedInduction, TLAPS

\* The command the client waits for; when the server can have ended.
EndInv ==
    /\ n = 0 => pc # "wait" /\ toServer = <<>>
    /\ pc = "wait" => cmd # None /\ cmd.op # "Q" /\ (InInit(n) => cmd = InitPuts[n])
                     /\ cmd.op \in typed
    /\ endedAt <= n
    /\ srv = "serving" => endedAt = 0 /\ clientEnd = "ok"
    /\ srv # "serving" /\ ~ Gone => 0 < endedAt
    /\ \A i \in 1 .. Len(toServer) : toServer[i].cmd.op \in typed

\* The server was told to end.
AskedInv ==
    srv # "serving" /\ ~ timedOut /\ ~ Gone => typed \cap {"ERROR", "q"} # {}

\* A text without a colon was sent.
Bare == typed \cap {"q", "Q", "BAD"} # {}

\* The client can be told something, and no select() of init() timed out.
Hears == watched /\ ~ deaf /\ ~ Gone

\* Then one command is under way, or its answer, until the server ends.
OneUnderWay ==
    /\ Len(toServer) + Len(toClient) <= 1
    /\ srv = "serving" /\ pc = "wait" => Len(toServer) + Len(toClient) = 1
    /\ pc = "send" \/ srv # "serving" => toServer = <<>>
    /\ pc = "send" => toClient = <<>>
    /\ \A i \in 1 .. Len(toServer) :
          toServer[i].n = n /\ toServer[i].cmd = cmd /\ ~ toServer[i].cut
    /\ \A i \in 1 .. Len(toClient) : toClient[i].n = n
    /\ clientEnd # "ok" => 0 < endedAt /\ endedAt < n

HearInv ==
    /\ InInit(n) => watched = ~ deaf
    /\ ~ timedOut => watched /\ ~ deaf
    /\ Hears => OneUnderWay

\* What a send is: Q closes the connection, and init() cuts a PUT longer than
\* the second and takes the NUL of a shorter one along.
SendOK(x) ==
    /\ x.cmd.op = "Q" => Gone
    /\ x.cut => InInit(x.n) /\ Length[x.n] > Length[2]
    /\ InInit(x.n) => x.cmd = InitPuts[x.n]

SentInv == \A i \in 1 .. Len(toServer) : SendOK(toServer[i])

\* A key that PUT refuses.
Taken(c) == ~ KV!PutOK(store, c.key)

\* In front of a cut PUT there is nothing but sends of the same PUT.  The first
\* of them was whole: when it is gone the key is taken.
CutInv ==
    srv = "serving" /\ ~ Bare =>
        /\ \A i, j \in 1 .. Len(toServer) :
              i < j /\ toServer[j].cut => toServer[i].n = toServer[j].n
        /\ toServer # <<>> /\ toServer[1].cut => Taken(toServer[1].cmd)

\* While init() may send again, which it does for one PUT only.
AgainInv ==
    srv = "serving" /\ ~ Gone /\ ~ Bare /\ InInit(n) /\ sendCount < SendLimit =>
        /\ \A i \in 1 .. Len(toServer) : toServer[i].n = n
        /\ pc = "send" => toServer = <<>>
        /\ pc = "wait" /\ toServer = <<>> => Taken(cmd)

SessionInv ==
    /\ TypeOK /\ EndInv /\ HearInv /\ SentInv /\ CutInv /\ AgainInv
    /\ AskedInv /\ OutOfStepOnlyAfterInit /\ NoMangledValue
-----------------------------------------------------------------------------
(* Sequences: what is left of one when its first elements were read. *)

LEMMA AppendFacts ==
    ASSUME NEW T, NEW s \in Seq(T), NEW e \in T
    PROVE  /\ Append(s, e) \in Seq(T) /\ Len(Append(s, e)) = Len(s) + 1
           /\ \A i \in 1 .. Len(s) : Append(s, e)[i] = s[i]
           /\ Append(s, e)[Len(s) + 1] = e
           /\ Append(s, e) # <<>>
OBVIOUS

LEMMA SuffixFacts ==
    ASSUME NEW T, NEW s \in Seq(T), NEW k \in 1 .. Len(s), NEW r, r = SubSeq(s, k + 1, Len(s))
    PROVE  /\ r \in Seq(T) /\ Len(r) = Len(s) - k
           /\ \A i \in 1 .. Len(r) : r[i] = s[i + k]
OBVIOUS

LEMMA PrefixFacts ==
    ASSUME NEW T, NEW s \in Seq(T), NEW k \in 0 .. Len(s), NEW r, r = SubSeq(s, 1, k)
    PROVE  /\ r \in Seq(T) /\ Len(r) = k
           /\ \A i \in 1 .. Len(r) : r[i] = s[i]
OBVIOUS

LEMMA LeastNumber ==
    ASSUME NEW S \in SUBSET Nat, S # {}
    PROVE  Min(S) \in S /\ \A y \in S : Min(S) <= y
<1> DEFINE Below == OpToRel(<, Nat)
<1>1. \E x \in S : \A y \in S : <<y, x>> \notin Below
  BY NatLessThanWellFounded, WFMin
<1>2. \A x, y \in Nat : y < x => <<y, x>> \in Below
  <2> SUFFICES ASSUME NEW x \in Nat, NEW y \in Nat, y < x
               PROVE  <<y, x>> \in {p \in Nat \X Nat : p[1] < p[2]}
    BY DEF OpToRel
  <2> QED OBVIOUS
<1> HIDE DEF Below
<1>3. PICK x \in S : \A y \in S : <<y, x>> \notin Below
  BY <1>1
<1>4. ASSUME NEW y \in S PROVE x <= y
  <2>1. ~ (y < x)
    BY <1>2, <1>3
  <2> QED BY <2>1
<1> QED BY <1>4 DEF Min

LEMMA NumbersUpTo ==
    ASSUME NEW j \in Nat
    PROVE  IsFiniteSet(1 .. j)
<1>1. 1 \in Int /\ j \in Int
  OBVIOUS
<1> QED BY <1>1, FS_Interval

\* A string has an element, and ends at a NUL if it ends early.
LEMMA StringEndFacts ==
    ASSUME NEW s, NEW k \in Nat \ {0}
    PROVE  /\ StringEnd(s, k) \in 1 .. k
           /\ StringEnd(s, k) < k => s[StringEnd(s, k)].nul
<1> DEFINE nuls == {i \in 1 .. k : s[i].nul}
<1>1. nuls \in SUBSET Nat
  OBVIOUS
<1>2. CASE nuls = {}
  BY <1>2 DEF StringEnd
<1>3. CASE nuls # {}
  <2>1. Min(nuls) \in nuls
    BY <1>1, <1>3, LeastNumber
  <2>2. StringEnd(s, k) = Min(nuls)
    BY <1>3 DEF StringEnd
  <2> QED BY <2>1, <2>2
<1> QED BY <1>2, <1>3
-----------------------------------------------------------------------------
(* What the server makes of a string. *)

LEMMA ParseType ==
    ASSUME TypeOK, NEW k \in 1 .. Len(toServer)
    PROVE  Parse(k) \in [op : Op, key : Int, val : Value \cup {Mangled}]
<1>1. toServer[1] \in Sends
  BY DEF TypeOK
<1> QED BY <1>1 DEF Parse, Sends, Commands, Op

\* Positions of colons: those of a PUT, and one more in what follows it.
LEMMA ColonPositions ==
    /\ IsFiniteSet({<<1, 1>>, <<1, 2>>}) /\ Cardinality({<<1, 1>>, <<1, 2>>}) = 2
    /\ Cardinality({<<1, 1>>, <<1, 2>>, <<2, 1>>}) = 3
<1>p. PICK a, b, c : a = <<1, 1>> /\ b = <<1, 2>> /\ c = <<2, 1>>
  OBVIOUS
<1>0. a # b /\ a # c /\ b # c
  BY <1>p
<1>1. IsFiniteSet({a}) /\ Cardinality({a}) = 1
  BY FS_Singleton
<1>2. {a, b} = {a} \cup {b} /\ b \notin {a}
  BY <1>0
<1>3. IsFiniteSet({a, b}) /\ Cardinality({a, b}) = 2
  BY <1>1, <1>2, FS_AddElement
<1>4. {a, b, c} = {a, b} \cup {c} /\ c \notin {a, b}
  BY <1>0
<1>5. Cardinality({a, b, c}) = 3
  BY <1>3, <1>4, FS_AddElement
<1> QED BY <1>p, <1>3, <1>5

\* A string of one send is the command that was sent.
LEMMA ParseOne ==
    ASSUME TypeOK, NEW k \in 1 .. Len(toServer), StringEnd(toServer, k) = 1
    PROVE  /\ Parse(k).op = toServer[1].cmd.op
           /\ Parse(k).key = toServer[1].cmd.key
           /\ Parse(k).val = IF toServer[1].cut THEN Mangled ELSE toServer[1].cmd.val
<1>1. toServer[1].cmd.op \in Op
  <2>1. toServer[1] \in Sends
    BY DEF TypeOK
  <2> QED BY <2>1 DEF Sends, Commands
<1>2. ASSUME toServer[1].cmd.op # "ERROR"
      PROVE  ~ TooMany(Cardinality(ColonsOf(toServer, 1)))
  <2>1. Colons(toServer[1].cmd) \in 0 .. 2
    BY <1>1, <1>2 DEF Colons, Op
  <2>2. ColonsOf(toServer, 1) \subseteq {<<1, 1>>, <<1, 2>>}
    BY <2>1 DEF ColonsOf
  <2>3. /\ Cardinality(ColonsOf(toServer, 1)) <= 2
        /\ Cardinality(ColonsOf(toServer, 1)) \in Nat
    BY <2>2, ColonPositions, FS_Subset, FS_CardinalityType
  <2> QED BY <2>3 DEF TooMany
<1> QED BY <1>1, <1>2 DEF Parse

\* A PUT that runs into a text with a colon has too many tokens.
LEMMA ParsePut ==
    ASSUME TypeOK, NEW k \in 1 .. Len(toServer), StringEnd(toServer, k) > 1,
           StringEnd(toServer, k) \in 1 .. k,
           toServer[1].cmd.op = "PUT", toServer[2].cmd.op \notin {"q", "Q", "BAD"}
    PROVE  Parse(k).op = "ERROR"
<1> DEFINE m == StringEnd(toServer, k)
           three == {<<1, 1>>, <<1, 2>>, <<2, 1>>}
<1>1. m \in Nat /\ m >= 2 /\ toServer[2].cmd.op \in Op
  <2>1. m \in Nat /\ m >= 2 /\ 2 \in 1 .. Len(toServer)
    BY DEF TypeOK
  <2>2. toServer[2] \in Sends
    BY <2>1 DEF TypeOK
  <2> QED BY <2>1, <2>2 DEF Sends, Commands
<1>2. Colons(toServer[1].cmd) = 2 /\ Colons(toServer[2].cmd) \in 1 .. 3
  BY <1>1 DEF Colons, Op
<1>3. three \subseteq ColonsOf(toServer, m)
  BY <1>1, <1>2 DEF ColonsOf
<1>4. IsFiniteSet(ColonsOf(toServer, m))
  <2> HIDE DEF m
  <2>1. IsFiniteSet(1 .. m) /\ IsFiniteSet(1 .. 3)
    BY <1>1, NumbersUpTo
  <2>2. IsFiniteSet((1 .. m) \X (1 .. 3))
    BY <2>1, FS_Product
  <2> QED BY <2>2, FS_Subset DEF ColonsOf
<1>5. Cardinality(three) = 3
  BY ColonPositions
<1>6. Cardinality(ColonsOf(toServer, m)) >= 3 /\ Cardinality(ColonsOf(toServer, m)) \in Nat
  BY <1>3, <1>4, <1>5, FS_Subset, FS_CardinalityType
<1> QED BY <1>6 DEF Parse, TooMany

\* The functions of keyval.c keep a table a table and give the answers there are.
LEMMA StoreType ==
    ASSUME NEW st \in KV!Stores, NEW c \in [op : Op, key : Int, val : Value \cup {Mangled}]
    PROVE  /\ KV!Apply(st, c.op, c.key, c.val) \in KV!Stores
           /\ KV!Reply(st, c.op, c.key) \in KV!Replies
<1>1. c.key \in Int /\ c.val \in Value \cup {Mangled}
  OBVIOUS
<1>2. KV!GET(st, c.key) \in KV!Replies
  BY <1>1, SessionAssumption
     DEF KV!GET, KV!Present, KV!InRange, KV!Stores, KV!Slot, KV!Replies
<1>3. KV!PUT(st, c.key, c.val) \in KV!Stores
  <2>1. CASE KV!PutOK(st, c.key)
    BY <1>1, <2>1 DEF KV!PUT, KV!Stores
  <2>2. CASE ~ KV!PutOK(st, c.key)
    BY <2>2 DEF KV!PUT
  <2> QED BY <2>1, <2>2
<1>4. KV!DELETE(st, c.key) \in KV!Stores
  BY <1>1 DEF KV!DELETE, KV!Stores
<1>5. KV!Reply(st, c.op, c.key) \in KV!Replies
  BY <1>2 DEF KV!Reply, KV!Replies
<1> QED BY <1>3, <1>4, <1>5 DEF KV!Apply

\* After a PUT its key is one that PUT refuses.
LEMMA PutTakes ==
    ASSUME NEW st \in KV!Stores, NEW k \in Int, NEW v
    PROVE  ~ KV!PutOK(KV!Apply(st, "PUT", k, v), k)
<1>1. CASE KV!PutOK(st, k)
  <2>1. k \in KV!Slot
    BY <1>1, SessionAssumption DEF KV!PutOK, KV!InRange, KV!Slot
  <2> QED BY <1>1, <2>1 DEF KV!Apply, KV!PUT, KV!PutOK, KV!Stores
<1>2. CASE ~ KV!PutOK(st, k)
  BY <1>2 DEF KV!Apply, KV!PUT
<1> QED BY <1>1, <1>2

\* Only a PUT of the mangled value, of a key that was free, stores it.
LEMMA PutMangles ==
    ASSUME NEW st \in KV!Stores, NEW op, NEW k \in Int, NEW v,
           \A x \in KV!Slot : st.dict[x] # Mangled,
           op = "PUT" /\ KV!PutOK(st, k) => v # Mangled
    PROVE  \A x \in KV!Slot : KV!Apply(st, op, k, v).dict[x] # Mangled
<1>1. KV!DELETE(st, k).dict = st.dict
  BY DEF KV!DELETE
<1>2. CASE op = "PUT" /\ KV!PutOK(st, k)
  BY <1>2 DEF KV!Apply, KV!PUT, KV!Stores
<1>3. CASE ~ (op = "PUT" /\ KV!PutOK(st, k))
  BY <1>1, <1>3 DEF KV!Apply, KV!PUT
<1> QED BY <1>2, <1>3
-----------------------------------------------------------------------------
(* The invariant holds at the start, and after every action. *)

LEMMA InitInv == Init => SessionInv
<1> SUFFICES ASSUME Init PROVE SessionInv
  OBVIOUS
<1> USE SessionAssumption DEF Init
<1>1. TypeOK
  <2>1. store \in KV!Stores
    BY DEF KV!EmptyStore, KV!Stores
  <2>2. /\ toServer \in Seq(Sends) /\ toClient \in Seq(Answers)
        /\ shown \in [Number -> SUBSET Number]
        /\ buff \in [of : SUBSET Number, text : Texts \cup {None}]
    OBVIOUS
  <2>3. n \in 0 .. MaxCommands /\ endedAt \in 0 .. MaxCommands /\ sendCount \in 1 .. SendLimit
    OBVIOUS
  <2> QED BY <2>1, <2>2, <2>3 DEF TypeOK
<1>2. EndInv /\ SentInv /\ CutInv /\ AgainInv
  <2>1. \A i \in 1 .. Len(toServer) : FALSE
    OBVIOUS
  <2>2. EndInv
    BY <2>1 DEF EndInv
  <2> QED BY <2>1, <2>2 DEF SentInv, CutInv, AgainInv
<1>h. HearInv
  <2>1. OneUnderWay
    BY DEF OneUnderWay
  <2> QED BY <2>1 DEF HearInv, Gone
<1>3. OutOfStepOnlyAfterInit /\ NoMangledValue /\ AskedInv
  BY DEF OutOfStepOnlyAfterInit, NoMangledValue, AskedInv, KV!EmptyStore
<1> QED BY <1>1, <1>2, <1>h, <1>3 DEF SessionInv

\* What the assumption on the constants says of the PUTs of init().
LEMMA InitPutFacts ==
    /\ Len(InitPuts) \in Nat /\ Len(InitPuts) > 1 /\ MaxCommands \in Nat /\ SendLimit \in Nat
    /\ \A i \in Nat : i # 0 /\ InInit(i) => InitPuts[i] \in Commands /\ InitPuts[i].op = "PUT"
BY SessionAssumption DEF InInit

\* A send puts one element behind those of toServer while the server serves,
\* and none after that.
LEMMA WriteFacts ==
    ASSUME TypeOK, EndInv, NEW m \in Sends, Write(m, "wait")
    PROVE  /\ srv = "serving" => toServer' = Append(toServer, m) /\ pc' = "wait" /\ clientEnd' = clientEnd
           /\ srv # "serving" => toServer' = toServer
           /\ pc' \in {"wait", "killed"} /\ clientEnd' \in {"ok", "reset", "broken"}
           /\ toServer' \in Seq(Sends)
<1>1. toServer \in Seq(Sends) /\ Append(toServer, m) \in Seq(Sends)
  BY DEF TypeOK
<1>2. clientEnd \in {"ok", "reset", "broken"}
  BY DEF TypeOK
<1>3. CASE srv = "serving"
  BY <1>1, <1>2, <1>3 DEF Write
<1>4. CASE srv # "serving"
  BY <1>1, <1>2, <1>4 DEF Write
<1> QED BY <1>3, <1>4

LEMMA SendInv ==
    ASSUME SessionInv, NEW c \in Commands, c.op # "Q", SendNext(c, "wait"), UNCHANGED serverVars,
           sendCount' \in 1 .. SendLimit, watched' \in BOOLEAN,
           InInit(n + 1) => c = InitPuts[n + 1] /\ UNCHANGED <<sendCount, watched>>,
           ~ InInit(n + 1) => watched' = (watched \/ n = Len(InitPuts))
    PROVE  SessionInv'
<1>p. PICK m : m = Whole(n + 1, c)
  OBVIOUS
<1>i. TypeOK /\ EndInv
  BY DEF SessionInv
<1>t. /\ n \in Nat /\ n' = n + 1 /\ n' \in Number /\ m \in Sends /\ endedAt \in Nat
      /\ Len(InitPuts) \in Nat
  BY <1>i, <1>p, InitPutFacts DEF TypeOK, SendNext, Number, Whole, Sends
<1>m. m.n = n + 1 /\ m.cmd = c /\ ~ m.cut
  BY <1>p DEF Whole
<1>w. /\ srv = "serving" => toServer' = Append(toServer, m) /\ pc' = "wait" /\ clientEnd' = clientEnd
      /\ srv # "serving" => toServer' = toServer
      /\ pc' \in {"wait", "killed"} /\ clientEnd' \in {"ok", "reset", "broken"}
      /\ toServer' \in Seq(Sends)
  BY <1>i, <1>p, <1>t, WriteFacts DEF SendNext
<1>u. /\ pc = "send" /\ cmd' = c /\ typed' = typed \cup {c.op}
      /\ UNCHANGED <<shown, buff, toClient, timedOut, deaf, srv, serverEnd, store, endedAt>>
  BY DEF SendNext, serverVars
<1>b. Bare => Bare'
  BY <1>u DEF Bare
<1>q. /\ toServer \in Seq(Sends)
      /\ srv = "serving" => /\ Len(toServer') = Len(toServer) + 1 /\ toServer' # <<>>
                            /\ \A i \in 1 .. Len(toServer) : toServer'[i] = toServer[i]
                            /\ toServer'[Len(toServer) + 1] = m
  BY <1>i, <1>t, <1>w, AppendFacts DEF TypeOK
<1>1. TypeOK'
  <2>1. typed' \subseteq Op
    BY <1>i, <1>u DEF TypeOK, Commands
  <2> QED BY <2>1, <1>i, <1>t, <1>w, <1>u DEF TypeOK, Number
<1>2. EndInv'
  <2>1. \A i \in 1 .. Len(toServer') : toServer'[i].cmd.op \in typed'
    <3>1. \A i \in 1 .. Len(toServer) : toServer[i].cmd.op \in typed'
      BY <1>i, <1>u DEF EndInv
    <3>2. m.cmd.op \in typed'
      BY <1>m, <1>u
    <3> QED BY <3>1, <3>2, <1>w, <1>q
  <2>2. n' # 0 /\ endedAt' <= n' /\ (InInit(n)' => cmd' = InitPuts[n'])
    BY <1>i, <1>t, <1>u DEF EndInv, InInit
  <2>3. pc' = "wait" => cmd' # None /\ cmd'.op # "Q" /\ cmd'.op \in typed'
    BY <1>u, SessionAssumption
  <2> QED BY <2>1, <2>2, <2>3, <1>i, <1>w, <1>u DEF EndInv, Gone
<1>3. ASSUME Hears' PROVE Hears /\ OneUnderWay
  <2>0. watched' /\ ~ deaf
    BY <1>3, <1>u DEF Hears
  <2>1. watched /\ ~ deaf
    <3>1. CASE InInit(n + 1)
      BY <2>0, <3>1
    <3>2. CASE ~ InInit(n + 1)
      <4>1. watched \/ InInit(n)
        <5>1. watched \/ n = Len(InitPuts)
          BY <2>0, <3>2, Zenon
        <5> QED BY <5>1, <1>t DEF InInit
      <4>2. InInit(n) => watched = ~ deaf
        BY DEF SessionInv, HearInv
      <4> QED BY <2>0, <4>1, <4>2, Zenon
    <3> QED BY <3>1, <3>2
  <2> QED BY <2>1, <1>u DEF SessionInv, HearInv, Hears, Gone
<1>4. HearInv'
  <2>1. (InInit(n) => watched = ~ deaf)' /\ (~ timedOut => watched /\ ~ deaf)'
    BY <1>t, <1>u DEF SessionInv, HearInv, InInit
  <2>2. Hears' => OneUnderWay'
    <3> SUFFICES ASSUME Hears' PROVE OneUnderWay'
      OBVIOUS
    <3>1. toServer = <<>> /\ toClient = <<>>
      BY <1>3, <1>u DEF OneUnderWay
    <3>2. clientEnd' # "ok" => 0 < endedAt' /\ endedAt' < n'
      BY <1>i, <1>t, <1>w, <1>u DEF EndInv, Gone
    <3>3. CASE srv = "serving"
      <4>1. Len(toServer') = 1 /\ toServer'[1] = m /\ pc' = "wait" /\ toClient' = <<>>
        BY <3>1, <3>3, <1>w, <1>u, <1>q
      <4>2. toServer'[1].n = n' /\ toServer'[1].cmd = cmd' /\ ~ toServer'[1].cut
        BY <4>1, <1>t, <1>m, <1>u
      <4> QED BY <3>2, <3>3, <4>1, <4>2, <1>u DEF OneUnderWay
    <3>4. CASE srv # "serving"
      BY <3>1, <3>2, <3>4, <1>w, <1>u DEF OneUnderWay
    <3> QED BY <3>3, <3>4
  <2> QED BY <2>1, <2>2 DEF HearInv
<1>5. SentInv'
  <2>1. ~ Gone /\ SendOK(m)'
    BY <1>t, <1>m, <1>u DEF Gone, SendOK, InInit
  <2>2. \A i \in 1 .. Len(toServer) : SendOK(toServer[i]) /\ toServer[i].cmd.op # "Q"
    BY <2>1 DEF SessionInv, SentInv, SendOK
  <2>3. \A x : SendOK(x) /\ x.cmd.op # "Q" => SendOK(x)'
    BY DEF SendOK, InInit
  <2> QED BY <2>1, <2>2, <2>3, <1>w, <1>q DEF SentInv
<1>6. CutInv'
  BY <1>b, <1>m, <1>w, <1>u, <1>q DEF SessionInv, CutInv, Taken
<1>7. AgainInv'
  <2> SUFFICES ASSUME srv = "serving", ~ Bare, InInit(n + 1), sendCount < SendLimit PROVE AgainInv'
    BY <1>b, <1>t, <1>u DEF AgainInv, InInit
  <2>1. toServer = <<>>
    BY <1>t, <1>u DEF SessionInv, AgainInv, InInit, Gone
  <2>2. Len(toServer') = 1 /\ toServer'[1] = m /\ toServer' # <<>>
    BY <2>1, <1>q
  <2>3. pc' = "wait"
    BY <1>w
  <2> QED BY <2>2, <2>3, <1>t, <1>m DEF AgainInv
<1>8. OutOfStepOnlyAfterInit' /\ NoMangledValue' /\ AskedInv'
  BY <1>u DEF SessionInv, OutOfStepOnlyAfterInit, NoMangledValue, AskedInv, Gone
<1> QED BY <1>1, <1>2, <1>4, <1>5, <1>6, <1>7, <1>8 DEF SessionInv

LEMMA QuitInv ==
    ASSUME SessionInv, NEW c \in Commands, Quit(c)
    PROVE  SessionInv'
<1>p. PICK m : m = Whole(n + 1, c)
  OBVIOUS
<1>r. PICK sent : sent = Append(toServer, m)
  OBVIOUS
<1>i. TypeOK /\ EndInv
  BY DEF SessionInv
<1>t. /\ n \in Nat /\ n' = n + 1 /\ n' \in Number /\ m \in Sends /\ endedAt \in Nat
      /\ toServer \in Seq(Sends) /\ Len(InitPuts) \in Nat
  BY <1>i, <1>p, InitPutFacts DEF TypeOK, Quit, Number, Whole, Sends
<1>u. /\ pc = "send" /\ pc' = "closed" /\ cmd' = c /\ typed' = typed \cup {"Q"} /\ ~ InInit(n + 1) /\ c.op = "Q"
      /\ UNCHANGED <<sendCount, watched, shown, buff, clientEnd, toClient, srv, store,
                     timedOut, deaf, endedAt>>
      /\ serverEnd' \in {serverEnd, "reset"}
  BY DEF Quit, Close
<1>b. Bare'
  BY <1>u DEF Bare
<1>m. m.n = n + 1 /\ m.cmd = c /\ ~ m.cut
  BY <1>p DEF Whole
<1>s. sent \in Seq(Sends) /\ Len(sent) = Len(toServer) + 1
      /\ \A i \in 1 .. Len(sent) : sent[i] = IF i = Len(sent) THEN m ELSE toServer[i]
  BY <1>r, <1>t
<1>q. /\ toServer' \in Seq(Sends) /\ Len(toServer') <= Len(sent)
      /\ \A i \in 1 .. Len(toServer') : toServer'[i] = sent[i]
  <2>1. toServer' = sent \/ \E k \in 0 .. Len(sent) : toServer' = SubSeq(sent, 1, k)
    BY <1>p, <1>r DEF Quit, Close
  <2>2. ASSUME NEW k \in 0 .. Len(sent), toServer' = SubSeq(sent, 1, k) PROVE <1>q
    BY <2>2, <1>s, PrefixFacts
  <2> QED BY <2>1, <2>2, <1>s
<1>e. \A i \in 1 .. Len(toServer') :
         toServer'[i] = m \/ \E j \in 1 .. Len(toServer) : toServer'[i] = toServer[j]
  BY <1>t, <1>s, <1>q
<1>1. TypeOK'
  BY <1>i, <1>t, <1>u, <1>q DEF TypeOK, Number, Op
<1>2. EndInv'
  <2>1. \A i \in 1 .. Len(toServer') : toServer'[i].cmd.op \in typed'
    BY <1>e, <1>m, <1>i, <1>u DEF EndInv
  <2> QED BY <2>1, <1>i, <1>t, <1>u DEF EndInv, Gone
<1>3. HearInv'
  BY <1>t, <1>u DEF SessionInv, HearInv, Hears, Gone, InInit
<1>4. SentInv'
  <2>1. SendOK(m)'
    BY <1>t, <1>m, <1>u DEF Gone, SendOK, InInit
  <2>2. \A x : SendOK(x) => SendOK(x)'
    BY <1>u DEF SendOK, InInit, Gone
  <2> QED BY <2>1, <2>2, <1>e DEF SessionInv, SentInv
<1>5. CutInv' /\ AgainInv' /\ NoMangledValue'
  BY <1>b DEF CutInv, AgainInv, NoMangledValue, Bare
<1>6. OutOfStepOnlyAfterInit' /\ AskedInv'
  BY <1>u DEF SessionInv, OutOfStepOnlyAfterInit, AskedInv, Gone
<1> QED BY <1>1, <1>2, <1>3, <1>4, <1>5, <1>6 DEF SessionInv

\* The client dies: what the server has not received may be lost.
LEMMA DiesInv ==
    ASSUME SessionInv, ClientDies
    PROVE  SessionInv'
<1>i. TypeOK /\ EndInv
  BY DEF SessionInv
<1>u. /\ ~ Gone /\ Gone' /\ pc' = "killed"
      /\ UNCHANGED <<n, cmd, typed, sendCount, watched, shown, buff, clientEnd, toClient, srv, store,
                     timedOut, deaf, endedAt>>
      /\ serverEnd' \in {serverEnd, "reset"}
  BY DEF ClientDies, Close, Gone
<1>t. toServer \in Seq(Sends)
  BY <1>i DEF TypeOK
<1>q. /\ toServer' \in Seq(Sends) /\ Len(toServer') <= Len(toServer)
      /\ \A i \in 1 .. Len(toServer') : toServer'[i] = toServer[i]
  <2>1. toServer' = toServer \/ \E k \in 0 .. Len(toServer) : toServer' = SubSeq(toServer, 1, k)
    BY DEF ClientDies, Close
  <2>2. ASSUME NEW k \in 0 .. Len(toServer), toServer' = SubSeq(toServer, 1, k) PROVE <1>q
    BY <2>2, <1>t, PrefixFacts
  <2> QED BY <2>1, <2>2, <1>t
<1>e. /\ \A i \in 1 .. Len(toServer') : i \in 1 .. Len(toServer)
      /\ toServer = <<>> => toServer' = <<>>
      /\ toServer' # <<>> => 1 \in 1 .. Len(toServer')
  BY <1>q, <1>t
<1>1. TypeOK'
  BY <1>i, <1>u, <1>q DEF TypeOK
<1>2. EndInv'
  BY <1>i, <1>u, <1>q, <1>e DEF EndInv
<1>3. HearInv'
  BY <1>u DEF SessionInv, HearInv, Hears, InInit
<1>4. SentInv'
  BY <1>u, <1>q, <1>e DEF SessionInv, SentInv, SendOK, InInit
<1>5. CutInv'
  <2> SUFFICES ASSUME srv = "serving", ~ Bare PROVE CutInv'
    BY <1>u DEF CutInv, Bare
  <2>1. toServer' # <<>> => toServer # <<>> /\ toServer'[1] = toServer[1]
    BY <1>e, <1>q
  <2> QED BY <2>1, <1>u, <1>q, <1>e DEF SessionInv, CutInv, Taken
<1>6. AgainInv' /\ AskedInv'
  BY <1>u DEF AgainInv, AskedInv
<1>7. OutOfStepOnlyAfterInit' /\ NoMangledValue'
  BY <1>u DEF SessionInv, OutOfStepOnlyAfterInit, NoMangledValue
<1> QED BY <1>1, <1>2, <1>3, <1>4, <1>5, <1>6, <1>7 DEF SessionInv

\* What printing leaves alone.
LEMMA PrintedInv ==
    ASSUME SessionInv, pc = "wait", watched, NEW b \in [of : SUBSET Number, text : Texts \cup {None}],
           Printed(b), clientEnd' \in {"ok", "reset", "broken"}, toClient' \in Seq(Answers),
           srv = "serving" => clientEnd' = clientEnd,
           Hears => /\ toServer = <<>> /\ toClient' = <<>>
                    /\ clientEnd' # "ok" => 0 < endedAt /\ endedAt < n
                    /\ b.of \subseteq {n} \/ (0 < endedAt /\ endedAt < n)
    PROVE  SessionInv'
<1>i. TypeOK /\ EndInv /\ n \in Number
  <2>1. TypeOK /\ EndInv
    BY DEF SessionInv
  <2> QED BY <2>1, SessionAssumption DEF TypeOK, EndInv, Number
<1>u. /\ pc' = "send" /\ buff' = b /\ shown' = [shown EXCEPT ![n] = b.of] /\ ~ Gone /\ ~ Gone'
      /\ UNCHANGED <<n, cmd, sendCount, watched, toServer, timedOut, deaf, typed,
                     srv, serverEnd, store, endedAt>>
  BY DEF Printed, serverVars, Gone
<1>1. TypeOK'
  <2>1. shown' \in [Number -> SUBSET Number]
    BY <1>i, <1>u DEF TypeOK
  <2> QED BY <2>1, <1>i, <1>u DEF TypeOK
<1>2. EndInv'
  BY <1>i, <1>u, SessionAssumption DEF EndInv, Number, InInit
<1>3. HearInv'
  <2>1. Hears' => Hears
    BY <1>u DEF Hears
  <2>2. Hears => OneUnderWay'
    BY <1>i, <1>u DEF SessionInv, HearInv, OneUnderWay, EndInv
  <2> QED BY <2>1, <2>2, <1>u DEF SessionInv, HearInv, InInit
<1>4. SentInv'
  BY <1>u DEF SessionInv, SentInv, SendOK, InInit
<1>5. CutInv' /\ NoMangledValue'
  BY <1>u DEF SessionInv, CutInv, Taken, NoMangledValue, Bare
<1>6. AgainInv'
  <2>1. InInit(n) => Hears
    BY <1>u DEF SessionInv, HearInv, Hears
  <2> QED BY <2>1, <1>u DEF AgainInv, InInit
<1>7. OutOfStepOnlyAfterInit'
  <2> SUFFICES ASSUME NEW i \in Number, ~ deaf
               PROVE  shown'[i] \subseteq {i} \/ (0 < endedAt /\ endedAt < i)
    BY <1>u DEF OutOfStepOnlyAfterInit
  <2>1. CASE i # n
    BY <2>1, <1>i, <1>u DEF SessionInv, OutOfStepOnlyAfterInit, TypeOK
  <2>2. CASE i = n
    <3>1. shown'[n] = b.of
      BY <1>i, <1>u DEF TypeOK
    <3>2. Hears
      BY <1>u DEF Hears
    <3> QED BY <2>2, <3>1, <3>2
  <2> QED BY <2>1, <2>2
<1>8. AskedInv'
  BY <1>u DEF SessionInv, AskedInv
<1> QED BY <1>1, <1>2, <1>3, <1>4, <1>5, <1>6, <1>7, <1>8 DEF SessionInv

LEMMA ReceiveInv ==
    ASSUME SessionInv, NEW k \in 1 .. Len(toClient), Receive(k)
    PROVE  SessionInv'
<1>m. PICK m : m = StringEnd(toClient, k)
  OBVIOUS
<1>b. PICK b : b = [of |-> {toClient[i].n : i \in 1 .. m},
                    text |-> IF m = 1 THEN toClient[1].text ELSE "several"]
  OBVIOUS
<1>u. /\ pc = "wait" /\ watched /\ Printed(b)
      /\ toClient' = SubSeq(toClient, k + 1, Len(toClient)) /\ clientEnd' = clientEnd
  BY <1>m, <1>b DEF Receive
<1>t. toClient \in Seq(Answers) /\ clientEnd \in {"ok", "reset", "broken"}
  BY DEF SessionInv, TypeOK
<1>1. m \in 1 .. k
  BY <1>m, <1>t, StringEndFacts
<1>2. b \in [of : SUBSET Number, text : Texts \cup {None}]
  <2>1. \A i \in 1 .. Len(toClient) : toClient[i] \in Answers
    BY <1>t
  <2>2. \A i \in 1 .. m : toClient[i].n \in Number /\ toClient[i].text \in KV!Replies
    BY <2>1, <1>1, <1>t DEF Answers
  <2>3. b.of \subseteq Number
    BY <2>2, <1>b
  <2>4. b.text \in Texts
    <3>1. toClient[1].text \in KV!Replies
      BY <2>2, <1>1
    <3> QED BY <3>1, <1>b DEF Texts
  <2> QED BY <2>3, <2>4, <1>b
<1>3. toClient' \in Seq(Answers) /\ Len(toClient') = Len(toClient) - k
  BY <1>t, <1>u, SuffixFacts
<1>4. ASSUME Hears
      PROVE  /\ toServer = <<>> /\ toClient' = <<>>
             /\ clientEnd # "ok" => 0 < endedAt /\ endedAt < n
             /\ b.of = {n}
  <2>1. OneUnderWay /\ toServer \in Seq(Sends)
    BY <1>4 DEF SessionInv, HearInv, TypeOK
  <2>2. Len(toClient) = 1 /\ k = 1 /\ Len(toServer) = 0
    <3>1. Len(toServer) \in Nat /\ Len(toClient) \in Nat
      BY <2>1, <1>t
    <3>2. Len(toServer) + Len(toClient) <= 1
      BY <2>1 DEF OneUnderWay
    <3>3. PICK x \in Nat, y \in Nat : x = Len(toServer) /\ y = Len(toClient)
      BY <3>1
    <3>4. x + y <= 1 /\ k \in 1 .. y
      BY <3>2, <3>3
    <3>5. y = 1 /\ k = 1 /\ x = 0
      BY <3>4
    <3> QED BY <3>3, <3>5
  <2>3. m = 1 /\ toClient[1].n = n
    BY <2>1, <2>2, <1>1 DEF OneUnderWay
  <2>4. b.of = {n}
    BY <2>3, <1>b
  <2> QED BY <2>1, <2>2, <2>4, <1>3 DEF OneUnderWay
<1> QED BY <1>u, <1>t, <1>2, <1>3, <1>4, PrintedInv

LEMMA ReceiveEndInv ==
    ASSUME SessionInv, ReceiveEnd
    PROVE  SessionInv'
<1>b. PICK b : b = IF clientEnd = "reset" THEN buff ELSE [of |-> {}, text |-> ""]
  OBVIOUS
<1>u. /\ pc = "wait" /\ watched /\ toClient = <<>> /\ srv # "serving" /\ Printed(b)
      /\ toClient' = toClient
      /\ clientEnd' = IF clientEnd = "reset" THEN "broken" ELSE clientEnd
  BY <1>b DEF ReceiveEnd
<1>t. /\ toClient \in Seq(Answers) /\ clientEnd \in {"ok", "reset", "broken"}
      /\ buff \in [of : SUBSET Number, text : Texts \cup {None}]
  BY DEF SessionInv, TypeOK
<1>1. b \in [of : SUBSET Number, text : Texts \cup {None}]
  BY <1>b, <1>t DEF Texts
<1>2. clientEnd' \in {"ok", "reset", "broken"} /\ (clientEnd' # "ok" => clientEnd # "ok")
  BY <1>u, <1>t
<1>3. clientEnd = "ok" => b.of = {}
  BY <1>b
<1>4. Hears => /\ toServer = <<>>
               /\ clientEnd # "ok" => 0 < endedAt /\ endedAt < n
  BY <1>u DEF SessionInv, HearInv, OneUnderWay
<1> QED BY <1>u, <1>t, <1>1, <1>2, <1>3, <1>4, PrintedInv

LEMMA ResendInv ==
    ASSUME SessionInv, Resend
    PROVE  SessionInv'
<1>p. PICK m : m = [n |-> n, cmd |-> cmd, cut |-> InInit(n) /\ Length[n] > Length[2],
                    nul |-> InInit(n) /\ Length[n] < Length[2]]
  OBVIOUS
<1>i. TypeOK /\ EndInv
  BY DEF SessionInv
<1>u. /\ pc = "wait" /\ watched' = FALSE /\ timedOut' = TRUE /\ deaf' = (deaf \/ InInit(n))
      /\ sendCount < SendLimit /\ sendCount' = sendCount + 1
      /\ UNCHANGED <<n, cmd, shown, buff, toClient, srv, serverEnd, store, endedAt, typed>>
  BY DEF Resend, NothingHeard, serverVars
<1>t. /\ n \in Number /\ m \in Sends /\ cmd \in Commands /\ cmd.op # "Q"
      /\ sendCount \in 1 .. SendLimit /\ SendLimit \in Nat
  BY <1>i, <1>p, <1>u, SessionAssumption DEF TypeOK, EndInv, Number, Sends
<1>m. /\ m.n = n /\ m.cmd = cmd
      /\ m.cut => InInit(n) /\ Length[n] > Length[2]
  BY <1>p
<1>w. /\ srv = "serving" => toServer' = Append(toServer, m) /\ pc' = "wait" /\ clientEnd' = clientEnd
      /\ srv # "serving" => toServer' = toServer
      /\ pc' \in {"wait", "killed"} /\ clientEnd' \in {"ok", "reset", "broken"}
      /\ toServer' \in Seq(Sends)
  BY <1>i, <1>p, <1>t, WriteFacts DEF Resend
<1>q. /\ toServer \in Seq(Sends)
      /\ srv = "serving" => /\ Len(toServer') = Len(toServer) + 1 /\ toServer' # <<>>
                            /\ \A i \in 1 .. Len(toServer) : toServer'[i] = toServer[i]
                            /\ toServer'[Len(toServer) + 1] = m
  <2>1. toServer \in Seq(Sends)
    BY <1>i DEF TypeOK
  <2> QED BY <2>1, <1>t, <1>w, AppendFacts
<1>1. TypeOK'
  <2>1. deaf' \in BOOLEAN /\ sendCount' \in 1 .. SendLimit
    BY <1>i, <1>u, <1>t DEF TypeOK
  <2> QED BY <2>1, <1>i, <1>w, <1>u DEF TypeOK
<1>2. EndInv'
  <2>1. \A i \in 1 .. Len(toServer') : toServer'[i].cmd.op \in typed'
    <3>1. \A i \in 1 .. Len(toServer) : toServer[i].cmd.op \in typed'
      BY <1>i, <1>u DEF EndInv
    <3>2. m.cmd.op \in typed'
      BY <1>i, <1>m, <1>t, <1>u DEF EndInv
    <3> QED BY <3>1, <3>2, <1>w, <1>q
  <2> QED BY <2>1, <1>i, <1>t, <1>w, <1>u DEF EndInv, InInit, Number, Gone
<1>3. HearInv'
  <2>1. ~ Hears' /\ (InInit(n) => deaf')
    BY <1>u DEF Hears
  <2> QED BY <2>1, <1>u DEF HearInv, InInit
<1>4. SentInv'
  <2>1. ~ Gone /\ SendOK(m)'
    BY <1>i, <1>t, <1>m, <1>u DEF Gone, SendOK, InInit, EndInv
  <2>2. \A i \in 1 .. Len(toServer) : SendOK(toServer[i]) /\ toServer[i].cmd.op # "Q"
    BY <2>1 DEF SessionInv, SentInv, SendOK
  <2>3. \A x : SendOK(x) /\ x.cmd.op # "Q" => SendOK(x)'
    BY DEF SendOK, InInit
  <2> QED BY <2>1, <2>2, <2>3, <1>w, <1>q DEF SentInv
<1>5. CutInv' /\ AgainInv'
  <2> SUFFICES ASSUME srv = "serving", ~ Bare PROVE CutInv' /\ AgainInv'
    BY <1>u DEF CutInv, AgainInv, Bare
  <2>1. ~ Gone /\ pc' = "wait"
    BY <1>u, <1>w DEF Gone
  <2>2. InInit(n) => /\ \A i \in 1 .. Len(toServer) : toServer[i].n = n
                     /\ toServer = <<>> => Taken(cmd)
    BY <2>1, <1>u DEF SessionInv, AgainInv
  <2>3. InInit(n) => \A i \in 1 .. Len(toServer') : toServer'[i].n = n
    BY <2>2, <1>q, <1>m
  <2>4. AgainInv'
    BY <2>1, <2>3, <1>q, <1>u DEF AgainInv, InInit
  <2>5. ASSUME NEW i \in 1 .. Len(toServer'), NEW j \in 1 .. Len(toServer'), i < j, toServer'[j].cut
        PROVE  toServer'[i].n = toServer'[j].n
    <3>1. CASE toServer'[j] = m
      BY <2>3, <2>5, <3>1, <1>m
    <3>2. CASE toServer'[j] # m
      <4>1. i \in 1 .. Len(toServer) /\ j \in 1 .. Len(toServer)
        BY <2>5, <3>2, <1>q
      <4> QED BY <2>1, <2>5, <4>1, <1>q DEF SessionInv, CutInv
    <3> QED BY <3>1, <3>2
  <2>6. toServer'[1].cut => Taken(toServer[1].cmd)'
    <3>1. CASE toServer = <<>>
      <4>1. toServer'[1] = m
        BY <3>1, <1>q
      <4> QED BY <2>2, <3>1, <4>1, <1>m, <1>u DEF Taken
    <3>2. CASE toServer # <<>>
      <4>1. toServer'[1] = toServer[1]
        BY <3>2, <1>q
      <4> QED BY <2>1, <3>2, <4>1, <1>u DEF SessionInv, CutInv, Taken
    <3> QED BY <3>1, <3>2
  <2>7. CutInv'
    BY <2>5, <2>6 DEF CutInv
  <2> QED BY <2>4, <2>7
<1>6. OutOfStepOnlyAfterInit' /\ NoMangledValue' /\ AskedInv'
  BY <1>u DEF SessionInv, OutOfStepOnlyAfterInit, NoMangledValue, AskedInv
<1> QED BY <1>1, <1>2, <1>3, <1>4, <1>5, <1>6 DEF SessionInv

LEMMA GiveUpInv ==
    ASSUME SessionInv, GiveUp
    PROVE  SessionInv'
<1>i. TypeOK /\ EndInv
  BY DEF SessionInv
<1>u. /\ pc = "wait" /\ pc' = "send" /\ watched' = FALSE /\ timedOut' = TRUE
      /\ deaf' = (deaf \/ InInit(n)) /\ sendCount = SendLimit
      /\ UNCHANGED <<n, cmd, sendCount, shown, buff, clientEnd, toServer, toClient,
                     srv, serverEnd, store, endedAt, typed>>
  BY DEF GiveUp, NothingHeard, serverVars
<1>0. SendLimit \in Nat /\ ~ Gone /\ ~ Gone'
  BY <1>u, SessionAssumption DEF Gone
<1>1. TypeOK'
  <2>1. deaf' \in BOOLEAN
    BY <1>i, <1>u DEF TypeOK
  <2> QED BY <2>1, <1>i, <1>u DEF TypeOK
<1>2. EndInv'
  BY <1>0, <1>i, <1>u DEF EndInv
<1>3. HearInv'
  <2>1. ~ Hears' /\ (InInit(n) => deaf')
    BY <1>u DEF Hears
  <2> QED BY <2>1, <1>u DEF HearInv, InInit
<1>4. SentInv'
  BY <1>0, <1>u DEF SessionInv, SentInv, SendOK, InInit
<1>5. CutInv' /\ AgainInv' /\ NoMangledValue'
  BY <1>0, <1>u DEF SessionInv, CutInv, AgainInv, NoMangledValue, Taken, Bare
<1>6. OutOfStepOnlyAfterInit' /\ AskedInv'
  BY <1>u DEF SessionInv, OutOfStepOnlyAfterInit, AskedInv
<1> QED BY <1>1, <1>2, <1>3, <1>4, <1>5, <1>6 DEF SessionInv

\* A command that the server executes without ending is a PUT only if it is the
\* PUT that was sent first, alone in its string.
LEMMA PutIsAlone ==
    ASSUME SessionInv, ~ Bare, NEW k \in 1 .. Len(toServer), toServer[1].cmd.op = "PUT",
           Parse(k).op # "ERROR"
    PROVE  /\ StringEnd(toServer, k) = 1
           /\ Parse(k).op = "PUT" /\ Parse(k).key = toServer[1].cmd.key
           /\ Parse(k).val = IF toServer[1].cut THEN Mangled ELSE toServer[1].cmd.val
<1>t. TypeOK /\ toServer \in Seq(Sends) /\ k \in Nat \ {0} /\ k <= Len(toServer)
  BY DEF SessionInv, TypeOK
<1>1. StringEnd(toServer, k) \in 1 .. k
  BY <1>t, StringEndFacts
<1>2. ASSUME StringEnd(toServer, k) > 1 PROVE FALSE
  <2>1. 2 \in 1 .. Len(toServer)
    BY <1>t, <1>1, <1>2
  <2>2. toServer[2].cmd.op \notin {"q", "Q", "BAD"}
    BY <2>1 DEF SessionInv, EndInv, Bare
  <2> QED BY <1>t, <1>1, <1>2, <2>2, ParsePut
<1>3. StringEnd(toServer, k) = 1
  BY <1>1, <1>2
<1> QED BY <1>t, <1>3, ParseOne

LEMMA ServeFacts ==
    ASSUME TypeOK, NEW k \in 1 .. Len(toServer), Serve(k),
           NEW c, c = Parse(k)
    PROVE  /\ srv = "serving"
           /\ UNCHANGED <<pc, n, cmd, sendCount, watched, shown, buff, timedOut, deaf, typed>>
           /\ store' = KV!Apply(store, c.op, c.key, c.val) /\ store' \in KV!Stores
           /\ toServer' \in Seq(Sends) /\ Len(toServer') = Len(toServer) - k
           /\ \A i \in 1 .. Len(toServer') : toServer'[i] = toServer[i + k]
           /\ toClient' \in Seq(Answers)
           /\ ~ Gone => Len(toClient') = Len(toClient) + 1
           /\ ~ Gone /\ toClient = <<>> =>
                toClient'[1].n = toServer[1].n /\ toClient'[1].text = KV!Reply(store, c.op, c.key)
           /\ srv' \in {"serving", "ended", "killed"} /\ serverEnd' \in {"ok", "reset", "broken"}
           /\ srv' = "serving" => c.op \notin {"ERROR", "q", "Q"}
           /\ ~ Gone /\ srv' # "serving" => c.op \in {"ERROR", "q", "Q"}
           /\ endedAt' = IF srv' = "serving" THEN endedAt ELSE n
           /\ clientEnd' = IF srv' # "serving" /\ toServer' # <<>> THEN "reset" ELSE clientEnd
<1>a. PICK a : a = [n |-> toServer[1].n, text |-> KV!Reply(store, c.op, c.key), nul |-> c.op # "GET"]
  OBVIOUS
<1>u. /\ srv = "serving"
      /\ UNCHANGED <<pc, n, cmd, sendCount, watched, shown, buff, timedOut, deaf, typed>>
      /\ store' = KV!Apply(store, c.op, c.key, c.val)
      /\ endedAt' = IF srv' = "serving" THEN endedAt ELSE n
      /\ toServer' = SubSeq(toServer, k + 1, Len(toServer))
      /\ clientEnd' = IF srv' # "serving" /\ toServer' # <<>> THEN "reset" ELSE clientEnd
  BY DEF Serve, Execute, clientVars
<1>e. \/ Answer(a) /\ srv' = IF c.op \in {"ERROR", "q", "Q"} THEN "ended" ELSE "serving"
      \/ Gone /\ serverEnd # "ok" /\ srv' = "killed" /\ UNCHANGED <<serverEnd, toClient>>
  BY <1>a DEF Serve, Execute
<1>t. /\ toServer \in Seq(Sends) /\ toClient \in Seq(Answers) /\ store \in KV!Stores
      /\ serverEnd \in {"ok", "reset", "broken"}
  BY DEF TypeOK
<1>1. c \in [op : Op, key : Int, val : Value \cup {Mangled}]
  BY ParseType
<1>2. store' \in KV!Stores /\ KV!Reply(store, c.op, c.key) \in KV!Replies
  BY <1>t, <1>u, <1>1, StoreType
<1>3. a \in Answers /\ a.n = toServer[1].n /\ a.text = KV!Reply(store, c.op, c.key)
  <2>1. toServer[1] \in Sends
    BY <1>t
  <2> QED BY <2>1, <1>a, <1>2 DEF Answers, Sends
<1>4. /\ toServer' \in Seq(Sends) /\ Len(toServer') = Len(toServer) - k
      /\ \A i \in 1 .. Len(toServer') : toServer'[i] = toServer[i + k]
  BY <1>t, <1>u, SuffixFacts
<1>5. ASSUME Answer(a)
      PROVE  /\ toClient' \in Seq(Answers) /\ serverEnd' \in {"ok", "reset", "broken"}
             /\ ~ Gone => Len(toClient') = Len(toClient) + 1
             /\ ~ Gone /\ toClient = <<>> =>
                   toClient'[1].n = toServer[1].n
                   /\ toClient'[1].text = KV!Reply(store, c.op, c.key)
  <2>1. CASE ~ Gone
    <3>1. toClient' = Append(toClient, a) /\ serverEnd' = serverEnd
      BY <1>5, <2>1 DEF Answer
    <3> QED BY <2>1, <3>1, <1>t, <1>3
  <2>2. CASE Gone
    BY <1>5, <2>2, <1>t DEF Answer
  <2> QED BY <2>1, <2>2
<1>6. CASE Answer(a) /\ srv' = IF c.op \in {"ERROR", "q", "Q"} THEN "ended" ELSE "serving"
  BY <1>5, <1>6, <1>2, <1>4, <1>u
<1>7. CASE Gone /\ serverEnd # "ok" /\ srv' = "killed" /\ UNCHANGED <<serverEnd, toClient>>
  BY <1>7, <1>2, <1>4, <1>u, <1>t
<1> QED BY <1>6, <1>7, <1>e

\* A PUT of init() that the server has executed leaves a key that is taken.
LEMMA ServeTakes ==
    ASSUME SessionInv, ~ Bare, NEW k \in 1 .. Len(toServer), Serve(k), srv' = "serving",
           InInit(toServer[1].n)
    PROVE  ~ KV!PutOK(store', toServer[1].cmd.key)
<1>c. PICK c : c = toServer[1].cmd
  OBVIOUS
<1>t. TypeOK /\ toServer[1] \in Sends /\ store \in KV!Stores
  BY DEF SessionInv, TypeOK
<1>1. c = InitPuts[toServer[1].n] /\ c.op = "PUT" /\ c \in Commands
  <2>1. c = InitPuts[toServer[1].n]
    BY <1>c DEF SessionInv, SentInv, SendOK
  <2>2. toServer[1].n \in Nat /\ toServer[1].n # 0
    BY <1>t DEF Sends, Number
  <2> QED BY <2>1, <2>2, InitPutFacts
<1>2. store' = KV!Apply(store, "PUT", c.key, Parse(k).val)
  BY <1>c, <1>t, <1>1, ServeFacts, PutIsAlone
<1>3. ~ KV!PutOK(store', c.key)
  <2>1. c.key \in Int
    BY <1>1 DEF Commands
  <2> QED BY <2>1, <1>2, <1>t, PutTakes
<1> QED BY <1>c, <1>3

LEMMA ServeInv ==
    ASSUME SessionInv, NEW k \in 1 .. Len(toServer), Serve(k)
    PROVE  SessionInv'
<1>c. PICK c : c = Parse(k)
  OBVIOUS
<1>i. TypeOK /\ EndInv /\ HearInv
  BY DEF SessionInv
<1>u. /\ srv = "serving"
      /\ UNCHANGED <<pc, n, cmd, sendCount, watched, shown, buff, timedOut, deaf, typed>>
      /\ store' = KV!Apply(store, c.op, c.key, c.val) /\ store' \in KV!Stores
      /\ toServer' \in Seq(Sends) /\ Len(toServer') = Len(toServer) - k
      /\ \A i \in 1 .. Len(toServer') : toServer'[i] = toServer[i + k]
      /\ toClient' \in Seq(Answers)
      /\ ~ Gone => Len(toClient') = Len(toClient) + 1
      /\ ~ Gone /\ toClient = <<>> => toClient'[1].n = toServer[1].n
      /\ srv' \in {"serving", "ended", "killed"} /\ serverEnd' \in {"ok", "reset", "broken"}
      /\ srv' = "serving" => c.op \notin {"ERROR", "q", "Q"}
      /\ ~ Gone /\ srv' # "serving" => c.op \in {"ERROR", "q", "Q"}
      /\ endedAt' = IF srv' = "serving" THEN endedAt ELSE n
      /\ clientEnd' = IF srv' # "serving" /\ toServer' # <<>> THEN "reset" ELSE clientEnd
  BY <1>i, <1>c, ServeFacts
<1>t. /\ toServer \in Seq(Sends) /\ toClient \in Seq(Answers) /\ store \in KV!Stores
      /\ n \in Number /\ endedAt = 0 /\ clientEnd = "ok"
      /\ k \in Nat \ {0} /\ k <= Len(toServer)
      /\ c \in [op : Op, key : Int, val : Value \cup {Mangled}]
  <2>1. toServer \in Seq(Sends) /\ toClient \in Seq(Answers) /\ store \in KV!Stores
    BY <1>i DEF TypeOK
  <2>2. n # 0
    BY <2>1, <1>i DEF EndInv
  <2>3. n \in Number
    BY <2>2, <1>i, SessionAssumption DEF TypeOK, Number
  <2>4. c \in [op : Op, key : Int, val : Value \cup {Mangled}]
    BY <1>c, <1>i, ParseType
  <2> QED BY <2>1, <2>3, <2>4, <1>i, <1>u DEF EndInv
<1>s. \A i \in 1 .. Len(toServer') : i + k \in 1 .. Len(toServer) /\ toServer'[i] = toServer[i + k]
  BY <1>t, <1>u
<1>1. TypeOK'
  <2>1. endedAt' \in 0 .. MaxCommands /\ clientEnd' \in {"ok", "reset", "broken"}
    BY <1>i, <1>u DEF TypeOK
  <2> QED BY <2>1, <1>i, <1>u DEF TypeOK
<1>2. EndInv'
  <2>1. \A i \in 1 .. Len(toServer') : toServer'[i].cmd.op \in typed'
    BY <1>i, <1>s, <1>u DEF EndInv
  <2>2. n' # 0 /\ endedAt' <= n' /\ (srv' = "serving" <=> endedAt' = 0) /\ 0 <= endedAt'
    BY <1>t, <1>u DEF Number
  <2>3. srv' = "serving" => clientEnd' = "ok"
    BY <1>t, <1>u
  <2>4. srv' # "serving" => 0 < endedAt'
    BY <1>t, <1>u DEF Number
  <2> QED BY <2>1, <2>2, <2>3, <2>4, <1>i, <1>u DEF EndInv, InInit
\* While the client can be told something the string is the one command under way.
<1>3. ASSUME Hears
      PROVE  /\ OneUnderWay /\ k = 1 /\ Len(toServer) = 1 /\ toClient = <<>>
             /\ toServer' = <<>> /\ pc = "wait" /\ c.op = toServer[1].cmd.op
  <2>1. OneUnderWay
    BY <1>3, <1>i DEF HearInv
  <2>2. PICK x \in Nat, y \in Nat : x = Len(toServer) /\ y = Len(toClient)
    BY <1>t
  <2>3. x + y <= 1 /\ k <= x
    BY <2>1, <2>2, <1>t DEF OneUnderWay
  <2>4. x = 1 /\ y = 0 /\ k = 1
    BY <2>3, <1>t
  <2>5. Len(toServer') = 0 /\ Len(toServer) = 1
    <3>1. Len(toServer') = Len(toServer) - k
      BY <1>u
    <3>2. Len(toServer') = x - k
      BY <2>2, <3>1
    <3> QED BY <2>2, <2>4, <3>2
  <2>6. StringEnd(toServer, k) = 1
    BY <2>4, StringEndFacts
  <2>7. pc = "wait"
    <3>1. toServer # <<>>
      BY <2>5
    <3> QED BY <2>1, <3>1, <1>3, <1>i DEF OneUnderWay, Hears, Gone, TypeOK
  <2>8. toClient = <<>> /\ toServer' = <<>>
    <3>1. Len(toClient) = 0 /\ toServer' \in Seq(Sends)
      BY <2>2, <2>4, <1>u
    <3> QED BY <3>1, <2>5, <1>t
  <2> QED BY <2>1, <2>2, <2>4, <2>6, <2>7, <2>8, <1>i, <1>c, ParseOne
<1>4. HearInv'
  <2>1. Hears' => Hears
    BY <1>u DEF Hears, Gone
  <2>2. ASSUME Hears PROVE OneUnderWay'
    <3>1. Len(toServer') = 0 /\ Len(toClient') = 1 /\ toClient'[1].n = n /\ clientEnd' = "ok"
      <4>1. toServer' = <<>> /\ toClient = <<>> /\ toServer[1].n = n
        BY <1>3, <2>2 DEF OneUnderWay
      <4> QED BY <4>1, <2>2, <1>t, <1>u DEF Hears
    <3> QED BY <3>1, <1>3, <2>2, <1>u DEF OneUnderWay
  <2> QED BY <2>1, <2>2, <1>i, <1>u DEF HearInv, InInit, Gone
<1>5. SentInv'
  BY <1>s, <1>u DEF SessionInv, SentInv, SendOK, InInit, Gone
<1>6. ASSUME ~ Bare, srv' = "serving"
      PROVE  /\ \A i, j \in 1 .. Len(toServer') :
                   i < j /\ toServer'[j].cut => toServer'[i].n = toServer'[j].n
             /\ toServer' # <<>> /\ toServer'[1].cut => ~ KV!PutOK(store', toServer'[1].cmd.key)
  <2>1. \A i, j \in 1 .. Len(toServer) :
           i < j /\ toServer[j].cut => toServer[i].n = toServer[j].n
    BY <1>6, <1>u DEF SessionInv, CutInv
  <2>2. \A i, j \in 1 .. Len(toServer') :
           i < j /\ toServer'[j].cut => toServer'[i].n = toServer'[j].n
    <3> SUFFICES ASSUME NEW i \in 1 .. Len(toServer'), NEW j \in 1 .. Len(toServer'), i < j,
                        toServer'[j].cut
                 PROVE  toServer'[i].n = toServer'[j].n
      OBVIOUS
    <3>1. i + k \in 1 .. Len(toServer) /\ j + k \in 1 .. Len(toServer) /\ i + k < j + k
      BY <1>s, <1>t
    <3> QED BY <2>1, <3>1, <1>s
  <2>3. ASSUME toServer' # <<>>, toServer'[1].cut
        PROVE  ~ KV!PutOK(store', toServer'[1].cmd.key)
    <3>1. 1 + k \in 1 .. Len(toServer) /\ toServer'[1] = toServer[1 + k] /\ 1 \in 1 .. Len(toServer)
      BY <2>3, <1>s, <1>t, <1>u
    <3>2. toServer[1].n = toServer[1 + k].n
      BY <2>1, <2>3, <3>1, <1>t
    <3>3. InInit(toServer[1].n) /\ toServer[1].cmd = toServer[1 + k].cmd
      BY <2>3, <3>1, <3>2 DEF SessionInv, SentInv, SendOK
    <3> QED BY <3>1, <3>3, <1>6, ServeTakes
  <2> QED BY <2>2, <2>3
<1>7. CutInv'
  BY <1>6, <1>u DEF CutInv, Bare, Taken
<1>8. AgainInv'
  <2> SUFFICES ASSUME srv' = "serving", ~ Gone, ~ Bare, InInit(n), sendCount < SendLimit
               PROVE  /\ \A i \in 1 .. Len(toServer') : toServer'[i].n = n
                      /\ pc # "send"
                      /\ pc = "wait" => ~ KV!PutOK(store', cmd.key)
    BY <1>u DEF AgainInv, InInit, Gone, Taken, Bare
  <2>1. (\A i \in 1 .. Len(toServer) : toServer[i].n = n) /\ (pc = "send" => toServer = <<>>)
    BY <1>u DEF SessionInv, AgainInv
  <2>2. toServer # <<>> /\ 1 \in 1 .. Len(toServer)
    BY <1>t
  <2>3. pc = "wait" => toServer[1].cmd = cmd
    BY <2>1, <2>2, <1>i DEF SessionInv, SentInv, SendOK, EndInv
  <2>4. ~ KV!PutOK(store', toServer[1].cmd.key)
    BY <2>1, <2>2, ServeTakes
  <2> QED BY <2>1, <2>2, <2>3, <2>4, <1>s
<1>9. OutOfStepOnlyAfterInit'
  BY <1>t, <1>u DEF SessionInv, OutOfStepOnlyAfterInit
<1>10. NoMangledValue'
  <2> SUFFICES ASSUME ~ Bare PROVE \A x \in KV!Slot : store'.dict[x] # Mangled
    BY <1>u DEF NoMangledValue, Bare
  <2>1. \A x \in KV!Slot : store.dict[x] # Mangled
    BY DEF SessionInv, NoMangledValue, Bare
  <2>2. ASSUME c.op = "PUT", KV!PutOK(store, c.key) PROVE c.val # Mangled
    <3>1. toServer[1] \in Sends /\ toServer[1].cmd \in Commands
      <4>1. toServer[1] \in Sends
        BY <1>t
      <4> QED BY <4>1 DEF Sends
    <3>2. toServer[1].cmd.op = "PUT"
      BY <2>2, <1>c DEF Parse
    <3>3. c.key = toServer[1].cmd.key
          /\ c.val = IF toServer[1].cut THEN Mangled ELSE toServer[1].cmd.val
      BY <2>2, <3>2, <1>c, PutIsAlone
    <3>4. ~ toServer[1].cut
      BY <2>2, <3>3, <1>t, <1>u DEF SessionInv, CutInv, Taken
    <3> QED BY <3>1, <3>3, <3>4, SessionAssumption DEF Commands
  <2>3. c.key \in Int /\ store' = KV!Apply(store, c.op, c.key, c.val)
    BY <1>t, <1>u
  <2> QED BY <2>1, <2>2, <2>3, <1>t, PutMangles
<1>11. AskedInv'
  <2> SUFFICES ASSUME srv' # "serving", ~ timedOut, ~ Gone PROVE typed \cap {"ERROR", "q"} # {}
    BY <1>u DEF AskedInv, Gone
  <2>1. Hears
    BY <1>i DEF HearInv, Hears
  <2>2. c.op \in {"ERROR", "q", "Q"} /\ c.op = toServer[1].cmd.op /\ 1 \in 1 .. Len(toServer)
    BY <2>1, <1>3, <1>u
  <2>3. c.op # "Q" /\ c.op \in typed
    BY <2>2, <1>i DEF SessionInv, SentInv, SendOK, EndInv
  <2> QED BY <2>2, <2>3
<1> QED BY <1>1, <1>2, <1>4, <1>5, <1>7, <1>8, <1>9, <1>10, <1>11 DEF SessionInv

LEMMA ServeEndInv ==
    ASSUME SessionInv, ServeEnd
    PROVE  SessionInv'
<1>i. TypeOK /\ EndInv /\ HearInv
  BY DEF SessionInv
<1>u. /\ srv = "serving" /\ toServer = <<>> /\ Gone /\ Gone'
      /\ UNCHANGED <<pc, n, cmd, sendCount, watched, shown, buff, clientEnd, toServer, toClient,
                     store, timedOut, deaf, typed>>
      /\ srv' \in {"serving", "killed"} /\ serverEnd' \in {serverEnd, "reset"}
      /\ endedAt' = IF srv' = "serving" THEN endedAt ELSE n
  BY DEF ServeEnd, clientVars, Gone
<1>t. n \in 0 .. MaxCommands /\ endedAt = 0 /\ clientEnd = "ok" /\ MaxCommands \in Nat
  BY <1>i, <1>u, SessionAssumption DEF TypeOK, EndInv
<1>1. TypeOK'
  <2>1. endedAt' \in 0 .. MaxCommands
    BY <1>i, <1>u DEF TypeOK
  <2> QED BY <2>1, <1>i, <1>u DEF TypeOK
<1>2. EndInv'
  <2>1. endedAt' <= n' /\ (srv' = "serving" => endedAt' = 0)
    BY <1>t, <1>u
  <2> QED BY <2>1, <1>i, <1>u DEF EndInv, InInit
<1>3. HearInv'
  BY <1>i, <1>u DEF HearInv, Hears, InInit
<1>4. SentInv' /\ CutInv' /\ AgainInv' /\ NoMangledValue'
  BY <1>u DEF SessionInv, SentInv, SendOK, CutInv, AgainInv, NoMangledValue, InInit, Bare, Taken
<1>5. OutOfStepOnlyAfterInit' /\ AskedInv'
  BY <1>t, <1>u DEF SessionInv, OutOfStepOnlyAfterInit, AskedInv
<1> QED BY <1>1, <1>2, <1>3, <1>4, <1>5 DEF SessionInv

LEMMA NextInv == SessionInv /\ [Next]_vars => SessionInv'
<1> SUFFICES ASSUME SessionInv, [Next]_vars PROVE SessionInv'
  OBVIOUS
<1>1. CASE SendInit
  <2>1. n + 1 \in Nat /\ n + 1 # 0 /\ sendCount \in 1 .. SendLimit /\ watched \in BOOLEAN
    BY SessionAssumption DEF SessionInv, TypeOK
  <2>2. InitPuts[n + 1] \in Commands /\ InitPuts[n + 1].op = "PUT"
    BY <1>1, <2>1, InitPutFacts DEF SendInit
  <2> QED BY <1>1, <2>1, <2>2, SendInv DEF SendInit
<1>2. ASSUME NEW c \in Typed, SendTyped(c) PROVE SessionInv'
  <2>1. c \in Commands
    BY SessionAssumption
  <2>2. sendCount' \in 1 .. SendLimit /\ watched' \in BOOLEAN
    BY <1>2, SessionAssumption DEF SendTyped, SessionInv, TypeOK
  <2> QED BY <1>2, <2>1, <2>2, SendInv DEF SendTyped
<1>3. ASSUME NEW c \in Typed, Quit(c) PROVE SessionInv'
  BY <1>3, QuitInv, SessionAssumption
<1>7. CASE ClientDies
  BY <1>7, DiesInv
<1>4. CASE Waiting
  BY <1>4, ReceiveInv, ReceiveEndInv, ResendInv, GiveUpInv DEF Waiting
<1>5. CASE Serving
  BY <1>5, ServeInv, ServeEndInv DEF Serving
<1>6. CASE UNCHANGED vars
  <2> USE <1>6 DEF vars, clientVars, serverVars
  <2>1. TypeOK' /\ EndInv'
    BY DEF SessionInv, TypeOK, EndInv, InInit, Gone
  <2>2. HearInv' /\ SentInv'
    BY DEF SessionInv, HearInv, Hears, OneUnderWay, SentInv, SendOK, InInit, Gone
  <2>3. CutInv' /\ AgainInv'
    BY DEF SessionInv, CutInv, AgainInv, Taken, InInit, Gone, Bare
  <2>4. OutOfStepOnlyAfterInit' /\ NoMangledValue' /\ AskedInv'
    BY DEF SessionInv, OutOfStepOnlyAfterInit, NoMangledValue, AskedInv, Gone
  <2> QED BY <2>1, <2>2, <2>3, <2>4 DEF SessionInv
<1> QED BY <1>1, <1>2, <1>3, <1>4, <1>5, <1>6, <1>7 DEF Next

LEMMA Invariant == Spec => []SessionInv
BY InitInv, NextInv, PTL DEF Spec

\* No client and no server of project_1 over TCP leaves the states it should be
\* in: no more than SendLimit sends of a command, answers that keyval.c gives.
THEOREM TypeCorrect == Spec => []TypeOK
BY Invariant, PTL DEF SessionInv

\* What the client prints for a command is the answer to that command, unless a
\* select() of init() timed out or the server ended before: after a timeout in
\* main() the socket is watched no more, and a late answer is never read.
THEOREM InStep == Spec => []OutOfStepOnlyAfterInit
BY Invariant, PTL DEF SessionInv

\* For all the PUTs that init() cuts when it sends them again, and all that
\* recv() returns in one string, the table never holds a value nobody typed, as
\* long as no text without a colon was sent: a q, a Q or a word that is no command.
THEOREM NothingMangled == Spec => []NoMangledValue
BY Invariant, PTL DEF SessionInv
-----------------------------------------------------------------------------
(* Until the first timeout the session is the service of KVService. *)

LEMMA ServiceInit == Init => Service!Init
BY DEF Init, Service!Init, Service!EmptyStore, Service!Slot, KV!EmptyStore, KV!Slot

\* What the service sees of the session.
Result == IF pc = "wait" /\ toClient # <<>> THEN toClient[1].text ELSE None

ServiceStep ==
    [\/ timedOut' \/ Gone' \/ Service!Next
     \/ srv' # "serving" /\ typed' \cap {"ERROR", "q"} # {}]_(Service!vars)

\* A send is a call: no answer is left from the command before.
LEMMA CallStep ==
    ASSUME SessionInv, ~ timedOut, srv = "serving",
           NEW c \in Typed \cup {InitPuts[i] : i \in 1 .. Len(InitPuts)}, SendNext(c, "wait"),
           UNCHANGED serverVars
    PROVE  Service!Call("user")
<1>1. pc = "send" /\ pc' = "wait" /\ cmd' = c
  BY DEF SendNext, Write
<1>2. toClient = <<>>
  BY <1>1 DEF SessionInv, HearInv, Hears, OneUnderWay, Gone
<1>3. Result = None /\ Result' = None /\ buff' = buff /\ store' = store
  BY <1>1, <1>2 DEF Result, SendNext, serverVars
<1> QED BY <1>1, <1>3 DEF Service!Call, Result

\* The service executes commands on its table as the server does.
LEMMA SameTable ==
    ASSUME NEW st, NEW op, NEW k, NEW v
    PROVE  /\ Service!Reply(st, op, k) = KV!Reply(st, op, k)
           /\ Service!Apply(st, op, k, v) = KV!Apply(st, op, k, v)
<1> USE DEF Service!Present, Service!InRange, Service!PutOK, Service!DeleteOK,
            KV!Present, KV!InRange, KV!PutOK, KV!DeleteOK
<1>1. /\ Service!GET(st, k) = KV!GET(st, k)
      /\ Service!PUT(st, k, v) = KV!PUT(st, k, v)
      /\ Service!DELETE(st, k) = KV!DELETE(st, k)
  BY DEF Service!GET, KV!GET, Service!PUT, KV!PUT, Service!DELETE, KV!DELETE
<1>2. Service!PutOK(st, k) = KV!PutOK(st, k) /\ Service!DeleteOK(st, k) = KV!DeleteOK(st, k)
  OBVIOUS
<1> QED BY <1>1, <1>2, Zenon DEF Service!Reply, KV!Reply, Service!Apply, KV!Apply

\* What recv() of the server returns is the one command under way.
LEMMA ServeStep ==
    ASSUME SessionInv, ~ timedOut, ~ Gone, NEW k \in 1 .. Len(toServer), Serve(k), srv' = "serving"
    PROVE  Service!Serve("user")
<1>i. TypeOK /\ EndInv /\ HearInv
  BY DEF SessionInv
<1>c. PICK c : c = Parse(k)
  OBVIOUS
<1>u. /\ srv = "serving" /\ UNCHANGED <<pc, cmd, buff>>
      /\ store' = KV!Apply(store, c.op, c.key, c.val)
      /\ c.op \notin {"ERROR", "q", "Q"} /\ toClient' \in Seq(Answers)
      /\ ~ Gone => Len(toClient') = Len(toClient) + 1
      /\ ~ Gone /\ toClient = <<>> => toClient'[1].text = KV!Reply(store, c.op, c.key)
  BY <1>i, <1>c, ServeFacts
<1>t. toServer \in Seq(Sends) /\ toClient \in Seq(Answers) /\ 1 \in 1 .. Len(toServer)
  BY <1>i DEF TypeOK
<1>1. ~ Gone
  OBVIOUS
<1>2. OneUnderWay
  BY <1>1, <1>i DEF HearInv, Hears
<1>3. PICK x \in Nat, y \in Nat : x = Len(toServer) /\ y = Len(toClient)
  BY <1>t
<1>4. x + y <= 1 /\ k \in 1 .. x
  BY <1>2, <1>3 DEF OneUnderWay
<1>5. x = 1 /\ y = 0 /\ k = 1
  BY <1>4
<1>6. toClient = <<>> /\ Len(toClient) = 0
  <2>1. Len(toClient) = 0
    BY <1>3, <1>5
  <2>2. toClient \in Seq(Answers)
    BY <1>t
  <2> QED BY <2>1, <2>2
<1>7. pc = "wait" /\ cmd # None
  <2>1. pc # "send"
    BY <1>2, <1>t DEF OneUnderWay
  <2> QED BY <2>1, <1>1, <1>i DEF Gone, TypeOK, EndInv
<1>8. c.op = cmd.op /\ c.key = cmd.key /\ c.val = cmd.val
  <2>1. toServer[1].cmd = cmd /\ ~ toServer[1].cut
    BY <1>2, <1>t DEF OneUnderWay
  <2>2. StringEnd(toServer, k) = 1
    BY <1>5, StringEndFacts
  <2> QED BY <2>1, <2>2, <1>c, <1>i, ParseOne
<1>9. Result = None /\ Result' = KV!Reply(store, cmd.op, cmd.key)
  <2>1. Len(toClient') = 1
    BY <1>1, <1>6, <1>u
  <2>2. toClient' # <<>>
    BY <2>1
  <2> QED BY <2>2, <1>1, <1>6, <1>7, <1>8, <1>u DEF Result
<1> QED BY <1>7, <1>8, <1>9, <1>u, SameTable DEF Service!Serve, Result

\* What recv() of the client returns is the answer of that execution.
LEMMA ReturnStep ==
    ASSUME SessionInv, ~ timedOut, NEW k \in 1 .. Len(toClient), Receive(k)
    PROVE  Service!Return("user")
<1>i. TypeOK /\ HearInv
  BY DEF SessionInv
<1>t. toServer \in Seq(Sends) /\ toClient \in Seq(Answers) /\ 1 \in 1 .. Len(toClient)
  BY <1>i DEF TypeOK
<1>2. OneUnderWay /\ pc = "wait"
  BY <1>i DEF HearInv, Hears, Gone, Receive
<1>3. PICK x \in Nat, y \in Nat : x = Len(toServer) /\ y = Len(toClient)
  BY <1>t
<1>4. x + y <= 1 /\ k \in 1 .. y
  BY <1>2, <1>3 DEF OneUnderWay
<1>5. k = 1
  BY <1>4
<1>6. StringEnd(toClient, k) = 1
  BY <1>5, StringEndFacts
<1>7. pc' = "send" /\ buff'.text = toClient[1].text /\ store' = store
  BY <1>6 DEF Receive, Printed, serverVars
<1>8. Result = toClient[1].text /\ Result # None
  <2>1. toClient[1] \in Answers
    BY <1>t
  <2>2. toClient[1].text \in KV!Replies
    BY <2>1 DEF Answers
  <2> QED BY <2>2, <1>2, <1>t, SessionAssumption DEF Result
<1> QED BY <1>2, <1>7, <1>8 DEF Service!Return, Result

LEMMA ServiceNext ==
    ASSUME SessionInv, [Next]_vars
    PROVE  ServiceStep
<1> SUFFICES ASSUME ~ timedOut', ~ Gone', srv' = "serving" PROVE ServiceStep
  <2>1. AskedInv'
    BY NextInv DEF SessionInv
  <2> QED BY <2>1 DEF ServiceStep, AskedInv
<1>1. ASSUME Service!Call("user") \/ Service!Serve("user") \/ Service!Return("user")
      PROVE  ServiceStep
  BY <1>1 DEF ServiceStep, Service!Next
<1>2. CASE SendInit
  <2>1. InitPuts[n + 1] \in {InitPuts[i] : i \in 1 .. Len(InitPuts)}
    BY <1>2, SessionAssumption DEF SendInit, InInit, SessionInv, TypeOK
  <2>2. ~ timedOut /\ srv = "serving"
    BY <1>2 DEF SendInit, SendNext, serverVars
  <2> QED BY <1>1, <1>2, <2>1, <2>2, CallStep DEF SendInit
<1>3. ASSUME NEW c \in Typed, SendTyped(c) PROVE ServiceStep
  <2>1. ~ timedOut /\ srv = "serving"
    BY <1>3 DEF SendTyped, SendNext, serverVars
  <2> QED BY <1>1, <1>3, <2>1, CallStep DEF SendTyped
<1>4. ASSUME NEW c \in Typed, Quit(c) PROVE ServiceStep
  BY <1>4 DEF Quit, Gone
<1>8. CASE ClientDies
  BY <1>8 DEF ClientDies, Gone
<1>5. CASE Waiting
  <2>1. ASSUME NEW k \in 1 .. Len(toClient), Receive(k) PROVE ServiceStep
    <3>1. ~ timedOut
      BY <2>1 DEF Receive, Printed
    <3> QED BY <1>1, <2>1, <3>1, ReturnStep
  <2>2. ~ (ReceiveEnd \/ Resend \/ GiveUp)
    BY DEF ReceiveEnd, Printed, serverVars, Resend, GiveUp, NothingHeard
  <2> QED BY <1>5, <2>1, <2>2 DEF Waiting
<1>6. CASE Serving
  <2>1. ASSUME NEW k \in 1 .. Len(toServer), Serve(k) PROVE ServiceStep
    <3>1. ~ timedOut /\ ~ Gone
      BY <2>1 DEF Serve, Execute, clientVars, Gone
    <3> QED BY <1>1, <2>1, <3>1, ServeStep
  <2>2. ~ ServeEnd
    BY DEF ServeEnd, clientVars, Gone
  <2> QED BY <1>6, <2>1, <2>2 DEF Serving
<1>7. CASE UNCHANGED vars
  BY <1>7 DEF vars, clientVars, serverVars, ServiceStep, Service!vars
<1> QED BY <1>2, <1>3, <1>4, <1>5, <1>6, <1>7, <1>8 DEF Next

\* Until the first timeout of a select(), and until the client has gone, the client
\* and the server of project_1 over TCP are the service: every command is executed
\* once, after the one before was answered, though recv() may merge sends, and the
\* server ends only when it was told to.
THEOREM IsServiceUntilTimeout == Spec => ServesUntilTimeout
<1>1. SessionInv /\ [Next]_vars => SessionInv' /\ ServiceStep
  BY NextInv, ServiceNext
<1> QED BY <1>1, InitInv, ServiceInit, PTL DEF Spec, ServesUntilTimeout, ServiceStep
=============================================================================
