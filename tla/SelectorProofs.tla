--------------------------- MODULE SelectorProofs ---------------------------
(***************************************************************************)
(* Proofs about Selector for every number of nodes, proposers, failures,   *)
(* repairs and restarts.                                                   *)
(***************************************************************************)
EXTENDS Selector, FiniteSetTheorems, TLAPS

\* The nodes of always are up, those up are in ever, and a sweep counts at most
\* the nodes it has reached.
SweepInv == always \subseteq up /\ up \subseteq ever /\ alive < i

\* While the file is empty the sweep is over and its count is the new last_val.
FlushInv == pc = "flush" => i = Len + 1 /\ lastVal = alive

\* While nodes only fail, their number is underestimated neither by the file
\* nor by a quorum that was computed from it.
QuorumInv ==
    ~ repaired =>
        /\ always = up
        /\ file # Unknown => file >= Cardinality(up)
        /\ \A p \in whole : 2 * quorum[p] > Cardinality(up)

SelectorInv ==
    /\ TypeOK /\ SweepInv /\ FlushInv
    /\ CountBounds /\ FileIsLastCount /\ QuorumInv
-----------------------------------------------------------------------------
(* Sets of nodes. *)

LEMMA NodesFinite ==
    ASSUME NEW S \in SUBSET Node
    PROVE  IsFiniteSet(S) /\ Cardinality(S) \in Nat /\ Cardinality(S) <= Len
<1>1. IsFiniteSet(Node) /\ Cardinality(Node) = Len
  BY FS_Interval, SelectorAssumption DEF Node
<1>2. IsFiniteSet(S) /\ Cardinality(S) <= Len
  BY <1>1, FS_Subset
<1> QED BY <1>2, FS_CardinalityType

LEMMA ReachedFinite ==
    ASSUME NEW S \in SUBSET Node, NEW j \in Int
    PROVE  IsFiniteSet(S \cap 1 .. j) /\ Cardinality(S \cap 1 .. j) \in Nat
<1>1. IsFiniteSet(S \cap 1 .. j)
  BY NodesFinite
<1> QED BY <1>1, FS_CardinalityType

\* Fewer nodes count for no more.
LEMMA FewerNodes ==
    ASSUME NEW S \in SUBSET Node, NEW T \in SUBSET S, NEW j \in Int
    PROVE  /\ Cardinality(T) <= Cardinality(S)
           /\ Cardinality(T \cap 1 .. j) <= Cardinality(S \cap 1 .. j)
<1>1. IsFiniteSet(S) /\ IsFiniteSet(S \cap 1 .. j)
  BY NodesFinite, ReachedFinite
<1>2. T \cap 1 .. j \subseteq S \cap 1 .. j
  OBVIOUS
<1> QED BY <1>1, <1>2, FS_Subset

\* The next node adds one if it belongs to the set, else nothing.
LEMMA NextNode ==
    ASSUME NEW S \in SUBSET Node, NEW j \in Node
    PROVE  Cardinality(S \cap 1 .. j) =
             Cardinality(S \cap 1 .. j - 1) + (IF j \in S THEN 1 ELSE 0)
<1>1. j \in Int /\ j - 1 \in Int /\ j >= 1
  BY SelectorAssumption DEF Node
<1>2. IsFiniteSet(S \cap 1 .. j - 1) /\ Cardinality(S \cap 1 .. j - 1) \in Nat
  BY <1>1, ReachedFinite
<1>3. CASE j \in S
  <2>1. S \cap 1 .. j = (S \cap 1 .. j - 1) \cup {j} /\ j \notin S \cap 1 .. j - 1
    BY <1>1, <1>3 DEF Node
  <2> QED BY <1>2, <1>3, <2>1, FS_AddElement
<1>4. CASE j \notin S
  <2>1. S \cap 1 .. j = S \cap 1 .. j - 1
    BY <1>1, <1>4 DEF Node
  <2>2. Cardinality(S \cap 1 .. j) = Cardinality(S \cap 1 .. j - 1)
    BY <2>1
  <2> QED BY <1>2, <1>4, <2>2
<1> QED BY <1>3, <1>4

LEMMA NoNode == ASSUME NEW S PROVE Cardinality(S \cap 1 .. 1 - 1) = 0
<1>1. S \cap 1 .. 1 - 1 = {}
  OBVIOUS
<1> QED BY <1>1, FS_EmptySet

\* A quorum computed from a count is more than half of it.
LEMMA MoreThanHalf ==
    ASSUME NEW n \in 0 .. Shipped
    PROVE  QuorumOf(n) \in Nat /\ 2 * QuorumOf(n) > n
<1>1. n \in Nat
  BY SelectorAssumption
<1>2. n \div 2 \in Nat /\ 2 * (n \div 2) <= n /\ n <= 2 * (n \div 2) + 1
  BY <1>1
<1> QED BY <1>1, <1>2 DEF QuorumOf
-----------------------------------------------------------------------------
(* The invariant holds at first and is kept by every step. *)

LEMMA InitInv == Init => SelectorInv
<1> SUFFICES ASSUME Init PROVE SelectorInv
  OBVIOUS
<1>1. TypeOK
  <2>1. quorum \in [Proposer -> Int] /\ whole \subseteq Proposer
    BY DEF Init
  <2>2. i \in 1 .. Len + 1 /\ alive \in 0 .. Len /\ lastVal \in 0 .. Len
    BY SelectorAssumption DEF Init
  <2>3. leaked \in 0 .. MaxDescriptor /\ flips \in 0 .. MaxFlips /\ starts \in 0 .. MaxStarts
    BY SelectorAssumption DEF Init
  <2>4. file \in 0 .. Shipped /\ found \in 0 .. Shipped
    BY SelectorAssumption DEF Init
  <2> QED BY <2>1, <2>2, <2>3, <2>4 DEF Init, TypeOK
<1>5. SweepInv
  BY DEF Init, SweepInv
<1>2. FlushInv /\ FileIsLastCount
  BY DEF Init, FlushInv, FileIsLastCount
<1>3. CountBounds
  BY NoNode DEF Init, CountBounds
<1>4. QuorumInv
  <2>1. Cardinality(up) \in Nat /\ Cardinality(up) <= Len
    BY <1>1, NodesFinite DEF TypeOK
  <2> QED BY <2>1, SelectorAssumption DEF Init, QuorumInv
<1> QED BY <1>1, <1>2, <1>3, <1>4, <1>5 DEF SelectorInv

\* A node that fails leaves always; the bounds below only sink.
LEMMA FailInv ==
    ASSUME SelectorInv, NEW n \in Node, Fail(n)
    PROVE  SelectorInv'
<1> USE DEF SelectorInv, Fail, Flip, selectorVars, startVars, readVars
<1>1. TypeOK' /\ SweepInv' /\ FlushInv' /\ FileIsLastCount'
  BY SelectorAssumption DEF TypeOK, SweepInv, FlushInv, FileIsLastCount
<1>2. CountBounds'
  <2>1. i - 1 \in Int /\ always \in SUBSET Node /\ ever \in SUBSET Node /\ alive \in Int
    BY SelectorAssumption DEF TypeOK
  <2>2. Cardinality(always' \cap 1 .. i - 1) <= Cardinality(always \cap 1 .. i - 1)
    BY <2>1, FewerNodes
  <2>3. /\ Cardinality(always' \cap 1 .. i - 1) \in Nat
        /\ Cardinality(always \cap 1 .. i - 1) \in Nat
    BY <2>1, ReachedFinite
  <2> QED BY <2>1, <2>2, <2>3 DEF CountBounds
<1>3. QuorumInv'
  <2>1. up \in SUBSET Node /\ up' \in SUBSET up /\ 0 \in Int
    BY DEF TypeOK
  <2>2. Cardinality(up') <= Cardinality(up) /\ Cardinality(up) \in Nat /\ Cardinality(up') \in Nat
    BY <2>1, FewerNodes, NodesFinite
  <2> SUFFICES ASSUME ~ repaired PROVE QuorumInv'
    BY DEF QuorumInv
  <2>3. always' = up' /\ (file # Unknown => file >= Cardinality(up'))
    BY <2>2 DEF QuorumInv, TypeOK
  <2>4. ASSUME NEW p \in whole
        PROVE  2 * quorum[p] > Cardinality(up')
    <3>1. quorum[p] \in Int
      BY DEF TypeOK
    <3>2. 2 * quorum[p] > Cardinality(up)
      BY DEF QuorumInv
    <3> QED BY <2>2, <3>1, <3>2
  <2> QED BY <2>3, <2>4 DEF QuorumInv
<1> QED BY <1>1, <1>2, <1>3

LEMMA ComeBackInv ==
    ASSUME SelectorInv, NEW n \in Node, ComeBack(n)
    PROVE  SelectorInv'
<1> USE DEF SelectorInv, ComeBack, Flip, selectorVars, startVars, readVars
<1>1. TypeOK' /\ SweepInv' /\ FlushInv' /\ FileIsLastCount'
  BY SelectorAssumption DEF TypeOK, SweepInv, FlushInv, FileIsLastCount
<1>2. CountBounds'
  <2>1. i - 1 \in Int /\ ever' \in SUBSET Node /\ ever \in SUBSET ever' /\ alive \in Int
    BY SelectorAssumption DEF TypeOK
  <2>2. Cardinality(ever \cap 1 .. i - 1) <= Cardinality(ever' \cap 1 .. i - 1)
    BY <2>1, FewerNodes
  <2>3. /\ Cardinality(ever' \cap 1 .. i - 1) \in Nat
        /\ Cardinality(ever \cap 1 .. i - 1) \in Nat
    BY <2>1, ReachedFinite
  <2> QED BY <2>1, <2>2, <2>3 DEF CountBounds
<1>3. QuorumInv'
  BY DEF QuorumInv
<1> QED BY <1>1, <1>2, <1>3

\* A node that is up counts, and one of always is; one that counts is up, and
\* so one of ever.
LEMMA ProbeInv ==
    ASSUME SelectorInv, Probe
    PROVE  SelectorInv'
<1> USE DEF SelectorInv, Probe, nodeVars, readVars
<1>0. /\ i \in Node /\ i - 1 \in Int /\ alive \in Nat
      /\ always \in SUBSET Node /\ ever \in SUBSET Node
  BY SelectorAssumption DEF TypeOK, Node
<1>1. FlushInv' /\ FileIsLastCount' /\ QuorumInv'
  BY DEF FlushInv, FileIsLastCount, QuorumInv
<1>2. CASE Exhausted
  BY <1>1, <1>2 DEF TypeOK, SweepInv, CountBounds
<1>3. CASE ~ Exhausted
  <2> USE <1>3 DEF Connect
  <2>1. TypeOK' /\ SweepInv'
    BY SelectorAssumption DEF TypeOK, SweepInv, Exhausted, Node
  <2>2. CountBounds'
    <3>1. /\ Cardinality(always' \cap 1 .. i' - 1) = Cardinality(always \cap 1 .. i)
          /\ Cardinality(ever' \cap 1 .. i' - 1) = Cardinality(ever \cap 1 .. i)
      <4>1. i' - 1 = i
        BY <1>0 DEF Node
      <4> QED BY <4>1
    <3>2. /\ Cardinality(always \cap 1 .. i - 1) \in Nat
          /\ Cardinality(ever \cap 1 .. i - 1) \in Nat
          /\ Cardinality(always \cap 1 .. i - 1) <= alive
          /\ alive <= Cardinality(ever \cap 1 .. i - 1)
      BY <1>0, ReachedFinite DEF CountBounds
    <3>3. /\ Cardinality(always \cap 1 .. i) =
               Cardinality(always \cap 1 .. i - 1) + (IF i \in always THEN 1 ELSE 0)
          /\ Cardinality(ever \cap 1 .. i) =
               Cardinality(ever \cap 1 .. i - 1) + (IF i \in ever THEN 1 ELSE 0)
      BY <1>0, NextNode
    <3>4. CASE i \in up
      <4>1. i \in ever /\ alive' = alive + 1
        BY <3>4 DEF SweepInv
      <4> QED BY <1>0, <3>1, <3>2, <3>3, <4>1 DEF CountBounds
    <3>5. CASE i \notin up
      <4>1. i \notin always /\ alive' = alive
        BY <3>5 DEF SweepInv
      <4> QED BY <1>0, <3>1, <3>2, <3>3, <4>1 DEF CountBounds
    <3> QED BY <3>4, <3>5
  <2> QED BY <1>1, <2>1, <2>2
<1> QED BY <1>2, <1>3

\* A new sweep begins with nothing counted.
LEMMA NextSweepInv ==
    ASSUME SelectorInv, NextSweep, UNCHANGED up
    PROVE  SweepInv' /\ FlushInv' /\ CountBounds'
<1>1. SweepInv' /\ FlushInv'
  BY DEF NextSweep, SweepInv, FlushInv
<1>2. CountBounds'
  BY NoNode DEF NextSweep, CountBounds
<1> QED BY <1>1, <1>2

LEMMA UnchangedInv ==
    ASSUME SelectorInv, Unchanged
    PROVE  SelectorInv'
<1> USE DEF Unchanged, nodeVars, readVars
<1>1. SweepInv' /\ FlushInv' /\ CountBounds'
  BY NextSweepInv
<1>2. TypeOK'
  BY SelectorAssumption DEF SelectorInv, NextSweep, TypeOK
<1>3. FileIsLastCount' /\ QuorumInv'
  BY DEF SelectorInv, NextSweep, FileIsLastCount, QuorumInv
<1> QED BY <1>1, <1>2, <1>3 DEF SelectorInv

LEMMA TruncateInv ==
    ASSUME SelectorInv, Truncate
    PROVE  SelectorInv'
<1> USE DEF SelectorInv, Truncate, nodeVars, readVars
<1>1. TypeOK' /\ SweepInv'
  BY SelectorAssumption DEF TypeOK, SweepInv
<1>2. FlushInv'
  BY SelectorAssumption DEF FlushInv, TypeOK
<1>3. CountBounds' /\ FileIsLastCount'
  BY DEF CountBounds, FileIsLastCount
<1>4. QuorumInv'
  BY DEF QuorumInv
<1> QED BY <1>1, <1>2, <1>3, <1>4

\* What is written counts all nodes: if none came back it misses none.
LEMMA FlushKeepsInv ==
    ASSUME SelectorInv, Flush
    PROVE  SelectorInv'
<1> USE DEF Flush, nodeVars, readVars
<1>1. SweepInv' /\ FlushInv' /\ CountBounds'
  BY NextSweepInv
<1>2. TypeOK'
  BY SelectorAssumption DEF SelectorInv, NextSweep, TypeOK
<1>3. FileIsLastCount'
  BY DEF SelectorInv, NextSweep, FlushInv, FileIsLastCount
<1>4. QuorumInv'
  <2> SUFFICES ASSUME ~ repaired PROVE QuorumInv'
    BY DEF QuorumInv
  <2>1. always = up /\ always' = up /\ up \subseteq Node
    BY DEF SelectorInv, QuorumInv, TypeOK, NextSweep
  <2>3. 1 .. i - 1 = Node
    BY SelectorAssumption DEF SelectorInv, FlushInv, Node
  <2>4. always \cap 1 .. i - 1 = up
    BY <2>1, <2>3
  <2>2. Cardinality(up) <= alive
    BY <2>4 DEF SelectorInv, CountBounds
  <2> QED BY <2>1, <2>2 DEF SelectorInv, QuorumInv
<1> QED BY <1>1, <1>2, <1>3, <1>4 DEF SelectorInv

LEMMA KillInv ==
    ASSUME SelectorInv, Kill
    PROVE  SelectorInv'
BY DEF Kill, nodeVars, readVars, SelectorInv, TypeOK, SweepInv, FlushInv, CountBounds, FileIsLastCount, QuorumInv

LEMMA StartInv ==
    ASSUME SelectorInv, Start
    PROVE  SelectorInv'
<1> USE DEF Start, readVars
<1>1. SweepInv' /\ FlushInv' /\ CountBounds'
  BY NextSweepInv
<1>2. TypeOK'
  <2>1. starts' \in 0 .. MaxStarts /\ found' \in 0 .. Shipped \cup {Unknown}
    BY SelectorAssumption DEF SelectorInv, TypeOK
  <2>2. /\ i' \in 1 .. Len + 1 /\ alive' \in 0 .. Len /\ lastVal' \in 0 .. Len
        /\ leaked' \in 0 .. MaxDescriptor /\ pc' = "probe"
    BY SelectorAssumption DEF NextSweep
  <2>4. wrote' \in BOOLEAN
    OBVIOUS
  <2>3. /\ always' \subseteq ever' /\ ever' \subseteq Node
        /\ UNCHANGED <<up, file, quorum, whole, flips, repaired>>
    BY DEF SelectorInv, TypeOK, NextSweep
  <2> QED BY <2>1, <2>2, <2>3, <2>4 DEF SelectorInv, TypeOK
<1>3. FileIsLastCount' /\ QuorumInv'
  BY DEF SelectorInv, NextSweep, FileIsLastCount, QuorumInv
<1> QED BY <1>1, <1>2, <1>3 DEF SelectorInv

\* A quorum made of an uninitialised buffer is not one of whole; any other is
\* more than half of a count that misses no node.
LEMMA GetQuorumInv ==
    ASSUME SelectorInv, NEW p \in Proposer, GetQuorum(p)
    PROVE  SelectorInv'
<1> USE DEF SelectorInv, GetQuorum, selectorVars, startVars
<1>1. file # Unknown => QuorumOf(file) \in Nat /\ 2 * QuorumOf(file) > file
  BY MoreThanHalf DEF TypeOK
<1>2. TypeOK'
  <2>1. \A g \in Garbage : QuorumOf(g) \in Int
    BY SelectorAssumption DEF QuorumOf
  <2>2. quorum' \in [Proposer -> Int] /\ whole' \subseteq Proposer
    BY <1>1, <2>1 DEF TypeOK
  <2> QED BY <2>2 DEF TypeOK
<1>3. SweepInv' /\ FlushInv' /\ CountBounds' /\ FileIsLastCount'
  BY DEF SweepInv, FlushInv, CountBounds, FileIsLastCount
<1>4. QuorumInv'
  <2> SUFFICES ASSUME ~ repaired, NEW q \in whole'
               PROVE  2 * quorum'[q] > Cardinality(up)
    BY DEF QuorumInv
  <2>1. Cardinality(up) \in Nat
    BY NodesFinite, SelectorAssumption DEF TypeOK
  <2>2. CASE q = p
    <3>1. file # Unknown /\ quorum'[q] = QuorumOf(file)
      BY <2>2 DEF TypeOK
    <3>2. file >= Cardinality(up) /\ file \in Int
      BY <3>1 DEF QuorumInv, TypeOK
    <3> QED BY <1>1, <2>1, <3>1, <3>2
  <2>3. CASE q # p
    <3>1. q \in whole /\ quorum'[q] = quorum[q]
      BY <2>3 DEF TypeOK
    <3> QED BY <3>1 DEF QuorumInv
  <2> QED BY <2>2, <2>3
<1> QED BY <1>2, <1>3, <1>4

LEMMA NextInv ==
    ASSUME SelectorInv, [Next]_vars
    PROVE  SelectorInv'
<1>1. ASSUME NEW n \in Node, Fail(n) PROVE SelectorInv'
  BY <1>1, FailInv
<1>2. ASSUME NEW n \in Node, ComeBack(n) PROVE SelectorInv'
  BY <1>2, ComeBackInv
<1>3. CASE SelectorStep
  BY <1>3, ProbeInv, UnchangedInv, TruncateInv, FlushKeepsInv DEF SelectorStep
<1>4. CASE Kill \/ Start
  BY <1>4, KillInv, StartInv
<1>5. ASSUME NEW p \in Proposer, GetQuorum(p) PROVE SelectorInv'
  BY <1>5, GetQuorumInv
<1>6. CASE UNCHANGED vars
  BY <1>6 DEF vars, selectorVars, startVars, readVars, SelectorInv, TypeOK, SweepInv, FlushInv, CountBounds,
              FileIsLastCount, QuorumInv
<1> QED BY <1>1, <1>2, <1>3, <1>4, <1>5, <1>6 DEF Next

LEMMA Invariant == Spec => []SelectorInv
BY InitInv, NextInv, PTL DEF Spec

\* Every variable of the selector and the file keeps its type: heartbeat() never
\* counts more than there are nodes, whatever fails, comes back or restarts.
THEOREM TypeCorrect == Spec => []TypeOK
<1>1. SelectorInv => TypeOK
  BY DEF SelectorInv
<1> QED BY <1>1, Invariant, PTL

\* The count of heartbeat() lies between the nodes that were up all through the
\* sweep and those that were up at some time of it.
THEOREM CountIsBounded == Spec => []CountBounds
<1>1. SelectorInv => CountBounds
  BY DEF SelectorInv
<1> QED BY <1>1, Invariant, PTL

\* SYSTEM_buffer holds the count the selector compares the next one with, once
\* this selector has written one; before that the counts were 0, and the file is
\* what was found, whoever wrote it and even if it was killed while it did.
THEOREM FileHoldsLastCount == Spec => []FileIsLastCount
<1>1. SelectorInv => FileIsLastCount
  BY DEF SelectorInv
<1> QED BY <1>1, Invariant, PTL

\* Two sets of nodes that count for more than all of them have one in common.
LEMMA TwoSetsMeet ==
    ASSUME NEW S \in SUBSET Node, NEW P \in SUBSET S, NEW Q \in SUBSET S,
           Cardinality(P) + Cardinality(Q) > Cardinality(S)
    PROVE  P \cap Q # {}
<1>1. IsFiniteSet(P) /\ IsFiniteSet(Q) /\ IsFiniteSet(S) /\ P \cup Q \subseteq S
  BY NodesFinite
<1>2. /\ Cardinality(P) \in Nat /\ Cardinality(Q) \in Nat /\ Cardinality(S) \in Nat
      /\ Cardinality(P \cup Q) \in Nat
  BY <1>1, FS_CardinalityType, FS_Union
<1>3. Cardinality(P \cup Q) = Cardinality(P) + Cardinality(Q) - Cardinality(P \cap Q)
  BY <1>1, FS_Union
<1>4. Cardinality(P \cup Q) <= Cardinality(S)
  BY <1>1, FS_Subset
<1> SUFFICES ASSUME P \cap Q = {} PROVE FALSE
  OBVIOUS
<1>5. Cardinality(P \cap Q) = 0
  BY FS_EmptySet
<1> QED BY <1>2, <1>3, <1>4, <1>5

\* While nodes only fail, two quorums that get_quorum() computed from a count,
\* however long ago, cannot be gathered apart from each other among the nodes
\* that are up.
THEOREM LivingQuorumsMeet == Spec => []QuorumsMeet
<1>1. ASSUME SelectorInv PROVE QuorumsMeet
  <2> SUFFICES ASSUME ~ repaired, NEW p \in whole, NEW q \in whole,
                      NEW P \in SUBSET up, NEW Q \in SUBSET up,
                      Cardinality(P) >= quorum[p], Cardinality(Q) >= quorum[q]
               PROVE  P \cap Q # {}
    BY DEF QuorumsMeet
  <2>1. quorum[p] \in Int /\ quorum[q] \in Int /\ up \in SUBSET Node
    BY <1>1 DEF SelectorInv, TypeOK
  <2>2. 2 * quorum[p] > Cardinality(up) /\ 2 * quorum[q] > Cardinality(up)
    BY <1>1 DEF SelectorInv, QuorumInv
  <2>3. Cardinality(up) \in Nat /\ Cardinality(P) \in Nat /\ Cardinality(Q) \in Nat
    BY <2>1, NodesFinite
  <2>4. Cardinality(P) + Cardinality(Q) > Cardinality(up)
    BY <2>1, <2>2, <2>3
  <2> QED BY <2>1, <2>4, TwoSetsMeet
<1> QED BY <1>1, Invariant, PTL
=============================================================================
