------------------------------- MODULE KeyVal -------------------------------
(***************************************************************************)
(* The key-value table of keyval.c.  A store is the pair of static arrays  *)
(* of the file: dict[key] holds the last value copied to a slot, flag[key] *)
(* says whether the slot is in use.  DELETE clears the flag and leaves the *)
(* old string in dict.  A key outside the table is refused by every        *)
(* operation.                                                              *)
(***************************************************************************)
EXTENDS Integers

CONSTANTS
    TableSize,   \* number of slots, 100000 in the code
    Value,       \* what clients store
    Blank,       \* content of a slot nothing was ever written to
    InvalidKey   \* the string "Invalid Key"

Slot == 0 .. TableSize - 1

Stores == [dict : [Slot -> Value \cup {Blank}], flag : [Slot -> BOOLEAN]]

\* The static arrays at start: nothing stored, flag[] all false.
EmptyStore == [dict |-> [k \in Slot |-> Blank], flag |-> [k \in Slot |-> FALSE]]

InRange(k) == k >= 0 /\ k < TableSize

Present(st, k) == InRange(k) /\ st.flag[k]

\* Mutant of PutOK: an existing key is overwritten.
PutAnyway(st, k) == InRange(k)

\* What PUT returns: an existing key is refused, never overwritten.
PutOK(st, k) == InRange(k) /\ ~ st.flag[k]

PUT(st, k, v) ==
    IF PutOK(st, k)
    THEN [dict |-> [st.dict EXCEPT ![k] = v], flag |-> [st.flag EXCEPT ![k] = TRUE]]
    ELSE st

\* Mutant of GET: answers the flag of the slot.
GETFlag(st, k) == IF Present(st, k) THEN st.flag[k] ELSE InvalidKey

GET(st, k) == IF Present(st, k) THEN st.dict[k] ELSE InvalidKey

\* What DELETE returns.
DeleteOK(st, k) == Present(st, k)

\* Mutant of DELETE: the slot is overwritten with the text of an empty one.
DELETEOverwrites(st, k) ==
    IF DeleteOK(st, k)
    THEN [dict |-> [st.dict EXCEPT ![k] = InvalidKey], flag |-> [st.flag EXCEPT ![k] = FALSE]]
    ELSE st

DELETE(st, k) ==
    IF DeleteOK(st, k)
    THEN [dict |-> st.dict, flag |-> [st.flag EXCEPT ![k] = FALSE]]
    ELSE st

\* The table after the function the servers call for op.
Apply(st, op, k, v) ==
    CASE op = "PUT"    -> PUT(st, k, v)
      [] op = "DELETE" -> DELETE(st, k)
      [] OTHER         -> st

\* What that function returns: true is "success", false "failure".
Reply(st, op, k) ==
    CASE op = "GET"    -> GET(st, k)
      [] op = "PUT"    -> IF PutOK(st, k) THEN "success" ELSE "failure"
      [] op = "DELETE" -> IF DeleteOK(st, k) THEN "success" ELSE "failure"
      [] OTHER         -> "ERROR"

Replies == Value \cup {Blank, InvalidKey, "success", "failure", "ERROR"}
=============================================================================
