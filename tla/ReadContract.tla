----------------------------- MODULE ReadContract -----------------------------
(***************************************************************************)
(* What `loads[Shape](text)` promises, whatever was read before and by     *)
(* whom: a shape all of whose classes can be analysed answers every        *)
(* document, with a value or with a mismatch at a path; a shape that       *)
(* reaches a class that cannot be is refused, with the error that class    *)
(* deserves. Nothing a caller can observe depends on the decoders kept on  *)
(* the classes.                                                            *)
(***************************************************************************)
EXTENDS Naturals, Sequences

CONSTANTS Thread, Class, Leaf, Bad, None, Fields, Unresolved

VARIABLES missing, asked, outcome

vars == <<missing, asked, outcome>>

\* The classes a shape over c names, directly or through their fields.
Closed(S) == \A d \in S : \A i \in DOMAIN Fields[d] :
                 Fields[d][i] \in Class => Fields[d][i] \in S
Reach(c) == {d \in Class : \A S \in SUBSET Class : c \in S /\ Closed(S) => d \in S}

HasBad(c) == \E d \in Reach(c) : \E i \in DOMAIN Fields[d] : Fields[d][i] = Bad
HasMissing(c) == Reach(c) \cap missing # {}

\* The answers a read at class c may give.
Answers(c) ==
    (IF HasBad(c) THEN {"shape_error"} ELSE {})
    \cup (IF HasMissing(c) THEN {"name_error"} ELSE {})
    \cup (IF HasBad(c) \/ HasMissing(c) THEN {} ELSE {"value", "mismatch"})

Init ==
    /\ missing = Unresolved
    /\ asked = [t \in Thread |-> None]
    /\ outcome = [t \in Thread |-> "none"]

Ask(t, c) ==
    /\ asked[t] = None
    /\ asked' = [asked EXCEPT ![t] = c]
    /\ UNCHANGED <<missing, outcome>>

Answer(t) ==
    /\ asked[t] # None
    /\ \E what \in Answers(asked[t]) : outcome' = [outcome EXCEPT ![t] = what]
    /\ asked' = [asked EXCEPT ![t] = None]
    /\ UNCHANGED missing

Define(c) ==
    /\ missing' = missing \ {c}
    /\ UNCHANGED <<asked, outcome>>

Next ==
    \/ \E t \in Thread : Answer(t) \/ \E c \in Class : Ask(t, c)
    \/ \E c \in Class : Define(c)

Spec == Init /\ [][Next]_vars
=============================================================================
