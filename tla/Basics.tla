-------------------------------- MODULE Basics --------------------------------
(***************************************************************************)
(* What several proofs rest on: sequences used as stacks, that is what     *)
(* pushing, popping and replacing the top do to the elements, as the       *)
(* models keep their call stacks; and induction over the numbers.          *)
(***************************************************************************)
EXTENDS SequenceTheorems, WellFoundedInduction, TLAPS

\* A sequence of elements of whatever kind.
IsStack(s) == s \in Seq({s[i] : i \in DOMAIN s})

\* A sequence over some set is one over its own elements.
LEMMA SeqIsStack ==
    ASSUME NEW S, NEW s \in Seq(S)
    PROVE  IsStack(s)
<1>1. Len(s) \in Nat /\ s \in [1..Len(s) -> S] /\ DOMAIN s = 1..Len(s)
  BY LenProperties
<1>2. s \in [1..Len(s) -> {s[i] : i \in DOMAIN s}]
  BY <1>1
<1> QED
  BY <1>1, <1>2, SeqDef DEF IsStack

\* Its indices.
LEMMA StackIndices ==
    ASSUME NEW s, IsStack(s)
    PROVE  /\ Len(s) \in Nat /\ DOMAIN s = 1..Len(s)
           /\ s # <<>> <=> Len(s) > 0
<1> DEFINE S == {s[i] : i \in DOMAIN s}
<1>1. s \in Seq(S)
  BY DEF IsStack
<1> HIDE DEF S
<1> QED
  BY <1>1, EmptySeq, LenProperties

\* Pushing.
LEMMA StackPush ==
    ASSUME NEW s, IsStack(s), NEW e, NEW q, q = Append(s, e)
    PROVE  /\ IsStack(q) /\ q # <<>> /\ Len(q) = Len(s) + 1 /\ q[Len(q)] = e
           /\ \A i \in 1..Len(s) : q[i] = s[i]
<1> DEFINE S == {s[i] : i \in DOMAIN s} \cup {e}
<1>1. s \in Seq(S) /\ e \in S
  BY SeqMonotonic DEF IsStack
<1> HIDE DEF S
<1>2. /\ q \in Seq(S) /\ Len(q) = Len(s) + 1 /\ q[Len(s) + 1] = e
      /\ \A i \in 1..Len(s) : q[i] = s[i]
  BY <1>1, AppendProperties
<1>3. Len(s) \in Nat
  BY <1>1, LenProperties
<1>4. q # <<>>
  BY <1>2, <1>3, EmptySeq
<1> QED
  BY <1>2, <1>4, SeqIsStack

\* Replacing the top.
LEMMA StackReplace ==
    ASSUME NEW s, IsStack(s), s # <<>>, NEW e, NEW q, q = [s EXCEPT ![Len(s)] = e]
    PROVE  /\ IsStack(q) /\ q # <<>> /\ Len(q) = Len(s) /\ q[Len(q)] = e
           /\ \A i \in 1..Len(s) : i # Len(s) => q[i] = s[i]
<1> DEFINE S == {s[i] : i \in DOMAIN s} \cup {e}
<1>1. s \in Seq(S) /\ e \in S
  BY SeqMonotonic DEF IsStack
<1> HIDE DEF S
<1>2. Len(s) \in Nat \ {0} /\ Len(s) \in 1..Len(s)
  BY <1>1, EmptySeq
<1>3. /\ q \in Seq(S) /\ Len(q) = Len(s)
      /\ \A j \in 1..Len(s) : q[j] = IF j = Len(s) THEN e ELSE s[j]
  BY <1>1, <1>2, ExceptSeq
<1>4. q # <<>>
  BY <1>2, <1>3, EmptySeq
<1> QED
  BY <1>2, <1>3, <1>4, SeqIsStack

\* Popping.
LEMMA StackPop ==
    ASSUME NEW s, IsStack(s), s # <<>>, NEW q, q = SubSeq(s, 1, Len(s) - 1)
    PROVE  /\ IsStack(q) /\ Len(q) = Len(s) - 1
           /\ \A i \in 1..Len(q) : q[i] = s[i]
<1> DEFINE S == {s[i] : i \in DOMAIN s}
<1>1. s \in Seq(S)
  BY DEF IsStack
<1> HIDE DEF S
<1>2. Len(s) \in Nat \ {0}
  BY <1>1, EmptySeq
<1>3. PICK n \in Nat : Len(s) = n + 1
  <2>1. Len(s) - 1 \in Nat /\ Len(s) = (Len(s) - 1) + 1
    BY <1>2
  <2> QED
    BY <2>1
<1>4. \A i \in 1..n : s[i] \in S
  BY <1>1, <1>3, ElementOfSeq
<1>5. /\ q \in Seq(S) /\ Len(q) = (IF 1 <= n THEN n - 1 + 1 ELSE 0)
      /\ \A i \in 1..n - 1 + 1 : q[i] = s[1 + i - 1]
  <2>1. q = SubSeq(s, 1, n)
    BY <1>3
  <2> QED
    BY <1>4, <2>1, SubSeqProperties
<1>6. Len(q) = n /\ \A i \in 1..n : q[i] = s[i]
  BY <1>5
<1>7. IsStack(q)
  BY <1>5, SeqIsStack
<1>8. Len(s) - 1 = n
  BY <1>3
<1> QED
  BY <1>6, <1>7, <1>8

-----------------------------------------------------------------------------
(* Numbers *)

\* Whatever numbers there are, one of them is the least.
LEMMA Least ==
    ASSUME NEW T, T \subseteq Nat, T # {}
    PROVE  \E x \in T : \A y \in T : x <= y
<1> DEFINE R == {p \in Nat \X Nat : p[1] < p[2]}
<1>1. IsWellFoundedOn(R, Nat)
  BY NatLessThanWellFounded DEF OpToRel
<1>2. PICK x \in T : \A y \in T : <<y, x>> \notin R
  <2> HIDE DEF R
  <2> QED
    BY <1>1, WFMin
<1>3. \A y \in T : ~(y < x)
  BY <1>2
<1> QED
  BY <1>3

\* And where there is a bound, one is the greatest.
LEMMA Greatest ==
    ASSUME NEW T, T \subseteq Nat, T # {}, NEW n \in Nat, \A x \in T : x <= n
    PROVE  \E x \in T : \A y \in T : y <= x
<1> DEFINE D == {n - x : x \in T}
<1>1. D \subseteq Nat /\ D # {}
  <2>1. PICK x \in T : TRUE
    OBVIOUS
  <2>2. n - x \in D
    OBVIOUS
  <2>3. \A x_1 \in T : x_1 \in Nat /\ x_1 <= n
    OBVIOUS
  <2> QED
    BY <2>2, <2>3
<1>2. PICK d \in D : \A e \in D : d <= e
  <2> HIDE DEF D
  <2> QED
    BY <1>1, Least
<1>3. PICK x \in T : d = n - x
  OBVIOUS
<1>4. ASSUME NEW y \in T
      PROVE  y <= x
  <2>1. n - y \in D
    OBVIOUS
  <2>2. n - x <= n - y
    BY <1>2, <1>3, <2>1
  <2>3. x \in Nat /\ y \in Nat
    OBVIOUS
  <2> QED
    BY <2>2, <2>3
<1> QED
  BY <1>4

\* Induction, on the set of the numbers something is true of.
LEMMA Induct ==
    ASSUME NEW S, 0 \in S, \A n \in Nat : n \in S => n + 1 \in S
    PROVE  \A n \in Nat : n \in S
<1>1. SUFFICES ASSUME {n \in Nat : n \notin S} # {}
               PROVE  FALSE
  OBVIOUS
<1>2. PICK x \in {n \in Nat : n \notin S} : \A y \in {n \in Nat : n \notin S} : x <= y
  BY <1>1, Least
<1>3. x # 0 /\ x \in Nat /\ x \notin S
  BY <1>2
<1>4. x - 1 \in Nat /\ (x - 1) + 1 = x /\ ~(x <= x - 1)
  BY <1>3
<1>5. x - 1 \in S
  BY <1>2, <1>4
<1> QED
  BY <1>3, <1>4, <1>5
===============================================================================
