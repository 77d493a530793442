---------------------------- MODULE CompileProofs ----------------------------
(***************************************************************************)
(* What holds of Compile for every program, every number of threads and    *)
(* every bound.                                                            *)
(***************************************************************************)
EXTENDS Compile, SequenceTheorems, TLAPS

(* Sequences used as a stack. *)

\* Popping a stack leaves a stack of the same elements' type.
LEMMA PopType ==
    ASSUME NEW S, NEW s \in Seq(S), s # <<>>
    PROVE  SubSeq(s, 1, Len(s) - 1) \in Seq(S)
<1>1. Len(s) \in Nat \ {0}
  BY EmptySeq, LenProperties
<1>2. \A i \in 1..(Len(s) - 1) : s[i] \in S
  BY <1>1, ElementOfSeq
<1> QED
  BY <1>1, <1>2, SubSeqProperties

\* ... one shorter, and unchanged below the top.
LEMMA PopElements ==
    ASSUME NEW S, NEW s \in Seq(S), s # <<>>
    PROVE  LET p == SubSeq(s, 1, Len(s) - 1)
           IN  /\ DOMAIN p = 1..(Len(s) - 1)
               /\ \A i \in DOMAIN p : p[i] = s[i]
               /\ p = <<>> <=> Len(s) = 1
<1>1. PICK n \in Nat : Len(s) = n + 1
  <2>1. Len(s) \in Nat \ {0}
    BY EmptySeq, LenProperties
  <2>2. Len(s) - 1 \in Nat /\ Len(s) = (Len(s) - 1) + 1
    BY <2>1
  <2> QED
    BY <2>2
<1>2. Len(s) - 1 = n
  BY <1>1
<1> DEFINE p == SubSeq(s, 1, n)
<1>3. p \in Seq(S)
  BY <1>2, PopType
<1>4. \A i \in 1..n : s[i] \in S
  BY <1>1, ElementOfSeq
<1>5. Len(p) = n
  <2>1. Len(p) = IF 1 <= n THEN n - 1 + 1 ELSE 0
    BY <1>4, SubSeqProperties
  <2> QED
    BY <2>1
<1>6. ASSUME NEW i \in 1..n PROVE p[i] = s[i]
  <2>1. i \in 1..(n - 1 + 1) /\ 1 + i - 1 = i
    OBVIOUS
  <2>2. p[i] = s[1 + i - 1]
    BY <1>4, <2>1, SubSeqProperties
  <2> QED
    BY <2>1, <2>2
<1> HIDE DEF p
<1>7. DOMAIN p = 1..n
  BY <1>3, <1>5, LenProperties
<1>8. p = <<>> <=> n = 0
  BY <1>3, <1>5, EmptySeq
<1>9. /\ DOMAIN p = 1..n
      /\ \A i \in DOMAIN p : p[i] = s[i]
      /\ p = <<>> <=> Len(s) = 1
  BY <1>1, <1>6, <1>7, <1>8
<1> QED
  BY <1>2, <1>9 DEF p

\* The element below the top is an element.
LEMMA BelowTop ==
    ASSUME NEW S, NEW s \in Seq(S), s # <<>>, Len(s) # 1
    PROVE  Len(s) - 1 \in 1..Len(s) /\ s[Len(s) - 1] \in S
<1>1. Len(s) \in Nat \ {0}
  BY EmptySeq
<1>2. Len(s) - 1 \in 1..Len(s)
  BY <1>1
<1> QED
  BY <1>2, ElementOfSeq

-----------------------------------------------------------------------------
(* Types, with what a thread's stage says of its call and its stack. *)

StageShape ==
    \A t \in Thread :
        /\ pc[t] \in {"hints", "fields", "landed"} <=> stack[t] # <<>>
        /\ pc[t] \in Compiling => build[t] \in Build
        /\ pc[t] # "idle" => handle[t] \in Handle
        /\ pc[t] = "reading" => at[t] \in Node

Typed == TypeOK /\ StageShape

\* The record under construction is a node of a class of the program.
LEMMA TopType ==
    ASSUME Typed, NEW t \in Thread, stack[t] # <<>>
    PROVE  /\ Len(stack[t]) \in Nat \ {0}
           /\ Top(t) \in Node
           /\ Top(t).class \in Class
           /\ plan[Top(t)] \in Seq(Node \cup {Leaf})
           /\ Fields[Top(t).class] \in Seq(Class \cup {Leaf, Bad})
<1>1. stack[t] \in Seq(Node)
  BY DEF Typed, TypeOK
<1>2. Len(stack[t]) \in Nat \ {0}
  BY <1>1, EmptySeq, LenProperties
<1>3. Top(t) \in Node
  BY <1>1, <1>2, ElementOfSeq DEF Top
<1> QED
  BY <1>2, <1>3, ConstantsAssumption DEF Typed, TypeOK, Node

\* A compilation and a class make a node.
LEMMA NodeType ==
    ASSUME Typed, NEW t \in Thread, NEW c \in Class, pc[t] \in Compiling
    PROVE  NodeOf(t, c) \in Node
BY DEF Typed, StageShape, NodeOf, Node

\* Resolving a field (the plan.append of _build_record) keeps the plans typed.
LEMMA ResolveType ==
    ASSUME Typed, NEW t \in Thread, AtField(t),
           NEW ref \in Node \cup {Leaf}, Resolve(t, ref)
    PROVE  plan' \in [Node -> Seq(Node \cup {Leaf})]
<1>1. stack[t] # <<>>
  BY DEF AtField, Typed, StageShape
<1>2. Append(plan[Top(t)], ref) \in Seq(Node \cup {Leaf})
  BY <1>1, TopType, AppendProperties
<1> QED
  BY <1>1, <1>2, TopType DEF Resolve, Typed, TypeOK

\* Entering a record keeps every variable typed.
LEMMA EnterType ==
    ASSUME Typed, NEW t \in Thread, NEW c \in Class, pc[t] \in {"root", "fields"},
           Enter(t, c)
    PROVE  Typed'
<1>1. NodeOf(t, c) \in Node
  BY NodeType DEF Compiling
<1>2. stack[t] \in Seq(Node)
  BY DEF Typed, TypeOK
<1>3. /\ Append(stack[t], NodeOf(t, c)) \in Seq(Node)
      /\ Append(stack[t], NodeOf(t, c)) # <<>>
  BY <1>1, <1>2, AppendProperties
<1>4. TypeOK'
  BY <1>1, <1>3 DEF Typed, TypeOK, Enter, Stage, callVars
<1>5. StageShape'
  BY <1>3 DEF Typed, TypeOK, StageShape, Enter, Compiling, callVars
<1> QED
  BY <1>4, <1>5 DEF Typed

\* An exception leaving a call keeps every variable typed.
LEMMA RaiseType ==
    ASSUME Typed, NEW t \in Thread, NEW what \in Outcome, Raise(t, what),
           UNCHANGED <<build, handle, at>>
    PROVE  /\ pc' \in [Thread -> Stage]
           /\ stack' \in [Thread -> Seq(Node)]
           /\ outcome' \in [Thread -> Outcome]
           /\ StageShape'
<1>1. <<>> \in Seq(Node)
  BY EmptySeq
<1> QED
  BY <1>1 DEF Typed, TypeOK, StageShape, Raise, Stage, Compiling

\* A handle that takes its decoder keeps every variable typed.
LEMMA HoldType ==
    ASSUME Typed, NEW t \in Thread, NEW n \in Node, Hold(t, n), pc[t] # "idle"
    PROVE  /\ read' \in [Handle -> Node \cup {None}]
           /\ at' \in [Thread -> Node \cup {None}]
           /\ pc' \in [Thread -> Stage]
           /\ at'[t] = n /\ pc'[t] = "reading"
           /\ \A u \in Thread \ {t} : at'[u] = at[u] /\ pc'[u] = pc[u]
BY DEF Typed, TypeOK, StageShape, Hold, Stage

\* Every variable keeps to its type, for every program and every schedule.
THEOREM InitTyped == Init => Typed
<1> SUFFICES ASSUME Init PROVE Typed
  OBVIOUS
<1>1. <<>> \in Seq(Node) /\ <<>> \in Seq(Node \cup {Leaf})
  BY EmptySeq
<1>2. TypeOK
  BY <1>1, ConstantsAssumption DEF Init, TypeOK, Stage, Outcome
<1>3. StageShape
  BY DEF Init, StageShape, Compiling
<1> QED
  BY <1>2, <1>3 DEF Typed

\* ... and no action breaks that.
THEOREM NextTyped == Typed /\ [Next]_vars => Typed'
<1> SUFFICES ASSUME Typed, [Next]_vars PROVE Typed'
  OBVIOUS
<1> USE DEF classVars, callVars
<1>1. ASSUME NEW t \in Thread, NEW h \in Handle, NEW depth \in 0..MaxDepth,
             CallCompiled(t, h, depth)
      PROVE  Typed'
  BY <1>1 DEF Typed, TypeOK, StageShape, CallCompiled, Stage, Compiling
<1>2. ASSUME NEW t \in Thread, NEW h \in Handle, NEW depth \in 0..MaxDepth,
             CallCompile(t, h, depth)
      PROVE  Typed'
  <2>1. builds + 1 \in 0..MaxBuilds /\ builds + 1 \in Build
    BY <1>2, ConstantsAssumption DEF CallCompile, Typed, TypeOK, Build
  <2>2. TypeOK'
    BY <1>2, <2>1 DEF Typed, TypeOK, CallCompile, Stage
  <2>3. StageShape'
    BY <1>2, <2>1 DEF Typed, TypeOK, StageShape, CallCompile, Compiling
  <2> QED
    BY <2>2, <2>3 DEF Typed
<1>3. ASSUME NEW t \in Thread, RootCached(t)
      PROVE  Typed'
  <2>1. handle[t] \in Handle /\ Asks[handle[t]] \in Class
    BY <1>3, ConstantsAssumption DEF RootCached, Typed, StageShape
  <2>2. slot[Asks[handle[t]]] \in Node
    BY <1>3, <2>1 DEF RootCached, Typed, TypeOK
  <2>3. Hold(t, slot[Asks[handle[t]]]) /\ pc[t] = "root"
    BY <1>3 DEF RootCached
  <2>4. TypeOK'
    BY <1>3, <2>2, <2>3, HoldType DEF RootCached, Typed, TypeOK
  <2>5. StageShape'
    BY SMTT(20), <1>3, <2>2, <2>3, HoldType DEF RootCached, Typed, TypeOK, StageShape, Compiling
  <2> QED
    BY <2>4, <2>5 DEF Typed
<1>4. ASSUME NEW t \in Thread, RootFresh(t)
      PROVE  Typed'
  <2>1. Asks[handle[t]] \in Class
    BY <1>4, ConstantsAssumption DEF RootFresh, Typed, StageShape
  <2> QED
    BY <1>4, <2>1, EnterType DEF RootFresh
<1>5. ASSUME NEW t \in Thread, HintsResolved(t)
      PROVE  Typed'
  BY <1>5 DEF Typed, TypeOK, StageShape, HintsResolved, Stage, Compiling
<1>6. ASSUME NEW t \in Thread, HintsUnresolved(t)
      PROVE  Typed'
  <2>1. failed' \in SUBSET Build
    BY <1>6 DEF HintsUnresolved, Typed, TypeOK, StageShape, Compiling
  <2>2. Raise(t, "name_error") /\ "name_error" \in Outcome
    BY <1>6 DEF HintsUnresolved, Outcome
  <2> QED
    BY <1>6, <2>1, <2>2, RaiseType DEF HintsUnresolved, Typed, TypeOK
<1>7. ASSUME NEW t \in Thread, FieldLeaf(t)
      PROVE  Typed'
  BY <1>7, ResolveType DEF FieldLeaf, Typed, TypeOK, StageShape
<1>8. ASSUME NEW t \in Thread, FieldBad(t)
      PROVE  Typed'
  <2>1. failed' \in SUBSET Build
    BY <1>8 DEF FieldBad, AtField, Typed, TypeOK, StageShape, Compiling
  <2>2. Raise(t, "shape_error") /\ "shape_error" \in Outcome
    BY <1>8 DEF FieldBad, Outcome
  <2> QED
    BY <1>8, <2>1, <2>2, RaiseType DEF FieldBad, Typed, TypeOK
<1>9. ASSUME NEW t \in Thread, FieldPending(t)
      PROVE  Typed'
  <2>1. NodeOf(t, Field(t)) \in Node
    BY <1>9, NodeType DEF FieldPending, AtField, Compiling
  <2> QED
    BY <1>9, <2>1, ResolveType DEF FieldPending, Typed, TypeOK, StageShape
<1>10. ASSUME NEW t \in Thread, FieldCached(t)
       PROVE  Typed'
  <2>1. slot[Field(t)] \in Node
    BY <1>10 DEF FieldCached, Typed, TypeOK
  <2> QED
    BY <1>10, <2>1, ResolveType DEF FieldCached, Typed, TypeOK, StageShape
<1>11. ASSUME NEW t \in Thread, FieldFresh(t)
       PROVE  Typed'
  BY <1>11, EnterType DEF FieldFresh, AtField
<1>12. ASSUME NEW t \in Thread, Land(t)
       PROVE  Typed'
  <2>1. Top(t) \in Node
    BY <1>12, TopType DEF Land, Typed, StageShape
  <2> QED
    BY <1>12, <2>1 DEF Land, Typed, TypeOK, StageShape, Stage, Compiling
<1>13. ASSUME NEW t \in Thread, Publish(t)
       PROVE  Typed'
  <2>1. stack[t] # <<>> /\ pc[t] = "landed"
    BY <1>13 DEF Publish, Typed, StageShape
  <2>2. Len(stack[t]) \in Nat \ {0} /\ Top(t) \in Node /\ Top(t).class \in Class
    BY <2>1, TopType
  <2>3. stack[t] \in Seq(Node)
    BY DEF Typed, TypeOK
  <2> DEFINE rest == SubSeq(stack[t], 1, Len(stack[t]) - 1)
  <2>4. rest \in Seq(Node)
    BY <2>1, <2>3, PopType
  <2>5. rest = <<>> <=> Len(stack[t]) = 1
    BY <2>1, <2>3, PopElements
  <2>6. slot' \in [Class -> Node \cup {None}] /\ stack' = [stack EXCEPT ![t] = rest]
    BY <1>13, <2>2 DEF Publish, Typed, TypeOK
  <2>7. stack' \in [Thread -> Seq(Node)]
    BY <2>4, <2>6 DEF Typed, TypeOK
  <2>8. CASE Len(stack[t]) = 1
    <3>1. Hold(t, Top(t)) /\ plan' = plan
      BY <1>13, <2>8 DEF Publish
    <3>2. TypeOK'
      BY <1>13, <2>1, <2>2, <2>6, <2>7, <3>1, HoldType DEF Publish, Typed, TypeOK
    <3>3. StageShape'
      BY SMTT(20), <1>13, <2>1, <2>2, <2>5, <2>6, <2>8, <3>1, HoldType
         DEF Publish, Typed, TypeOK, StageShape, Compiling
    <3> QED
      BY <3>2, <3>3 DEF Typed
  <2>9. CASE Len(stack[t]) # 1
    <3> DEFINE parent == stack[t][Len(stack[t]) - 1]
    <3>1. parent \in Node
      BY <2>1, <2>3, <2>9, BelowTop
    <3>2. Append(plan[parent], Top(t)) \in Seq(Node \cup {Leaf})
      BY <2>2, <3>1, AppendProperties DEF Typed, TypeOK
    <3>3. /\ plan' = [plan EXCEPT ![parent] = Append(plan[parent], Top(t))]
          /\ pc' = [pc EXCEPT ![t] = "fields"]
          /\ read' = read /\ at' = at
      BY <1>13, <2>9 DEF Publish
    <3>4. plan' \in [Node -> Seq(Node \cup {Leaf})]
      BY <3>1, <3>2, <3>3 DEF Typed, TypeOK
    <3>5. TypeOK'
      BY <1>13, <2>6, <2>7, <3>3, <3>4 DEF Publish, Typed, TypeOK, Stage
    <3>6. StageShape'
      BY <1>13, <2>1, <2>5, <2>6, <2>9, <3>3
         DEF Publish, Typed, TypeOK, StageShape, Compiling
    <3> QED
      BY <3>5, <3>6 DEF Typed
  <2> QED
    BY <2>8, <2>9
<1>14. ASSUME NEW t \in Thread, ReadNested(t)
       PROVE  Typed'
  <2>1. PICK i \in DOMAIN plan[at[t]] :
            /\ plan[at[t]][i] # Leaf
            /\ IF plan[at[t]][i] \in landed
                 THEN /\ at' = [at EXCEPT ![t] = plan[at[t]][i]]
                      /\ left' = [left EXCEPT ![t] = @ - 1]
                      /\ UNCHANGED <<pc, stack, outcome>>
                 ELSE Raise(t, "index_error") /\ UNCHANGED <<at, left>>
    BY <1>14 DEF ReadNested
  <2>2. CASE plan[at[t]][i] \in landed
    <3>1. plan[at[t]][i] \in Node
      BY <2>2 DEF Typed, TypeOK
    <3>2. left[t] - 1 \in 0..MaxDepth
      BY <1>14, ConstantsAssumption DEF ReadNested, Typed, TypeOK
    <3>3. /\ UNCHANGED <<unresolved, read, builds, failed, build, handle, classVars>>
          /\ UNCHANGED <<pc, stack, outcome>>
      BY <1>14, <2>1, <2>2 DEF ReadNested
    <3>4. at' \in [Thread -> Node \cup {None}] /\ left' \in [Thread -> 0..MaxDepth]
      BY <2>1, <2>2, <3>1, <3>2 DEF Typed, TypeOK
    <3>5. TypeOK'
      BY <3>3, <3>4 DEF Typed, TypeOK, classVars
    <3>6. at'[t] \in Node /\ \A u \in Thread \ {t} : at'[u] = at[u]
      BY <2>1, <2>2, <3>1 DEF Typed, TypeOK
    <3>7. StageShape'
      BY <3>3, <3>6 DEF Typed, StageShape
    <3> QED
      BY <3>5, <3>7 DEF Typed
  <2>3. CASE plan[at[t]][i] \notin landed
    <3>1. Raise(t, "index_error") /\ "index_error" \in Outcome /\ UNCHANGED <<at, left>>
      BY <2>1, <2>3 DEF Outcome
    <3> QED
      BY <1>14, <3>1, RaiseType DEF ReadNested, Typed, TypeOK
  <2> QED
    BY <2>2, <2>3
<1>15. ASSUME NEW t \in Thread, NEW what \in {"value", "mismatch"}, ReadEnds(t, what)
       PROVE  Typed'
  <2>1. Raise(t, what) /\ what \in Outcome
    BY <1>15 DEF ReadEnds, Outcome
  <2> QED
    BY <1>15, <2>1, RaiseType DEF ReadEnds, Typed, TypeOK
<1>16. ASSUME NEW c \in Class, Define(c)
       PROVE  Typed'
  BY <1>16 DEF Define, Typed, TypeOK, StageShape
<1>17. CASE UNCHANGED vars
  BY <1>17 DEF vars, Typed, TypeOK, StageShape
<1> QED
  BY <1>1, <1>2, <1>3, <1>4, <1>5, <1>6, <1>7, <1>8, <1>9, <1>10, <1>11, <1>12,
     <1>13, <1>14, <1>15, <1>16, <1>17 DEF Next, Call, Step

\* Every variable keeps to its type in every run.
THEOREM TypeCorrect == Spec => []TypeOK
<1>1. Typed => TypeOK
  BY DEF Typed
<1> QED
  BY <1>1, InitTyped, NextTyped, PTL DEF Spec

-----------------------------------------------------------------------------
(* Where every memo cell is, and what refers to it.                        *)
(*                                                                         *)
(* ReferencesAccounted is not inductive alone: that a forwarder leads to a *)
(* cell somebody answers for rests on every cell of a memo being landed,   *)
(* under construction or abandoned, and on a slot, a handle and a read     *)
(* never holding a node before it has landed.                              *)

CellsAccounted ==
    /\ landed \subseteq cells
    /\ \A n \in cells : \/ n \in landed
                        \/ \E t \in Thread : n \in Open(t)
                        \/ n.build \in failed
ReferencesAreCells ==
    \A n \in Node : \A i \in DOMAIN plan[n] : plan[n][i] = Leaf \/ plan[n][i] \in cells
StackOwned ==
    \A t \in Thread : \A n \in Open(t) : n \in cells /\ n.build = build[t]
HeldLanded ==
    /\ \A h \in Handle : read[h] # None => read[h] \in landed
    /\ \A t \in Thread : pc[t] = "reading" => at[t] \in landed
    /\ \A t \in Thread : pc[t] = "landed" => Top(t) \in landed

Accounted ==
    /\ Typed /\ CellsAccounted /\ ReferencesAreCells /\ StackOwned
    /\ HeldLanded /\ PublishedLanded

\* Pushing adds one element to what is on the stack.
LEMMA OpenAppend ==
    ASSUME NEW S, NEW s \in Seq(S), NEW e \in S
    PROVE  LET q == Append(s, e)
           IN  /\ {q[i] : i \in DOMAIN q} = {s[i] : i \in DOMAIN s} \cup {e}
               /\ q[Len(q)] = e
<1> DEFINE q == Append(s, e)
<1>1. /\ q \in Seq(S) /\ Len(q) = Len(s) + 1 /\ q[Len(s) + 1] = e
      /\ \A i \in 1..Len(s) : q[i] = s[i]
  BY AppendProperties
<1>2. Len(s) \in Nat /\ DOMAIN s = 1..Len(s) /\ DOMAIN q = 1..(Len(s) + 1)
  BY <1>1, LenProperties
<1> HIDE DEF q
<1>3. DOMAIN q = DOMAIN s \cup {Len(s) + 1}
  BY <1>2
<1> QED
  BY <1>1, <1>2, <1>3 DEF q

\* Popping takes at most the top away.
LEMMA OpenPop ==
    ASSUME NEW S, NEW s \in Seq(S), s # <<>>
    PROVE  LET p == SubSeq(s, 1, Len(s) - 1)
           IN  {s[i] : i \in DOMAIN s} = {p[i] : i \in DOMAIN p} \cup {s[Len(s)]}
<1> DEFINE p == SubSeq(s, 1, Len(s) - 1)
<1>1. DOMAIN p = 1..(Len(s) - 1) /\ \A i \in DOMAIN p : p[i] = s[i]
  BY PopElements
<1>2. Len(s) \in Nat \ {0} /\ DOMAIN s = 1..Len(s)
  BY EmptySeq, LenProperties
<1> HIDE DEF p
<1>3. DOMAIN s = DOMAIN p \cup {Len(s)}
  BY <1>1, <1>2
<1> QED
  BY <1>1, <1>3 DEF p

\* A new reference in the innermost plan leads to a cell: all that changes.
LEMMA ResolveAccounted ==
    ASSUME Accounted, Typed', NEW t \in Thread, AtField(t),
           NEW ref \in cells \cup {Leaf}, Resolve(t, ref),
           UNCHANGED <<slot, read, cells, landed, failed, pc, build, stack, at>>
    PROVE  Accounted'
<1>1. stack[t] # <<>> /\ Typed
  BY DEF AtField, Accounted, Typed, StageShape
<1>2. Top(t) \in Node /\ plan[Top(t)] \in Seq(Node \cup {Leaf})
  BY <1>1, TopType
<1>3. ref \in Node \cup {Leaf}
  BY DEF Accounted, Typed, TypeOK
<1>4. plan' = [plan EXCEPT ![Top(t)] = Append(plan[Top(t)], ref)] /\ plan \in [Node -> Seq(Node \cup {Leaf})]
  BY <1>1 DEF Resolve, Typed, TypeOK
<1>5. ReferencesAreCells'
  <2> SUFFICES ASSUME NEW n \in Node, NEW i \in DOMAIN plan'[n]
               PROVE  plan'[n][i] = Leaf \/ plan'[n][i] \in cells
    BY DEF ReferencesAreCells
  <2>1. CASE n = Top(t)
    <3>1. plan'[n] = Append(plan[n], ref)
      BY <1>4, <2>1
    <3>2. plan'[n][i] \in {plan[n][j] : j \in DOMAIN plan[n]} \cup {ref}
      BY <1>2, <1>3, <2>1, <3>1, OpenAppend
    <3> QED
      BY <3>2 DEF Accounted, ReferencesAreCells
  <2>2. CASE n # Top(t)
    BY <1>4, <2>2 DEF Accounted, ReferencesAreCells
  <2> QED
    BY <2>1, <2>2
<1>6. CellsAccounted' /\ StackOwned' /\ HeldLanded' /\ PublishedLanded'
  BY DEF Accounted, CellsAccounted, StackOwned, HeldLanded, PublishedLanded, Open, Top
<1> QED
  BY <1>5, <1>6 DEF Accounted

\* A record that is entered is under construction: its empty cell is accounted for.
LEMMA EnterAccounted ==
    ASSUME Accounted, Typed', NEW t \in Thread, NEW c \in Class,
           pc[t] \in {"root", "fields"}, Enter(t, c)
    PROVE  Accounted'
<1> DEFINE n == NodeOf(t, c)
<1>1. n \in Node /\ stack[t] \in Seq(Node) /\ n.build = build[t]
  BY NodeType DEF Accounted, Typed, TypeOK, Compiling, NodeOf
<1>2. /\ cells' = cells \cup {n}
      /\ stack' = [stack EXCEPT ![t] = Append(stack[t], n)]
      /\ pc' = [pc EXCEPT ![t] = "hints"]
      /\ UNCHANGED <<slot, read, landed, plan, failed, build, at>>
  BY DEF Enter, callVars
<1>3. Open(t)' = Open(t) \cup {n}
  <2> DEFINE q == Append(stack[t], n)
  <2>1. stack'[t] = q
    BY <1>2 DEF Accounted, Typed, TypeOK
  <2>2. {q[i] : i \in DOMAIN q} = {stack[t][i] : i \in DOMAIN stack[t]} \cup {n}
    BY <1>1, OpenAppend
  <2> HIDE DEF q, n
  <2> QED
    BY <2>1, <2>2 DEF Open
<1>4. \A u \in Thread \ {t} : Open(u)' = Open(u) /\ Top(u)' = Top(u) /\ pc'[u] = pc[u]
  BY <1>2 DEF Open, Top, Accounted, Typed, TypeOK
<1> HIDE DEF n
<1>5. CellsAccounted'
  BY <1>2, <1>3, <1>4 DEF Accounted, CellsAccounted
<1>6. StackOwned'
  BY <1>1, <1>2, <1>3, <1>4 DEF Accounted, StackOwned
<1>7. ReferencesAreCells' /\ PublishedLanded'
  BY <1>2 DEF Accounted, ReferencesAreCells, PublishedLanded
<1>8. HeldLanded'
  BY <1>2, <1>4 DEF Accounted, HeldLanded, Typed, TypeOK
<1> QED
  BY <1>5, <1>6, <1>7, <1>8 DEF Accounted

\* A call that ends: with its compilation unwound, or after a read, when there
\* is nothing on the stack to unwind.
LEMMA RaiseAccounted ==
    ASSUME Accounted, Typed', NEW t \in Thread, NEW what, Raise(t, what),
           failed \subseteq failed',
           stack[t] = <<>> \/ build[t] \in failed',
           UNCHANGED <<slot, read, cells, landed, plan, build, at>>
    PROVE  Accounted'
<1>1. /\ pc' = [pc EXCEPT ![t] = "idle"]
      /\ stack' = [stack EXCEPT ![t] = <<>>]
  BY DEF Raise
<1>2. Open(t)' = {}
  BY <1>1 DEF Open, Accounted, Typed, TypeOK
<1>3. \A n \in Open(t) : n.build \in failed'
  BY DEF Open, Accounted, StackOwned
<1>4. \A u \in Thread \ {t} : Open(u)' = Open(u) /\ Top(u)' = Top(u) /\ pc'[u] = pc[u]
  BY <1>1 DEF Open, Top, Accounted, Typed, TypeOK
<1>5. CellsAccounted'
  BY <1>2, <1>3, <1>4 DEF Accounted, CellsAccounted
<1>6. StackOwned' /\ ReferencesAreCells' /\ PublishedLanded'
  BY <1>2, <1>4 DEF Accounted, StackOwned, ReferencesAreCells, PublishedLanded
<1>7. HeldLanded'
  BY <1>1, <1>4 DEF Accounted, HeldLanded, Typed, TypeOK
<1> QED
  BY <1>5, <1>6, <1>7 DEF Accounted

\* Nothing is compiled at first.
LEMMA InitAccounted == Init => Accounted
<1> SUFFICES ASSUME Init PROVE Accounted
  OBVIOUS
<1>1. \A t \in Thread : Open(t) = {}
  BY DEF Init, Open
<1>2. \A n \in Node : DOMAIN plan[n] = {}
  BY DEF Init
<1> QED
  BY <1>1, <1>2, InitTyped
     DEF Init, Accounted, CellsAccounted, ReferencesAreCells, StackOwned,
         HeldLanded, PublishedLanded

\* No step of any thread leaves an empty cell that nothing accounts for.
LEMMA NextAccounted == Accounted /\ [Next]_vars => Accounted'
<1> SUFFICES ASSUME Accounted, [Next]_vars PROVE Accounted'
  OBVIOUS
<1>0. Typed /\ Typed'
  BY NextTyped DEF Accounted
<1> USE DEF classVars, callVars
<1>1. ASSUME NEW t \in Thread, NEW h \in Handle, NEW depth \in 0..MaxDepth,
             CallCompiled(t, h, depth)
      PROVE  Accounted'
  <2>1. /\ read[h] \in landed
        /\ at' = [at EXCEPT ![t] = read[h]] /\ pc' = [pc EXCEPT ![t] = "reading"]
        /\ UNCHANGED <<slot, read, cells, landed, plan, failed, build, stack>>
    BY <1>1 DEF CallCompiled, Accounted, HeldLanded
  <2>2. HeldLanded'
    BY <1>0, <2>1 DEF Accounted, HeldLanded, Top, Typed, TypeOK
  <2>3. CellsAccounted' /\ ReferencesAreCells' /\ StackOwned' /\ PublishedLanded'
    BY <2>1 DEF Accounted, CellsAccounted, ReferencesAreCells, StackOwned, PublishedLanded, Open
  <2> QED
    BY <1>0, <2>2, <2>3 DEF Accounted
<1>2. ASSUME NEW t \in Thread, NEW h \in Handle, NEW depth \in 0..MaxDepth,
             CallCompile(t, h, depth)
      PROVE  Accounted'
  <2>1. Open(t) = {}
    BY <1>0, <1>2 DEF CallCompile, Open, Typed, StageShape
  <2>2. /\ pc' = [pc EXCEPT ![t] = "root"]
        /\ \A u \in Thread \ {t} : build'[u] = build[u]
        /\ UNCHANGED <<slot, read, cells, landed, plan, failed, stack, at>>
    BY <1>0, <1>2 DEF CallCompile, Typed, TypeOK
  <2>3. StackOwned'
    BY <2>1, <2>2 DEF Accounted, StackOwned, Open
  <2>4. HeldLanded'
    BY <1>0, <2>2 DEF Accounted, HeldLanded, Top, Typed, TypeOK
  <2>5. CellsAccounted' /\ ReferencesAreCells' /\ PublishedLanded'
    BY <2>2 DEF Accounted, CellsAccounted, ReferencesAreCells, PublishedLanded, Open
  <2> QED
    BY <1>0, <2>3, <2>4, <2>5 DEF Accounted
<1>3. ASSUME NEW t \in Thread, RootCached(t)
      PROVE  Accounted'
  <2> DEFINE n == slot[Asks[handle[t]]]
  <2>1. n \in landed
    BY <1>0, <1>3, ConstantsAssumption
       DEF RootCached, Accounted, PublishedLanded, Typed, StageShape
  <2>2. /\ read' = [read EXCEPT ![handle[t]] = n]
        /\ at' = [at EXCEPT ![t] = n] /\ pc' = [pc EXCEPT ![t] = "reading"]
        /\ UNCHANGED <<slot, cells, landed, plan, failed, build, stack>>
    BY <1>3 DEF RootCached, Hold
  <2> HIDE DEF n
  <2>3. HeldLanded'
    BY <1>0, <2>1, <2>2 DEF Accounted, HeldLanded, Top, Typed, TypeOK
  <2>4. CellsAccounted' /\ ReferencesAreCells' /\ StackOwned' /\ PublishedLanded'
    BY <2>2 DEF Accounted, CellsAccounted, ReferencesAreCells, StackOwned, PublishedLanded, Open
  <2> QED
    BY <1>0, <2>3, <2>4 DEF Accounted
<1>4. ASSUME NEW t \in Thread, RootFresh(t)
      PROVE  Accounted'
  <2>1. Asks[handle[t]] \in Class
    BY <1>0, <1>4, ConstantsAssumption DEF RootFresh, Typed, StageShape
  <2> QED
    BY <1>0, <1>4, <2>1, EnterAccounted DEF RootFresh
<1>5. ASSUME NEW t \in Thread, HintsResolved(t)
      PROVE  Accounted'
  <2>1. /\ pc' = [pc EXCEPT ![t] = "fields"]
        /\ UNCHANGED <<slot, read, cells, landed, plan, failed, build, stack, at>>
    BY <1>5 DEF HintsResolved
  <2>2. HeldLanded'
    BY <1>0, <2>1 DEF Accounted, HeldLanded, Top, Typed, TypeOK
  <2>3. CellsAccounted' /\ ReferencesAreCells' /\ StackOwned' /\ PublishedLanded'
    BY <2>1 DEF Accounted, CellsAccounted, ReferencesAreCells, StackOwned, PublishedLanded, Open
  <2> QED
    BY <1>0, <2>2, <2>3 DEF Accounted
<1>6. ASSUME NEW t \in Thread, HintsUnresolved(t)
      PROVE  Accounted'
  BY <1>0, <1>6, RaiseAccounted DEF HintsUnresolved
<1>7. ASSUME NEW t \in Thread, FieldLeaf(t)
      PROVE  Accounted'
  BY <1>0, <1>7, ResolveAccounted DEF FieldLeaf
<1>8. ASSUME NEW t \in Thread, FieldBad(t)
      PROVE  Accounted'
  BY <1>0, <1>8, RaiseAccounted DEF FieldBad
<1>9. ASSUME NEW t \in Thread, FieldPending(t)
      PROVE  Accounted'
  BY <1>0, <1>9, ResolveAccounted DEF FieldPending
<1>10. ASSUME NEW t \in Thread, FieldCached(t)
       PROVE  Accounted'
  <2>1. slot[Field(t)] \in cells
    BY <1>10 DEF FieldCached, Accounted, PublishedLanded, CellsAccounted
  <2> QED
    BY <1>0, <1>10, <2>1, ResolveAccounted DEF FieldCached
<1>11. ASSUME NEW t \in Thread, FieldFresh(t)
       PROVE  Accounted'
  BY <1>0, <1>11, EnterAccounted DEF FieldFresh, AtField
<1>12. ASSUME NEW t \in Thread, Land(t)
       PROVE  Accounted'
  <2>1. Top(t) \in Open(t)
    <3>1. stack[t] # <<>> /\ stack[t] \in Seq(Node)
      BY <1>0, <1>12 DEF Land, Typed, TypeOK, StageShape
    <3>2. Len(stack[t]) \in DOMAIN stack[t]
      BY <3>1, EmptySeq, LenProperties
    <3> QED
      BY <3>2 DEF Open, Top
  <2>2. /\ landed' = landed \cup {Top(t)}
        /\ pc' = [pc EXCEPT ![t] = "landed"]
        /\ UNCHANGED <<slot, read, cells, plan, failed, build, stack, at>>
    BY <1>12 DEF Land
  <2>3. CellsAccounted'
    BY <2>1, <2>2 DEF Accounted, CellsAccounted, StackOwned, Open
  <2>4. HeldLanded'
    BY <1>0, <2>2 DEF Accounted, HeldLanded, Top, Typed, TypeOK
  <2>5. ReferencesAreCells' /\ StackOwned' /\ PublishedLanded'
    BY <2>2 DEF Accounted, ReferencesAreCells, StackOwned, PublishedLanded, Open
  <2> QED
    BY <1>0, <2>3, <2>4, <2>5 DEF Accounted
<1>13. ASSUME NEW t \in Thread, Publish(t)
       PROVE  Accounted'
  <2> DEFINE rest == SubSeq(stack[t], 1, Len(stack[t]) - 1)
  <2>1. stack[t] # <<>> /\ stack[t] \in Seq(Node) /\ pc[t] = "landed"
    BY <1>0, <1>13 DEF Publish, Typed, TypeOK, StageShape
  <2>2. Top(t) \in landed /\ Top(t) \in Node /\ Top(t).class \in Class
    BY <1>0, <2>1, TopType DEF Accounted, HeldLanded
  <2>3. /\ slot' = [slot EXCEPT ![Top(t).class] = Top(t)]
        /\ stack' = [stack EXCEPT ![t] = rest]
        /\ UNCHANGED <<cells, landed, failed, build>>
    BY <1>13 DEF Publish
  <2>4. Open(t) = Open(t)' \cup {Top(t)}
    <3>1. stack'[t] = rest
      BY <1>0, <2>3 DEF Typed, TypeOK
    <3>2. {stack[t][i] : i \in DOMAIN stack[t]} = {rest[i] : i \in DOMAIN rest} \cup {Top(t)}
      BY <2>1, OpenPop DEF Top
    <3> HIDE DEF rest
    <3> QED
      BY <3>1, <3>2 DEF Open
  <2>5. \A u \in Thread \ {t} : Open(u)' = Open(u) /\ Top(u)' = Top(u)
    BY <1>0, <2>3 DEF Open, Top, Typed, TypeOK
  <2> HIDE DEF rest
  <2>6. PublishedLanded'
    BY <1>0, <2>2, <2>3 DEF Accounted, PublishedLanded, Typed, TypeOK
  <2>7. CellsAccounted' /\ StackOwned'
    BY <2>2, <2>3, <2>4, <2>5 DEF Accounted, CellsAccounted, StackOwned
  <2>8. HeldLanded' /\ ReferencesAreCells'
    <3>1. CASE Len(stack[t]) = 1
      <4>1. Hold(t, Top(t)) /\ plan' = plan
        BY <1>13, <3>1 DEF Publish
      <4>2. HeldLanded'
        BY <1>0, <2>2, <2>3, <2>5, <4>1 DEF Hold, Accounted, HeldLanded, Typed, TypeOK
      <4> QED
        BY <2>3, <4>1, <4>2 DEF Accounted, ReferencesAreCells
    <3>2. CASE Len(stack[t]) # 1
      <4> DEFINE parent == stack[t][Len(stack[t]) - 1]
      <4>1. parent \in Node
        BY <2>1, <3>2, BelowTop
      <4>2. /\ plan' = [plan EXCEPT ![parent] = Append(plan[parent], Top(t))]
            /\ pc' = [pc EXCEPT ![t] = "fields"]
            /\ read' = read /\ at' = at
        BY <1>13, <3>2 DEF Publish
      <4>3. HeldLanded'
        BY SMTT(20), <1>0, <2>3, <2>5, <4>2 DEF Accounted, HeldLanded, Typed, TypeOK
      <4> HIDE DEF parent
      <4>4. ReferencesAreCells'
        <5> SUFFICES ASSUME NEW n \in Node, NEW i \in DOMAIN plan'[n]
                     PROVE  plan'[n][i] = Leaf \/ plan'[n][i] \in cells
          BY <2>3 DEF ReferencesAreCells
        <5>1. plan \in [Node -> Seq(Node \cup {Leaf})]
          BY <1>0 DEF Typed, TypeOK
        <5>2. CASE n = parent
          <6>1. plan'[n] = Append(plan[n], Top(t)) /\ plan[n] \in Seq(Node \cup {Leaf})
            BY <4>2, <5>1, <5>2
          <6>2. plan'[n][i] \in {plan[n][j] : j \in DOMAIN plan[n]} \cup {Top(t)}
            BY <2>2, <6>1, OpenAppend
          <6> QED
            BY <2>2, <6>2 DEF Accounted, ReferencesAreCells, CellsAccounted
        <5>3. CASE n # parent
          BY <4>2, <5>1, <5>3 DEF Accounted, ReferencesAreCells
        <5> QED
          BY <5>2, <5>3
      <4> QED
        BY <4>3, <4>4
    <3> QED
      BY <3>1, <3>2
  <2> QED
    BY <1>0, <2>6, <2>7, <2>8 DEF Accounted
<1>14. ASSUME NEW t \in Thread, ReadNested(t)
       PROVE  Accounted'
  <2>1. stack[t] = <<>>
    BY <1>0, <1>14 DEF ReadNested, Typed, StageShape
  <2>2. PICK i \in DOMAIN plan[at[t]] :
            IF plan[at[t]][i] \in landed
              THEN /\ at' = [at EXCEPT ![t] = plan[at[t]][i]]
                   /\ UNCHANGED <<pc, stack>>
              ELSE Raise(t, "index_error") /\ UNCHANGED at
    BY <1>14 DEF ReadNested
  <2>3. UNCHANGED <<slot, read, cells, landed, plan, failed, build>>
    BY <1>14 DEF ReadNested
  <2>4. CASE plan[at[t]][i] \in landed
    <3>1. HeldLanded'
      BY <1>0, <2>2, <2>3, <2>4 DEF Accounted, HeldLanded, Top, Typed, TypeOK
    <3>2. CellsAccounted' /\ ReferencesAreCells' /\ StackOwned' /\ PublishedLanded'
      BY <2>2, <2>3, <2>4
         DEF Accounted, CellsAccounted, ReferencesAreCells, StackOwned, PublishedLanded, Open
    <3> QED
      BY <1>0, <3>1, <3>2 DEF Accounted
  <2>5. CASE plan[at[t]][i] \notin landed
    BY <1>0, <2>1, <2>2, <2>3, <2>5, RaiseAccounted
  <2> QED
    BY <2>4, <2>5
<1>15. ASSUME NEW t \in Thread, NEW what \in {"value", "mismatch"}, ReadEnds(t, what)
       PROVE  Accounted'
  <2>1. stack[t] = <<>>
    BY <1>0, <1>15 DEF ReadEnds, Typed, StageShape
  <2> QED
    BY <1>0, <1>15, <2>1, RaiseAccounted DEF ReadEnds
<1>16. ASSUME NEW c \in Class, Define(c)
       PROVE  Accounted'
  BY <1>0, <1>16
     DEF Define, Accounted, CellsAccounted, ReferencesAreCells, StackOwned,
         HeldLanded, PublishedLanded, Open, Top
<1>17. CASE UNCHANGED vars
  BY <1>0, <1>17
     DEF vars, Accounted, CellsAccounted, ReferencesAreCells, StackOwned,
         HeldLanded, PublishedLanded, Open, Top
<1> QED
  BY <1>1, <1>2, <1>3, <1>4, <1>5, <1>6, <1>7, <1>8, <1>9, <1>10, <1>11, <1>12,
     <1>13, <1>14, <1>15, <1>16, <1>17 DEF Next, Call, Step

\* The decoder kept on a class is its own and complete in itself, whatever the
\* threads do and whichever compilations fail.
THEOREM SlotsComplete == Spec => []PublishedLanded
<1>1. Accounted => PublishedLanded
  BY DEF Accounted
<1> QED
  BY <1>1, InitAccounted, NextAccounted, PTL DEF Spec

\* A decoder can only forward into a compilation still going on or one that
\* failed: there is no third way to an empty cell.
THEOREM ReferencesAnswered == Spec => []ReferencesAccounted
<1>1. Accounted => ReferencesAccounted
  BY DEF Accounted, ReferencesAccounted, ReferencesAreCells, CellsAccounted
<1> QED
  BY <1>1, InitAccounted, NextAccounted, PTL DEF Spec

-----------------------------------------------------------------------------
(* One thread, and a program whose classes can all be analysed.            *)
(*                                                                         *)
(* Nothing is ever abandoned, and a thread that reads has nothing on its   *)
(* stack, so the two exceptions ReferencesAccounted allows are gone.       *)

AllSound ==
    /\ Unresolved = {}
    /\ \A c \in Class : \A i \in DOMAIN Fields[c] : Fields[c][i] # Bad

Untroubled == unresolved = {} /\ failed = {} /\ NoIndexError

\* With one thread and sound classes no compilation fails and no read meets an empty
\* cell: whatever a landed plan forwards to has landed by the time a read begins.
LEMMA NextUntroubled ==
    ASSUME NEW me, Thread = {me}, AllSound, Accounted, Untroubled, [Next]_vars
    PROVE  Untroubled'
<1>0. Typed
  BY DEF Accounted
<1> USE DEF classVars, callVars
<1>1. ASSUME NEW t \in Thread, HintsUnresolved(t) PROVE FALSE
  BY <1>1 DEF HintsUnresolved, Untroubled
<1>2. ASSUME NEW t \in Thread, FieldBad(t) PROVE FALSE
  <2>1. AtField(t) /\ Field(t) = Bad /\ stack[t] # <<>>
    BY <1>0, <1>2 DEF FieldBad, AtField, Typed, StageShape
  <2>2. /\ Top(t).class \in Class /\ plan[Top(t)] \in Seq(Node \cup {Leaf})
        /\ Fields[Top(t).class] \in Seq(Class \cup {Leaf, Bad})
    BY <1>0, <2>1, TopType
  <2>3. Len(plan[Top(t)]) + 1 \in DOMAIN Fields[Top(t).class]
    BY <2>1, <2>2, LenProperties DEF AtField
  <2> QED
    BY <2>1, <2>2, <2>3 DEF Field, AllSound
<1>3. ASSUME NEW t \in Thread, ReadNested(t) PROVE Untroubled'
  <2>1. /\ unresolved' = unresolved /\ failed' = failed
        /\ at[t] \in Node /\ pc[t] = "reading"
    BY <1>0, <1>3 DEF ReadNested, Typed, StageShape
  <2>2. PICK i \in DOMAIN plan[at[t]] :
            /\ plan[at[t]][i] # Leaf
            /\ plan[at[t]][i] \in landed => UNCHANGED outcome
    BY <1>3 DEF ReadNested
  <2>3. plan[at[t]][i] \in cells
    BY <2>1, <2>2 DEF Accounted, ReferencesAreCells
  <2>4. \A u \in Thread : Open(u) = {}
    BY <1>0, <2>1 DEF Open, Typed, StageShape
  <2>5. plan[at[t]][i] \in landed
    BY <2>3, <2>4 DEF Accounted, CellsAccounted, Untroubled
  <2> QED
    BY <2>1, <2>2, <2>5 DEF Untroubled, NoIndexError
<1>4. ASSUME NEW t \in Thread, NEW what \in {"value", "mismatch"}, ReadEnds(t, what)
      PROVE  Untroubled'
  BY <1>0, <1>4 DEF ReadEnds, Raise, Untroubled, NoIndexError, Typed, TypeOK
<1>5. ASSUME NEW c \in Class, Define(c) PROVE Untroubled'
  BY <1>5 DEF Define, Untroubled, NoIndexError
<1>6. ASSUME NEW t \in Thread, NEW h \in Handle, NEW depth \in 0..MaxDepth,
             CallCompiled(t, h, depth) \/ CallCompile(t, h, depth)
      PROVE  Untroubled'
  BY <1>6 DEF CallCompiled, CallCompile, Untroubled, NoIndexError
<1>7. ASSUME NEW t \in Thread,
             \/ RootCached(t) \/ RootFresh(t) \/ HintsResolved(t)
             \/ FieldLeaf(t) \/ FieldPending(t) \/ FieldCached(t) \/ FieldFresh(t)
             \/ Land(t) \/ Publish(t)
      PROVE  Untroubled'
  BY <1>7 DEF RootCached, RootFresh, HintsResolved, FieldLeaf, FieldPending,
              FieldCached, FieldFresh, Enter, Land, Publish, Untroubled, NoIndexError
<1>8. CASE UNCHANGED vars
  BY <1>8 DEF vars, Untroubled, NoIndexError
<1> QED
  BY <1>1, <1>2, <1>3, <1>4, <1>5, <1>6, <1>7, <1>8 DEF Next, Call, Step

\* With one thread and no class that fails, no read ever calls an empty cell,
\* however the classes name each other and in whatever order they are read.
THEOREM AloneNoIndexError ==
    ASSUME NEW me, Thread = {me}, AllSound
    PROVE  Spec => []NoIndexError
<1>1. Init => Untroubled
  BY DEF Init, AllSound, Untroubled, NoIndexError
<1>2. Accounted /\ Untroubled /\ [Next]_vars => (Accounted /\ Untroubled)'
  BY NextAccounted, NextUntroubled
<1>3. Accounted /\ Untroubled => NoIndexError
  BY DEF Untroubled
<1> QED
  BY <1>1, <1>2, <1>3, InitAccounted, PTL DEF Spec
=============================================================================
