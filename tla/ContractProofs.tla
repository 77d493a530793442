---------------------------- MODULE ContractProofs ----------------------------
(***************************************************************************)
(* What one thread is promised, for every program and every bound: a class *)
(* is compiled to the end once, and a read is answered as ReadContract     *)
(* says.                                                                   *)
(***************************************************************************)
EXTENDS PlanProofs

\* No two threads.
Alone == \A t, u \in Thread : t = u

(* A class whose decoder is not kept yet has no finished one, but for the  *)
(* record that has just landed; and what is under construction is not kept.*)

Kept ==
    /\ \A t \in Thread : \A n \in Open(t) : slot[n.class] = None
    /\ \A n \in landed :
          slot[n.class] = n \/ \E t \in Thread : pc[t] = "landed" /\ n = Top(t)

\* Nothing is compiled at first.
LEMMA InitKept == Init => Kept
BY DEF Init, Kept, Open

\* With one thread no step finishes a class that has been finished before.
LEMMA NextKept ==
    ASSUME Alone, Ordered, Kept, [Next]_vars
    PROVE  Kept'
<1>0. Typed /\ Accounted /\ landed \subseteq Node
  BY DEF Ordered, Accounted, Typed, TypeOK
<1> USE DEF classVars, callVars
<1>1. ASSUME UNCHANGED <<slot, landed>>,
             \A u \in Thread : \/ stack'[u] = <<>> /\ pc[u] # "landed"
                               \/ stack'[u] = stack[u] /\ (pc[u] = "landed" => pc'[u] = "landed")
      PROVE  Kept'
  <2>1. \A u \in Thread : Open(u)' \subseteq Open(u)
    BY <1>1 DEF Open
  <2>2. \A u \in Thread : pc[u] = "landed" => pc'[u] = "landed" /\ Top(u)' = Top(u)
    BY <1>1 DEF Top
  <2> QED
    BY <1>1, <2>1, <2>2 DEF Kept
<1>2. ASSUME NEW t \in Thread, NEW c \in Class, pc[t] \in {"root", "fields"},
             slot[c] = None, Enter(t, c)
      PROVE  Kept'
  <2>1. NodeOf(t, c) \in Node /\ NodeOf(t, c).class = c
    BY <1>0, <1>2, NodeType DEF Compiling, NodeOf
  <2>2. \A u \in Thread : \A n \in Open(u)' : n \in Open(u) \/ n = NodeOf(t, c)
    BY <1>0, <1>2, <2>1, EnterOpen
  <2>3. UNCHANGED <<slot, landed>> /\ \A u \in Thread : pc[u] # "landed"
    BY <1>2 DEF Enter, Alone
  <2> QED
    BY <1>2, <2>1, <2>2, <2>3 DEF Kept
<1>3. ASSUME NEW t \in Thread, Land(t)
      PROVE  Kept'
  <2>1. /\ landed' = landed \cup {Top(t)} /\ pc'[t] = "landed" /\ Top(t)' = Top(t)
        /\ slot' = slot /\ stack' = stack /\ \A u \in Thread : pc[u] # "landed"
    BY <1>0, <1>3 DEF Land, Top, Typed, TypeOK, Alone
  <2> QED
    BY <2>1 DEF Kept, Open
<1>4. ASSUME NEW t \in Thread, Publish(t)
      PROVE  Kept'
  <2>1. /\ stack[t] # <<>> /\ Open(t) = Open(t)' \cup {Top(t)} /\ Top(t) \notin Open(t)'
        /\ Top(t) \in Open(t) /\ Top(t) \in Node /\ Top(t).class \in Class
    BY <1>0, <1>4, PublishOpen, PublishedGone, TopOpen
  <2>2. /\ slot' = [slot EXCEPT ![Top(t).class] = Top(t)]
        /\ landed' = landed /\ pc[t] = "landed"
    BY <1>4 DEF Publish
  <2>3. ASSUME NEW u \in Thread, NEW n \in Open(u)' PROVE slot'[n.class] = None
    <3>1. u = t /\ n \in Open(t) /\ n # Top(t)
      BY <2>1, <2>3 DEF Alone
    <3>2. n \in Node /\ n.build = Top(t).build
      BY <1>0, <2>1, <3>1 DEF Accounted, StackOwned, Typed, TypeOK
    <3>3. n.class # Top(t).class /\ n.class \in Class
      BY <2>1, <3>1, <3>2 DEF Node
    <3> QED
      BY <1>0, <2>2, <3>1, <3>3 DEF Kept, Typed, TypeOK
  <2>4. ASSUME NEW n \in landed, n # Top(t) PROVE slot'[n.class] = n
    <3>1. slot[n.class] = n /\ n \in Node
      BY <1>0, <2>4 DEF Kept, Alone
    <3>2. slot[Top(t).class] = None
      BY <2>1 DEF Kept
    <3>3. n.class # Top(t).class /\ n.class \in Class
      BY <3>1, <3>2, NoneAssumption DEF Node
    <3> QED
      BY <1>0, <2>2, <3>1, <3>3 DEF Typed, TypeOK
  <2>5. slot'[Top(t).class] = Top(t)
    BY <1>0, <2>1, <2>2 DEF Typed, TypeOK
  <2> QED
    BY <2>2, <2>3, <2>4, <2>5 DEF Kept
<1>5. ASSUME NEW t \in Thread, RootCached(t) \/ HintsResolved(t) PROVE Kept'
  BY <1>0, <1>1, <1>5 DEF RootCached, HintsResolved, Hold, Typed, TypeOK, Alone
<1>6. ASSUME NEW t \in Thread, RootFresh(t) PROVE Kept'
  <2>1. Asks[handle[t]] \in Class
    BY <1>0, <1>6, ConstantsAssumption DEF RootFresh, Typed, StageShape
  <2> QED
    BY <1>2, <1>6, <2>1 DEF RootFresh
<1>7. ASSUME NEW t \in Thread, HintsUnresolved(t) \/ FieldBad(t) PROVE Kept'
  <2>1. UNCHANGED <<slot, landed>> /\ stack'[t] = <<>> /\ pc[t] # "landed"
    BY <1>0, <1>7 DEF HintsUnresolved, FieldBad, AtField, Raise, Typed, TypeOK
  <2> QED
    BY <1>1, <2>1 DEF Alone
<1>8. ASSUME NEW t \in Thread, FieldLeaf(t) \/ FieldPending(t) \/ FieldCached(t) PROVE Kept'
  BY <1>1, <1>8 DEF FieldLeaf, FieldPending, FieldCached
<1>9. ASSUME NEW t \in Thread, FieldFresh(t) PROVE Kept'
  BY <1>2, <1>9 DEF FieldFresh, AtField
<1>10. ASSUME NEW t \in Thread,
              ReadNested(t) \/ \E what \in {"value", "mismatch"} : ReadEnds(t, what)
       PROVE  Kept'
  <2>1. /\ UNCHANGED <<slot, landed>> /\ pc[t] = "reading"
        /\ stack'[t] = stack[t] \/ stack'[t] = <<>>
    BY <1>0, <1>10 DEF ReadNested, ReadEnds, Raise, Typed, TypeOK
  <2> QED
    BY <1>1, <2>1 DEF Alone
<1>11. ASSUME NEW t \in Thread, Call(t) PROVE Kept'
  <2>1. UNCHANGED <<slot, landed, stack>> /\ pc[t] = "idle"
    BY <1>11 DEF Call, CallCompiled, CallCompile
  <2> QED
    BY <1>1, <2>1 DEF Alone
<1>12. ASSUME NEW c \in Class, Define(c) PROVE Kept'
  BY <1>1, <1>12 DEF Define
<1>13. CASE UNCHANGED vars
  BY <1>1, <1>13 DEF vars
<1> QED
  BY <1>3, <1>4, <1>5, <1>6, <1>7, <1>8, <1>9, <1>10, <1>11, <1>12, <1>13 DEF Next, Step

\* In a program of one thread a class is compiled to the end once in the life of
\* the process, through however many handles and failed attempts it is reached.
THEOREM CompiledToTheEndOnce ==
    ASSUME Alone
    PROVE  Spec => []CompiledOnce
<1>1. Ordered /\ Kept => CompiledOnce
  <2> SUFFICES ASSUME Ordered, Kept, NEW m \in landed, NEW n \in landed, m.class = n.class
               PROVE  m = n
    BY DEF CompiledOnce
  <2>1. Typed /\ m \in Node /\ n \in Node
    BY DEF Ordered, Accounted, Typed, TypeOK
  <2>2. \A t \in Thread : pc[t] = "landed" => slot[Top(t).class] = None
    BY <2>1, TopOpen DEF Kept, Typed, StageShape
  <2> QED
    BY <2>1, <2>2, NoneAssumption DEF Kept, Alone
<1>2. Ordered /\ Kept /\ [Next]_vars => (Ordered /\ Kept)'
  BY NextOrdered, NextKept
<1> QED
  BY <1>1, <1>2, InitOrdered, InitKept, PTL DEF Spec

-----------------------------------------------------------------------------
(* The classes a class reaches.                                            *)

Reach(c) == Contract!Reach(c)

\* A class reaches itself, what its fields name, and what those reach.
LEMMA ReachSelf ==
    ASSUME NEW c \in Class
    PROVE  c \in Reach(c)
BY DEF Reach, Contract!Reach

LEMMA ReachStep ==
    ASSUME NEW c \in Class, NEW d \in Reach(c),
           NEW i \in DOMAIN Fields[d], Fields[d][i] \in Class
    PROVE  Fields[d][i] \in Reach(c)
BY DEF Reach, Contract!Reach, Contract!Closed

LEMMA ReachOnwards ==
    ASSUME NEW c \in Class, NEW d \in Reach(c)
    PROVE  Reach(d) \subseteq Reach(c)
BY DEF Reach, Contract!Reach

\* ... and nothing outside a set that its fields do not lead out of.
LEMMA ReachWithin ==
    ASSUME NEW c \in Class, NEW S \in SUBSET Class, c \in S,
           \A d \in S : \A i \in DOMAIN Fields[d] : Fields[d][i] \in Class => Fields[d][i] \in S
    PROVE  Reach(c) \subseteq S
BY DEF Reach, Contract!Reach, Contract!Closed

-----------------------------------------------------------------------------
(* What a compilation has seen. A node outside the memo has no plan yet, a *)
(* compilation that goes on has not failed, each record on a stack is      *)
(* reached from those below it, and hints have been resolved for all but   *)
(* the innermost.                                                          *)

Attended ==
    /\ \A n \in Node \ cells : plan[n] = <<>>
    /\ \A b \in failed : b <= builds
    /\ \A t \in Thread : pc[t] \in Compiling => build[t] \notin failed

Lineage ==
    \A t \in Thread : \A j \in DOMAIN stack[t] :
        /\ \A i \in DOMAIN stack[t] : i <= j => stack[t][j].class \in Reach(stack[t][i].class)
        /\ stack[t][1].class = Asks[handle[t]]
Hinted ==
    /\ unresolved \subseteq Unresolved
    /\ \A n \in landed : n.class \notin unresolved
    /\ \A t \in Thread : \A i \in DOMAIN stack[t] :
          i # Len(stack[t]) \/ pc[t] # "hints" => stack[t][i].class \notin unresolved
Asked ==
    /\ \A h \in Handle : read[h] # None => read[h].class = Asks[h]
    /\ \A t \in Thread : pc[t] = "reading" => read[handle[t]] # None

Traced == Attended /\ Lineage /\ Hinted /\ Asked

\* A plan grows where a memo cell is.
LEMMA NextAttended ==
    ASSUME Ordered, Attended, [Next]_vars
    PROVE  Attended'
<1>0. /\ Typed /\ Accounted /\ builds \in Nat /\ \A t \in Thread : build[t] \in Nat
      /\ \A b \in failed : b \in Nat
  BY ConstantsAssumption DEF Ordered, Accounted, Typed, TypeOK, Build
<1> USE DEF classVars, callVars
<1>1. ASSUME UNCHANGED <<plan, cells, failed, builds, build>>,
             \A u \in Thread : pc'[u] \in Compiling => pc[u] \in Compiling
      PROVE  Attended'
  BY <1>1 DEF Attended
<1>2. ASSUME NEW t \in Thread, NEW c \in Class, pc[t] \in {"root", "fields"}, Enter(t, c)
      PROVE  Attended'
  BY <1>0, <1>2 DEF Enter, Attended, Compiling, Typed, TypeOK
<1>3. ASSUME NEW t \in Thread, stack[t] # <<>>, NEW n \in Open(t), NEW ref,
             plan' = [plan EXCEPT ![n] = Append(plan[n], ref)],
             UNCHANGED <<cells, failed, builds, build>>,
             \A u \in Thread : pc'[u] \in Compiling => pc[u] \in Compiling
      PROVE  Attended'
  <2>1. n \in cells
    BY <1>0 DEF Accounted, StackOwned
  <2> QED
    BY <1>0, <1>3, <2>1 DEF Attended, Typed, TypeOK
<1>4. ASSUME NEW t \in Thread, RootCached(t) \/ HintsResolved(t) \/ Land(t) PROVE Attended'
  BY <1>0, <1>1, <1>4
     DEF RootCached, HintsResolved, Land, Hold, Typed, TypeOK, Compiling
<1>5. ASSUME NEW t \in Thread, RootFresh(t) PROVE Attended'
  <2>1. Asks[handle[t]] \in Class
    BY <1>0, <1>5, ConstantsAssumption DEF RootFresh, Typed, StageShape
  <2> QED
    BY <1>2, <1>5, <2>1 DEF RootFresh
<1>6. ASSUME NEW t \in Thread, HintsUnresolved(t) \/ FieldBad(t) PROVE Attended'
  <2>1. /\ pc[t] \in Compiling /\ failed' = failed \cup {build[t]} /\ pc'[t] = "idle"
        /\ \A u \in Thread \ {t} : pc'[u] = pc[u]
        /\ UNCHANGED <<plan, cells, builds, build>>
    BY <1>0, <1>6
       DEF HintsUnresolved, FieldBad, AtField, Raise, Compiling, Typed, TypeOK
  <2>2. build[t] # 0
    BY <1>0, <2>1 DEF Typed, StageShape, Build
  <2>3. \A u \in Thread \ {t} : build[u] # build[t]
    BY <2>2 DEF Ordered, Owners
  <2>4. build[t] <= builds
    BY DEF Ordered, Owners
  <2> QED
    BY <2>1, <2>3, <2>4 DEF Attended, Compiling
<1>7. ASSUME NEW t \in Thread, FieldLeaf(t) \/ FieldPending(t) \/ FieldCached(t) PROVE Attended'
  <2>1. PICK ref : Resolve(t, ref)
    BY <1>7 DEF FieldLeaf, FieldPending, FieldCached
  <2>2. stack[t] # <<>>
    BY <1>0, <1>7 DEF FieldLeaf, FieldPending, FieldCached, AtField, Typed, StageShape
  <2>3. Top(t) \in Open(t) /\ Top(t) \in Node
    BY <1>0, <2>2, TopOpen
  <2>4. plan' = [plan EXCEPT ![Top(t)] = Append(plan[Top(t)], ref)]
    BY <2>1 DEF Resolve
  <2>5. UNCHANGED <<cells, failed, builds, build, pc>>
    BY <1>7 DEF FieldLeaf, FieldPending, FieldCached
  <2> QED
    BY <1>3, <2>2, <2>3, <2>4, <2>5
<1>8. ASSUME NEW t \in Thread, FieldFresh(t) PROVE Attended'
  BY <1>2, <1>8 DEF FieldFresh, AtField
<1>9. ASSUME NEW t \in Thread, Publish(t) PROVE Attended'
  <2>1. stack[t] # <<>> /\ stack[t] \in Seq(Node) /\ pc[t] \in Compiling
    BY <1>0, <1>9 DEF Publish, Typed, TypeOK, StageShape, Compiling
  <2>2. UNCHANGED <<cells, failed, builds, build>>
    BY <1>9 DEF Publish
  <2>3. \A u \in Thread : pc'[u] \in Compiling => pc[u] \in Compiling
    BY <1>0, <1>9, <2>1 DEF Publish, Hold, Typed, TypeOK
  <2>4. CASE Len(stack[t]) = 1
    BY <1>1, <1>9, <2>2, <2>3, <2>4 DEF Publish
  <2>5. CASE Len(stack[t]) # 1
    <3> DEFINE below == stack[t][Len(stack[t]) - 1]
    <3>1. below \in Open(t)
      BY <1>0, <2>1, <2>5, BelowTop, Sequences DEF Open
    <3>2. plan' = [plan EXCEPT ![below] = Append(plan[below], Top(t))]
      BY <1>9, <2>5 DEF Publish
    <3> HIDE DEF below
    <3> QED
      BY <1>3, <2>1, <2>2, <2>3, <3>1, <3>2
  <2> QED
    BY <2>4, <2>5
<1>10. ASSUME NEW t \in Thread,
              ReadNested(t) \/ \E what \in {"value", "mismatch"} : ReadEnds(t, what)
       PROVE  Attended'
  BY <1>0, <1>1, <1>10 DEF ReadNested, ReadEnds, Raise, Typed, TypeOK, Compiling
<1>11. ASSUME NEW t \in Thread, NEW h \in Handle, NEW depth \in 0..MaxDepth,
              CallCompiled(t, h, depth)
       PROVE  Attended'
  BY <1>0, <1>1, <1>11 DEF CallCompiled, Typed, TypeOK, Compiling
<1>12. ASSUME NEW t \in Thread, NEW h \in Handle, NEW depth \in 0..MaxDepth,
              CallCompile(t, h, depth)
       PROVE  Attended'
  <2>1. /\ UNCHANGED <<plan, cells, failed>> /\ builds' = builds + 1
        /\ build'[t] = builds + 1
        /\ \A u \in Thread \ {t} : build'[u] = build[u] /\ pc'[u] = pc[u]
    BY <1>0, <1>12 DEF CallCompile, Typed, TypeOK
  <2> QED
    BY <1>0, <2>1 DEF Attended
<1>13. ASSUME NEW c \in Class, Define(c) PROVE Attended'
  BY <1>1, <1>13 DEF Define
<1>14. CASE UNCHANGED vars
  BY <1>1, <1>14 DEF vars
<1> QED
  BY <1>4, <1>5, <1>6, <1>7, <1>8, <1>9, <1>10, <1>11, <1>12, <1>13, <1>14
     DEF Next, Call, Step

\* A record is entered for the class a handle asks for or a field names.
LEMMA EnterLineage ==
    ASSUME Ordered, Lineage, NEW t \in Thread, NEW c \in Class,
           \/ pc[t] = "root" /\ c = Asks[handle[t]]
           \/ AtField(t) /\ c = Field(t),
           Enter(t, c)
    PROVE  Lineage'
<1> DEFINE s == stack[t]
           n == NodeOf(t, c)
           q == Append(s, n)
<1>0. Typed /\ s \in Seq(Node) /\ n \in Node /\ n.class = c
  BY NodeType DEF Ordered, Accounted, Typed, TypeOK, Compiling, NodeOf, AtField
<1>1. /\ Len(s) \in Nat /\ DOMAIN s = 1..Len(s) /\ DOMAIN q = 1..(Len(s) + 1)
      /\ q[Len(s) + 1] = n /\ \A i \in 1..Len(s) : q[i] = s[i]
  <2>1. q \in Seq(Node) /\ Len(q) = Len(s) + 1
    BY <1>0, AppendProperties
  <2> QED
    BY <1>0, <2>1, AppendProperties, LenProperties
<1>2. /\ stack'[t] = q /\ handle' = handle
      /\ \A u \in Thread \ {t} : stack'[u] = stack[u]
  BY <1>0 DEF Enter, callVars, Typed, TypeOK
<1> HIDE DEF q
<1>3. c \in Reach(c)
  BY ReachSelf
<1>4. \A i \in DOMAIN s : c \in Reach(s[i].class)
  <2> SUFFICES ASSUME NEW i \in DOMAIN s PROVE c \in Reach(s[i].class)
    OBVIOUS
  <2>1. s # <<>> /\ pc[t] # "root"
    BY <1>0 DEF Typed, StageShape
  <2>2. AtField(t) /\ c = Field(t)
    BY <2>1
  <2>3. /\ Len(s) \in DOMAIN s /\ Top(t) = s[Len(s)] /\ i <= Len(s)
        /\ Top(t) \in Node /\ s[i].class \in Class
    BY <1>0, <1>1, <2>1, TopOnStack, TopType, Sequences
  <2>4. Top(t).class \in Reach(s[i].class)
    BY <2>3 DEF Lineage
  <2>5. Len(plan[Top(t)]) + 1 \in DOMAIN Fields[Top(t).class]
    BY <1>0, <2>2, <2>3, Sequences DEF AtField
  <2> QED
    BY <2>2, <2>3, <2>4, <2>5, ReachStep DEF Field
<1>5. \A j \in DOMAIN q : q[1].class = Asks[handle[t]]
  <2>1. CASE s = <<>>
    <3>1. pc[t] = "root"
      BY <1>0, <2>1 DEF Typed, StageShape, AtField
    <3> QED
      BY <1>0, <1>1, <2>1, <3>1 DEF AtField
  <2>2. CASE s # <<>>
    <3>1. 1 \in DOMAIN s
      BY <1>0, <1>1, <2>2, EmptySeq
    <3> QED
      BY <1>1, <3>1 DEF Lineage
  <2> QED
    BY <2>1, <2>2
<1>6. \A j \in DOMAIN q : \A i \in DOMAIN q : i <= j => q[j].class \in Reach(q[i].class)
  <2> SUFFICES ASSUME NEW j \in DOMAIN q, NEW i \in DOMAIN q, i <= j
               PROVE  q[j].class \in Reach(q[i].class)
    OBVIOUS
  <2>1. CASE j = Len(s) + 1 /\ i = Len(s) + 1
    BY <1>0, <1>1, <1>3, <2>1
  <2>2. CASE j = Len(s) + 1 /\ i # Len(s) + 1
    <3>1. i \in DOMAIN s /\ q[i] = s[i] /\ q[j].class = c
      BY <1>0, <1>1, <2>2
    <3> QED
      BY ONLY <1>4, <3>1
  <2>3. CASE j # Len(s) + 1
    <3>1. j \in DOMAIN s /\ i \in DOMAIN s
      BY <1>1, <2>3
    <3> QED
      BY <1>1, <3>1 DEF Lineage
  <2> QED
    BY <2>1, <2>2, <2>3
<1>7. ASSUME NEW u \in Thread, NEW j \in DOMAIN stack'[u]
      PROVE  /\ \A i \in DOMAIN stack'[u] :
                    i <= j => stack'[u][j].class \in Reach(stack'[u][i].class)
             /\ stack'[u][1].class = Asks[handle'[u]]
  <2>1. CASE u = t
    BY <1>2, <1>5, <1>6, <2>1
  <2>2. CASE u # t
    BY <1>2, <2>2 DEF Lineage
  <2> QED
    BY <2>1, <2>2
<1> QED
  BY <1>7 DEF Lineage, Reach, Contract!Reach

\* A shorter stack keeps its lineage.
LEMMA PrefixLineage ==
    ASSUME Lineage,
           \A u \in Thread :
               \/ stack'[u] = <<>>
               \/ /\ handle'[u] = handle[u] /\ DOMAIN stack'[u] \subseteq DOMAIN stack[u]
                  /\ \A i \in DOMAIN stack'[u] : stack'[u][i] = stack[u][i]
                  /\ \A i \in DOMAIN stack'[u] : 1 \in DOMAIN stack'[u]
    PROVE  Lineage'
<1>1. ASSUME NEW u \in Thread, NEW j \in DOMAIN stack'[u]
      PROVE  /\ \A i \in DOMAIN stack'[u] :
                    i <= j => stack'[u][j].class \in Reach(stack'[u][i].class)
             /\ stack'[u][1].class = Asks[handle'[u]]
  <2>1. stack'[u] # <<>>
    BY <1>1
  <2>2. /\ handle'[u] = handle[u] /\ DOMAIN stack'[u] \subseteq DOMAIN stack[u]
        /\ \A i \in DOMAIN stack'[u] : stack'[u][i] = stack[u][i]
        /\ 1 \in DOMAIN stack'[u]
    BY <1>1, <2>1
  <2> QED
    BY <1>1, <2>2 DEF Lineage
<1> QED
  BY <1>1 DEF Lineage, Reach, Contract!Reach

\* The stack that is left when a record is published.
LEMMA PublishStack ==
    ASSUME Typed, NEW t \in Thread, Publish(t)
    PROVE  /\ stack[t] # <<>> /\ pc[t] = "landed"
           /\ Len(stack[t]) \in Nat \ {0} /\ DOMAIN stack[t] = 1..Len(stack[t])
           /\ DOMAIN stack'[t] = 1..(Len(stack[t]) - 1)
           /\ \A i \in DOMAIN stack'[t] : stack'[t][i] = stack[t][i]
           /\ \A u \in Thread \ {t} : stack'[u] = stack[u]
<1>1. stack[t] # <<>> /\ stack[t] \in Seq(Node) /\ pc[t] = "landed"
  BY DEF Publish, Typed, TypeOK, StageShape
<1>2. /\ stack'[t] = SubSeq(stack[t], 1, Len(stack[t]) - 1)
      /\ \A u \in Thread \ {t} : stack'[u] = stack[u]
  BY DEF Publish, Typed, TypeOK
<1> QED
  BY <1>1, <1>2, PopElements, TopType, Sequences

\* What a compilation has seen, it has seen for good.
LEMMA NextTraced ==
    ASSUME Ordered, Traced, [Next]_vars
    PROVE  Traced'
<1>0. /\ Typed /\ Typed' /\ Accounted /\ Attended'
      /\ landed \subseteq Node /\ unresolved \subseteq Unresolved
  BY NextAttended, NextTyped DEF Traced, Hinted, Ordered, Accounted, Typed, TypeOK
<1> USE DEF classVars, callVars
<1>1. ASSUME UNCHANGED <<unresolved, landed, read>>,
             \A u \in Thread :
                \/ stack'[u] = <<>>
                \/ /\ stack'[u] = stack[u] /\ handle'[u] = handle[u]
                   /\ pc'[u] # "hints" => pc[u] # "hints",
             \A u \in Thread : pc'[u] = "reading" => read[handle'[u]] # None
      PROVE  Traced'
  <2>1. Lineage'
    <3>1. \A u \in Thread : \A i \in DOMAIN stack[u] : 1 \in DOMAIN stack[u]
      BY <1>0, Sequences
    <3> QED
      BY <1>1, <3>1, PrefixLineage DEF Traced
  <2>2. Hinted'
    <3> SUFFICES ASSUME NEW u \in Thread, NEW i \in DOMAIN stack'[u],
                        i # Len(stack'[u]) \/ pc'[u] # "hints"
                 PROVE  stack'[u][i].class \notin unresolved
      BY <1>1 DEF Traced, Hinted
    <3>1. stack'[u] # <<>>
      OBVIOUS
    <3> QED
      BY <1>1, <3>1 DEF Traced, Hinted
  <2>3. Asked'
    BY <1>1 DEF Traced, Asked
  <2> QED
    BY <1>0, <2>1, <2>2, <2>3 DEF Traced
<1>2. ASSUME NEW t \in Thread, NEW c \in Class,
             \/ pc[t] = "root" /\ c = Asks[handle[t]]
             \/ AtField(t) /\ c = Field(t),
             Enter(t, c)
      PROVE  Traced'
  <2>1. Lineage'
    BY <1>2, EnterLineage DEF Traced
  <2>2. /\ UNCHANGED <<unresolved, landed, read, handle>>
        /\ pc'[t] = "hints" /\ pc[t] # "hints"
        /\ \A u \in Thread \ {t} : stack'[u] = stack[u] /\ pc'[u] = pc[u]
    BY <1>0, <1>2 DEF Enter, AtField, Typed, TypeOK
  <2>3. /\ Len(stack'[t]) = Len(stack[t]) + 1 /\ DOMAIN stack'[t] = 1..(Len(stack[t]) + 1)
        /\ DOMAIN stack[t] = 1..Len(stack[t]) /\ Len(stack[t]) \in Nat
        /\ \A i \in DOMAIN stack[t] : stack'[t][i] = stack[t][i]
    <3>1. NodeOf(t, c) \in Node /\ stack[t] \in Seq(Node)
      BY <1>0, <1>2, NodeType DEF Compiling, AtField, Typed, TypeOK
    <3>2. stack'[t] = Append(stack[t], NodeOf(t, c))
      BY <1>0, <1>2 DEF Enter, Typed, TypeOK
    <3> QED
      BY <3>1, <3>2, AppendProperties, LenProperties
  <2>4. Hinted'
    <3> SUFFICES ASSUME NEW u \in Thread, NEW i \in DOMAIN stack'[u],
                        i # Len(stack'[u]) \/ pc'[u] # "hints"
                 PROVE  stack'[u][i].class \notin unresolved
      BY <2>2 DEF Traced, Hinted
    <3>1. CASE u = t
      <4>1. i \in DOMAIN stack[t]
        BY <2>2, <2>3, <3>1
      <4> QED
        BY <2>2, <2>3, <3>1, <4>1 DEF Traced, Hinted
    <3>2. CASE u # t
      BY <2>2, <3>2 DEF Traced, Hinted
    <3> QED
      BY <3>1, <3>2
  <2>5. Asked'
    BY <2>2 DEF Traced, Asked
  <2> QED
    BY <1>0, <2>1, <2>4, <2>5 DEF Traced
<1>3. ASSUME NEW t \in Thread, RootCached(t) PROVE Traced'
  <2> DEFINE c == Asks[handle[t]]
             n == slot[c]
  <2>1. handle[t] \in Handle /\ c \in Class
    BY <1>0, <1>3, ConstantsAssumption DEF RootCached, Typed, StageShape
  <2>2. n # None /\ n.class = c
    BY <1>0, <1>3, <2>1 DEF RootCached, Accounted, PublishedLanded
  <2>3. /\ UNCHANGED <<unresolved, landed, stack, handle>>
        /\ read' = [read EXCEPT ![handle[t]] = n]
        /\ pc' = [pc EXCEPT ![t] = "reading"] /\ pc[t] = "root"
    BY <1>3 DEF RootCached, Hold
  <2> HIDE DEF n
  <2>4. Asked'
    BY <1>0, <2>1, <2>2, <2>3 DEF Traced, Asked, Typed, TypeOK, StageShape
  <2>5. Lineage' /\ Hinted'
    BY <1>0, <2>3
       DEF Traced, Lineage, Hinted, Reach, Contract!Reach, Typed, TypeOK
  <2> QED
    BY <1>0, <2>4, <2>5 DEF Traced
<1>4. ASSUME NEW t \in Thread, RootFresh(t) PROVE Traced'
  <2>1. Asks[handle[t]] \in Class
    BY <1>0, <1>4, ConstantsAssumption DEF RootFresh, Typed, StageShape
  <2> QED
    BY <1>2, <1>4, <2>1 DEF RootFresh
<1>5. ASSUME NEW t \in Thread, HintsResolved(t) PROVE Traced'
  <2>1. /\ UNCHANGED <<unresolved, landed, read, stack, handle>>
        /\ pc' = [pc EXCEPT ![t] = "fields"] /\ pc[t] = "hints"
        /\ Top(t).class \notin unresolved
    BY <1>5 DEF HintsResolved
  <2>2. Hinted'
    <3> SUFFICES ASSUME NEW u \in Thread, NEW i \in DOMAIN stack[u],
                        i # Len(stack[u]) \/ pc'[u] # "hints"
                 PROVE  stack[u][i].class \notin unresolved
      BY <2>1 DEF Traced, Hinted
    <3>1. CASE u = t /\ i = Len(stack[u])
      BY <2>1, <3>1 DEF Top
    <3>2. CASE u # t \/ i # Len(stack[u])
      BY <1>0, <2>1, <3>2 DEF Traced, Hinted, Typed, TypeOK
    <3> QED
      BY <3>1, <3>2
  <2>3. Lineage' /\ Asked'
    BY <1>0, <2>1 DEF Traced, Lineage, Asked, Reach, Contract!Reach, Typed, TypeOK
  <2> QED
    BY <1>0, <2>2, <2>3 DEF Traced
<1>6. ASSUME NEW t \in Thread, HintsUnresolved(t) \/ FieldBad(t) PROVE Traced'
  <2>1. /\ UNCHANGED <<unresolved, landed, read, handle>>
        /\ stack' = [stack EXCEPT ![t] = <<>>] /\ pc' = [pc EXCEPT ![t] = "idle"]
    BY <1>6 DEF HintsUnresolved, FieldBad, Raise
  <2> QED
    BY <1>0, <1>1, <2>1 DEF Traced, Asked, Typed, TypeOK
<1>7. ASSUME NEW t \in Thread, FieldLeaf(t) \/ FieldPending(t) \/ FieldCached(t) PROVE Traced'
  <2>1. UNCHANGED <<unresolved, landed, read, stack, handle, pc>>
    BY <1>7 DEF FieldLeaf, FieldPending, FieldCached
  <2> QED
    BY <1>1, <2>1 DEF Traced, Asked
<1>8. ASSUME NEW t \in Thread, FieldFresh(t) PROVE Traced'
  BY <1>2, <1>8 DEF FieldFresh
<1>9. ASSUME NEW t \in Thread, Land(t) PROVE Traced'
  <2>1. /\ UNCHANGED <<unresolved, read, stack, handle>>
        /\ landed' = landed \cup {Top(t)}
        /\ pc' = [pc EXCEPT ![t] = "landed"] /\ pc[t] = "fields"
    BY <1>9 DEF Land
  <2>2. stack[t] # <<>>
    BY <1>0, <2>1 DEF Typed, StageShape
  <2>3. Top(t).class \notin unresolved
    BY <1>0, <2>1, <2>2, TopOnStack DEF Traced, Hinted
  <2>4. Hinted'
    BY <1>0, <2>1, <2>3 DEF Traced, Hinted, Typed, TypeOK
  <2>5. Lineage' /\ Asked'
    BY <1>0, <2>1 DEF Traced, Lineage, Asked, Reach, Contract!Reach, Typed, TypeOK
  <2> QED
    BY <1>0, <2>4, <2>5 DEF Traced
<1>10. ASSUME NEW t \in Thread, Publish(t) PROVE Traced'
  <2>1. /\ stack[t] # <<>> /\ pc[t] = "landed"
        /\ Len(stack[t]) \in Nat \ {0} /\ DOMAIN stack[t] = 1..Len(stack[t])
        /\ DOMAIN stack'[t] = 1..(Len(stack[t]) - 1)
        /\ \A i \in DOMAIN stack'[t] : stack'[t][i] = stack[t][i]
        /\ \A u \in Thread \ {t} : stack'[u] = stack[u]
    BY <1>0, <1>10, PublishStack
  <2>2. UNCHANGED <<unresolved, landed, handle>>
    BY <1>10 DEF Publish
  <2>3. Lineage'
    <3>1. \A u \in Thread : \A i \in DOMAIN stack[u] : 1 \in DOMAIN stack[u]
      BY <1>0, Sequences
    <3>2. /\ DOMAIN stack'[t] \subseteq DOMAIN stack[t]
          /\ \A i \in DOMAIN stack'[t] : 1 \in DOMAIN stack'[t]
      BY <2>1
    <3> QED
      BY <2>1, <2>2, <3>1, <3>2, PrefixLineage DEF Traced
  <2>4. Hinted'
    <3>1. \A u \in Thread \ {t} : pc'[u] = pc[u]
      BY <1>0, <1>10 DEF Publish, Hold, Typed, TypeOK
    <3>2. \A i \in DOMAIN stack'[t] : stack'[t][i].class \notin unresolved
      BY <2>1 DEF Traced, Hinted
    <3> QED
      BY <2>1, <2>2, <3>1, <3>2 DEF Traced, Hinted
  <2>5. Asked'
    <3>1. CASE Len(stack[t]) = 1
      <4>1. /\ read' = [read EXCEPT ![handle[t]] = Top(t)]
            /\ pc' = [pc EXCEPT ![t] = "reading"]
        BY <1>10, <3>1 DEF Publish, Hold
      <4>2. Top(t) # None
        BY <1>0, <2>1, TopType, NoneAssumption
      <4>3. Top(t).class = Asks[handle[t]]
        BY <2>1, <3>1 DEF Traced, Lineage, Top
      <4>4. handle[t] \in Handle
        BY <1>0, <2>1 DEF Typed, StageShape
      <4> QED
        BY <1>0, <2>2, <4>1, <4>2, <4>3, <4>4
           DEF Traced, Asked, Typed, TypeOK, StageShape
    <3>2. CASE Len(stack[t]) # 1
      BY <1>0, <1>10, <2>2, <3>2 DEF Publish, Traced, Asked, Typed, TypeOK
    <3> QED
      BY <3>1, <3>2
  <2> QED
    BY <1>0, <2>3, <2>4, <2>5 DEF Traced
<1>11. ASSUME NEW t \in Thread,
              ReadNested(t) \/ \E what \in {"value", "mismatch"} : ReadEnds(t, what)
       PROVE  Traced'
  <2>1. /\ UNCHANGED <<unresolved, landed, read, handle>> /\ pc[t] = "reading"
        /\ \/ UNCHANGED <<stack, pc>>
           \/ /\ stack' = [stack EXCEPT ![t] = <<>>]
              /\ pc' = [pc EXCEPT ![t] = "idle"]
    BY <1>11 DEF ReadNested, ReadEnds, Raise
  <2>2. \A u \in Thread : pc'[u] = "reading" => read[handle[u]] # None
    BY <1>0, <2>1 DEF Traced, Asked, Typed, TypeOK
  <2>3. \A u \in Thread : \/ stack'[u] = <<>>
                          \/ stack'[u] = stack[u] /\ pc'[u] = pc[u]
    BY <1>0, <2>1 DEF Typed, TypeOK
  <2> QED
    BY <1>1, <2>1, <2>2, <2>3
<1>12. ASSUME NEW t \in Thread, NEW h \in Handle, NEW depth \in 0..MaxDepth,
              CallCompiled(t, h, depth) \/ CallCompile(t, h, depth)
       PROVE  Traced'
  <2>1. /\ UNCHANGED <<unresolved, landed, read, stack>> /\ pc[t] = "idle"
        /\ handle' = [handle EXCEPT ![t] = h]
        /\ pc'[t] \in {"reading", "root"} /\ (pc'[t] = "reading" => read[h] # None)
        /\ \A u \in Thread \ {t} : pc'[u] = pc[u]
    BY <1>0, <1>12 DEF CallCompiled, CallCompile, Typed, TypeOK
  <2>2. stack'[t] = <<>>
    BY <1>0, <2>1 DEF Typed, StageShape
  <2>3. \A u \in Thread : pc'[u] = "reading" => read[handle'[u]] # None
    BY <1>0, <2>1 DEF Traced, Asked, Typed, TypeOK
  <2>4. \A u \in Thread : \/ stack'[u] = <<>>
                          \/ /\ stack'[u] = stack[u] /\ handle'[u] = handle[u]
                             /\ pc'[u] = pc[u]
    BY <1>0, <2>1, <2>2 DEF Typed, TypeOK
  <2> QED
    BY <1>1, <2>1, <2>3, <2>4
<1>13. ASSUME NEW c \in Class, Define(c) PROVE Traced'
  <2>1. unresolved' \subseteq unresolved /\ UNCHANGED <<landed, read, stack, handle, pc>>
    BY <1>13 DEF Define
  <2>2. Lineage' /\ Asked' /\ Hinted'
    BY <2>1 DEF Traced, Lineage, Asked, Hinted, Reach, Contract!Reach
  <2> QED
    BY <1>0, <2>2 DEF Traced
<1>14. CASE UNCHANGED vars
  <2>1. Lineage' /\ Asked' /\ Hinted'
    BY <1>14 DEF vars, Traced, Lineage, Asked, Hinted, Reach, Contract!Reach
  <2> QED
    BY <1>0, <2>1 DEF Traced
<1> QED
  BY <1>3, <1>4, <1>5, <1>6, <1>7, <1>8, <1>9, <1>10, <1>11, <1>12, <1>13, <1>14
     DEF Next, Call, Step

\* Nothing has been seen at first.
LEMMA InitTraced == Init => Traced
<1> SUFFICES ASSUME Init PROVE Traced
  OBVIOUS
<1>1. Attended
  BY DEF Init, Attended, Compiling
<1>2. Lineage /\ Hinted /\ Asked
  BY DEF Init, Lineage, Hinted, Asked
<1> QED
  BY <1>1, <1>2 DEF Traced

-----------------------------------------------------------------------------
(* One thread, and no class that fails on a cycle.                         *)
(*                                                                         *)
(* A finished decoder forwards into a record under construction only when  *)
(* the two are on a cycle, and then nothing above that record can fail; so *)
(* when an exception drops a stack, no finished decoder leads into it.     *)

\* No class on a cycle reaches a class that has a field analyse refuses or an
\* annotation that names nothing.
FailuresOffCycles ==
    \A c, d \in Class :
        (\E i \in DOMAIN Fields[c] : Fields[c][i] = d) /\ c \in Reach(d) =>
            \A e \in Reach(d) :
                /\ e \notin Unresolved
                /\ \A i \in DOMAIN Fields[e] : Fields[e][i] # Bad

Settled ==
    /\ \A n \in landed : \A i \in DOMAIN plan[n] :
          \/ plan[n][i] = Leaf
          \/ plan[n][i] \in landed
          \/ \E t \in Thread : plan[n][i] \in Open(t) /\ n.class \in Reach(plan[n][i].class)
    /\ \A t \in Thread : \A n \in Open(t) : \A i \in DOMAIN plan[n] :
          plan[n][i] = Leaf \/ plan[n][i] \in landed \/ plan[n][i] \in Open(t)

\* A compilation fails at a class that no finished decoder leads into.
LEMMA FailureOffCycles ==
    ASSUME FailuresOffCycles, Ordered, Traced, Settled, NEW t \in Thread, stack[t] # <<>>,
           \/ Top(t).class \in unresolved
           \/ \E i \in DOMAIN Fields[Top(t).class] : Fields[Top(t).class][i] = Bad,
           NEW n \in landed, NEW i \in DOMAIN plan[n], plan[n][i] \in Open(t),
           n.class \in Reach(plan[n][i].class)
    PROVE  FALSE
<1> DEFINE m == plan[n][i]
<1>0. Typed /\ n \in Node /\ stack[t] \in Seq(Node)
  BY DEF Ordered, Accounted, Typed, TypeOK
<1>1. PICK k \in DOMAIN stack[t] : m = stack[t][k]
  BY DEF Open
<1>2. m \in Node /\ m.class \in Class /\ n.class \in Class
  BY <1>0, <1>1, Sequences DEF Node
<1>3. k <= Len(stack[t]) /\ Len(stack[t]) \in DOMAIN stack[t] /\ Top(t) = stack[t][Len(stack[t])]
  BY <1>0, TopOnStack, Sequences
<1>4. Top(t).class \in Reach(m.class)
  BY <1>1, <1>3 DEF Traced, Lineage
<1>5. Fields[n.class][i] = m.class
  BY <1>0, <1>2, NoneAssumption DEF Ordered, PlanMatches, Suits
<1>6. i \in DOMAIN Fields[n.class]
  <2>1. i \in 1..Len(plan[n]) /\ Len(plan[n]) <= Len(Fields[n.class])
        /\ Len(plan[n]) \in Nat /\ Len(Fields[n.class]) \in Nat
        /\ DOMAIN Fields[n.class] = 1..Len(Fields[n.class])
    BY <1>0, <1>2, Sequences DEF Ordered, PlanMatches
  <2> QED
    BY <2>1
<1> HIDE DEF m
<1>7. /\ Top(t).class \notin Unresolved
      /\ \A j \in DOMAIN Fields[Top(t).class] : Fields[Top(t).class][j] # Bad
  BY <1>2, <1>4, <1>5, <1>6 DEF FailuresOffCycles, m
<1> QED
  BY <1>7 DEF Traced, Hinted

\* No step leaves a finished decoder forwarding into a stack that was dropped.
LEMMA NextSettledDown ==
    ASSUME Alone, FailuresOffCycles, Ordered, Traced, Settled, [Next]_vars
    PROVE  Settled'
<1>0. /\ Typed /\ Typed' /\ Accounted /\ landed \subseteq Node
      /\ plan \in [Node -> Seq(Node \cup {Leaf})]
  BY NextTyped DEF Ordered, Accounted, Typed, TypeOK
<1> USE DEF classVars, callVars
<1>1. ASSUME UNCHANGED <<plan, landed, stack>>
      PROVE  Settled'
  BY <1>1 DEF Settled, Open, Reach, Contract!Reach
<1>2. ASSUME NEW t \in Thread, UNCHANGED <<plan, landed>>, stack'[t] = <<>>,
             \A n \in landed : \A i \in DOMAIN plan[n] :
                 plan[n][i] \in Open(t) => n.class \notin Reach(plan[n][i].class)
      PROVE  Settled'
  <2>1. \A u \in Thread : Open(u)' = {}
    BY <1>2 DEF Alone, Open
  <2> QED
    BY <1>2, <2>1 DEF Settled, Alone
<1>3. ASSUME NEW t \in Thread, NEW c \in Class, pc[t] \in {"root", "fields"},
             NodeOf(t, c) \notin cells, Enter(t, c)
      PROVE  Settled'
  <2>1. NodeOf(t, c) \in Node
    BY <1>0, <1>3, NodeType DEF Compiling
  <2>2. Open(t)' = Open(t) \cup {NodeOf(t, c)} /\ UNCHANGED <<plan, landed>>
    BY <1>0, <1>3, <2>1, EnterOpen DEF Enter
  <2>3. plan[NodeOf(t, c)] = <<>>
    BY <1>3, <2>1 DEF Traced, Attended
  <2>4. \A u \in Thread : u = t
    BY DEF Alone
  <2> HIDE DEF NodeOf
  <2> QED
    BY <2>2, <2>3, <2>4 DEF Settled, Reach, Contract!Reach
<1>3a. ASSUME UNCHANGED <<plan, landed>>,
              \A u \in Thread : Open(u)' \subseteq Open(u)
                 /\ \A m \in Open(u) : m \in landed \/ m \in Open(u)'
       PROVE  Settled'
  <2>1. ASSUME NEW m \in landed, NEW i \in DOMAIN plan[m]
        PROVE  \/ plan[m][i] = Leaf \/ plan[m][i] \in landed
               \/ \E u \in Thread : plan[m][i] \in Open(u)' /\ m.class \in Reach(plan[m][i].class)
    BY <1>3a, <2>1 DEF Settled
  <2>2. ASSUME NEW u \in Thread, NEW m \in Open(u)', NEW i \in DOMAIN plan[m]
        PROVE  plan[m][i] = Leaf \/ plan[m][i] \in landed \/ plan[m][i] \in Open(u)'
    BY <1>3a, <2>2 DEF Settled
  <2> QED
    BY <1>3a, <2>1, <2>2 DEF Settled, Reach, Contract!Reach
<1>4. ASSUME NEW t \in Thread, NEW n \in Node, n \notin landed,
             NEW ref \in Node \cup {Leaf},
             ref = Leaf \/ ref \in landed \/ ref \in Open(t),
             plan' = [plan EXCEPT ![n] = Append(plan[n], ref)],
             landed' = landed,
             \A u \in Thread : Open(u)' \subseteq Open(u)
                 /\ \A m \in Open(u) : m \in landed \/ m \in Open(u)'
      PROVE  Settled'
  <2>1. \A m \in Node : m # n => plan'[m] = plan[m]
    BY <1>0, <1>4
  <2>2. \A i \in DOMAIN plan'[n] : plan'[n][i] = ref \/ \E j \in DOMAIN plan[n] : plan'[n][i] = plan[n][j]
    <3>1. plan'[n] = Append(plan[n], ref) /\ plan[n] \in Seq(Node \cup {Leaf})
      BY <1>0, <1>4
    <3>2. {plan'[n][i] : i \in DOMAIN plan'[n]} = {plan[n][j] : j \in DOMAIN plan[n]} \cup {ref}
      BY <3>1, OpenAppend
    <3> QED
      BY <3>2
  <2>3. ASSUME NEW m \in landed, NEW i \in DOMAIN plan'[m]
        PROVE  \/ plan'[m][i] = Leaf \/ plan'[m][i] \in landed
               \/ \E u \in Thread : plan'[m][i] \in Open(u)' /\ m.class \in Reach(plan'[m][i].class)
    <3>1. plan'[m] = plan[m]
      BY <1>0, <1>4, <2>1
    <3> QED
      BY <1>4, <3>1 DEF Settled
  <2>4. ASSUME NEW u \in Thread, NEW m \in Open(u)', NEW i \in DOMAIN plan'[m]
        PROVE  plan'[m][i] = Leaf \/ plan'[m][i] \in landed \/ plan'[m][i] \in Open(u)'
    <3>1. m \in Open(u) /\ u = t /\ m \in Node
      BY <1>0, <1>4 DEF Alone, Accounted, StackOwned, Typed, TypeOK
    <3>2. CASE m # n
      BY <1>4, <2>1, <3>1, <3>2 DEF Settled
    <3>3. CASE m = n
      BY <1>4, <2>2, <3>1, <3>3 DEF Settled
    <3> QED
      BY <3>2, <3>3
  <2> QED
    BY <1>4, <2>3, <2>4 DEF Settled, Reach, Contract!Reach
<1>5. ASSUME NEW t \in Thread, RootCached(t) \/ HintsResolved(t) PROVE Settled'
  BY <1>1, <1>5 DEF RootCached, HintsResolved
<1>6. ASSUME NEW t \in Thread, RootFresh(t) PROVE Settled'
  <2>1. Asks[handle[t]] \in Class /\ pc[t] = "root"
    BY <1>0, <1>6, ConstantsAssumption DEF RootFresh, Typed, StageShape
  <2>2. NodeOf(t, Asks[handle[t]]) \notin cells
    BY <2>1 DEF Ordered, Owners, NodeOf
  <2> QED
    BY <1>3, <1>6, <2>1, <2>2 DEF RootFresh
<1>7. ASSUME NEW t \in Thread, HintsUnresolved(t) \/ FieldBad(t) PROVE Settled'
  <2>1. UNCHANGED <<plan, landed>> /\ stack'[t] = <<>> /\ stack[t] # <<>>
    BY <1>0, <1>7
       DEF HintsUnresolved, FieldBad, AtField, Raise, Typed, TypeOK, StageShape
  <2>2. \/ Top(t).class \in unresolved
        \/ \E i \in DOMAIN Fields[Top(t).class] : Fields[Top(t).class][i] = Bad
    <3>1. CASE HintsUnresolved(t)
      BY <3>1 DEF HintsUnresolved
    <3>2. CASE FieldBad(t)
      <4>1. Top(t) \in Node /\ Top(t).class \in Class
        BY <1>0, <2>1, TopType
      <4>2. Len(plan[Top(t)]) + 1 \in DOMAIN Fields[Top(t).class]
        BY <1>0, <3>2, <4>1, Sequences DEF FieldBad, AtField
      <4> QED
        BY <3>2, <4>2 DEF FieldBad, Field
    <3> QED
      BY <1>7, <3>1, <3>2
  <2>3. \A n \in landed : \A i \in DOMAIN plan[n] :
            plan[n][i] \in Open(t) => n.class \notin Reach(plan[n][i].class)
    BY <2>1, <2>2, FailureOffCycles
  <2> QED
    BY <1>2, <2>1, <2>3
<1>8. ASSUME NEW t \in Thread, FieldLeaf(t) \/ FieldPending(t) \/ FieldCached(t) PROVE Settled'
  <2>0. AtField(t) /\ pc[t] = "fields" /\ stack[t] # <<>>
    BY <1>0, <1>8 DEF FieldLeaf, FieldPending, FieldCached, AtField, Typed, StageShape
  <2>1. PICK ref \in Node \cup {Leaf} :
            /\ ref = Leaf \/ ref \in landed \/ ref \in Open(t)
            /\ Resolve(t, ref)
    <3>1. CASE FieldLeaf(t)
      BY <3>1 DEF FieldLeaf
    <3>2. CASE FieldPending(t)
      <4> DEFINE n == NodeOf(t, Field(t))
      <4>1. n \in cells /\ n \in Node /\ n.build = build[t] /\ Resolve(t, n)
        BY <1>0, <2>0, <3>2, NodeType DEF FieldPending, Compiling, NodeOf
      <4>2. build[t] \notin failed
        BY <2>0 DEF Traced, Attended, Compiling
      <4> HIDE DEF n
      <4> QED
        BY <1>0, <4>1, <4>2 DEF Accounted, CellsAccounted, Alone
    <3>3. CASE FieldCached(t)
      <4>1. slot[Field(t)] \in landed /\ Resolve(t, slot[Field(t)])
        BY <1>0, <3>3 DEF FieldCached, Accounted, PublishedLanded
      <4> QED
        BY <1>0, <4>1
    <3> QED
      BY <1>8, <3>1, <3>2, <3>3
  <2>2. Top(t) \in Node /\ Top(t) \notin landed
    BY <1>0, <2>0, TopType, TopOnStack DEF Ordered, OpenUnlanded
  <2>3. plan' = [plan EXCEPT ![Top(t)] = Append(plan[Top(t)], ref)]
    BY <2>1 DEF Resolve
  <2>4. landed' = landed /\ \A u \in Thread : Open(u)' = Open(u)
    BY <1>8 DEF FieldLeaf, FieldPending, FieldCached, Open
  <2> QED
    BY <1>4, <2>1, <2>2, <2>3, <2>4
<1>9. ASSUME NEW t \in Thread, FieldFresh(t) PROVE Settled'
  BY <1>3, <1>9 DEF FieldFresh, AtField
<1>10. ASSUME NEW t \in Thread, Land(t) PROVE Settled'
  <2>0. /\ landed' = landed \cup {Top(t)} /\ UNCHANGED <<plan, stack>>
        /\ stack[t] # <<>> /\ \A u \in Thread : Open(u)' = Open(u) /\ u = t
    BY <1>0, <1>10 DEF Land, Typed, StageShape, Open, Alone
  <2>1. Top(t) \in Open(t)
    BY <1>0, <2>0, TopOpen
  <2>2. \A m \in Open(t) : Top(t).class \in Reach(m.class)
    <3> SUFFICES ASSUME NEW k \in DOMAIN stack[t]
                 PROVE  Top(t).class \in Reach(stack[t][k].class)
      BY DEF Open
    <3>1. k <= Len(stack[t]) /\ Len(stack[t]) \in DOMAIN stack[t] /\ Top(t) = stack[t][Len(stack[t])]
      BY <1>0, <2>0, TopOnStack, Sequences
    <3> QED
      BY <3>1 DEF Traced, Lineage
  <2>3. ASSUME NEW m \in landed', NEW i \in DOMAIN plan[m]
        PROVE  \/ plan[m][i] = Leaf \/ plan[m][i] \in landed'
               \/ \E u \in Thread : plan[m][i] \in Open(u) /\ m.class \in Reach(plan[m][i].class)
    BY <2>0, <2>1, <2>2, <2>3 DEF Settled
  <2>4. ASSUME NEW m \in Open(t), NEW i \in DOMAIN plan[m]
        PROVE  plan[m][i] = Leaf \/ plan[m][i] \in landed' \/ plan[m][i] \in Open(t)
    BY <2>0 DEF Settled
  <2> QED
    BY <2>0, <2>3, <2>4 DEF Settled, Reach, Contract!Reach
<1>11. ASSUME NEW t \in Thread, Publish(t) PROVE Settled'
  <2>1. /\ stack[t] # <<>> /\ Open(t) = Open(t)' \cup {Top(t)} /\ pc[t] = "landed"
        /\ Top(t) \in landed /\ Top(t) \in Node /\ landed' = landed
        /\ Len(stack[t]) \in Nat \ {0} /\ DOMAIN stack[t] = 1..Len(stack[t])
        /\ stack[t] \in Seq(Node) /\ \A u \in Thread : u = t
    BY <1>0, <1>11, PublishOpen, PublishStack, TopType
       DEF Accounted, HeldLanded, Publish, Alone, Typed, TypeOK
  <2>4. \A u \in Thread : /\ Open(u)' \subseteq Open(u)
                          /\ \A m \in Open(u) : m \in landed \/ m \in Open(u)'
    BY <2>1
  <2>2. CASE Len(stack[t]) = 1
    <3>1. UNCHANGED <<plan, landed>>
      BY <1>11, <2>2 DEF Publish
    <3> QED
      BY <1>3a, <2>4, <3>1
  <2>3. CASE Len(stack[t]) # 1
    <3> DEFINE below == stack[t][Len(stack[t]) - 1]
    <3>1. below \in Node /\ Len(stack[t]) - 1 \in DOMAIN stack[t]
      BY <2>1, <2>3, BelowTop
    <3>2. below \notin landed
      BY <2>1, <3>1 DEF Ordered, OpenUnlanded
    <3>3. plan' = [plan EXCEPT ![below] = Append(plan[below], Top(t))]
      BY <1>11, <2>3 DEF Publish
    <3>4. Top(t) \in Node \cup {Leaf} /\ Top(t) \in landed /\ landed' = landed
      BY <2>1
    <3> HIDE DEF below
    <3> QED
      BY <1>4, <2>4, <3>1, <3>2, <3>3, <3>4
  <2> QED
    BY <2>2, <2>3
<1>12. ASSUME NEW t \in Thread,
              ReadNested(t) \/ \E what \in {"value", "mismatch"} : ReadEnds(t, what)
       PROVE  Settled'
  <2>1. UNCHANGED <<plan, landed>> /\ stack[t] = <<>> /\ stack'[t] = <<>>
    BY <1>0, <1>12 DEF ReadNested, ReadEnds, Raise, Typed, TypeOK, StageShape
  <2>2. Open(t) = {}
    BY <2>1 DEF Open
  <2> QED
    BY <1>2, <2>1, <2>2
<1>13. ASSUME NEW t \in Thread, Call(t) PROVE Settled'
  BY <1>1, <1>13 DEF Call, CallCompiled, CallCompile
<1>14. ASSUME NEW c \in Class, Define(c) PROVE Settled'
  BY <1>1, <1>14 DEF Define
<1>15. CASE UNCHANGED vars
  BY <1>1, <1>15 DEF vars
<1> QED
  BY <1>5, <1>6, <1>7, <1>8, <1>9, <1>10, <1>11, <1>12, <1>13, <1>14, <1>15 DEF Next, Step
\* There is no finished decoder at first.
LEMMA InitSettled == Init => Settled
BY DEF Init, Settled, Open

-----------------------------------------------------------------------------
(* A read is answered as the contract says.                                *)

\* While a document is read, every class the handle's class reaches has been
\* compiled: none waits for a name, and none has a field analyse refuses.
LEMMA ReadWhole ==
    ASSUME Alone, Ordered, Traced, Settled, NEW t \in Thread, pc[t] = "reading"
    PROVE  /\ ~Contract!HasBad(Asks[handle[t]])
           /\ ~Contract!HasMissing(Asks[handle[t]])
           /\ \A n \in landed : \A i \in DOMAIN plan[n] :
                 plan[n][i] = Leaf \/ plan[n][i] \in landed
<1> DEFINE c == Asks[handle[t]]
           S == {n.class : n \in landed}
<1>0. /\ Typed /\ landed \subseteq Node /\ stack[t] = <<>> /\ handle[t] \in Handle
      /\ c \in Class /\ S \subseteq Class
  <2>1. Typed /\ landed \subseteq Node
    BY DEF Ordered, Accounted, Typed, TypeOK
  <2>2. stack[t] = <<>> /\ handle[t] \in Handle
    BY <2>1 DEF Typed, StageShape
  <2> QED
    BY <2>1, <2>2, ConstantsAssumption DEF Node
<1>1. \A n \in landed : \A i \in DOMAIN plan[n] : plan[n][i] = Leaf \/ plan[n][i] \in landed
  <2>1. \A u \in Thread : Open(u) = {}
    BY <1>0 DEF Alone, Open
  <2> QED
    BY <2>1 DEF Settled
<1>2. ASSUME NEW n \in landed, NEW i \in DOMAIN Fields[n.class]
      PROVE  Fields[n.class][i] = Leaf \/ Fields[n.class][i] \in S
  <2>1. i \in DOMAIN plan[n]
    <3>1. /\ n \in Node /\ n.class \in Class /\ Len(plan[n]) = Len(Fields[n.class])
          /\ DOMAIN plan[n] = 1..Len(plan[n])
          /\ DOMAIN Fields[n.class] = 1..Len(Fields[n.class])
      BY <1>0, Sequences DEF Ordered, LandedComplete
    <3> QED
      BY <3>1
  <2>2. Suits(plan[n][i], Fields[n.class][i])
    BY <1>0, <2>1 DEF Ordered, PlanMatches
  <2> QED
    BY <1>1, <2>1, <2>2 DEF Suits
<1>3. c \in S
  BY <1>0 DEF Traced, Asked, Ordered, Accounted, HeldLanded
<1>4. Reach(c) \subseteq S
  <2>1. \A d \in S : \A i \in DOMAIN Fields[d] : Fields[d][i] \in Class => Fields[d][i] \in S
    BY <1>2, ConstantsAssumption
  <2> HIDE DEF S, c
  <2> QED
    BY <1>0, <1>3, <2>1, ReachWithin
<1>5. ASSUME NEW d \in Reach(c)
      PROVE  d \notin unresolved /\ \A i \in DOMAIN Fields[d] : Fields[d][i] # Bad
  <2>1. PICK n \in landed : d = n.class
    BY <1>4
  <2>2. d \notin unresolved
    BY <2>1 DEF Traced, Hinted
  <2>3. \A i \in DOMAIN Fields[d] : Fields[d][i] \in {Leaf} \cup Class
    BY <1>0, <1>2, <2>1
  <2> QED
    BY <2>2, <2>3, ConstantsAssumption
<1> HIDE DEF c
<1>6. ~Contract!HasBad(c) /\ ~Contract!HasMissing(c)
  BY <1>5 DEF Contract!HasBad, Contract!HasMissing, Reach
<1> QED
  BY <1>1, <1>6 DEF c

\* A compilation that fails, fails at a class the handle's class reaches.
LEMMA FailsWithinReach ==
    ASSUME Ordered, Traced, NEW t \in Thread, stack[t] # <<>>
    PROVE  Top(t).class \in Contract!Reach(Asks[handle[t]])
<1>1. /\ Typed /\ Len(stack[t]) \in DOMAIN stack[t] /\ Top(t) = stack[t][Len(stack[t])]
      /\ Len(stack[t]) \in Nat /\ DOMAIN stack[t] = 1..Len(stack[t])
  BY TopOnStack, Sequences DEF Ordered, Accounted
<1>2. 1 \in DOMAIN stack[t] /\ 1 <= Len(stack[t])
  BY <1>1
<1>3. Top(t).class \in Reach(stack[t][1].class) /\ stack[t][1].class = Asks[handle[t]]
  BY <1>1, <1>2 DEF Traced, Lineage
<1> QED
  BY <1>3 DEF Reach
\* At first nobody has asked anything.
LEMMA InitContract == Init => Contract!Init
BY DEF Init, Contract!Init

\* A step is a call, an answer from what the class and the document are, a name
\* defined, or nothing a caller sees.
LEMMA StepContract ==
    ASSUME Alone, Ordered, Traced, Settled, [Next]_vars
    PROVE  [Contract!Next]_(Contract!vars)
<1> DEFINE asked == [t \in Thread |-> IF pc[t] = "idle" THEN None ELSE Asks[handle[t]]]
<1>0. Typed /\ Typed'
  BY NextTyped DEF Ordered, Accounted
<1> USE DEF classVars, callVars
\* Nothing is seen of a step inside a call.
<1>1. ASSUME UNCHANGED <<unresolved, outcome>>,
             \A u \in Thread : \/ pc'[u] = pc[u] /\ handle'[u] = handle[u]
                               \/ pc[u] # "idle" /\ pc'[u] # "idle" /\ handle'[u] = handle[u]
      PROVE  UNCHANGED Contract!vars
  BY <1>1 DEF Contract!vars
<1>2. ASSUME NEW t \in Thread, NEW h \in Handle, pc[t] = "idle", pc'[t] # "idle",
             handle'[t] = h, UNCHANGED <<unresolved, outcome>>,
             \A u \in Thread \ {t} : pc'[u] = pc[u] /\ handle'[u] = handle[u]
      PROVE  Contract!Next
  <2>1. Asks[h] \in Class
    BY ConstantsAssumption
  <2>2. asked[t] = None /\ asked' = [asked EXCEPT ![t] = Asks[h]]
    BY <1>2
  <2>3. Contract!Ask(t, Asks[h])
    BY <1>2, <2>2 DEF Contract!Ask
  <2> QED
    BY <2>1, <2>3 DEF Contract!Next
<1>3. ASSUME NEW t \in Thread, NEW what, pc[t] # "idle", Raise(t, what),
             what \in Contract!Answers(Asks[handle[t]]), UNCHANGED <<unresolved, handle>>
      PROVE  Contract!Next
  <2>1. Asks[handle[t]] # None
    BY <1>0, <1>3, ConstantsAssumption, NoneAssumption DEF Typed, StageShape
  <2>2. /\ pc'[t] = "idle" /\ \A u \in Thread \ {t} : pc'[u] = pc[u]
        /\ outcome' = [outcome EXCEPT ![t] = what]
    BY <1>0, <1>3 DEF Raise, Typed, TypeOK
  <2>3. asked[t] = Asks[handle[t]] /\ asked' = [asked EXCEPT ![t] = None]
    BY <1>3, <2>2
  <2>4. Contract!Answer(t)
    BY <1>3, <2>1, <2>2, <2>3 DEF Contract!Answer
  <2> QED
    BY <2>4 DEF Contract!Next
<1>4. ASSUME NEW t \in Thread, \/ RootCached(t) \/ RootFresh(t) \/ HintsResolved(t)
                               \/ FieldLeaf(t) \/ FieldPending(t) \/ FieldCached(t)
                               \/ FieldFresh(t) \/ Land(t) \/ Publish(t)
      PROVE  UNCHANGED Contract!vars
  <2>1. pc[t] # "idle" /\ UNCHANGED <<unresolved, outcome, handle>>
    BY <1>4 DEF RootCached, RootFresh, HintsResolved, FieldLeaf, FieldPending, FieldCached,
                FieldFresh, Land, Publish, Enter, AtField
  <2>2. pc'[t] # "idle" /\ \A u \in Thread \ {t} : pc'[u] = pc[u]
    <3>1. \E stage \in Stage \ {"idle"} : pc' = [pc EXCEPT ![t] = stage] \/ pc' = pc
      <4>1. CASE RootCached(t) \/ FieldLeaf(t) \/ FieldPending(t) \/ FieldCached(t)
        BY <4>1 DEF RootCached, Hold, FieldLeaf, FieldPending, FieldCached, Stage
      <4>2. CASE RootFresh(t) \/ HintsResolved(t) \/ FieldFresh(t)
        BY <4>2 DEF RootFresh, HintsResolved, FieldFresh, Enter, Stage
      <4>3. CASE Land(t) \/ Publish(t)
        BY <4>3 DEF Land, Publish, Hold, Stage
      <4> QED
        BY <1>4, <4>1, <4>2, <4>3
    <3> QED
      BY <1>0, <2>1, <3>1 DEF Typed, TypeOK
  <2> QED
    BY <1>1, <2>1, <2>2
<1>5. ASSUME NEW t \in Thread, HintsUnresolved(t)
      PROVE  Contract!Next
  <2>1. stack[t] # <<>> /\ pc[t] # "idle" /\ Top(t).class \in unresolved
    BY <1>0, <1>5 DEF HintsUnresolved, Typed, StageShape
  <2>2. "name_error" \in Contract!Answers(Asks[handle[t]])
    BY <2>1, FailsWithinReach DEF Contract!Answers, Contract!HasMissing
  <2> QED
    BY <1>3, <1>5, <2>1, <2>2 DEF HintsUnresolved
<1>6. ASSUME NEW t \in Thread, FieldBad(t)
      PROVE  Contract!Next
  <2>1. stack[t] # <<>> /\ pc[t] # "idle" /\ Top(t) \in Node /\ Top(t).class \in Class
    BY <1>0, <1>6, TopType DEF FieldBad, AtField, Typed, StageShape
  <2>2. Len(plan[Top(t)]) + 1 \in DOMAIN Fields[Top(t).class]
    BY <1>0, <1>6, <2>1, Sequences DEF FieldBad, AtField
  <2>3. "shape_error" \in Contract!Answers(Asks[handle[t]])
    BY <1>6, <2>1, <2>2, FailsWithinReach DEF FieldBad, Field, Contract!Answers, Contract!HasBad
  <2> QED
    BY <1>3, <1>6, <2>1, <2>3 DEF FieldBad
<1>7. ASSUME NEW t \in Thread, ReadNested(t)
      PROVE  UNCHANGED Contract!vars
  <2>1. pc[t] = "reading" /\ at[t] \in landed
    BY <1>7 DEF ReadNested, Ordered, Accounted, HeldLanded
  <2>2. \A i \in DOMAIN plan[at[t]] : plan[at[t]][i] = Leaf \/ plan[at[t]][i] \in landed
    BY <2>1, ReadWhole
  <2>3. UNCHANGED <<unresolved, outcome, pc, handle>>
    BY <1>7, <2>2 DEF ReadNested
  <2> QED
    BY <1>1, <2>3
<1>8. ASSUME NEW t \in Thread, NEW what \in {"value", "mismatch"}, ReadEnds(t, what)
      PROVE  Contract!Next
  <2>1. pc[t] = "reading"
    BY <1>8 DEF ReadEnds
  <2>2. what \in Contract!Answers(Asks[handle[t]])
    BY <2>1, ReadWhole DEF Contract!Answers
  <2> QED
    BY <1>3, <1>8, <2>1, <2>2 DEF ReadEnds
<1>9. ASSUME NEW t \in Thread, Call(t)
      PROVE  Contract!Next
  <2>1. PICK h \in Handle : \E depth \in 0..MaxDepth :
                                CallCompiled(t, h, depth) \/ CallCompile(t, h, depth)
    BY <1>9 DEF Call
  <2>2. /\ pc[t] = "idle" /\ pc'[t] # "idle" /\ handle'[t] = h /\ UNCHANGED <<unresolved, outcome>>
        /\ \A u \in Thread \ {t} : pc'[u] = pc[u] /\ handle'[u] = handle[u]
    BY <1>0, <2>1 DEF CallCompiled, CallCompile, Typed, TypeOK
  <2> QED
    BY <1>2, <2>2
<1>10. ASSUME NEW c \in Class, Define(c)
       PROVE  Contract!Next
  <2>1. unresolved' = unresolved \ {c} /\ UNCHANGED <<pc, handle, outcome>>
    BY <1>10 DEF Define
  <2>2. Contract!Define(c)
    BY <2>1 DEF Contract!Define
  <2> QED
    BY <2>2 DEF Contract!Next
<1>11. CASE UNCHANGED vars
  BY <1>1, <1>11 DEF vars
<1> QED
  BY <1>4, <1>5, <1>6, <1>7, <1>8, <1>9, <1>10, <1>11 DEF Next, Step

\* In a program of one thread where no class on a cycle can fail, every call is
\* answered from the class and the document alone: the decoders kept on the
\* classes, the memo and the exceptions before it are invisible, and no read ends
\* in anything but a value or an error the contract allows.
THEOREM ReadsKeepContract ==
    ASSUME Alone, FailuresOffCycles
    PROVE  Spec => KeepsContract
<1> DEFINE IInv == Ordered /\ Traced /\ Settled
<1>1. Init => IInv
  BY InitOrdered, InitTraced, InitSettled
<1>2. IInv /\ [Next]_vars => IInv'
  BY NextOrdered, NextTraced, NextSettledDown
<1>3. Init => Contract!Init
  BY InitContract
<1>4. IInv /\ [Next]_vars => [Contract!Next]_(Contract!vars)
  BY StepContract
<1> QED
  BY <1>1, <1>2, <1>3, <1>4, PTL DEF Spec, KeepsContract, Contract!Spec
=============================================================================
