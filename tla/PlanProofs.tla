------------------------------ MODULE PlanProofs ------------------------------
(***************************************************************************)
(* What a finished decoder is, for every program, every number of threads  *)
(* and every bound: it reads the fields of its class in order; and how     *)
(* often a class is compiled to the end: at most once for each thread.     *)
(***************************************************************************)
EXTENDS CompileProofs, FiniteSetTheorems

(* A plan grows only while its record is innermost under construction, and *)
(* only by the field that comes next. That rests on one thread per         *)
(* compilation, on a record standing on one stack once, and on the record  *)
(* below another waiting for exactly that one.                             *)

\* A reference that suits a field.
Suits(ref, field) == IF ref = Leaf THEN field = Leaf ELSE ref.class = field

\* A compilation has one thread, and a thread that starts one finds no cell in
\* its memo.
Owners ==
    /\ \A t \in Thread : build[t] <= builds
    /\ \A t, u \in Thread : build[t] = build[u] => t = u \/ build[t] = 0
    /\ \A n \in cells : n.build <= builds
    /\ \A t \in Thread : pc[t] = "root" => \A n \in cells : n.build # build[t]
StackDistinct ==
    \A t \in Thread : \A i, j \in DOMAIN stack[t] : stack[t][i] = stack[t][j] => i = j
OpenUnlanded ==
    \A t \in Thread : \A i \in DOMAIN stack[t] :
        stack[t][i] \in landed => i = Len(stack[t]) /\ pc[t] = "landed"
PlanMatches ==
    \A n \in Node :
        /\ Len(plan[n]) <= Len(Fields[n.class])
        /\ \A i \in DOMAIN plan[n] : Suits(plan[n][i], Fields[n.class][i])
LandedComplete == \A n \in landed : Len(plan[n]) = Len(Fields[n.class])
Waits(n, child) ==
    /\ Len(plan[n]) < Len(Fields[n.class])
    /\ Fields[n.class][Len(plan[n]) + 1] = child.class
Waiting ==
    \A t \in Thread : \A i \in DOMAIN stack[t] :
        i # Len(stack[t]) => Waits(stack[t][i], stack[t][i + 1])

Ordered ==
    /\ Accounted /\ Owners /\ StackDistinct /\ OpenUnlanded
    /\ PlanMatches /\ LandedComplete /\ Waiting

\* Stacks, plans and declared fields are sequences.
LEMMA Sequences ==
    ASSUME Typed
    PROVE  /\ \A t \in Thread :
                /\ Len(stack[t]) \in Nat /\ DOMAIN stack[t] = 1..Len(stack[t])
                /\ stack[t] \in Seq(Node)
                /\ \A i \in DOMAIN stack[t] : stack[t][i] \in Node
           /\ \A n \in Node :
                /\ Len(plan[n]) \in Nat /\ DOMAIN plan[n] = 1..Len(plan[n])
                /\ plan[n] \in Seq(Node \cup {Leaf}) /\ n.class \in Class
                /\ \A i \in DOMAIN plan[n] : plan[n][i] \in Node \cup {Leaf}
           /\ \A c \in Class :
                /\ Len(Fields[c]) \in Nat /\ DOMAIN Fields[c] = 1..Len(Fields[c])
                /\ \A i \in DOMAIN Fields[c] : Fields[c][i] \in Class \cup {Leaf, Bad}
<1>1. \A t \in Thread : stack[t] \in Seq(Node)
  BY DEF Typed, TypeOK
<1>2. \A n \in Node : plan[n] \in Seq(Node \cup {Leaf}) /\ n.class \in Class
  BY DEF Typed, TypeOK, Node
<1>3. \A c \in Class : Fields[c] \in Seq(Class \cup {Leaf, Bad})
  BY ConstantsAssumption
<1>4. ASSUME NEW S, NEW s \in Seq(S)
      PROVE  Len(s) \in Nat /\ DOMAIN s = 1..Len(s) /\ \A i \in DOMAIN s : s[i] \in S
  BY LenProperties, ElementOfSeq
<1> QED
  BY <1>1, <1>2, <1>3, <1>4

\* A record stands on one stack, once.
LEMMA OnOneStack ==
    ASSUME Ordered, NEW t \in Thread, NEW u \in Thread,
           NEW i \in DOMAIN stack[t], NEW j \in DOMAIN stack[u], stack[t][i] = stack[u][j]
    PROVE  t = u /\ i = j
<1>1. stack[t] # <<>> /\ Typed
  BY DEF Ordered, Accounted
<1>2. build[t] = build[u]
  BY DEF Ordered, Accounted, StackOwned, Open
<1>3. build[t] \in Build /\ build[t] # 0
  BY <1>1 DEF Typed, StageShape, Compiling, Build
<1>4. t = u
  BY <1>2, <1>3 DEF Ordered, Owners
<1> QED
  BY <1>4 DEF Ordered, StackDistinct

\* The innermost record is on its stack.
LEMMA TopOnStack ==
    ASSUME Typed, NEW t \in Thread, stack[t] # <<>>
    PROVE  Len(stack[t]) \in DOMAIN stack[t] /\ stack[t][Len(stack[t])] = Top(t)
BY Sequences, TopType DEF Top

\* The next field's reference, added to a plan that wanted it, keeps every plan
\* in step with its class.
LEMMA PlanGrows ==
    ASSUME Ordered, Typed', NEW n \in Node, NEW ref \in Node \cup {Leaf},
           plan' = [plan EXCEPT ![n] = Append(plan[n], ref)],
           Len(plan[n]) < Len(Fields[n.class]),
           Suits(ref, Fields[n.class][Len(plan[n]) + 1])
    PROVE  PlanMatches'
<1> SUFFICES ASSUME NEW m \in Node
             PROVE  /\ Len(plan'[m]) <= Len(Fields[m.class])
                    /\ \A i \in DOMAIN plan'[m] : Suits(plan'[m][i], Fields[m.class][i])
  BY DEF PlanMatches, Suits
<1>0. Typed /\ plan \in [Node -> Seq(Node \cup {Leaf})]
  BY DEF Ordered, Accounted, Typed, TypeOK
<1>1. CASE m # n
  BY <1>0, <1>1 DEF Ordered, PlanMatches
<1>2. CASE m = n
  <2>0. DOMAIN plan = Node /\ plan[n] \in Seq(Node \cup {Leaf})
    BY ONLY <1>0, n \in Node
  <2>1. plan'[m] = Append(plan[n], ref) /\ plan[n] \in Seq(Node \cup {Leaf})
    BY ONLY <1>2, <2>0, n \in Node, plan' = [plan EXCEPT ![n] = Append(plan[n], ref)]
  <2>2. /\ Len(plan'[m]) = Len(plan[n]) + 1
        /\ \A i \in 1..Len(plan[n]) : plan'[m][i] = plan[n][i]
        /\ plan'[m][Len(plan[n]) + 1] = ref
    BY <2>1, AppendProperties
  <2>3. /\ DOMAIN plan'[m] = 1..Len(plan'[m])
        /\ Len(plan[n]) \in Nat /\ Len(Fields[n.class]) \in Nat
        /\ DOMAIN plan[n] = 1..Len(plan[n])
    BY <1>0, Sequences
  <2>4. ASSUME NEW i \in DOMAIN plan'[m] PROVE Suits(plan'[m][i], Fields[m.class][i])
    <3>1. i \in 1..Len(plan[n]) \/ i = Len(plan[n]) + 1
      BY <2>2, <2>3
    <3>2. \A k \in 1..Len(plan[n]) : Suits(plan[n][k], Fields[n.class][k])
      BY <2>3 DEF Ordered, PlanMatches
    <3> QED
      BY <1>2, <2>2, <3>1, <3>2
  <2> QED
    BY <1>2, <2>2, <2>3, <2>4
<1> QED
  BY <1>1, <1>2

\* What neither opens a record, nor adds to a plan, nor starts a compilation.
LEMMA QuietOrdered ==
    ASSUME Ordered, Accounted',
           UNCHANGED <<cells, landed, plan, builds, build>>,
           \A u \in Thread :
               /\ pc'[u] = "root" => pc[u] = "root"
               /\ \/ stack'[u] = <<>>
                  \/ stack'[u] = stack[u] /\ (pc[u] = "landed" => pc'[u] = "landed")
    PROVE  Ordered'
<1>1. Owners'
  BY DEF Ordered, Owners
<1>2. PlanMatches' /\ LandedComplete'
  BY DEF Ordered, PlanMatches, LandedComplete, Suits
<1>3. StackDistinct' /\ OpenUnlanded' /\ Waiting'
  <2> SUFFICES ASSUME NEW u \in Thread
               PROVE  /\ \A i, j \in DOMAIN stack'[u] : stack'[u][i] = stack'[u][j] => i = j
                      /\ \A i \in DOMAIN stack'[u] :
                            /\ stack'[u][i] \in landed =>
                                   i = Len(stack'[u]) /\ pc'[u] = "landed"
                            /\ i # Len(stack'[u]) => Waits(stack'[u][i], stack'[u][i + 1])
    BY DEF StackDistinct, OpenUnlanded, Waiting, Waits
  <2>1. CASE stack'[u] = <<>>
    BY <2>1
  <2>2. CASE stack'[u] = stack[u] /\ (pc[u] = "landed" => pc'[u] = "landed")
    BY <2>2 DEF Ordered, StackDistinct, OpenUnlanded, Waiting
  <2> QED
    BY <2>1, <2>2
<1> QED
  BY <1>1, <1>2, <1>3 DEF Ordered

\* A record entered is wanted by the one below it, and is on no stack yet.
LEMMA EnterOrdered ==
    ASSUME Ordered, Accounted', NEW t \in Thread, NEW c \in Class,
           pc[t] = "root" \/ (pc[t] = "fields" /\ Waits(Top(t), NodeOf(t, c))),
           NodeOf(t, c) \notin cells, Enter(t, c)
    PROVE  Ordered'
<1> DEFINE n == NodeOf(t, c)
           s == stack[t]
           q == Append(s, n)
<1>0. Typed /\ s \in Seq(Node) /\ n \in Node /\ n.build = build[t] /\ n.class = c
  BY NodeType DEF Ordered, Accounted, Typed, TypeOK, Compiling, NodeOf
<1>1. /\ cells' = cells \cup {n}
      /\ stack' = [stack EXCEPT ![t] = q]
      /\ pc' = [pc EXCEPT ![t] = "hints"]
      /\ UNCHANGED <<landed, plan, builds, build>>
  BY DEF Enter, callVars
<1>2. /\ Len(s) \in Nat /\ DOMAIN s = 1..Len(s)
      /\ Len(q) = Len(s) + 1 /\ DOMAIN q = 1..(Len(s) + 1)
      /\ q[Len(s) + 1] = n /\ \A i \in 1..Len(s) : q[i] = s[i]
  BY <1>0, AppendProperties, LenProperties
<1>3. stack'[t] = q /\ \A u \in Thread \ {t} : stack'[u] = stack[u] /\ pc'[u] = pc[u]
  BY <1>0, <1>1 DEF Typed, TypeOK
<1>4. \A i \in DOMAIN s : s[i] \in cells /\ s[i] # n
  BY DEF Ordered, Accounted, StackOwned, Open
<1>5. n \notin landed /\ \A i \in DOMAIN s : s[i] \notin landed
  BY <1>2 DEF Ordered, Accounted, CellsAccounted, OpenUnlanded
<1> HIDE DEF n, q
<1>6. Owners'
  <2>1. build[t] # 0 /\ pc'[t] # "root"
    BY <1>0, <1>1 DEF Typed, TypeOK, StageShape, Compiling, Build
  <2> QED
    BY <1>0, <1>1, <1>3, <2>1 DEF Ordered, Owners
<1>7. PlanMatches' /\ LandedComplete'
  BY <1>1 DEF Ordered, PlanMatches, LandedComplete, Suits
<1>8. StackDistinct'
  <2> SUFFICES ASSUME NEW u \in Thread, NEW i \in DOMAIN stack'[u], NEW j \in DOMAIN stack'[u],
                      stack'[u][i] = stack'[u][j]
               PROVE  i = j
    BY DEF StackDistinct
  <2>1. CASE u = t
    <3>1. i \in DOMAIN s \/ i = Len(s) + 1
      BY <1>2, <1>3, <2>1
    <3>2. j \in DOMAIN s \/ j = Len(s) + 1
      BY <1>2, <1>3, <2>1
    <3> QED
      BY <1>2, <1>3, <1>4, <2>1, <3>1, <3>2 DEF Ordered, StackDistinct
  <2>2. CASE u # t
    BY <1>3, <2>2 DEF Ordered, StackDistinct
  <2> QED
    BY <2>1, <2>2
<1>9. OpenUnlanded'
  <2> SUFFICES ASSUME NEW u \in Thread, NEW i \in DOMAIN stack'[u], stack'[u][i] \in landed
               PROVE  i = Len(stack'[u]) /\ pc'[u] = "landed"
    BY <1>1 DEF OpenUnlanded
  <2>1. CASE u = t
    BY <1>2, <1>3, <1>5, <2>1
  <2>2. CASE u # t
    BY <1>3, <2>2 DEF Ordered, OpenUnlanded
  <2> QED
    BY <2>1, <2>2
<1>10. Waiting'
  <2> SUFFICES ASSUME NEW u \in Thread, NEW i \in DOMAIN stack'[u], i # Len(stack'[u])
               PROVE  Waits(stack'[u][i], stack'[u][i + 1])
    BY <1>1 DEF Waiting, Waits
  <2>1. CASE u # t
    BY <1>3, <2>1 DEF Ordered, Waiting
  <2>2. CASE u = t /\ i # Len(s)
    <3>1. i \in DOMAIN s /\ i + 1 \in DOMAIN s
      BY <1>2, <1>3, <2>2
    <3> QED
      BY <1>2, <1>3, <2>2, <3>1 DEF Ordered, Waiting
  <2>3. CASE u = t /\ i = Len(s)
    <3>1. s # <<>> /\ stack'[u][i] = Top(t) /\ stack'[u][i + 1] = n
      BY <1>2, <1>3, <2>3 DEF Top
    <3>2. pc[t] # "root"
      BY <1>0, <3>1 DEF Typed, StageShape
    <3> QED
      BY <3>1, <3>2 DEF n
  <2> QED
    BY <2>1, <2>2, <2>3
<1> QED
  BY <1>6, <1>7, <1>8, <1>9, <1>10 DEF Ordered

\* A resolved field adds what it wanted to the innermost plan.
LEMMA ResolveOrdered ==
    ASSUME Ordered, Accounted', NEW t \in Thread, AtField(t),
           NEW ref \in Node \cup {Leaf}, Suits(ref, Field(t)), Resolve(t, ref),
           UNCHANGED <<cells, landed, builds, pc, build, stack>>
    PROVE  Ordered'
<1>0. Typed /\ Typed' /\ stack[t] # <<>>
  BY DEF Ordered, Accounted, AtField, Typed, StageShape
<1>1. Top(t) \in Node /\ Len(stack[t]) \in DOMAIN stack[t] /\ Top(t) = stack[t][Len(stack[t])]
  BY <1>0, TopType, TopOnStack
<1>2. plan' = [plan EXCEPT ![Top(t)] = Append(plan[Top(t)], ref)]
  BY <1>0, <1>1 DEF Resolve, Typed, TypeOK
<1>3. PlanMatches'
  BY <1>0, <1>1, <1>2, PlanGrows DEF AtField, Field
<1>4. \A m \in Node : m # Top(t) => plan'[m] = plan[m]
  BY <1>0, <1>2 DEF Typed, TypeOK
<1>5. Top(t) \notin landed
  BY <1>1 DEF AtField, Ordered, OpenUnlanded
<1>6. Owners' /\ StackDistinct' /\ OpenUnlanded'
  BY DEF Ordered, Owners, StackDistinct, OpenUnlanded
<1>7. LandedComplete'
  <2>1. landed \subseteq Node
    BY <1>0 DEF Typed, TypeOK
  <2> QED
    BY <1>4, <1>5, <2>1 DEF Ordered, LandedComplete
<1>8. Waiting'
  <2> SUFFICES ASSUME NEW u \in Thread, NEW i \in DOMAIN stack[u], i # Len(stack[u])
               PROVE  Waits(stack[u][i], stack[u][i + 1])'
    BY DEF Waiting
  <2>1. stack[u][i] # Top(t)
    BY <1>1, OnOneStack
  <2>2. stack[u][i] \in Node
    BY <1>0, Sequences
  <2>3. plan'[stack[u][i]] = plan[stack[u][i]]
    BY <1>4, <2>1, <2>2
  <2> QED
    BY <2>3 DEF Ordered, Waiting, Waits
<1> QED
  BY <1>3, <1>6, <1>7, <1>8 DEF Ordered

\* A record that lands has resolved every field, and stands on top.
LEMMA LandOrdered ==
    ASSUME Ordered, Accounted', NEW t \in Thread, Land(t)
    PROVE  Ordered'
<1>0. Typed /\ stack[t] # <<>> /\ pc[t] = "fields"
  BY DEF Ordered, Accounted, Land, Typed, StageShape
<1>1. Len(stack[t]) \in DOMAIN stack[t] /\ Top(t) = stack[t][Len(stack[t])]
  BY <1>0, TopOnStack
<1>2. /\ landed' = landed \cup {Top(t)}
      /\ Len(plan[Top(t)]) = Len(Fields[Top(t).class])
      /\ pc'[t] = "landed" /\ \A u \in Thread \ {t} : pc'[u] = pc[u]
      /\ UNCHANGED <<cells, plan, builds, build, stack>>
  BY <1>0 DEF Land, Typed, TypeOK
<1>3. Owners' /\ StackDistinct' /\ PlanMatches' /\ LandedComplete' /\ Waiting'
  <2>1. Owners' /\ StackDistinct'
    BY <1>2 DEF Ordered, Owners, StackDistinct
  <2>2. PlanMatches' /\ LandedComplete'
    BY <1>2 DEF Ordered, PlanMatches, LandedComplete, Suits
  <2>3. Waiting'
    BY <1>2 DEF Ordered, Waiting, Waits
  <2> QED
    BY <2>1, <2>2, <2>3
<1>4. OpenUnlanded'
  <2> SUFFICES ASSUME NEW u \in Thread, NEW i \in DOMAIN stack[u], stack[u][i] \in landed'
               PROVE  i = Len(stack[u]) /\ pc'[u] = "landed"
    BY <1>2 DEF OpenUnlanded
  <2>1. CASE stack[u][i] = Top(t)
    BY <1>1, <1>2, <2>1, OnOneStack
  <2>2. CASE stack[u][i] \in landed
    <3>1. i = Len(stack[u]) /\ pc[u] = "landed"
      BY <2>2 DEF Ordered, OpenUnlanded
    <3> QED
      BY <1>0, <1>2, <3>1
  <2> QED
    BY <1>2, <2>1, <2>2
<1> QED
  BY <1>3, <1>4 DEF Ordered

\* A record that is published leaves its stack, and the one below it gets the
\* reference it was waiting for.
LEMMA PublishOrdered ==
    ASSUME Ordered, Accounted', NEW t \in Thread, Publish(t)
    PROVE  Ordered'
<1> DEFINE s == stack[t]
           rest == SubSeq(s, 1, Len(s) - 1)
           below == s[Len(s) - 1]
<1>0. /\ Typed /\ Typed' /\ s \in Seq(Node) /\ s # <<>> /\ pc[t] = "landed"
      /\ Top(t) \in Node /\ Len(s) \in Nat \ {0} /\ DOMAIN s = 1..Len(s)
      /\ Top(t) = s[Len(s)]
  BY TopType, TopOnStack, Sequences
     DEF Ordered, Accounted, Publish, Typed, TypeOK, StageShape
<1>1. /\ stack' = [stack EXCEPT ![t] = rest]
      /\ UNCHANGED <<cells, landed, builds, build>>
  BY DEF Publish
<1>2. DOMAIN rest = 1..(Len(s) - 1) /\ \A i \in DOMAIN rest : rest[i] = s[i]
  BY <1>0, PopElements
<1>3. Len(rest) = Len(s) - 1
  <2>1. rest \in Seq(Node)
    BY <1>0, PopType
  <2>2. Len(rest) \in Nat /\ DOMAIN rest = 1..Len(rest)
    BY <2>1, LenProperties
  <2> HIDE DEF rest
  <2> QED
    BY <1>0, <1>2, <2>2
<1>4. stack'[t] = rest /\ \A u \in Thread \ {t} : stack'[u] = stack[u]
  BY <1>0, <1>1 DEF Typed, TypeOK
<1>5. /\ pc'[t] \in {"reading", "fields"}
      /\ \A u \in Thread \ {t} : pc'[u] = pc[u]
  BY SMTT(20), <1>0 DEF Publish, Hold, Typed, TypeOK
<1> HIDE DEF rest
<1>6. Owners'
  BY <1>1, <1>5 DEF Ordered, Owners
<1>7. StackDistinct'
  <2> SUFFICES ASSUME NEW u \in Thread, NEW i \in DOMAIN stack'[u], NEW j \in DOMAIN stack'[u],
                      stack'[u][i] = stack'[u][j]
               PROVE  i = j
    BY DEF StackDistinct
  <2> QED
    <3>1. CASE u = t
      <4>1. i \in DOMAIN s /\ j \in DOMAIN s /\ s[i] = s[j]
        BY <1>0, <1>2, <1>4, <3>1
      <4> QED
        BY <4>1 DEF Ordered, StackDistinct
    <3>2. CASE u # t
      BY <1>4, <3>2 DEF Ordered, StackDistinct
    <3> QED
      BY <3>1, <3>2
<1>8. OpenUnlanded'
  <2> SUFFICES ASSUME NEW u \in Thread, NEW i \in DOMAIN stack'[u], stack'[u][i] \in landed
               PROVE  i = Len(stack'[u]) /\ pc'[u] = "landed"
    BY <1>1 DEF OpenUnlanded
  <2>1. CASE u = t
    <3>1. i \in DOMAIN s /\ i # Len(s) /\ s[i] \in landed
      BY <1>0, <1>2, <1>4, <2>1
    <3> QED
      BY <3>1 DEF Ordered, OpenUnlanded
  <2>2. CASE u # t
    BY <1>4, <1>5, <2>2 DEF Ordered, OpenUnlanded
  <2> QED
    BY <2>1, <2>2
<1>9. ASSUME NEW u \in Thread, NEW i \in DOMAIN stack'[u], i # Len(stack'[u])
      PROVE  /\ i \in DOMAIN stack[u] /\ i # Len(stack[u])
             /\ stack'[u][i] = stack[u][i] /\ stack'[u][i + 1] = stack[u][i + 1]
             /\ u = t => i # Len(s) - 1
  <2>1. CASE u = t
    <3>1. i \in 1..(Len(s) - 1) /\ i # Len(s) - 1
      BY <1>2, <1>3, <1>4, <1>9, <2>1
    <3>2. i \in DOMAIN s /\ i # Len(s) /\ i \in DOMAIN rest /\ i + 1 \in DOMAIN rest
      BY <1>0, <1>2, <3>1
    <3> QED
      BY <1>2, <1>4, <2>1, <3>1, <3>2
  <2>2. CASE u # t
    BY <1>4, <1>9, <2>2
  <2> QED
    BY <2>1, <2>2
<1>10. PlanMatches' /\ LandedComplete' /\ Waiting'
  <2>1. CASE Len(s) = 1
    <3>1. plan' = plan
      BY <2>1 DEF Publish
    <3> QED
      BY <1>1, <1>9, <3>1
         DEF Ordered, PlanMatches, LandedComplete, Waiting, Waits, Suits
  <2>2. CASE Len(s) # 1
    <3>1. Len(s) - 1 \in DOMAIN s /\ below \in Node /\ Len(s) - 1 # Len(s)
      BY <1>0, <2>2, BelowTop
    <3>2. plan' = [plan EXCEPT ![below] = Append(plan[below], Top(t))]
      BY <2>2 DEF Publish
    <3>3. s[(Len(s) - 1) + 1] = Top(t)
      BY <1>0
    <3>4. Waits(below, Top(t))
      BY <3>1, <3>3 DEF Ordered, Waiting
    <3>5. Suits(Top(t), Fields[below.class][Len(plan[below]) + 1])
      BY <1>0, <3>4, NoneAssumption DEF Suits, Waits
    <3>6. below \notin landed
      BY <3>1 DEF Ordered, OpenUnlanded
    <3>7. \A m \in Node : m # below => plan'[m] = plan[m]
      BY <1>0, <3>2 DEF Typed, TypeOK
    <3>8. PlanMatches'
      BY <1>0, <3>1, <3>2, <3>4, <3>5, PlanGrows DEF Waits
    <3>9. LandedComplete'
      <4>1. landed \subseteq Node
        BY <1>0 DEF Typed, TypeOK
      <4> QED
        BY <1>1, <3>6, <3>7, <4>1 DEF Ordered, LandedComplete
    <3>10. Waiting'
      <4> SUFFICES ASSUME NEW u \in Thread, NEW i \in DOMAIN stack'[u], i # Len(stack'[u])
                   PROVE  /\ Len(plan'[stack'[u][i]]) < Len(Fields[stack'[u][i].class])
                          /\ Fields[stack'[u][i].class][Len(plan'[stack'[u][i]]) + 1]
                                 = stack'[u][i + 1].class
        BY DEF Waiting, Waits
      <4>1. Waits(stack[u][i], stack[u][i + 1]) /\ stack[u][i] \in Node
        BY <1>0, <1>9, Sequences DEF Ordered, Waiting
      <4>2. stack[u][i] # below
        BY <1>9, <3>1, OnOneStack
      <4>3. stack'[u][i] = stack[u][i] /\ stack'[u][i + 1] = stack[u][i + 1]
        BY <1>9
      <4>4. plan'[stack[u][i]] = plan[stack[u][i]]
        BY ONLY <3>7, <4>1, <4>2
      <4> QED
        BY ONLY <4>1, <4>3, <4>4 DEF Waits
    <3> QED
      BY <3>8, <3>9, <3>10
  <2> QED
    BY <2>1, <2>2
<1> QED
  BY <1>6, <1>7, <1>8, <1>10 DEF Ordered

\* A compilation that starts is nobody else's, and has no cell yet.
LEMMA CompileOrdered ==
    ASSUME Ordered, Accounted', NEW t \in Thread, NEW h \in Handle, NEW depth \in 0..MaxDepth,
           CallCompile(t, h, depth)
    PROVE  Ordered'
<1>0. Typed /\ builds \in Nat /\ \A u \in Thread : build[u] \in Nat
  BY SMTT(20), ConstantsAssumption DEF Ordered, Accounted, Typed, TypeOK
<1>1. /\ build'[t] = builds + 1 /\ builds' = builds + 1 /\ pc'[t] = "root" /\ pc[t] = "idle"
      /\ \A u \in Thread \ {t} : build'[u] = build[u] /\ pc'[u] = pc[u]
      /\ UNCHANGED <<cells, landed, plan, stack>>
  BY <1>0 DEF CallCompile, classVars, Typed, TypeOK
<1>2. Owners'
  <2>1. \A n \in cells : n.build \in Nat
    BY <1>0 DEF Typed, TypeOK, Node, Build
  <2> QED
    BY <1>0, <1>1, <2>1 DEF Ordered, Owners
<1>3. PlanMatches' /\ LandedComplete' /\ StackDistinct' /\ Waiting' /\ OpenUnlanded'
  <2>1. PlanMatches' /\ LandedComplete'
    BY <1>1 DEF Ordered, PlanMatches, LandedComplete, Suits
  <2>2. StackDistinct' /\ Waiting'
    BY <1>1 DEF Ordered, StackDistinct, Waiting, Waits
  <2>3. OpenUnlanded'
    BY <1>1 DEF Ordered, OpenUnlanded
  <2> QED
    BY <2>1, <2>2, <2>3
<1> QED
  BY <1>2, <1>3 DEF Ordered

\* Nothing is compiled at first.
LEMMA InitOrdered == Init => Ordered
<1> SUFFICES ASSUME Init PROVE Ordered
  OBVIOUS
<1>1. Accounted /\ Typed
  BY InitAccounted, InitTyped
<1>2. \A n \in Node : plan[n] = <<>> /\ Len(plan[n]) = 0 /\ DOMAIN plan[n] = {}
  BY EmptySeq DEF Init
<1>3. PlanMatches
  BY <1>1, <1>2, Sequences DEF PlanMatches
<1> QED
  BY <1>1, <1>3
     DEF Init, Ordered, Owners, StackDistinct, OpenUnlanded, LandedComplete, Waiting

\* No step of any thread takes a plan out of order.
LEMMA NextOrdered == Ordered /\ [Next]_vars => Ordered'
<1> SUFFICES ASSUME Ordered, [Next]_vars PROVE Ordered'
  OBVIOUS
<1>0. Typed /\ Accounted /\ Accounted' /\ Typed'
  BY NextAccounted DEF Ordered, Accounted
<1> USE DEF classVars, callVars
<1>1. ASSUME NEW t \in Thread, NEW h \in Handle, NEW depth \in 0..MaxDepth,
             CallCompiled(t, h, depth)
      PROVE  Ordered'
  BY <1>0, <1>1, QuietOrdered DEF CallCompiled, Typed, TypeOK
<1>2. ASSUME NEW t \in Thread, NEW h \in Handle, NEW depth \in 0..MaxDepth,
             CallCompile(t, h, depth)
      PROVE  Ordered'
  BY <1>0, <1>2, CompileOrdered
<1>3. ASSUME NEW t \in Thread, RootCached(t)
      PROVE  Ordered'
  BY <1>0, <1>3, QuietOrdered DEF RootCached, Hold, Typed, TypeOK
<1>4. ASSUME NEW t \in Thread, RootFresh(t)
      PROVE  Ordered'
  <2>1. Asks[handle[t]] \in Class /\ pc[t] = "root"
    BY <1>0, <1>4, ConstantsAssumption DEF RootFresh, Typed, StageShape
  <2>2. NodeOf(t, Asks[handle[t]]) \notin cells
    BY <2>1 DEF Ordered, Owners, NodeOf
  <2> QED
    BY <1>0, <1>4, <2>1, <2>2, EnterOrdered DEF RootFresh
<1>5. ASSUME NEW t \in Thread, HintsResolved(t)
      PROVE  Ordered'
  BY <1>0, <1>5, QuietOrdered DEF HintsResolved, Typed, TypeOK
<1>6. ASSUME NEW t \in Thread, HintsUnresolved(t) \/ FieldBad(t)
      PROVE  Ordered'
  BY <1>0, <1>6, QuietOrdered DEF HintsUnresolved, FieldBad, Raise, Typed, TypeOK
<1>7. ASSUME NEW t \in Thread, FieldLeaf(t)
      PROVE  Ordered'
  BY <1>0, <1>7, ResolveOrdered DEF FieldLeaf, Suits
<1>8. ASSUME NEW t \in Thread, FieldPending(t)
      PROVE  Ordered'
  <2>1. NodeOf(t, Field(t)) \in Node /\ NodeOf(t, Field(t)).class = Field(t)
    BY <1>0, <1>8, NodeType DEF FieldPending, AtField, Compiling, NodeOf
  <2>2. Suits(NodeOf(t, Field(t)), Field(t))
    BY <2>1, NoneAssumption DEF Suits
  <2> QED
    BY <1>0, <1>8, <2>1, <2>2, ResolveOrdered DEF FieldPending
<1>9. ASSUME NEW t \in Thread, FieldCached(t)
      PROVE  Ordered'
  <2>1. slot[Field(t)] \in Node /\ slot[Field(t)].class = Field(t)
    BY <1>0, <1>9 DEF FieldCached, Accounted, PublishedLanded, Typed, TypeOK
  <2>2. Suits(slot[Field(t)], Field(t))
    BY <2>1, NoneAssumption DEF Suits
  <2> QED
    BY <1>0, <1>9, <2>1, <2>2, ResolveOrdered DEF FieldCached
<1>10. ASSUME NEW t \in Thread, FieldFresh(t)
       PROVE  Ordered'
  <2>1. Waits(Top(t), NodeOf(t, Field(t))) /\ pc[t] = "fields" /\ Field(t) \in Class
    BY <1>10 DEF FieldFresh, AtField, Field, Waits, NodeOf
  <2> QED
    BY <1>0, <1>10, <2>1, EnterOrdered DEF FieldFresh
<1>11. ASSUME NEW t \in Thread, Land(t)
       PROVE  Ordered'
  BY <1>0, <1>11, LandOrdered
<1>12. ASSUME NEW t \in Thread, Publish(t)
       PROVE  Ordered'
  BY <1>0, <1>12, PublishOrdered
<1>13. ASSUME NEW t \in Thread, ReadNested(t)
       PROVE  Ordered'
  <2>1. UNCHANGED <<cells, landed, plan, builds, build>> /\ pc[t] = "reading"
    BY <1>13 DEF ReadNested
  <2>2. \/ UNCHANGED <<pc, stack>>
        \/ Raise(t, "index_error")
    BY <1>13 DEF ReadNested
  <2>3. \A u \in Thread :
            /\ pc'[u] = "root" => pc[u] = "root"
            /\ \/ stack'[u] = <<>>
               \/ stack'[u] = stack[u] /\ (pc[u] = "landed" => pc'[u] = "landed")
    BY <1>0, <2>1, <2>2 DEF Raise, Ordered, Accounted, Typed, TypeOK
  <2> QED
    BY <1>0, <2>1, <2>3, QuietOrdered
<1>14. ASSUME NEW t \in Thread, NEW what \in {"value", "mismatch"}, ReadEnds(t, what)
       PROVE  Ordered'
  BY <1>0, <1>14, QuietOrdered DEF ReadEnds, Raise, Typed, TypeOK
<1>15. ASSUME NEW c \in Class, Define(c)
       PROVE  Ordered'
  BY <1>0, <1>15, QuietOrdered DEF Define
<1>16. CASE UNCHANGED vars
  BY <1>0, <1>16, QuietOrdered DEF vars
<1> QED
  BY <1>1, <1>2, <1>3, <1>4, <1>5, <1>6, <1>7, <1>8, <1>9, <1>10, <1>11, <1>12,
     <1>13, <1>14, <1>15, <1>16 DEF Next, Call, Step

\* Whichever thread compiled it, and whatever it found in the memo and in the
\* slots, a finished decoder reads the fields of its class, each as declared.
THEOREM PlansFollowFields == Spec => []PlanFollowsFields
<1>1. Ordered => PlanFollowsFields
  <2> SUFFICES ASSUME Ordered, NEW n \in landed
               PROVE  /\ Len(plan[n]) = Len(Fields[n.class])
                      /\ \A i \in DOMAIN plan[n] : Suits(plan[n][i], Fields[n.class][i])
    BY DEF PlanFollowsFields, Suits
  <2>1. n \in Node
    BY DEF Ordered, Accounted, Typed, TypeOK
  <2> QED
    BY <2>1 DEF Ordered, PlanMatches, LandedComplete
<1> QED
  BY <1>1, InitOrdered, NextOrdered, PTL DEF Spec

-----------------------------------------------------------------------------
(* What is under construction, as each step leaves it.                     *)

\* The innermost record is under construction.
LEMMA TopOpen ==
    ASSUME Typed, NEW t \in Thread, stack[t] # <<>>
    PROVE  Top(t) \in Open(t) /\ Top(t) \in Node /\ Top(t).class \in Class
BY TopOnStack, TopType DEF Open

\* What is under construction, once the top is popped.
LEMMA PublishOpen ==
    ASSUME Typed, NEW t \in Thread, Publish(t)
    PROVE  /\ stack[t] # <<>> /\ Open(t) = Open(t)' \cup {Top(t)}
           /\ \A u \in Thread \ {t} : Open(u)' = Open(u)
<1> DEFINE rest == SubSeq(stack[t], 1, Len(stack[t]) - 1)
<1>1. stack[t] # <<>> /\ stack[t] \in Seq(Node)
  BY DEF Publish, Typed, TypeOK, StageShape
<1>2. stack'[t] = rest /\ \A u \in Thread \ {t} : stack'[u] = stack[u]
  BY DEF Publish, Typed, TypeOK
<1>3. {stack[t][i] : i \in DOMAIN stack[t]} = {rest[i] : i \in DOMAIN rest} \cup {Top(t)}
  BY <1>1, OpenPop DEF Top
<1> HIDE DEF rest
<1> QED
  BY <1>1, <1>2, <1>3 DEF Open

\* What is under construction, once a record is entered.
LEMMA EnterOpen ==
    ASSUME Typed, NEW t \in Thread, NEW c \in Class, NodeOf(t, c) \in Node, Enter(t, c)
    PROVE  /\ Open(t)' = Open(t) \cup {NodeOf(t, c)}
           /\ \A u \in Thread \ {t} : Open(u)' = Open(u)
<1> DEFINE n == NodeOf(t, c)
           q == Append(stack[t], n)
<1>1. stack[t] \in Seq(Node)
  BY DEF Typed, TypeOK
<1>2. stack'[t] = q /\ \A u \in Thread \ {t} : stack'[u] = stack[u]
  BY DEF Enter, Typed, TypeOK
<1>3. {q[i] : i \in DOMAIN q} = {stack[t][i] : i \in DOMAIN stack[t]} \cup {n}
  BY <1>1, OpenAppend
<1> HIDE DEF q, n
<1>4. Open(t)' = Open(t) \cup {n}
  BY <1>2, <1>3 DEF Open
<1> QED
  BY <1>2, <1>4 DEF Open, n

\* The record on top is under construction once only.
LEMMA PublishedGone ==
    ASSUME Ordered, NEW t \in Thread, Publish(t)
    PROVE  Top(t) \notin Open(t)'
<1> DEFINE s == stack[t]
           rest == SubSeq(s, 1, Len(s) - 1)
<1>1. Typed /\ s # <<>> /\ s \in Seq(Node) /\ Len(s) \in DOMAIN s /\ Top(t) = s[Len(s)]
  BY TopOnStack DEF Ordered, Accounted, Publish, Typed, TypeOK, StageShape
<1>2. DOMAIN rest = 1..(Len(s) - 1) /\ \A i \in DOMAIN rest : rest[i] = s[i]
  BY <1>1, PopElements
<1>3. Len(s) \in Nat /\ DOMAIN s = 1..Len(s)
  BY <1>1, Sequences
<1>4. stack'[t] = rest
  BY <1>1 DEF Publish, Typed, TypeOK
<1> HIDE DEF rest
<1>5. \A i \in DOMAIN rest : i \in DOMAIN s /\ i # Len(s)
  BY <1>2, <1>3
<1> QED
  BY <1>1, <1>2, <1>4, <1>5 DEF Open, Ordered, StackDistinct

-----------------------------------------------------------------------------
(* How often a class is compiled to the end. Before it is kept on the      *)
(* class, a finished decoder is the one its thread has just landed. From   *)
(* then on no thread enters the class, and each finished decoder can be    *)
(* told by a thread of its own, one that is not about to finish another.   *)

Copies(c) == {n \in landed : n.class = c}
\* The threads that have a decoder of the class still to finish.
Underway(c) == {t \in Thread : \E n \in Open(t) : n.class = c /\ n \notin landed}
JustLanded(n) == \E t \in Thread : pc[t] = "landed" /\ Top(t) = n

Counted ==
    \A c \in Class :
        /\ slot[c] = None => \A n \in Copies(c) : JustLanded(n)
        /\ slot[c] # None => \E f : f \in Injection(Copies(c), Thread \ Underway(c))

\* Threads that have just landed a decoder of a class have no other of it to finish.
LEMMA JustLandedApart ==
    ASSUME Ordered, NEW c \in Class, \A n \in Copies(c) : JustLanded(n)
    PROVE  \E f : f \in Injection(Copies(c), Thread \ Underway(c))
<1> DEFINE f == [n \in Copies(c) |-> CHOOSE t \in Thread : pc[t] = "landed" /\ Top(t) = n]
<1>0. Typed /\ landed \subseteq Node /\ StackOwned
  BY DEF Ordered, Accounted, Typed, TypeOK
<1>1. \A n \in Copies(c) : f[n] \in Thread /\ pc[f[n]] = "landed" /\ Top(f[n]) = n
  BY DEF JustLanded
<1>2. ASSUME NEW n \in Copies(c), f[n] \in Underway(c) PROVE FALSE
  <2>1. PICK m \in Open(f[n]) : m.class = c /\ m \notin landed
    BY <1>2 DEF Underway
  <2>2. stack[f[n]] # <<>>
    BY <1>0, <1>1 DEF Typed, StageShape
  <2>3. n \in Open(f[n])
    BY <1>0, <1>1, <2>2, TopOpen
  <2>4. n.build = m.build /\ n.class = m.class
    BY <1>0, <1>1, <2>1, <2>3 DEF StackOwned, Copies
  <2>5. n \in Node /\ m \in Node
    BY <1>0, <1>1, <2>1, <2>3 DEF StackOwned, Copies, Typed, TypeOK
  <2> QED
    BY <2>1, <2>4, <2>5 DEF Node, Copies
<1>3. f \in [Copies(c) -> Thread \ Underway(c)]
  BY <1>1, <1>2
<1>4. \A m, n \in Copies(c) : f[m] = f[n] => m = n
  BY <1>1
<1> HIDE DEF f
<1> QED
  BY <1>3, <1>4 DEF Injection, IsInjective

\* A step that finishes nothing and has no thread enter the class leaves its count.
LEMMA CountStays ==
    ASSUME Ordered, Counted, NEW c \in Class, UNCHANGED landed, slot'[c] = slot[c],
           slot[c] = None => \A n \in Copies(c) : JustLanded(n) => JustLanded(n)',
           slot[c] # None => \A u \in Thread : Open(u)' \subseteq Open(u)
    PROVE  /\ slot'[c] = None => \A n \in Copies(c)' : JustLanded(n)'
           /\ slot'[c] # None => \E f : f \in Injection(Copies(c)', Thread \ Underway(c)')
<1>1. Copies(c)' = Copies(c)
  BY DEF Copies
<1>2. CASE slot[c] = None
  BY <1>1, <1>2 DEF Counted
<1>3. CASE slot[c] # None
  <2>1. PICK f : f \in Injection(Copies(c), Thread \ Underway(c))
    BY <1>3 DEF Counted
  <2>2. Underway(c)' \subseteq Underway(c)
    BY <1>3 DEF Underway
  <2>3. f \in Injection(Copies(c)', Thread \ Underway(c)')
    BY <1>1, <2>1, <2>2 DEF Injection
  <2> QED
    BY <1>3, <2>3
<1> QED
  BY <1>2, <1>3

\* A record that lands is told by its thread, which had it to finish until now.
LEMMA LandCounted ==
    ASSUME Ordered, Counted, NEW t \in Thread, Land(t)
    PROVE  Counted'
<1> DEFINE n == Top(t)
<1>0. Typed /\ landed \subseteq Node /\ StackOwned /\ pc[t] = "fields"
  BY DEF Ordered, Accounted, Typed, TypeOK, Land
<1>1. stack[t] # <<>> /\ n \in Open(t) /\ n \in Node /\ n.class \in Class
  BY <1>0, TopOpen DEF Typed, StageShape
<1>2. n \notin landed
  BY <1>0, <1>1, TopOnStack DEF Ordered, OpenUnlanded
<1>3. /\ landed' = landed \cup {n} /\ slot' = slot /\ stack' = stack /\ pc'[t] = "landed"
      /\ \A u \in Thread \ {t} : pc'[u] = pc[u]
  BY <1>0 DEF Land, Typed, TypeOK
<1>4. /\ \A u \in Thread : Open(u)' = Open(u) /\ Top(u)' = Top(u)
      /\ \A m : JustLanded(m) => JustLanded(m)'
      /\ \A m : m = n => JustLanded(m)'
  BY <1>0, <1>3 DEF Open, Top, JustLanded
<1> HIDE DEF n
<1> SUFFICES ASSUME NEW c \in Class
             PROVE  /\ slot'[c] = None => \A m \in Copies(c)' : JustLanded(m)'
                    /\ slot'[c] # None =>
                          \E f : f \in Injection(Copies(c)', Thread \ Underway(c)')
  BY DEF Counted
<1>5. \A m \in Copies(c)' : m \in Copies(c) \/ m = n
  BY <1>3 DEF Copies
<1>6. CASE slot[c] = None
  <2>1. \A m \in Copies(c) : JustLanded(m)
    BY <1>6 DEF Counted
  <2>2. \A m \in Copies(c)' : JustLanded(m)'
    <3> SUFFICES ASSUME NEW m \in Copies(c)' PROVE JustLanded(m)'
      OBVIOUS
    <3>1. CASE m = n
      BY <1>4, <3>1
    <3>2. CASE m # n
      BY <1>4, <1>5, <2>1, <3>2
    <3> QED
      BY <3>1, <3>2
  <2> QED
    BY <1>3, <1>6, <2>2
<1>7. CASE slot[c] # None
  <2>1. PICK f : f \in Injection(Copies(c), Thread \ Underway(c))
    BY <1>7 DEF Counted
  <2>2. Underway(c)' \subseteq Underway(c)
    BY <1>3, <1>4 DEF Underway
  <2>3. CASE n.class # c
    <3>1. Copies(c)' = Copies(c)
      BY <1>3, <2>3 DEF Copies
    <3>2. f \in Injection(Copies(c)', Thread \ Underway(c)')
      BY <2>1, <2>2, <3>1 DEF Injection
    <3> QED
      BY <1>3, <1>7, <3>2
  <2>4. CASE n.class = c
    <3> DEFINE g == [m \in Copies(c)' |-> IF m = n THEN t ELSE f[m]]
    <3>1. t \in Underway(c)
      BY <1>1, <1>2, <2>4 DEF Underway
    <3>2. t \notin Underway(c)'
      <4>1. \A m \in Open(t) : m \in Node /\ m.build = n.build
        BY <1>0, <1>1 DEF StackOwned, Typed, TypeOK
      <4>2. \A m \in Open(t) : m.class = c => m = n
        BY <1>1, <2>4, <4>1 DEF Node
      <4> QED
        BY <1>3, <1>4, <4>2 DEF Underway
    <3>3. f \in [Copies(c) -> Thread \ Underway(c)] /\ \A a, b \in Copies(c) : f[a] = f[b] => a = b
      BY <2>1 DEF Injection, IsInjective
    <3>4. g \in [Copies(c)' -> Thread \ Underway(c)']
      BY <1>5, <2>2, <3>2, <3>3
    <3>5. \A a, b \in Copies(c)' : g[a] = g[b] => a = b
      BY <1>5, <3>1, <3>3
    <3> HIDE DEF g
    <3>6. g \in Injection(Copies(c)', Thread \ Underway(c)')
      BY <3>4, <3>5 DEF Injection, IsInjective
    <3> QED
      BY <1>3, <1>7, <3>6
  <2> QED
    BY <2>3, <2>4
<1> QED
  BY <1>6, <1>7

\* Nothing is finished at first.
LEMMA InitCounted == Init => Counted
BY DEF Init, Counted, Copies

\* No step finishes more of a class than there are threads to tell them by.
LEMMA NextCounted ==
    ASSUME Ordered, Counted, [Next]_vars
    PROVE  Counted'
<1>0. Typed /\ Accounted /\ landed \subseteq Node
  BY DEF Ordered, Accounted, Typed, TypeOK
<1> USE DEF classVars, callVars
<1>1. ASSUME UNCHANGED <<slot, landed>>,
             \A u \in Thread : \/ stack'[u] = <<>> /\ pc[u] # "landed"
                               \/ stack'[u] = stack[u] /\ (pc[u] = "landed" => pc'[u] = "landed")
      PROVE  Counted'
  <2>1. \A u \in Thread : Open(u)' \subseteq Open(u)
    BY <1>1 DEF Open
  <2>2. \A n : JustLanded(n) => JustLanded(n)'
    BY <1>1 DEF JustLanded, Top
  <2> QED
    BY <1>1, <2>1, <2>2, CountStays DEF Counted
<1>2. ASSUME NEW t \in Thread, NEW c \in Class, pc[t] \in {"root", "fields"},
             slot[c] = None, Enter(t, c)
      PROVE  Counted'
  <2>1. NodeOf(t, c) \in Node /\ NodeOf(t, c).class = c
    BY <1>0, <1>2, NodeType DEF Compiling, NodeOf
  <2>2. /\ Open(t)' = Open(t) \cup {NodeOf(t, c)}
        /\ \A u \in Thread \ {t} : Open(u)' = Open(u)
    BY <1>0, <1>2, <2>1, EnterOpen
  <2>3. /\ UNCHANGED <<slot, landed>>
        /\ \A u \in Thread \ {t} : pc'[u] = pc[u] /\ stack'[u] = stack[u]
    BY <1>0, <1>2 DEF Enter, Typed, TypeOK
  <2>4. \A n : JustLanded(n) => JustLanded(n)'
    BY <1>2, <2>3 DEF JustLanded, Top
  <2> SUFFICES ASSUME NEW d \in Class
               PROVE  /\ slot'[d] = None => \A m \in Copies(d)' : JustLanded(m)'
                      /\ slot'[d] # None =>
                            \E f : f \in Injection(Copies(d)', Thread \ Underway(d)')
    BY DEF Counted
  <2>5. Copies(d)' = Copies(d)
    BY <2>3 DEF Copies
  <2>6. CASE slot[d] = None
    BY <2>3, <2>4, <2>5, <2>6 DEF Counted
  <2>7. CASE slot[d] # None
    <3>1. Underway(d)' \subseteq Underway(d)
      BY <1>2, <2>1, <2>2, <2>3, <2>7 DEF Underway
    <3>2. PICK f : f \in Injection(Copies(d), Thread \ Underway(d))
      BY <2>7 DEF Counted
    <3>3. f \in Injection(Copies(d)', Thread \ Underway(d)')
      BY <2>5, <3>1, <3>2 DEF Injection
    <3> QED
      BY <2>3, <2>7, <3>3
  <2> QED
    BY <2>6, <2>7
<1>3. ASSUME NEW t \in Thread, Land(t) PROVE Counted'
  BY <1>3, LandCounted
<1>4. ASSUME NEW t \in Thread, Publish(t)
      PROVE  Counted'
  <2>1. /\ stack[t] # <<>> /\ Open(t) = Open(t)' \cup {Top(t)}
        /\ \A u \in Thread \ {t} : Open(u)' = Open(u)
        /\ Top(t) \in Node /\ Top(t).class \in Class
    BY <1>0, <1>4, PublishOpen, TopOpen
  <2>2. /\ slot' = [slot EXCEPT ![Top(t).class] = Top(t)]
        /\ landed' = landed /\ pc[t] = "landed"
        /\ \A u \in Thread \ {t} : pc'[u] = pc[u] /\ stack'[u] = stack[u]
    BY <1>0, <1>4 DEF Publish, Hold, Typed, TypeOK
  <2>3. \A n : JustLanded(n) => n = Top(t) \/ JustLanded(n)'
    BY <2>2 DEF JustLanded, Top
  <2> SUFFICES ASSUME NEW d \in Class
               PROVE  /\ slot'[d] = None => \A m \in Copies(d)' : JustLanded(m)'
                      /\ slot'[d] # None =>
                            \E f : f \in Injection(Copies(d)', Thread \ Underway(d)')
    BY DEF Counted
  <2>4. CASE d # Top(t).class
    <3>1. slot'[d] = slot[d]
      BY <1>0, <2>2, <2>4 DEF Typed, TypeOK
    <3>2. \A n \in Copies(d) : JustLanded(n) => JustLanded(n)'
      BY <2>3, <2>4 DEF Copies
    <3>3. \A u \in Thread : Open(u)' \subseteq Open(u)
      BY <2>1
    <3> QED
      BY <2>2, <3>1, <3>2, <3>3, CountStays
  <2>5. CASE d = Top(t).class
    <3>1. slot'[d] # None
      BY <1>0, <2>1, <2>2, <2>5, NoneAssumption DEF Typed, TypeOK
    <3>2. \E f : f \in Injection(Copies(d), Thread \ Underway(d))
      BY JustLandedApart DEF Counted
    <3>3. PICK f : f \in Injection(Copies(d), Thread \ Underway(d))
      BY <3>2
    <3>4. Copies(d)' = Copies(d) /\ Underway(d)' \subseteq Underway(d)
      BY <2>1, <2>2 DEF Copies, Underway
    <3>5. f \in Injection(Copies(d)', Thread \ Underway(d)')
      BY <3>3, <3>4 DEF Injection
    <3> QED
      BY <3>1, <3>5
  <2> QED
    BY <2>4, <2>5
<1>5. ASSUME NEW t \in Thread, RootCached(t) \/ HintsResolved(t) PROVE Counted'
  <2>1. /\ UNCHANGED <<slot, landed, stack>> /\ pc[t] # "landed"
        /\ \A u \in Thread \ {t} : pc'[u] = pc[u]
    BY <1>0, <1>5 DEF RootCached, HintsResolved, Hold, Typed, TypeOK
  <2> QED
    BY <1>1, <2>1
<1>6. ASSUME NEW t \in Thread, RootFresh(t) PROVE Counted'
  <2>1. Asks[handle[t]] \in Class
    BY <1>0, <1>6, ConstantsAssumption DEF RootFresh, Typed, StageShape
  <2> QED
    BY <1>2, <1>6, <2>1 DEF RootFresh
<1>7. ASSUME NEW t \in Thread, HintsUnresolved(t) \/ FieldBad(t) PROVE Counted'
  <2>1. /\ UNCHANGED <<slot, landed>> /\ stack'[t] = <<>> /\ pc[t] # "landed"
        /\ \A u \in Thread \ {t} : pc'[u] = pc[u] /\ stack'[u] = stack[u]
    BY <1>0, <1>7 DEF HintsUnresolved, FieldBad, AtField, Raise, Typed, TypeOK
  <2> QED
    BY <1>1, <2>1
<1>8. ASSUME NEW t \in Thread, FieldLeaf(t) \/ FieldPending(t) \/ FieldCached(t) PROVE Counted'
  BY <1>1, <1>8 DEF FieldLeaf, FieldPending, FieldCached
<1>9. ASSUME NEW t \in Thread, FieldFresh(t) PROVE Counted'
  BY <1>2, <1>9 DEF FieldFresh, AtField
<1>10. ASSUME NEW t \in Thread,
              ReadNested(t) \/ \E what \in {"value", "mismatch"} : ReadEnds(t, what)
       PROVE  Counted'
  <2>1. /\ UNCHANGED <<slot, landed>> /\ pc[t] = "reading"
        /\ stack'[t] = stack[t] \/ stack'[t] = <<>>
        /\ \A u \in Thread \ {t} : pc'[u] = pc[u] /\ stack'[u] = stack[u]
    BY <1>0, <1>10 DEF ReadNested, ReadEnds, Raise, Typed, TypeOK
  <2> QED
    BY <1>1, <2>1
<1>11. ASSUME NEW t \in Thread, Call(t) PROVE Counted'
  <2>1. /\ UNCHANGED <<slot, landed, stack>> /\ pc[t] = "idle"
        /\ \A u \in Thread \ {t} : pc'[u] = pc[u]
    BY <1>0, <1>11 DEF Call, CallCompiled, CallCompile, Typed, TypeOK
  <2> QED
    BY <1>1, <2>1
<1>12. ASSUME NEW c \in Class, Define(c) PROVE Counted'
  BY <1>1, <1>12 DEF Define
<1>13. CASE UNCHANGED vars
  BY <1>1, <1>13 DEF vars
<1> QED
  BY <1>3, <1>4, <1>5, <1>6, <1>7, <1>8, <1>9, <1>10, <1>11, <1>12, <1>13 DEF Next, Step

\* However the threads race and whatever fails and is tried again, a class is
\* compiled to the end at most once for each thread.
THEOREM CompiledByEachThreadOnce ==
    ASSUME IsFiniteSet(Thread)
    PROVE  Spec => []CompiledOncePerThread
<1>1. Ordered /\ Counted => CompiledOncePerThread
  <2> SUFFICES ASSUME Ordered, Counted, NEW c \in Class
               PROVE  Cardinality(Copies(c)) <= Cardinality(Thread)
    BY DEF CompiledOncePerThread, Copies
  <2>1. PICK f : f \in Injection(Copies(c), Thread \ Underway(c))
    BY JustLandedApart DEF Counted
  <2>2. f \in Injection(Copies(c), Thread)
    BY <2>1 DEF Injection
  <2> QED
    BY <2>2, FS_Injection
<1>2. Ordered /\ Counted /\ [Next]_vars => (Ordered /\ Counted)'
  BY NextOrdered, NextCounted
<1> QED
  BY <1>1, <1>2, InitOrdered, InitCounted, PTL DEF Spec
=============================================================================
