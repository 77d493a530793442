----------------------------- MODULE WriterProofs -----------------------------
(***************************************************************************)
(* What dumps does with every object graph: for every set of objects, of   *)
(* whatever kinds and however they refer to each other, every order of     *)
(* texts and every recursion limit.                                        *)
(***************************************************************************)
EXTENDS Spellable, Basics, FiniteSetTheorems

-----------------------------------------------------------------------------
(* The members of a finite set in an order of it.                          *)

\* What comes up to each member tells the members apart.
Orders(S, upTo) ==
    /\ upTo \in [S -> SUBSET S]
    /\ \A i \in S : i \in upTo[i]
    /\ \A i, j \in S : i # j => \/ upTo[i] \subseteq upTo[j] /\ j \notin upTo[i]
                                \/ upTo[j] \subseteq upTo[i] /\ i \notin upTo[j]

\* Each place has its member and each member its place.
LEMMA NthInOrder ==
    ASSUME NEW S, IsFiniteSet(S), NEW upTo, Orders(S, upTo)
    PROVE  /\ Cardinality(S) \in Nat
           /\ \A r \in 1..Cardinality(S) :
                 Nth(S, upTo, r) \in S /\ Cardinality(upTo[Nth(S, upTo, r)]) = r
           /\ \A i \in S : /\ Cardinality(upTo[i]) \in 1..Cardinality(S)
                           /\ Nth(S, upTo, Cardinality(upTo[i])) = i
<1> DEFINE n == Cardinality(S)
           place == [i \in S |-> Cardinality(upTo[i])]
<1>1. n \in Nat /\ IsFiniteSet(1..n) /\ Cardinality(1..n) = n
  BY FS_CardinalityType, FS_Interval
<1>2. ASSUME NEW i \in S
      PROVE  IsFiniteSet(upTo[i]) /\ Cardinality(upTo[i]) \in 1..n
  <2>1. upTo[i] \in SUBSET S /\ upTo[i] # {}
    BY DEF Orders
  <2>2. IsFiniteSet(upTo[i]) /\ Cardinality(upTo[i]) <= n
    BY <2>1, FS_Subset
  <2>3. Cardinality(upTo[i]) \in Nat /\ Cardinality(upTo[i]) # 0
    BY <2>1, <2>2, FS_CardinalityType, FS_EmptySet
  <2> QED
    BY <1>1, <2>2, <2>3
<1>3. ASSUME NEW i \in S, NEW j \in S, upTo[i] \subseteq upTo[j], j \notin upTo[i]
      PROVE  Cardinality(upTo[i]) # Cardinality(upTo[j])
  <2>1. upTo[i] # upTo[j]
    BY <1>3 DEF Orders
  <2> QED
    BY <1>2, <1>3, <2>1, FS_Subset
<1>4. ASSUME NEW i \in S, NEW j \in S, Cardinality(upTo[i]) = Cardinality(upTo[j])
      PROVE  i = j
  BY <1>3, <1>4 DEF Orders
<1>5. place \in Injection(S, 1..n)
  <2>1. place \in [S -> 1..n]
    BY <1>2
  <2>2. \A i, j \in S : place[i] = place[j] => i = j
    BY <1>4
  <2> QED
    BY <2>1, <2>2 DEF Injection, IsInjective
<1>6. place \in Surjection(S, 1..n)
  BY <1>1, <1>5, FS_Injection
<1>7. \A r \in 1..n : \E i \in S : Cardinality(upTo[i]) = r
  BY <1>6 DEF Surjection
<1>8. \A r \in 1..n : Nth(S, upTo, r) \in S /\ Cardinality(upTo[Nth(S, upTo, r)]) = r
  BY <1>7 DEF Nth
<1> QED
  BY <1>1, <1>2, <1>4, <1>8

\* Of places in a sequence, up to each are those not after it.
LEMMA PlacesOrder ==
    ASSUME NEW S, NEW n \in Nat, S \subseteq 1..n
    PROVE  IsFiniteSet(S) /\ Orders(S, [i \in S |-> {j \in S : j <= i}])
<1>1. IsFiniteSet(S)
  <2>1. IsFiniteSet(1..n)
    BY FS_Interval
  <2>2. S \in SUBSET (1..n)
    OBVIOUS
  <2> QED
    BY <2>1, <2>2, FS_Subset
<1>2. \A i \in S : i \in Int
  OBVIOUS
<1> DEFINE upTo == [i \in S |-> {j \in S : j <= i}]
<1>3. upTo \in [S -> SUBSET S] /\ \A i, j \in S : j \in upTo[i] <=> j <= i
  OBVIOUS
<1> HIDE DEF upTo
<1>4. \A i \in S : i \in upTo[i]
  BY <1>2, <1>3
<1>5. ASSUME NEW i \in S, NEW j \in S, i < j
      PROVE  upTo[i] \subseteq upTo[j] /\ j \notin upTo[i]
  <2>1. ASSUME NEW l \in upTo[i] PROVE l \in upTo[j]
    <3>1. l \in S /\ l <= i
      BY <1>3
    <3>2. l <= j
      BY <1>2, <1>5, <3>1
    <3> QED
      BY <1>3, <3>1, <3>2
  <2>2. ~(j <= i)
    BY <1>2, <1>5
  <2> QED
    BY <1>3, <2>1, <2>2
<1>6. Orders(S, upTo)
  <2>1. \A i, j \in S : i # j => i < j \/ j < i
    BY <1>2
  <2> QED
    BY <1>3, <1>4, <1>5, <2>1 DEF Orders
<1> QED
  BY <1>1, <1>6 DEF upTo

\* The last of some places.
LEMMA LastPlace ==
    ASSUME NEW S, NEW n \in Nat, S \subseteq 1..n, S # {}
    PROVE  \E i \in S : \A j \in S : j <= i
<1> DEFINE upTo == [i \in S |-> {j \in S : j <= i}]
           i == Nth(S, upTo, Cardinality(S))
<1>1. IsFiniteSet(S) /\ Orders(S, upTo)
  BY PlacesOrder
<1>2. Cardinality(S) \in Nat /\ Cardinality(S) # 0
  BY <1>1, FS_CardinalityType, FS_EmptySet
<1>3. i \in S /\ Cardinality(upTo[i]) = Cardinality(S)
  <2> HIDE DEF upTo
  <2> QED
    BY <1>1, <1>2, NthInOrder
<1>4. upTo[i] = S
  <2>1. upTo[i] \subseteq S
    BY <1>3
  <2> HIDE DEF upTo, i
  <2> QED
    BY <1>1, <1>3, <2>1, FS_Subset
<1> QED
  BY <1>3, <1>4

-----------------------------------------------------------------------------
(* What is spelled, and what is written.                                   *)

\* The words an object is spelled with, and the tokens and texts made of them.
Of(kinds) == {h \in Heads : h.k \in kinds}
Word ==
    {h.s : h \in Of({"null", "enum", "str", "carrier"})}
    \cup {h.tag : h \in Of({"tagged"})}
    \cup {h.name : h \in Of({"run", "set", "class", "carrier"})}
    \cup UNION {Range(h.keys) : h \in Of({"object", "dict", "class"})}
Token ==
    [t: {"id", "str"}, s: Word] \cup {Mk(m) : m \in {"[", "]", "{", "}", ",", ":"}}
Texts == Seq(Token)

\* Texts are ordered as Python's strings are: one of any two comes first.
TextsOrdered ==
    \A s, u \in Texts :
        /\ ~TextBefore(s, s)
        /\ s # u => TextBefore(s, u) \/ TextBefore(u, s)
        /\ \A v \in Texts : TextBefore(s, u) /\ TextBefore(u, v) => TextBefore(s, v)

\* A sequence of objects, with the key each is under.
Keyed(keys, kids) == kids \in Seq(Refs) /\ \A j \in 1..Len(kids) : keys[j] \in Word

\* What is spelled is an object, or what the hook made of one.
Plain(v) ==
    \/ v \in Refs
    \/ v.k = "str" /\ v.s \in Word
    \/ v.k = "array" /\ v.kids \in Seq(Refs)
    \/ v.k = "object" /\ Keyed(v.keys, v.kids)
Value(v) ==
    \/ Plain(v)
    \/ v.k = "null" /\ v.s \in Word
    \/ v.k = "stray"
    \/ v.k = "tagged" /\ v.tag \in Word /\ Plain(v.kids[1])

\* The parts of what is known of a value, by its kind.
Parted(o) ==
    /\ o.k \in {"null", "str"} => o.s \in Word
    /\ o.k = "tagged" => o.tag \in Word /\ Plain(o.kids[1])
    /\ o.k = "array" => o.kids \in Seq(Refs)
    /\ o.k = "object" => Keyed(o.keys, o.kids)
    /\ o.k \in Known \cup {"stray"} => o \in Heads \/ o.k = "stray"

LEMMA RefKind == \A v \in Refs : v.k = "ref" /\ v.n \in Node
BY DEF Refs, Ref

LEMMA HeadParts ==
    ASSUME NEW h \in Heads
    PROVE  /\ h.k \in Core \cup Known \cup Unknown
           /\ h.k \in {"tagged", "array", "object", "list", "dict", "set", "class", "run"} =>
                 h.kids \in Seq(Refs)
           /\ h.k \in {"object", "dict", "class"} =>
                 Keyed(h.keys, h.kids) /\ h.keys \in Seq(Word) /\ Len(h.keys) = Len(h.kids)
           /\ h.k \in {"null", "enum", "str", "carrier"} => h.s \in Word
           /\ h.k = "tagged" => h.tag \in Word /\ h.kids[1] \in Refs
           /\ h.k \in {"run", "set", "class", "carrier"} => h.name \in Word
<1>1. ASSUME h.k \in {"object", "dict", "class"}
      PROVE  Keyed(h.keys, h.kids) /\ h.keys \in Seq(Word) /\ Len(h.keys) = Len(h.kids)
  <2>1. Range(h.keys) \subseteq Word
    BY <1>1 DEF Word, Of
  <2>2. h.keys \in Seq(Word) /\ Len(h.keys) = Len(h.kids) /\ h.kids \in Seq(Refs)
    BY <1>1, <2>1, SeqMonotonic, HeadsAssumption
  <2>3. \A j \in 1..Len(h.keys) : h.keys[j] \in Word
    BY <2>2, ElementOfSeq
  <2> QED
    BY <2>2, <2>3 DEF Keyed
<1>2. h.k = "tagged" => h.kids[1] \in Refs
  <2> SUFFICES ASSUME h.k = "tagged" PROVE h.kids[1] \in Refs
    OBVIOUS
  <2>1. h.kids \in Seq(Refs) /\ Len(h.kids) = 1
    BY HeadsAssumption
  <2> QED
    BY <2>1, ElementOfSeq
<1>3. h.k \in {"null", "enum", "str", "carrier"} => h.s \in Word
  BY DEF Word, Of
<1>4. /\ h.k = "tagged" => h.tag \in Word
      /\ h.k \in {"run", "set", "class", "carrier"} => h.name \in Word
  BY DEF Word, Of
<1> QED
  BY <1>1, <1>2, <1>3, <1>4, HeadsAssumption

LEMMA ValueParts ==
    ASSUME NEW v, Value(v), v.k # "ref"
    PROVE  Parted(v)
BY RefKind DEF Value, Plain, Parted, Known

LEMMA HeadParted ==
    ASSUME NEW h \in Heads PROVE Parted(h) /\ h.k # "ref"
BY HeadParts DEF Parted, Plain, Core, Known, Unknown

\* The dict of a dataclass's fields.
LEMMA BodyKeyed ==
    ASSUME NEW h \in Heads, h.k = "class"
    PROVE  Body(h).k = "object" /\ Keyed(Body(h).keys, Body(h).kids)
<1> DEFINE n == Len(h.keys)
           first == {i \in DOMAIN h.keys : \A j \in 1..(i - 1) : h.keys[j] # h.keys[i]}
           upTo == [i \in first |-> {j \in first : j <= i}]
           places == 1..Cardinality(first)
           Latest(i) == CHOOSE j \in DOMAIN h.keys :
                           /\ h.keys[j] = h.keys[i]
                           /\ \A l \in (j + 1)..n : h.keys[l] # h.keys[i]
<1>1. /\ h.keys \in Seq(Word) /\ h.kids \in Seq(Refs) /\ n \in Nat /\ Len(h.kids) = n
      /\ DOMAIN h.keys = 1..n /\ \A i \in 1..n : h.keys[i] \in Word /\ h.kids[i] \in Refs
  <2>1. h.keys \in Seq(Word) /\ h.kids \in Seq(Refs) /\ Len(h.kids) = n
    BY HeadParts
  <2> QED
    BY <2>1, LenProperties, ElementOfSeq
<1>2. first \subseteq 1..n
  BY <1>1
<1>3. ASSUME NEW i \in 1..n PROVE Latest(i) \in 1..n
  <2> DEFINE alike == {j \in 1..n : h.keys[j] = h.keys[i]}
  <2>1. PICK j \in alike : \A l \in alike : l <= j
    <3>1. alike \subseteq 1..n /\ alike # {}
      BY <1>3
    <3> HIDE DEF alike
    <3> QED
      BY <1>1, <3>1, LastPlace
  <2>2. \A l \in (j + 1)..n : h.keys[l] # h.keys[i]
    <3> SUFFICES ASSUME NEW l \in (j + 1)..n, h.keys[l] = h.keys[i] PROVE FALSE
      OBVIOUS
    <3>1. l \in 1..n /\ ~(l <= j)
      BY <1>1, <2>1
    <3> QED
      BY <2>1, <3>1
  <2> QED
    BY <1>1, <2>1, <2>2
<1>4. Cardinality(first) \in Nat /\ \A r \in places : Nth(first, upTo, r) \in 1..n
  <2>1. IsFiniteSet(first) /\ Orders(first, upTo)
    <3> HIDE DEF first
    <3> QED
      BY <1>1, <1>2, PlacesOrder
  <2> HIDE DEF upTo, first
  <2> QED
    BY <1>2, <2>1, NthInOrder
<1> DEFINE keys == [r \in places |-> h.keys[Nth(first, upTo, r)]]
           kids == [r \in places |-> h.kids[Latest(Nth(first, upTo, r))]]
<1>5. Body(h) = [k |-> "object", keys |-> keys, kids |-> kids]
  BY DEF Body
<1> HIDE DEF upTo, first, Latest
<1>6. kids \in Seq(Refs) /\ Len(kids) = Cardinality(first)
  <2>1. kids \in [places -> Refs]
    BY <1>1, <1>3, <1>4
  <2> QED
    BY <1>4, <2>1
<1>7. \A r \in places : keys[r] \in Word
  BY <1>1, <1>4
<1> HIDE DEF keys, kids
<1> QED
  BY <1>5, <1>6, <1>7 DEF Keyed

\* The elements of a set in the order of their texts are its elements.
LEMMA SortedElements ==
    ASSUME TextsOrdered, NEW kids \in Seq(Refs), NEW keys \in Seq(Texts),
           Len(keys) = Len(kids)
    PROVE  /\ SortedBy(kids, keys) \in Seq(Refs)
           /\ Len(SortedBy(kids, keys)) = Len(kids)
           /\ \A i \in 1..Len(kids) :
                /\ \E r \in 1..Len(kids) : SortedBy(kids, keys)[r] = kids[i]
                /\ \E j \in 1..Len(kids) : SortedBy(kids, keys)[i] = kids[j]
<1> DEFINE S == DOMAIN kids
           n == Len(kids)
           upTo == [i \in S |-> {j \in S :
                       TextBefore(keys[j], keys[i]) \/ (keys[j] = keys[i] /\ j <= i)}]
           sorted == SortedBy(kids, keys)
<1>1. /\ n \in Nat /\ S = 1..n /\ IsFiniteSet(S) /\ Cardinality(S) = n
      /\ \A i \in S : kids[i] \in Refs /\ keys[i] \in Texts /\ i \in Int
  <2>1. n \in Nat /\ S = 1..n
    BY LenProperties
  <2>2. IsFiniteSet(1..n) /\ Cardinality(1..n) = n
    <3> HIDE DEF n
    <3>1. IsFiniteSet(1..n) /\ Cardinality(1..n) = IF 1 > n THEN 0 ELSE n - 1 + 1
      BY <2>1, FS_Interval
    <3> QED
      BY <2>1, <3>1
  <2>3. \A i \in 1..n : kids[i] \in Refs /\ keys[i] \in Texts
    BY <2>1, ElementOfSeq
  <2> QED
    BY <2>1, <2>2, <2>3
<1>2. sorted = [r \in S |-> kids[Nth(S, upTo, r)]]
  BY DEF SortedBy
<1>3. Orders(S, upTo)
  <2>1. /\ upTo \in [S -> SUBSET S]
        /\ \A i, j \in S : j \in upTo[i] <=>
              TextBefore(keys[j], keys[i]) \/ (keys[j] = keys[i] /\ j <= i)
    OBVIOUS
  <2> HIDE DEF upTo, S, n
  <2>2. \A i \in S : i \in upTo[i]
    BY <1>1, <2>1
  <2>3. ASSUME NEW i \in S, NEW j \in S, TextBefore(keys[i], keys[j])
        PROVE  upTo[i] \subseteq upTo[j] /\ j \notin upTo[i]
    <3>1. ASSUME NEW l \in upTo[i] PROVE l \in upTo[j]
      <4>1. l \in S /\ (TextBefore(keys[l], keys[i]) \/ keys[l] = keys[i])
        BY <2>1
      <4>2. TextBefore(keys[l], keys[j])
        BY <1>1, <2>3, <4>1 DEF TextsOrdered
      <4> QED
        BY <2>1, <4>1, <4>2
    <3>2. ~TextBefore(keys[j], keys[i]) /\ keys[j] # keys[i]
      BY <1>1, <2>3 DEF TextsOrdered
    <3> QED
      BY <2>1, <3>1, <3>2
  <2>4. ASSUME NEW i \in S, NEW j \in S, keys[i] = keys[j], i < j
        PROVE  upTo[i] \subseteq upTo[j] /\ j \notin upTo[i]
    <3>1. ASSUME NEW l \in upTo[i] PROVE l \in upTo[j]
      <4>1. l \in S /\ (TextBefore(keys[l], keys[j]) \/ (keys[l] = keys[j] /\ l <= i))
        BY <2>1, <2>4
      <4>2. l <= i => l <= j
        BY <1>1, <2>4, <4>1
      <4> QED
        BY <2>1, <4>1, <4>2
    <3>2. ~TextBefore(keys[j], keys[i]) /\ ~(j <= i)
      BY <1>1, <2>4 DEF TextsOrdered
    <3> QED
      BY <2>1, <3>1, <3>2
  <2>5. ASSUME NEW i \in S, NEW j \in S, i # j
        PROVE  \/ upTo[i] \subseteq upTo[j] /\ j \notin upTo[i]
               \/ upTo[j] \subseteq upTo[i] /\ i \notin upTo[j]
    <3>1. \/ TextBefore(keys[i], keys[j]) \/ TextBefore(keys[j], keys[i])
          \/ keys[i] = keys[j]
      BY <1>1 DEF TextsOrdered
    <3>2. i < j \/ j < i
      BY <1>1, <2>5
    <3> QED
      BY <2>3, <2>4, <3>1, <3>2
  <2> QED
    BY <2>1, <2>2, <2>5 DEF Orders
<1> HIDE DEF upTo
<1>4. \A r \in S : Nth(S, upTo, r) \in S
  BY <1>1, <1>3, NthInOrder
<1>5. sorted \in [1..n -> Refs]
  BY <1>1, <1>2, <1>4
<1>6. sorted \in Seq(Refs) /\ Len(sorted) = n
  BY <1>1, <1>5
<1>7. ASSUME NEW i \in 1..n PROVE \E r \in 1..n : sorted[r] = kids[i]
  <2>1. Cardinality(upTo[i]) \in 1..n /\ Nth(S, upTo, Cardinality(upTo[i])) = i
    BY <1>1, <1>3, NthInOrder
  <2> QED
    BY <1>1, <1>2, <2>1
<1>8. ASSUME NEW i \in 1..n PROVE \E j \in 1..n : sorted[i] = kids[j]
  BY <1>1, <1>2, <1>4
<1> QED
  BY <1>6, <1>7, <1>8

-----------------------------------------------------------------------------
(* The frames that wait.                                                   *)

Framed(fr) ==
    \/ fr = [f |-> "tag"]
    \/ fr = [f |-> "convert"]
    \/ /\ fr = [f |-> "array", kids |-> fr.kids, i |-> fr.i]
       /\ fr.kids \in Seq(Refs) /\ fr.i \in 0..Len(fr.kids)
    \/ /\ fr = [f |-> "object", keys |-> fr.keys, kids |-> fr.kids, i |-> fr.i]
       /\ Keyed(fr.keys, fr.kids) /\ fr.i \in 0..Len(fr.kids)
    \/ /\ fr = [f |-> "sort", name |-> fr.name, kids |-> fr.kids, keys |-> fr.keys,
                i |-> fr.i, out |-> fr.out, under |-> fr.under]
       /\ fr.name \in Word /\ fr.kids \in Seq(Refs) /\ fr.i \in 0..Len(fr.kids)
       /\ fr.keys \in Seq(Texts) /\ Len(fr.keys) <= fr.i /\ fr.i <= Len(fr.keys) + 1
       /\ fr.out \in Texts /\ fr.under \in BOOLEAN

\* A frame that has called emit is at one of its children.
Waits(fr) ==
    /\ fr.f \in {"array", "object", "sort"} => fr.i > 0
    /\ fr.f = "sort" => fr.i = Len(fr.keys) + 1

\* Every frame waits for the one above it; the one on top is on its own where the
\* parser of the graph goes on.
Stacked(st, m) ==
    /\ IsStack(st)
    /\ \A i \in DOMAIN st : Framed(st[i]) /\ (i # Len(st) \/ m # "next" => Waits(st[i]))

LEMMA PushStacked ==
    ASSUME NEW st, NEW m0, Stacked(st, m0), m0 # "next", NEW fr, Framed(fr),
           NEW m, m = "next" \/ Waits(fr), NEW q, q = Append(st, fr)
    PROVE  /\ Stacked(q, m) /\ q # <<>> /\ Len(q) = Len(st) + 1 /\ q[Len(q)] = fr
           /\ \A i \in 1..Len(st) : q[i] = st[i]
<1>1. IsStack(st) /\ Len(st) \in Nat /\ DOMAIN st = 1..Len(st)
  BY StackIndices DEF Stacked
<1>2. IsStack(q) /\ q # <<>>
  BY <1>1, StackPush
<1>3. Len(q) = Len(st) + 1 /\ q[Len(q)] = fr
  BY <1>1, StackPush
<1>4. \A i \in 1..Len(st) : q[i] = st[i]
  BY <1>1, StackPush
<1>5. DOMAIN q = 1..Len(q)
  BY <1>2, StackIndices
<1>6. ASSUME NEW i \in DOMAIN q
      PROVE  Framed(q[i]) /\ (i # Len(q) \/ m # "next" => Waits(q[i]))
  <2>1. CASE i = Len(q)
    BY <1>3, <2>1
  <2>2. CASE i # Len(q)
    <3>1. i \in DOMAIN st /\ q[i] = st[i]
      BY <1>1, <1>3, <1>4, <1>5, <2>2
    <3> QED
      BY <3>1 DEF Stacked
  <2> QED
    BY <2>1, <2>2
<1> QED
  BY <1>2, <1>3, <1>4, <1>6 DEF Stacked

LEMMA ReplaceStacked ==
    ASSUME NEW st, NEW m0, Stacked(st, m0), st # <<>>, NEW fr, Framed(fr),
           NEW m, m = "next" \/ Waits(fr), NEW q, q = [st EXCEPT ![Len(st)] = fr]
    PROVE  /\ Stacked(q, m) /\ q # <<>> /\ Len(q) = Len(st) /\ q[Len(q)] = fr
           /\ \A i \in 1..Len(st) : i # Len(st) => q[i] = st[i]
<1>1. IsStack(st) /\ Len(st) \in Nat /\ DOMAIN st = 1..Len(st)
  BY StackIndices DEF Stacked
<1>2. IsStack(q) /\ q # <<>>
  BY <1>1, StackReplace
<1>3. Len(q) = Len(st) /\ q[Len(q)] = fr
  BY <1>1, StackReplace
<1>4. \A i \in 1..Len(st) : i # Len(st) => q[i] = st[i]
  BY <1>1, StackReplace
<1>5. DOMAIN q = 1..Len(q)
  BY <1>2, StackIndices
<1>6. ASSUME NEW i \in DOMAIN q
      PROVE  Framed(q[i]) /\ (i # Len(q) \/ m # "next" => Waits(q[i]))
  <2>1. CASE i = Len(q)
    BY <1>3, <2>1
  <2>2. CASE i # Len(q)
    <3>1. i \in DOMAIN st /\ q[i] = st[i] /\ i # Len(st)
      BY <1>1, <1>3, <1>4, <1>5, <2>2
    <3> QED
      BY <3>1 DEF Stacked
  <2> QED
    BY <2>1, <2>2
<1> QED
  BY <1>2, <1>3, <1>4, <1>6 DEF Stacked

LEMMA PopStacked ==
    ASSUME NEW st, NEW m0, Stacked(st, m0), st # <<>>, NEW m, NEW q, q = Front(st)
    PROVE  /\ Stacked(q, m) /\ Len(q) = Len(st) - 1 /\ Len(q) \in Nat
           /\ \A i \in 1..Len(q) : q[i] = st[i]
<1>1. IsStack(st) /\ Len(st) \in Nat /\ DOMAIN st = 1..Len(st)
  BY StackIndices DEF Stacked
<1>2. q = SubSeq(st, 1, Len(st) - 1)
  BY DEF Front
<1>3. IsStack(q) /\ Len(q) = Len(st) - 1
  BY <1>1, <1>2, StackPop
<1>4. \A i \in 1..Len(q) : q[i] = st[i]
  BY <1>1, <1>2, StackPop
<1>5. DOMAIN q = 1..Len(q) /\ Len(q) \in Nat
  BY <1>3, StackIndices
<1>6. ASSUME NEW i \in DOMAIN q PROVE Framed(q[i]) /\ Waits(q[i])
  <2>1. i \in DOMAIN st /\ q[i] = st[i] /\ i # Len(st)
    BY <1>1, <1>3, <1>4, <1>5
  <2> QED
    BY <2>1 DEF Stacked
<1> QED
  BY <1>3, <1>4, <1>5, <1>6 DEF Stacked

\* The frame on top.
LEMMA TopFramed ==
    ASSUME NEW m, Stacked(stack, m), stack # <<>>
    PROVE  /\ Framed(Top) /\ (m # "next" => Waits(Top))
           /\ Len(stack) \in Nat /\ Len(stack) > 0 /\ Top = stack[Len(stack)]
<1>1. Len(stack) \in Nat /\ DOMAIN stack = 1..Len(stack) /\ Len(stack) > 0
  BY StackIndices DEF Stacked
<1>2. Len(stack) \in DOMAIN stack
  BY <1>1
<1> QED
  BY <1>1, <1>2 DEF Stacked, Top

\* What a frame is says what fields it has.
LEMMA FrameFields ==
    ASSUME NEW fr, Framed(fr)
    PROVE  /\ fr.f \in {"tag", "convert", "array", "object", "sort"}
           /\ fr.f = "array" =>
                /\ fr = [f |-> "array", kids |-> fr.kids, i |-> fr.i]
                /\ fr.kids \in Seq(Refs) /\ fr.i \in 0..Len(fr.kids)
           /\ fr.f = "object" =>
                /\ fr = [f |-> "object", keys |-> fr.keys, kids |-> fr.kids, i |-> fr.i]
                /\ Keyed(fr.keys, fr.kids) /\ fr.i \in 0..Len(fr.kids)
           /\ fr.f = "sort" =>
                /\ fr = [f |-> "sort", name |-> fr.name, kids |-> fr.kids, keys |-> fr.keys,
                         i |-> fr.i, out |-> fr.out, under |-> fr.under]
                /\ fr.name \in Word /\ fr.kids \in Seq(Refs) /\ fr.i \in 0..Len(fr.kids)
                /\ fr.keys \in Seq(Texts) /\ Len(fr.keys) <= fr.i /\ fr.i <= Len(fr.keys) + 1
                /\ fr.out \in Texts /\ fr.under \in BOOLEAN
<1>1. CASE fr = [f |-> "tag"]
  BY <1>1
<1>2. CASE fr = [f |-> "convert"]
  BY <1>2
<1>3. CASE /\ fr = [f |-> "array", kids |-> fr.kids, i |-> fr.i]
           /\ fr.kids \in Seq(Refs) /\ fr.i \in 0..Len(fr.kids)
  <2>1. fr.f = "array"
    BY <1>3
  <2> QED
    BY <1>3, <2>1
<1>4. CASE /\ fr = [f |-> "object", keys |-> fr.keys, kids |-> fr.kids, i |-> fr.i]
           /\ Keyed(fr.keys, fr.kids) /\ fr.i \in 0..Len(fr.kids)
  <2>1. fr.f = "object"
    BY <1>4
  <2> QED
    BY <1>4, <2>1
<1>5. CASE /\ fr = [f |-> "sort", name |-> fr.name, kids |-> fr.kids, keys |-> fr.keys,
                    i |-> fr.i, out |-> fr.out, under |-> fr.under]
           /\ fr.name \in Word /\ fr.kids \in Seq(Refs) /\ fr.i \in 0..Len(fr.kids)
           /\ fr.keys \in Seq(Texts) /\ Len(fr.keys) <= fr.i /\ fr.i <= Len(fr.keys) + 1
           /\ fr.out \in Texts /\ fr.under \in BOOLEAN
  <2>1. fr.f = "sort"
    BY <1>5
  <2> QED
    BY <1>5, <2>1
<1> QED
  BY <1>1, <1>2, <1>3, <1>4, <1>5 DEF Framed

-----------------------------------------------------------------------------
(* The state is well formed.                                               *)

Formed ==
    /\ DOMAIN heap \subseteq Node /\ \A n \in DOMAIN heap : heap[n] \in Heads
    /\ mode \in {"emit", "next", "shape"} /\ Stacked(stack, mode) /\ Len(stack) <= Limit
    /\ under \in BOOLEAN /\ may \in BOOLEAN /\ blank \in BOOLEAN
    /\ outcome \in {"writing", "written", "refused", "raised", "recursion"}
    /\ Value(cur) /\ out \in Texts
    /\ calls \in [Node -> Nat]

\* A frame is let in only below the limit.
LEMMA RoomForFrame ==
    ASSUME Formed, Depth < Limit
    PROVE  Len(stack) + 1 <= Limit
<1> DEFINE sorts == {i \in DOMAIN stack : stack[i].f = "sort"}
<1>1. Len(stack) \in Nat /\ DOMAIN stack = 1..Len(stack)
  BY StackIndices DEF Formed, Stacked
<1>2. Cardinality(sorts) \in Nat
  <2>1. IsFiniteSet(1..Len(stack)) /\ sorts \in SUBSET (1..Len(stack))
    BY <1>1, FS_Interval
  <2> HIDE DEF sorts
  <2> QED
    BY <2>1, FS_Subset, FS_CardinalityType
<1>3. HookFrames * Cardinality(sorts) \in Nat
  <2> HIDE DEF sorts
  <2> QED
    BY <1>2, ConstantsAssumption
<1>4. Depth = Len(stack) + HookFrames * Cardinality(sorts)
  BY DEF Depth
<1> HIDE DEF sorts
<1> DEFINE d == HookFrames * Cardinality(sorts)
<1>5. d \in Nat /\ Len(stack) + d < Limit
  BY <1>3, <1>4
<1> HIDE DEF d
<1> QED
  BY <1>1, <1>5, ConstantsAssumption

\* An object that has been looked at, and what the hook makes of one.
LEMMA ObjParted ==
    ASSUME Formed, ~Hidden PROVE Parted(Obj) /\ Obj.k # "ref"
BY ValueParts, HeadParted DEF Formed, Hidden, Obj

LEMMA SpelledValue ==
    ASSUME NEW o, Parted(o), o.k \in (Known \ {"set"}) \cup {"stray"}
    PROVE  Value(Spelled(o))
<1>1. CASE o.k = "stray"
  BY <1>1 DEF Spelled, Value
<1>2. o.k # "stray" => o \in Heads
  BY DEF Parted
<1>3. CASE o.k = "list"
  <2>1. Spelled(o) = [k |-> "array", kids |-> o.kids] /\ o.kids \in Seq(Refs)
    BY <1>2, <1>3, HeadParts DEF Spelled
  <2> QED
    BY <2>1 DEF Value, Plain
<1>4. CASE o.k = "run"
  <2>1. Spelled(o) = Tagged(o.name, [k |-> "array", kids |-> o.kids])
    BY <1>4 DEF Spelled
  <2>2. o.kids \in Seq(Refs) /\ o.name \in Word
    BY <1>2, <1>4, HeadParts
  <2> QED
    BY <2>1, <2>2 DEF Value, Plain, Tagged
<1>5. CASE o.k = "dict"
  <2>1. Spelled(o) = [k |-> "object", keys |-> o.keys, kids |-> o.kids]
    BY <1>5 DEF Spelled
  <2>2. Keyed(o.keys, o.kids)
    BY <1>2, <1>5, HeadParts
  <2> QED
    BY <2>1, <2>2 DEF Value, Plain
<1>6. CASE o.k = "class"
  <2>1. Spelled(o) = Tagged(o.name, Body(o))
    BY <1>6 DEF Spelled
  <2>2. o.name \in Word /\ Body(o).k = "object" /\ Keyed(Body(o).keys, Body(o).kids)
    BY <1>2, <1>6, HeadParts, BodyKeyed
  <2> QED
    BY <2>1, <2>2 DEF Value, Plain, Tagged
<1>7. CASE o.k = "enum"
  <2>1. Spelled(o) = [k |-> "null", s |-> o.s] /\ o.s \in Word
    BY <1>2, <1>7, HeadParts DEF Spelled
  <2> QED
    BY <2>1 DEF Value
<1>8. CASE o.k = "carrier"
  <2>1. Spelled(o) = Tagged(o.name, [k |-> "str", s |-> o.s])
    BY <1>8 DEF Spelled
  <2>2. o.name \in Word /\ o.s \in Word
    BY <1>2, <1>8, HeadParts
  <2> QED
    BY <2>1, <2>2 DEF Value, Plain, Tagged
<1> QED
  BY <1>1, <1>3, <1>4, <1>5, <1>6, <1>7, <1>8 DEF Known

\* Where emit was called every frame waits, so the frames may stand in any mode.
LEMMA StackedAnywhere ==
    ASSUME NEW st, NEW m0, Stacked(st, m0), m0 # "next", NEW m
    PROVE  Stacked(st, m)
BY DEF Stacked

\* The text grows by tokens.
LEMMA TokenKinds ==
    /\ \A s \in Word : Id(s) \in Token /\ Str(s) \in Token
    /\ \A m \in {"[", "]", "{", "}", ",", ":"} : Mk(m) \in Token
BY DEF Token, Id, Str

LEMMA TokenTexts ==
    /\ \A s \in Word : <<Id(s)>> \in Texts /\ <<Str(s)>> \in Texts
    /\ \A m \in {"[", "]", "{", "}", ",", ":"} : <<Mk(m)>> \in Texts
<1>1. \A t \in Token : <<t>> \in Texts
  BY DEF Texts
<1> QED
  BY <1>1, TokenKinds

LEMMA WriteTexts ==
    ASSUME out \in Texts, NEW tokens \in Texts, Write(tokens)
    PROVE  out' \in Texts
BY ConcatProperties DEF Write, Texts

LEMMA InitFormed == Init => Formed
<1> SUFFICES ASSUME Init PROVE Formed
  OBVIOUS
<1>1. stack = <<>> /\ stack \in Seq({0}) /\ Len(stack) = 0
  BY EmptySeq DEF Init
<1>2. IsStack(stack) /\ DOMAIN stack = {}
  <2>1. IsStack(stack)
    BY <1>1, SeqIsStack
  <2>2. DOMAIN stack = 1..Len(stack)
    BY <2>1, StackIndices
  <2> QED
    BY <1>1, <2>1, <2>2
<1>3. Stacked(stack, mode) /\ Len(stack) <= Limit
  BY <1>1, <1>2, ConstantsAssumption DEF Stacked
<1>4. Root \in Node
  BY ConstantsAssumption DEF Root, Node
<1>5. Value(cur)
  BY <1>4 DEF Init, Value, Plain, Refs
<1>6. DOMAIN heap = {}
  BY DEF Init
<1>7. out \in Texts
  BY EmptySeq DEF Init, Texts
<1>8. calls \in [Node -> Nat]
  BY DEF Init
<1> QED
  BY <1>3, <1>5, <1>6, <1>7, <1>8 DEF Init, Formed

\* What a step leaves well formed when it pushes, changes or pops a frame.
LEMMA StepFormed ==
    ASSUME Formed, heap' = heap, Stacked(stack', mode'), Len(stack') <= Limit,
           mode' \in {"emit", "next", "shape"}, under' \in BOOLEAN, may' \in BOOLEAN,
           Value(cur'), out' \in Texts, outcome' = outcome, blank' \in BOOLEAN,
           calls' \in [Node -> Nat]
    PROVE  Formed'
BY DEF Formed

LEMMA PushFormed ==
    ASSUME Formed, mode = "emit", Depth < Limit, NEW fr, Framed(fr), Push(fr),
           mode' \in {"emit", "next"}, mode' = "next" \/ Waits(fr)
    PROVE  Stacked(stack', mode') /\ Len(stack') <= Limit
<1>1. Stacked(stack', mode') /\ Len(stack') = Len(stack) + 1
  BY PushStacked DEF Formed, Push
<1> QED
  BY <1>1, RoomForFrame

LEMMA ReplaceFormed ==
    ASSUME Formed, stack # <<>>, NEW fr, Framed(fr), Replace(fr),
           mode' \in {"emit", "next"}, mode' = "next" \/ Waits(fr)
    PROVE  Stacked(stack', mode') /\ Len(stack') <= Limit
BY ReplaceStacked DEF Formed, Replace

LEMMA PopFormed ==
    ASSUME Formed, stack # <<>>, Pop
    PROVE  Stacked(stack', mode') /\ Len(stack') <= Limit
<1>1. Stacked(stack', mode') /\ Len(stack') = Len(stack) - 1 /\ Len(stack') \in Nat
  BY PopStacked DEF Formed, Pop
<1>2. Len(stack) \in Nat /\ Len(stack) <= Limit
  BY StackIndices DEF Formed, Stacked
<1> QED
  BY <1>1, <1>2, ConstantsAssumption

LEMMA RefuseFormed ==
    ASSUME Formed, mode # "next", Refuse, heap' = heap, outcome' = outcome,
           blank' = blank, calls' \in [Node -> Nat]
    PROVE  Formed'
BY StackedAnywhere DEF Refuse, Formed

\* The object is looked at for the first time.
LEMMA RevealFormed == Formed /\ Reveal => Formed'
<1> SUFFICES ASSUME Formed, Reveal PROVE Formed'
  OBVIOUS
<1>1. PICK h \in Heads :
          heap' = [n \in DOMAIN heap \cup {cur.n} |-> IF n = cur.n THEN h ELSE heap[n]]
  BY DEF Reveal
<1>2. cur.n \in Node
  <2>1. cur \in Refs
    BY DEF Reveal, Hidden, Formed, Value, Plain
  <2> QED
    BY <2>1, RefKind
<1>3. DOMAIN heap' \subseteq Node /\ \A n \in DOMAIN heap' : heap'[n] \in Heads
  BY <1>1, <1>2 DEF Formed
<1>4. UNCHANGED <<stack, mode, cur, under, may, out, path, outcome, blank, calls>>
  BY DEF Reveal
<1> QED
  BY <1>3, <1>4 DEF Formed

\* The values the core spells.
LEMMA EmitFormed ==
    ASSUME Formed,
           \/ EmitBare \/ EmitScalar \/ EmitUnspellable \/ EmitTagged \/ EmitArray \/ EmitObject
    PROVE  Formed'
<1>1. /\ mode = "emit" /\ ~Hidden /\ Depth < Limit /\ Parted(Obj) /\ out \in Texts
      /\ heap' = heap /\ outcome' = outcome /\ blank' = blank /\ calls' = calls
  BY ObjParted
     DEF EmitBare, EmitScalar, EmitUnspellable, EmitTagged, EmitArray, EmitObject, Emitting,
         Quiet, Formed
<1>2. ASSUME NEW tokens \in Texts, Write(tokens), GoOn, UNCHANGED stack PROVE Formed'
  <2>1. out' \in Texts
    BY <1>1, <1>2, WriteTexts
  <2>2. Stacked(stack', mode')
    BY <1>1, <1>2, StackedAnywhere DEF Formed, GoOn
  <2> QED
    BY <1>1, <1>2, <2>1, <2>2, StepFormed DEF Formed, GoOn
<1>3. CASE EmitBare
  <2>1. CASE Refuse
    BY <1>1, <2>1, RefuseFormed DEF Formed
  <2>2. CASE Write(<<Id(Obj.s)>>) /\ GoOn /\ UNCHANGED <<stack, path>>
    <3>1. <<Id(Obj.s)>> \in Texts
      BY <1>1, <1>3, TokenTexts DEF EmitBare, Emitting, Parted
    <3> QED
      BY <1>2, <2>2, <3>1
  <2> QED
    BY <1>3, <2>1, <2>2 DEF EmitBare
<1>4. CASE EmitScalar
  <2>1. <<Str(Obj.s)>> \in Texts
    BY <1>1, <1>4, TokenTexts DEF EmitScalar, Emitting, Parted
  <2> QED
    BY <1>2, <1>4, <2>1 DEF EmitScalar
<1>5. CASE EmitUnspellable
  BY <1>1, <1>5, RefuseFormed DEF EmitUnspellable, Formed
<1>6. CASE EmitTagged
  <2> DEFINE fr == [f |-> "tag"]
  <2>1. Framed(fr) /\ Waits(fr)
    BY DEF Framed, Waits
  <2>2. Push(fr) /\ Emit(Obj.kids[1], TRUE, TRUE) /\ Write(<<Id(Obj.tag)>>)
    BY <1>6 DEF EmitTagged
  <2> HIDE DEF fr
  <2>3. Value(Obj.kids[1]) /\ <<Id(Obj.tag)>> \in Texts
    BY <1>1, <1>6, TokenTexts DEF EmitTagged, Emitting, Parted, Value
  <2>4. out' \in Texts
    BY <1>1, <2>2, <2>3, WriteTexts
  <2>5. Stacked(stack', mode') /\ Len(stack') <= Limit
    BY <1>1, <2>1, <2>2, PushFormed DEF Emit
  <2> QED
    BY <1>1, <2>2, <2>3, <2>4, <2>5, StepFormed DEF Formed, Emit
<1>7. CASE EmitArray
  <2> DEFINE fr == [f |-> "array", kids |-> Obj.kids, i |-> 0]
  <2>0. Obj.kids \in Seq(Refs)
    BY <1>1, <1>7 DEF EmitArray, Emitting, Parted
  <2>1. Framed(fr)
    BY <2>0, LenProperties DEF Framed
  <2>2. Push(fr) /\ GoOn /\ Write(<<Mk("[")>>)
    BY <1>7 DEF EmitArray
  <2> HIDE DEF fr
  <2>3. <<Mk("[")>> \in Texts
    BY TokenTexts
  <2>4. out' \in Texts
    BY <1>1, <2>2, <2>3, WriteTexts
  <2>5. Stacked(stack', mode') /\ Len(stack') <= Limit
    BY <1>1, <2>1, <2>2, PushFormed DEF GoOn
  <2> QED
    BY <1>1, <2>2, <2>4, <2>5, StepFormed DEF Formed, GoOn
<1>8. CASE EmitObject
  <2> DEFINE fr == [f |-> "object", keys |-> Obj.keys, kids |-> Obj.kids, i |-> 0]
  <2>0. Keyed(Obj.keys, Obj.kids)
    BY <1>1, <1>8 DEF EmitObject, Emitting, Parted
  <2>1. Framed(fr)
    BY <2>0, LenProperties DEF Framed, Keyed
  <2>2. Push(fr) /\ GoOn /\ Write(<<Mk("{")>>)
    BY <1>8 DEF EmitObject
  <2> HIDE DEF fr
  <2>3. <<Mk("{")>> \in Texts
    BY TokenTexts
  <2>4. out' \in Texts
    BY <1>1, <2>2, <2>3, WriteTexts
  <2>5. Stacked(stack', mode') /\ Len(stack') <= Limit
    BY <1>1, <2>1, <2>2, PushFormed DEF GoOn
  <2> QED
    BY <1>1, <2>2, <2>4, <2>5, StepFormed DEF Formed, GoOn
<1> QED
  BY <1>3, <1>4, <1>5, <1>6, <1>7, <1>8

\* The hook.
LEMMA HookFormed ==
    ASSUME Formed, Convert \/ StillUnknown \/ CannotEncode \/ Sort
    PROVE  Formed'
<1>1. /\ mode = "emit" /\ ~Hidden /\ Depth < Limit /\ Parted(Obj) /\ out \in Texts
      /\ heap' = heap /\ outcome' = outcome /\ blank' = blank
  BY ObjParted
     DEF Convert, StillUnknown, CannotEncode, Sort, Emitting, Quiet, Formed
<1>2. calls' \in [Node -> Nat]
  <2>1. calls \in [Node -> Nat]
    BY DEF Formed
  <2>2. Called \/ calls' = calls
    BY DEF Convert, StillUnknown, CannotEncode, Sort, Quiet
  <2>3. CASE Called
    <3>1. calls' = [calls EXCEPT ![cur.n] = calls[cur.n] + 1]
      BY <2>3 DEF Called
    <3>2. cur.n \in Node => calls[cur.n] + 1 \in Nat
      BY <2>1
    <3> QED
      BY ONLY <2>1, <3>1, <3>2
  <2> QED
    BY <2>1, <2>2, <2>3
<1>3. CASE StillUnknown \/ CannotEncode
  BY <1>1, <1>2, <1>3, RefuseFormed DEF StillUnknown, CannotEncode
<1>4. CASE Convert
  <2> DEFINE fr == [f |-> "convert"]
  <2>1. Framed(fr) /\ Waits(fr)
    BY DEF Framed, Waits
  <2>2. Push(fr) /\ Emit(Spelled(Obj), under, FALSE) /\ out' = out
    BY <1>4 DEF Convert
  <2> HIDE DEF fr
  <2>3. Value(Spelled(Obj))
    BY <1>1, <1>4, SpelledValue DEF Convert, Emitting
  <2>4. Stacked(stack', mode') /\ Len(stack') <= Limit
    BY <1>1, <2>1, <2>2, PushFormed DEF Emit
  <2> QED
    BY <1>1, <1>2, <2>2, <2>3, <2>4, StepFormed DEF Formed, Emit
<1>5. CASE Sort
  <2> DEFINE fr == [f |-> "sort", name |-> Obj.name, kids |-> Obj.kids, keys |-> <<>>, i |-> 0,
                    out |-> out, under |-> under]
  <2>0. Obj.kids \in Seq(Refs) /\ Obj.name \in Word
    BY <1>1, <1>5, HeadParts DEF Sort, Emitting, Parted, Known
  <2>1. Framed(fr)
    <3>1. <<>> \in Seq(Texts) /\ Len(<<>>) = 0 /\ Len(Obj.kids) \in Nat
      BY <2>0, EmptySeq, LenProperties
    <3> QED
      BY <1>1, <2>0, <3>1 DEF Framed, Formed
  <2>2. Push(fr) /\ GoOn /\ out' = out
    BY <1>5 DEF Sort
  <2> HIDE DEF fr
  <2>3. Stacked(stack', mode') /\ Len(stack') <= Limit
    BY <1>1, <2>1, <2>2, PushFormed DEF GoOn
  <2> QED
    BY <1>1, <1>2, <2>2, <2>3, StepFormed DEF Formed, GoOn
<1> QED
  BY <1>3, <1>4, <1>5

\* A frame goes on.
LEMMA LeaveFormed ==
    ASSUME Formed, Leave
    PROVE  Formed'
<1>1. stack # <<>> /\ Pop /\ UNCHANGED <<mode, cur, under, may, out, heap, outcome, blank, calls>>
  BY DEF Leave, GoingOn, Quiet
<1>2. Stacked(stack', mode') /\ Len(stack') <= Limit
  BY <1>1, PopFormed
<1> QED
  BY <1>1, <1>2, StepFormed DEF Formed

\* The frame on top at its next child.
LEMMA NextChild ==
    ASSUME NEW fr, Framed(fr), fr.f \in {"array", "object"}, fr.i # Len(fr.kids)
    PROVE  /\ Framed([fr EXCEPT !.i = @ + 1]) /\ Waits([fr EXCEPT !.i = @ + 1])
           /\ fr.i + 1 \in 1..Len(fr.kids) /\ fr.kids[fr.i + 1] \in Refs
<1> DEFINE n == Len(fr.kids)
<1>1. n \in Nat /\ fr.i \in 0..n /\ fr.i # n /\ fr.kids \in Seq(Refs)
  BY FrameFields, LenProperties DEF Keyed
<1>2. fr.i + 1 \in 1..n /\ fr.i + 1 \in 0..n /\ fr.i + 1 > 0
  <2> HIDE DEF n
  <2> QED
    BY <1>1
<1>3. fr.kids[fr.i + 1] \in Refs
  BY <1>1, <1>2, ElementOfSeq
<1>4. CASE fr.f = "array"
  <2> DEFINE next == [f |-> "array", kids |-> fr.kids, i |-> fr.i + 1]
  <2>1. fr = [f |-> "array", kids |-> fr.kids, i |-> fr.i]
    BY <1>4, FrameFields
  <2>2. [fr EXCEPT !.i = @ + 1] = next
    BY ONLY <2>1
  <2>3. Framed(next) /\ Waits(next)
    BY <1>1, <1>2 DEF Framed, Waits
  <2> HIDE DEF next
  <2> QED
    BY <1>2, <1>3, <2>2, <2>3
<1>5. CASE fr.f = "object"
  <2> DEFINE next == [f |-> "object", keys |-> fr.keys, kids |-> fr.kids, i |-> fr.i + 1]
  <2>1. fr = [f |-> "object", keys |-> fr.keys, kids |-> fr.kids, i |-> fr.i]
        /\ Keyed(fr.keys, fr.kids)
    BY <1>5, FrameFields
  <2>2. [fr EXCEPT !.i = @ + 1] = next
    BY ONLY <2>1
  <2>3. Framed(next) /\ Waits(next)
    BY <1>1, <1>2, <2>1 DEF Framed, Waits
  <2> HIDE DEF next
  <2> QED
    BY <1>2, <1>3, <2>2, <2>3
<1> QED
  BY <1>4, <1>5

LEMMA ArrayFormed ==
    ASSUME Formed, ArrayNext
    PROVE  Formed'
<1>1. /\ stack # <<>> /\ Top.f = "array"
      /\ UNCHANGED <<heap, outcome, blank, calls>>
  BY DEF ArrayNext, GoingOn, Quiet
<1>2. Framed(Top)
  BY <1>1, TopFramed DEF Formed
<1>3. CASE Top.i = Len(Top.kids)
  <2>1. Pop /\ Write(<<Mk("]")>>) /\ GoOn
    BY <1>3 DEF ArrayNext
  <2>2. Stacked(stack', mode') /\ Len(stack') <= Limit
    BY <1>1, <2>1, PopFormed
  <2>3. out' \in Texts
    BY <2>1, TokenTexts, WriteTexts DEF Formed
  <2> QED
    BY <1>1, <2>1, <2>2, <2>3, StepFormed DEF Formed, GoOn
<1>4. CASE Top.i # Len(Top.kids)
  <2> DEFINE fr == [Top EXCEPT !.i = @ + 1]
  <2>1. Write(Comma) /\ Replace(fr) /\ Emit(Top.kids[Top.i + 1], FALSE, TRUE)
    BY <1>4 DEF ArrayNext
  <2>2. Framed(fr) /\ Waits(fr) /\ Top.kids[Top.i + 1] \in Refs
    BY <1>1, <1>2, <1>4, NextChild
  <2> HIDE DEF fr
  <2>3. Stacked(stack', mode') /\ Len(stack') <= Limit
    BY <1>1, <2>1, <2>2, ReplaceFormed DEF Emit
  <2>4. Comma \in Texts
    BY TokenTexts, EmptySeq DEF Comma, Texts
  <2>5. out' \in Texts
    BY <2>1, <2>4, WriteTexts DEF Formed
  <2>6. Value(Top.kids[Top.i + 1])
    BY <2>2 DEF Value, Plain
  <2> QED
    BY <1>1, <2>1, <2>3, <2>5, <2>6, StepFormed DEF Formed, Emit
<1> QED
  BY <1>3, <1>4

LEMMA ObjectFormed ==
    ASSUME Formed, ObjectNext
    PROVE  Formed'
<1>1. /\ stack # <<>> /\ Top.f = "object"
      /\ UNCHANGED <<heap, outcome, blank, calls>>
  BY DEF ObjectNext, GoingOn, Quiet
<1>2. Framed(Top)
  BY <1>1, TopFramed DEF Formed
<1>3. CASE Top.i = Len(Top.kids)
  <2>1. Pop /\ Write(<<Mk("}")>>) /\ GoOn
    BY <1>3 DEF ObjectNext
  <2>2. Stacked(stack', mode') /\ Len(stack') <= Limit
    BY <1>1, <2>1, PopFormed
  <2>3. out' \in Texts
    BY <2>1, TokenTexts, WriteTexts DEF Formed
  <2> QED
    BY <1>1, <2>1, <2>2, <2>3, StepFormed DEF Formed, GoOn
<1>4. CASE Top.i # Len(Top.kids)
  <2> DEFINE fr == [Top EXCEPT !.i = @ + 1]
             key == Top.keys[Top.i + 1]
             name == IF key \in Ident THEN Id(key) ELSE Str(key)
  <2>1. Framed(fr) /\ Waits(fr) /\ Top.kids[Top.i + 1] \in Refs /\ Top.i + 1 \in 1..Len(Top.kids)
    BY <1>1, <1>2, <1>4, NextChild
  <2>2. key \in Word
    BY <1>1, <1>2, <2>1, FrameFields DEF Keyed
  <2>3. CASE key = BadKey
    <3>1. Pop /\ mode' = "shape" /\ UNCHANGED <<cur, under, may, out>>
      BY <1>4, <2>3 DEF ObjectNext
    <3>2. Stacked(stack', mode') /\ Len(stack') <= Limit
      BY <1>1, <3>1, PopFormed
    <3> QED
      BY <1>1, <3>1, <3>2, StepFormed DEF Formed
  <2>4. CASE key # BadKey
    <3>1. Write(Comma \o <<name, Mk(":")>>) /\ Replace(fr) /\ Emit(Top.kids[Top.i + 1], FALSE, TRUE)
      BY <1>4, <2>4 DEF ObjectNext
    <3>2. name \in Token /\ Mk(":") \in Token
      BY <2>2, TokenKinds
    <3> HIDE DEF fr, key, name
    <3>3. Stacked(stack', mode') /\ Len(stack') <= Limit
      BY <1>1, <2>1, <3>1, ReplaceFormed DEF Emit
    <3>4. Comma \in Texts /\ <<name, Mk(":")>> \in Texts
      <4>1. Comma \in Texts
        BY TokenTexts, EmptySeq DEF Comma, Texts
      <4>2. \A t, u \in Token : <<t, u>> \in Texts
        BY DEF Texts
      <4> QED
        BY <3>2, <4>1, <4>2
    <3>5. Comma \o <<name, Mk(":")>> \in Texts
      BY <3>4, ConcatProperties DEF Texts
    <3>6. out' \in Texts
      BY <3>1, <3>5, WriteTexts DEF Formed
    <3>7. Value(Top.kids[Top.i + 1])
      BY <2>1 DEF Value, Plain
    <3> QED
      BY <1>1, <3>1, <3>3, <3>6, <3>7, StepFormed DEF Formed, Emit
  <2> QED
    BY <2>3, <2>4
<1> QED
  BY <1>3, <1>4

\* The texts _spelling has answered with, the one that has just come in included.
SortKeys == IF Top.i > Len(Top.keys) THEN Append(Top.keys, out) ELSE Top.keys

\* A frame of _spelling with other texts in it, and at another element.
LEMMA SortTexts ==
    ASSUME NEW fr, NEW ks,
           fr = [f |-> "sort", name |-> fr.name, kids |-> fr.kids, keys |-> fr.keys,
                 i |-> fr.i, out |-> fr.out, under |-> fr.under]
    PROVE  [fr EXCEPT !.keys = ks] =
               [f |-> "sort", name |-> fr.name, kids |-> fr.kids, keys |-> ks,
                i |-> fr.i, out |-> fr.out, under |-> fr.under]
<1>1. PICK name, kids, keys, i, o, u :
          /\ name = fr.name /\ kids = fr.kids /\ keys = fr.keys /\ i = fr.i
          /\ o = fr.out /\ u = fr.under
          /\ fr = [f |-> "sort", name |-> name, kids |-> kids, keys |-> keys,
                   i |-> i, out |-> o, under |-> u]
  OBVIOUS
<1>2. [fr EXCEPT !.keys = ks] = [f |-> "sort", name |-> name, kids |-> kids, keys |-> ks,
                                 i |-> i, out |-> o, under |-> u]
  BY ONLY <1>1
<1> QED
  BY <1>1, <1>2

LEMMA SortPlace ==
    ASSUME NEW name, NEW kids, NEW ks, NEW i, NEW o, NEW u, NEW n
    PROVE  [[f |-> "sort", name |-> name, kids |-> kids, keys |-> ks,
             i |-> i, out |-> o, under |-> u] EXCEPT !.i = n] =
               [f |-> "sort", name |-> name, kids |-> kids, keys |-> ks,
                i |-> n, out |-> o, under |-> u]
OBVIOUS

LEMMA SortStep ==
    ASSUME Top = [f |-> "sort", name |-> Top.name, kids |-> Top.kids, keys |-> Top.keys,
                  i |-> Top.i, out |-> Top.out, under |-> Top.under]
    PROVE  [Top EXCEPT !.keys = SortKeys, !.i = @ + 1] =
               [f |-> "sort", name |-> Top.name, kids |-> Top.kids, keys |-> SortKeys,
                i |-> Top.i + 1, out |-> Top.out, under |-> Top.under]
<1>1. [Top EXCEPT !.keys = SortKeys] =
          [f |-> "sort", name |-> Top.name, kids |-> Top.kids, keys |-> SortKeys,
           i |-> Top.i, out |-> Top.out, under |-> Top.under]
  BY SortTexts
<1>2. [Top EXCEPT !.keys = SortKeys, !.i = @ + 1] =
          [[Top EXCEPT !.keys = SortKeys] EXCEPT !.i = Top.i + 1]
  BY ONLY TRUE
<1>3. [[f |-> "sort", name |-> Top.name, kids |-> Top.kids, keys |-> SortKeys,
        i |-> Top.i, out |-> Top.out, under |-> Top.under] EXCEPT !.i = Top.i + 1] =
          [f |-> "sort", name |-> Top.name, kids |-> Top.kids, keys |-> SortKeys,
           i |-> Top.i + 1, out |-> Top.out, under |-> Top.under]
  BY SortPlace
<1> QED
  BY ONLY <1>1, <1>2, <1>3

LEMMA SortParts ==
    ASSUME Formed, stack # <<>>, Top.f = "sort", mode = "next"
    PROVE  /\ SortKeys \in Seq(Texts) /\ Len(SortKeys) = Top.i
           /\ Top.i \in 0..Len(Top.kids) /\ Len(Top.kids) \in Nat /\ Top.kids \in Seq(Refs)
           /\ Top.name \in Word /\ Top.out \in Texts /\ Top.under \in BOOLEAN
           /\ Top = [f |-> "sort", name |-> Top.name, kids |-> Top.kids, keys |-> Top.keys,
                     i |-> Top.i, out |-> Top.out, under |-> Top.under]
<1>1. Framed(Top)
  BY TopFramed DEF Formed
<1>2. /\ Top.kids \in Seq(Refs) /\ Top.i \in 0..Len(Top.kids)
      /\ Top.name \in Word /\ Top.out \in Texts /\ Top.under \in BOOLEAN
      /\ Top.keys \in Seq(Texts) /\ Len(Top.keys) <= Top.i /\ Top.i <= Len(Top.keys) + 1
  BY <1>1, FrameFields
<1>3. Len(Top.keys) \in Nat /\ Len(Top.kids) \in Nat /\ Top.i \in Nat
  BY <1>2, LenProperties
<1>4. out \in Texts
  BY DEF Formed
<1>5. SortKeys \in Seq(Texts) /\ Len(SortKeys) = Top.i
  <2>1. CASE Top.i > Len(Top.keys)
    <3>1. SortKeys = Append(Top.keys, out)
      BY <2>1 DEF SortKeys
    <3>2. Append(Top.keys, out) \in Seq(Texts) /\ Len(Append(Top.keys, out)) = Len(Top.keys) + 1
      BY <1>2, <1>4, AppendProperties
    <3>3. Top.i = Len(Top.keys) + 1
      BY <1>2, <1>3, <2>1
    <3> QED
      BY <3>1, <3>2, <3>3
  <2>2. CASE ~(Top.i > Len(Top.keys))
    BY <1>2, <1>3, <2>2 DEF SortKeys
  <2> QED
    BY <2>1, <2>2
<1> QED
  BY <1>1, <1>2, <1>3, <1>5, FrameFields

LEMMA SortFormed ==
    ASSUME TextsOrdered, Formed, SortNext
    PROVE  Formed'
<1>1. /\ stack # <<>> /\ Top.f = "sort" /\ mode = "next"
      /\ UNCHANGED <<heap, outcome, blank, calls>>
  BY DEF SortNext, GoingOn, Quiet
<1>2. /\ SortKeys \in Seq(Texts) /\ Len(SortKeys) = Top.i
      /\ Top.i \in 0..Len(Top.kids) /\ Len(Top.kids) \in Nat /\ Top.kids \in Seq(Refs)
      /\ Top.name \in Word /\ Top.out \in Texts /\ Top.under \in BOOLEAN
  BY <1>1, SortParts
<1>3. CASE Top.i < Len(Top.kids)
  <2> DEFINE fr == [f |-> "sort", name |-> Top.name, kids |-> Top.kids, keys |-> SortKeys,
                    i |-> Top.i + 1, out |-> Top.out, under |-> Top.under]
  <2>1. /\ Replace([Top EXCEPT !.keys = SortKeys, !.i = @ + 1])
        /\ Emit(Top.kids[Top.i + 1], FALSE, TRUE) /\ out' = <<>>
    BY <1>3 DEF SortNext, SortKeys
  <2>2. [Top EXCEPT !.keys = SortKeys, !.i = @ + 1] = fr
    <3>1. Top = [f |-> "sort", name |-> Top.name, kids |-> Top.kids, keys |-> Top.keys,
                 i |-> Top.i, out |-> Top.out, under |-> Top.under]
      BY <1>1, SortParts
    <3> QED
      BY <3>1, SortStep
  <2>3. Top.i + 1 \in 1..Len(Top.kids) /\ Top.i + 1 \in 0..Len(Top.kids) /\ Top.i + 1 > 0
        /\ Top.i <= Top.i + 1 /\ Top.i + 1 <= Top.i + 1
    BY <1>2, <1>3
  <2>4. Framed(fr)
    BY <1>2, <2>3 DEF Framed
  <2>5. Waits(fr)
    BY <1>2, <2>3 DEF Waits
  <2>6. Value(Top.kids[Top.i + 1])
    BY <1>2, <2>3, ElementOfSeq DEF Value, Plain
  <2>7. Replace(fr)
    BY <2>1, <2>2
  <2> HIDE DEF fr
  <2>8. Stacked(stack', mode') /\ Len(stack') <= Limit
    BY <1>1, <2>1, <2>4, <2>5, <2>7, ReplaceFormed DEF Emit
  <2>9. out' \in Texts
    BY <2>1, EmptySeq DEF Texts
  <2> QED
    BY <1>1, <2>1, <2>6, <2>8, <2>9, StepFormed DEF Formed, Emit
<1>4. CASE ~(Top.i < Len(Top.kids))
  <2> DEFINE fr == [f |-> "convert"]
             ks == SortedBy(Top.kids, SortKeys)
             array == [k |-> "array", kids |-> ks]
  <2>1. Replace(fr) /\ Emit(Tagged(Top.name, array), Top.under, FALSE) /\ out' = Top.out
    BY <1>4 DEF SortNext, SortKeys
  <2>2. Framed(fr) /\ Waits(fr)
    BY DEF Framed, Waits
  <2>3. Len(SortKeys) = Len(Top.kids)
    BY <1>2, <1>4
  <2>4. ks \in Seq(Refs)
    BY <1>2, <2>3, SortedElements
  <2> HIDE DEF fr, ks
  <2>5. Value(Tagged(Top.name, array))
    BY <1>2, <2>4 DEF Value, Plain, Tagged
  <2> HIDE DEF array
  <2>6. Stacked(stack', mode') /\ Len(stack') <= Limit
    BY <1>1, <2>1, <2>2, ReplaceFormed DEF Emit
  <2> QED
    BY <1>1, <1>2, <2>1, <2>5, <2>6, StepFormed DEF Formed, Emit
<1> QED
  BY <1>3, <1>4

\* An error on its way out.
LEMMA UnwindFormed ==
    ASSUME Formed, Unwind
    PROVE  Formed'
<1>1. stack # <<>> /\ Pop /\ UNCHANGED <<mode, cur, under, may, out, heap, outcome, blank, calls>>
  BY DEF Unwind, Quiet
<1>2. Stacked(stack', mode') /\ Len(stack') <= Limit
  BY <1>1, PopFormed
<1> QED
  BY <1>1, <1>2, StepFormed DEF Formed

LEMMA SpellingFormed ==
    ASSUME Formed, SpellingTakes
    PROVE  Formed'
<1> DEFINE fr == [f |-> "sort", name |-> Top.name, kids |-> Top.kids,
                  keys |-> Append(Top.keys, <<>>), i |-> Top.i, out |-> Top.out,
                  under |-> Top.under]
<1>1. /\ stack # <<>> /\ Top.f = "sort" /\ mode = "shape" /\ mode' = "next" /\ blank' = TRUE
      /\ Replace([Top EXCEPT !.keys = Append(@, <<>>)])
      /\ UNCHANGED <<heap, cur, under, may, out, outcome, calls>>
  BY DEF SpellingTakes, Unwinding
<1>2. Framed(Top) /\ Waits(Top)
  BY <1>1, TopFramed DEF Formed
<1>3. /\ Top = [f |-> "sort", name |-> Top.name, kids |-> Top.kids, keys |-> Top.keys,
                i |-> Top.i, out |-> Top.out, under |-> Top.under]
      /\ Top.name \in Word /\ Top.kids \in Seq(Refs) /\ Top.i \in 0..Len(Top.kids)
      /\ Top.keys \in Seq(Texts) /\ Top.i = Len(Top.keys) + 1
      /\ Top.out \in Texts /\ Top.under \in BOOLEAN
  BY <1>1, <1>2, FrameFields DEF Waits
<1>4. [Top EXCEPT !.keys = Append(@, <<>>)] = fr
  BY <1>3, SortTexts
<1>5. Append(Top.keys, <<>>) \in Seq(Texts) /\ Len(Append(Top.keys, <<>>)) = Top.i
  <2>1. <<>> \in Texts
    BY EmptySeq DEF Texts
  <2> QED
    BY <1>3, <2>1, AppendProperties
<1>6. Top.i <= Top.i + 1 /\ Top.i <= Top.i
  BY <1>3
<1>7. Framed(fr)
  BY <1>3, <1>5, <1>6 DEF Framed
<1>8. Replace(fr)
  BY <1>1, <1>4
<1> HIDE DEF fr
<1>9. Stacked(stack', mode') /\ Len(stack') <= Limit
  BY <1>1, <1>7, <1>8, ReplaceFormed
<1> QED
  BY <1>1, <1>9, StepFormed DEF Formed

\* dumps is over, or nothing happens.
LEMMA OverFormed ==
    ASSUME Formed, TooDeep \/ EmitOverlong \/ HookRaises \/ Finish \/ Refused \/ Stopped \/ UNCHANGED vars
    PROVE  Formed'
BY DEF TooDeep, EmitOverlong, HookRaises, Raise, Finish, Refused, Stopped, vars, Formed

LEMMA NextFormed ==
    ASSUME TextsOrdered, Formed, [Next]_vars
    PROVE  Formed'
<1>1. CASE Reveal
  BY <1>1, RevealFormed
<1>2. CASE EmitBare \/ EmitScalar \/ EmitUnspellable \/ EmitTagged \/ EmitArray \/ EmitObject
  BY <1>2, EmitFormed
<1>3. CASE Convert \/ StillUnknown \/ CannotEncode \/ Sort
  BY <1>3, HookFormed
<1>4. CASE Leave
  BY <1>4, LeaveFormed
<1>5. CASE ArrayNext
  BY <1>5, ArrayFormed
<1>6. CASE ObjectNext
  BY <1>6, ObjectFormed
<1>7. CASE SortNext
  BY <1>7, SortFormed
<1>8. CASE Unwind
  BY <1>8, UnwindFormed
<1>9. CASE SpellingTakes
  BY <1>9, SpellingFormed
<1>10. CASE TooDeep \/ EmitOverlong \/ HookRaises \/ Finish \/ Refused \/ Stopped \/ UNCHANGED vars
  BY <1>10, OverFormed
<1> QED
  BY <1>1, <1>2, <1>3, <1>4, <1>5, <1>6, <1>7, <1>8, <1>9, <1>10 DEF Next

\* Whatever the object graph and however the walk of it ends, the state is one the
\* code can have: no more calls of emit wait than the interpreter has frames, and
\* each waits at a child it has. The texts a set is put in order by are ordered as
\* Python's are.
THEOREM TypeCorrect ==
    ASSUME TextsOrdered PROVE Spec => []TypeOK
<1>1. Formed => TypeOK
  <2>1. ASSUME Formed, NEW i \in DOMAIN stack
        PROVE  /\ stack[i].f \in {"tag", "convert", "array", "object", "sort"}
               /\ stack[i].f \in {"array", "object", "sort"} =>
                     stack[i].i \in 0..Len(stack[i].kids)
    <3>1. Framed(stack[i])
      BY <2>1 DEF Formed, Stacked
    <3> QED
      BY <3>1, FrameFields
  <2> QED
    BY <2>1 DEF TypeOK, Formed
<1> QED
  BY <1>1, InitFormed, NextFormed, PTL DEF Spec

-----------------------------------------------------------------------------
(* What can be spelled.                                                    *)

\* What has no spelling if another has none, however much more is known.
Leads(graph, y, x) == \A later : Grown(graph, later) /\ Bad(later, y) => Bad(later, x)

LEMMA GrownOn ==
    /\ \A g : Grown(g, g)
    /\ \A g, g2, g3 : Grown(g, g2) /\ Grown(g2, g3) => Grown(g, g3)
BY DEF Grown

LEMMA FineFor ==
    ASSUME NEW g, NEW done, NEW x, Fine(g, done, x), NEW o, o = At(g, x[1])
    PROVE  /\ Seen(g, x[1])
           /\ o.k \in {"null", "str", "tagged", "array", "object"} \cup Known \cup {"stray"}
           /\ o.k = "null" => ~x[2]
           /\ o.k = "tagged" => <<o.kids[1], TRUE, TRUE>> \in done
           /\ o.k \in {"array", "object", "set"} => Elements(o) \subseteq done
           /\ o.k = "object" => \A j \in 1..Len(o.kids) : o.keys[j] # BadKey
           /\ o.k \in Known \cup {"stray"} => x[3]
           /\ o.k \in (Known \ {"set"}) \cup {"stray"} => <<Spelled(o), x[2], FALSE>> \in done
BY DEF Known, Fine

LEMMA FineParts ==
    ASSUME NEW g, NEW done, NEW v, NEW u, NEW m, Fine(g, done, <<v, u, m>>), NEW o, o = At(g, v)
    PROVE  /\ Seen(g, v)
           /\ o.k \in {"null", "str", "tagged", "array", "object"} \cup Known \cup {"stray"}
           /\ o.k = "null" => ~u
           /\ o.k = "tagged" => <<o.kids[1], TRUE, TRUE>> \in done
           /\ o.k \in {"array", "object", "set"} => Elements(o) \subseteq done
           /\ o.k = "object" => \A j \in 1..Len(o.kids) : o.keys[j] # BadKey
           /\ o.k \in Known \cup {"stray"} => m
           /\ o.k \in (Known \ {"set"}) \cup {"stray"} => <<Spelled(o), u, FALSE>> \in done
<1> DEFINE x == <<v, u, m>>
<1>1. x[1] = v /\ x[2] = u /\ x[3] = m /\ Fine(g, done, x)
  OBVIOUS
<1> HIDE DEF x
<1> QED
  BY <1>1, FineFor

LEMMA FineOn ==
    ASSUME NEW g, NEW g2, Grown(g, g2), NEW done, NEW done2, done \subseteq done2,
           NEW x, Fine(g, done, x)
    PROVE  Fine(g2, done2, x)
<1>1. Seen(g, x[1]) /\ Seen(g2, x[1]) /\ At(g2, x[1]) = At(g, x[1])
  BY DEF Fine, Seen, At, Grown
<1> DEFINE o == At(g, x[1])
<1>2. Elements(o) \subseteq done => Elements(o) \subseteq done2
  OBVIOUS
<1> QED
  BY <1>1, <1>2 DEF Fine

\* A value that is seen is the same value in every later graph.
LEMMA FineSeen ==
    ASSUME NEW g, NEW g2, Grown(g, g2), NEW x, Seen(g, x[1]), NEW done
    PROVE  Seen(g2, x[1]) /\ At(g2, x[1]) = At(g, x[1]) /\ (Fine(g2, done, x) => Fine(g, done, x))
<1>1. Seen(g2, x[1]) /\ At(g2, x[1]) = At(g, x[1])
  BY DEF Seen, At, Grown
<1> QED
  BY <1>1 DEF Fine

LEMMA SoundOn ==
    ASSUME NEW g, NEW g2, Grown(g, g2), NEW rank, NEW n, Sound(g, rank, n)
    PROVE  Sound(g2, rank, n)
<1>1. ASSUME NEW x \in DOMAIN rank
      PROVE  Fine(g2, {y \in DOMAIN rank : rank[y] < rank[x]}, x)
  BY FineOn DEF Sound
<1> QED
  BY <1>1 DEF Sound

LEMMA BadOn ==
    ASSUME NEW g, NEW g2, Grown(g, g2), NEW x
    PROVE  (Bad(g, x) => Bad(g2, x)) /\ \A y : Leads(g, y, x) => Leads(g2, y, x)
BY GrownOn DEF Bad, Leads

LEMMA LeadsOn ==
    ASSUME NEW g, NEW x, NEW y, NEW z, Leads(g, z, y), Leads(g, y, x)
    PROVE  Leads(g, z, x)
BY DEF Leads

\* One more value is spelled once those it is made of are.
LEMMA SoundMore ==
    ASSUME NEW g, NEW rank, NEW n, Sound(g, rank, n), NEW x, Fine(g, DOMAIN rank, x)
    PROVE  \E rank2, n2 : /\ Sound(g, rank2, n2)
                          /\ x \in DOMAIN rank2 /\ DOMAIN rank \subseteq DOMAIN rank2
<1>1. CASE x \in DOMAIN rank
  BY <1>1
<1>2. CASE x \notin DOMAIN rank
  <2> DEFINE rank2 == [y \in DOMAIN rank \cup {x} |-> IF y = x THEN n ELSE rank[y]]
  <2>1. DOMAIN rank2 = DOMAIN rank \cup {x} /\ rank2[x] = n
        /\ \A y \in DOMAIN rank : rank2[y] = rank[y]
    BY <1>2
  <2> HIDE DEF rank2
  <2>2. n \in Nat /\ n + 1 \in Nat /\ n < n + 1
        /\ \A y \in DOMAIN rank : rank[y] \in Nat /\ rank[y] < n /\ rank[y] < n + 1
    <3>1. n \in Nat /\ \A y \in DOMAIN rank : rank[y] \in Nat /\ rank[y] < n
      BY DEF Sound
    <3> QED
      BY ONLY <3>1
  <2>3. ASSUME NEW y \in DOMAIN rank2
        PROVE  /\ rank2[y] \in Nat /\ rank2[y] < n + 1
               /\ Fine(g, {z \in DOMAIN rank2 : rank2[z] < rank2[y]}, y)
    <3> DEFINE under2 == {z \in DOMAIN rank2 : rank2[z] < rank2[y]}
    <3>1. CASE y = x
      <4>1. DOMAIN rank \subseteq under2
        BY <2>1, <2>2, <3>1
      <4> HIDE DEF under2
      <4>2. Fine(g, under2, x)
        BY <4>1, FineOn, GrownOn
      <4> QED
        BY <2>1, <2>2, <3>1, <4>2 DEF under2
    <3>2. CASE y # x
      <4> DEFINE under1 == {z \in DOMAIN rank : rank[z] < rank[y]}
      <4>1. y \in DOMAIN rank /\ Fine(g, under1, y)
        BY <2>1, <3>2 DEF Sound
      <4>2. under1 \subseteq under2
        BY <2>1, <4>1
      <4> HIDE DEF under1, under2
      <4>3. Fine(g, under2, y)
        BY <4>1, <4>2, FineOn, GrownOn
      <4> QED
        BY <2>1, <2>2, <4>1, <4>3 DEF under2
    <3> QED
      BY <3>1, <3>2
  <2>4. Sound(g, rank2, n + 1)
    BY <2>2, <2>3 DEF Sound
  <2> QED
    BY <2>1, <2>4
<1> QED
  BY <1>1, <1>2

\* What has no spelling whatever else has one.
LEMMA UnfitBad ==
    ASSUME NEW g, NEW x, Seen(g, x[1]), \A done : ~Fine(g, done, x)
    PROVE  Bad(g, x)
BY FineSeen DEF Bad, Sound

\* What is spelled only with another leads there.
LEMMA NeededLeads ==
    ASSUME NEW g, NEW x, Seen(g, x[1]), NEW y, \A done : Fine(g, done, x) => y \in done
    PROVE  Leads(g, y, x)
<1> SUFFICES ASSUME NEW g2, Grown(g, g2), Bad(g2, y),
                    NEW g3, NEW rank, NEW n, Grown(g2, g3), Sound(g3, rank, n),
                    x \in DOMAIN rank
             PROVE  FALSE
  BY DEF Leads, Bad
<1> DEFINE below == {z \in DOMAIN rank : rank[z] < rank[x]}
<1>1. Fine(g3, below, x)
  BY DEF Sound
<1>2. below \subseteq DOMAIN rank
  OBVIOUS
<1> HIDE DEF below
<1>3. y \in below
  BY <1>1, GrownOn, FineSeen
<1> QED
  BY <1>2, <1>3 DEF Bad

\* What a set is converted to: a tag over its elements, in the order found for them.
InOrder(o, ks) ==
    /\ \A j \in 1..Len(ks) : \E l \in 1..Len(o.kids) : ks[j] = o.kids[l]
    /\ \A l \in 1..Len(o.kids) : \E j \in 1..Len(ks) : o.kids[l] = ks[j]
Array(ks) == [k |-> "array", kids |-> ks]

LEMMA TaggedArray ==
    ASSUME NEW name, NEW ks, NEW g
    PROVE  LET o == Tagged(name, Array(ks))
           IN  /\ o.k = "tagged" /\ o.kids[1] = Array(ks) /\ Seen(g, o) /\ At(g, o) = o
               /\ Seen(g, Array(ks)) /\ At(g, Array(ks)) = Array(ks)
               /\ Array(ks).k = "array" /\ Array(ks).kids = ks
BY DEF Tagged, Array, Seen, At

\* The elements have their spellings exactly if what the set is converted to has.
LEMMA OrderElements ==
    ASSUME NEW o, NEW ks, InOrder(o, ks), NEW a, a.kids = ks
    PROVE  Elements(o) = Elements(a)
<1>1. ASSUME NEW m \in Elements(o) PROVE m \in Elements(a)
  <2>1. PICK l \in 1..Len(o.kids) : m = <<o.kids[l], FALSE, TRUE>>
    BY DEF Elements
  <2>2. PICK j \in 1..Len(ks) : o.kids[l] = ks[j]
    BY DEF InOrder
  <2> QED
    BY <2>1, <2>2 DEF Elements
<1>2. ASSUME NEW m \in Elements(a) PROVE m \in Elements(o)
  <2>1. PICK j \in 1..Len(ks) : m = <<ks[j], FALSE, TRUE>>
    BY DEF Elements
  <2>2. PICK l \in 1..Len(o.kids) : ks[j] = o.kids[l]
    BY DEF InOrder
  <2> QED
    BY <2>1, <2>2 DEF Elements
<1> QED
  BY <1>1, <1>2

LEMMA SetFine ==
    ASSUME NEW g, NEW rank, NEW n, Sound(g, rank, n), NEW o, NEW name, NEW ks, InOrder(o, ks),
           NEW u, <<Tagged(name, Array(ks)), u, FALSE>> \in DOMAIN rank
    PROVE  Elements(o) \subseteq DOMAIN rank
<1> DEFINE t == Tagged(name, Array(ks))
           a == <<Array(ks), TRUE, TRUE>>
<1>1. /\ t.k = "tagged" /\ t.kids[1] = Array(ks) /\ At(g, t) = t
      /\ At(g, Array(ks)) = Array(ks) /\ Array(ks).k = "array" /\ Array(ks).kids = ks
  BY TaggedArray
<1> HIDE DEF t
<1>2. a \in DOMAIN rank
  <2> DEFINE x == <<t, u, FALSE>>
             below == {z \in DOMAIN rank : rank[z] < rank[x]}
  <2>1. Fine(g, below, x)
    BY DEF Sound, t
  <2>2. below \subseteq DOMAIN rank
    OBVIOUS
  <2> HIDE DEF below
  <2>3. At(g, t).k = "tagged" => <<At(g, t).kids[1], TRUE, TRUE>> \in below
    BY <2>1, FineParts
  <2>4. a \in below
    BY <1>1, <2>3
  <2> QED
    BY <2>2, <2>4
<1>3. Elements(Array(ks)) \subseteq DOMAIN rank
  <2> DEFINE below == {z \in DOMAIN rank : rank[z] < rank[a]}
  <2>1. Fine(g, below, a)
    BY <1>2 DEF Sound
  <2>2. below \subseteq DOMAIN rank
    OBVIOUS
  <2> HIDE DEF below
  <2>3. At(g, Array(ks)).k = "array" => Elements(At(g, Array(ks))) \subseteq below
    BY <2>1, FineParts
  <2> QED
    BY <1>1, <2>2, <2>3
<1>4. Elements(o) = Elements(Array(ks))
  BY <1>1, OrderElements
<1> QED
  BY <1>3, <1>4

LEMMA SetLeads ==
    ASSUME NEW g, NEW x, Seen(g, x[1]), At(g, x[1]).k = "set",
           NEW name, NEW ks, InOrder(At(g, x[1]), ks), NEW u
    PROVE  Leads(g, <<Tagged(name, Array(ks)), u, FALSE>>, x)
<1> DEFINE t == Tagged(name, Array(ks))
           a == <<Array(ks), TRUE, TRUE>>
           y == <<t, u, FALSE>>
<1> SUFFICES ASSUME NEW g2, Grown(g, g2), Bad(g2, y),
                    NEW g3, NEW rank, NEW n, Grown(g2, g3), Sound(g3, rank, n),
                    x \in DOMAIN rank
             PROVE  FALSE
  BY DEF Leads, Bad
<1>1. /\ t.k = "tagged" /\ t.kids[1] = Array(ks) /\ At(g3, t) = t /\ Seen(g3, t)
      /\ Seen(g3, Array(ks)) /\ At(g3, Array(ks)) = Array(ks)
      /\ Array(ks).k = "array" /\ Array(ks).kids = ks
  BY TaggedArray
<1> HIDE DEF t
<1>2. Elements(At(g, x[1])) \subseteq DOMAIN rank
  <2> DEFINE below == {z \in DOMAIN rank : rank[z] < rank[x]}
  <2>1. Fine(g3, below, x) /\ below \subseteq DOMAIN rank
    BY DEF Sound
  <2> HIDE DEF below
  <2>2. Fine(g, below, x)
    BY <2>1, GrownOn, FineSeen
  <2> QED
    BY <2>1, <2>2 DEF Fine, Known
<1>3. Elements(At(g, x[1])) = Elements(Array(ks))
  BY <1>1, OrderElements
<1>4. Fine(g3, DOMAIN rank, a)
  BY <1>1, <1>2, <1>3 DEF Fine
<1>5. PICK rank2, n2 : Sound(g3, rank2, n2) /\ a \in DOMAIN rank2
  BY <1>4, SoundMore
<1>6. Fine(g3, DOMAIN rank2, y)
  BY <1>1, <1>5 DEF Fine
<1>7. PICK rank3, n3 : Sound(g3, rank3, n3) /\ y \in DOMAIN rank3
  BY <1>5, <1>6, SoundMore
<1> QED
  BY <1>7 DEF Bad

-----------------------------------------------------------------------------
(* What each frame spells, and what has been spelled.                      *)

\* The frame is there for the value at this place.
Spells(graph, fr, x) ==
    LET o == At(graph, x[1])
    IN  /\ Seen(graph, x[1])
        /\ fr.f = "tag" => o.k = "tagged"
        /\ fr.f = "array" => o.k = "array" /\ fr.kids = o.kids
        /\ fr.f = "object" => o.k = "object" /\ fr.kids = o.kids /\ fr.keys = o.keys
        /\ fr.f = "sort" => x[3] /\ o.k = "set" /\ fr.kids = o.kids /\ fr.under = x[2]
        /\ fr.f = "convert" => x[3] /\ o.k \in Known \cup {"stray"}

\* The value the frame has called emit with.
Child(graph, fr, x, y) ==
    LET o == At(graph, x[1])
    IN  /\ fr.f = "tag" => y = <<o.kids[1], TRUE, TRUE>>
        /\ fr.f \in {"array", "object", "sort"} => y = <<fr.kids[fr.i], FALSE, TRUE>>
        /\ fr.f = "convert" =>
              IF o.k = "set"
              THEN \E name, ks : InOrder(o, ks) /\ y = <<Tagged(name, Array(ks)), x[2], FALSE>>
              ELSE y = <<Spelled(o), x[2], FALSE>>

\* So many of its values have been spelled, and their keys.
Made(done, fr, upTo) ==
    /\ fr.f \in {"array", "object"} => \A j \in 1..upTo : <<fr.kids[j], FALSE, TRUE>> \in done
    /\ fr.f = "object" => \A j \in 1..fr.i : fr.keys[j] # BadKey

\* The frame goes on: what it called has returned. A set's elements need not have
\* been spelled.
Going(graph, done, fr, x) ==
    /\ Made(done, fr, fr.i)
    /\ fr.f \in {"tag", "convert"} => \E y \in done : Child(graph, fr, x, y)

\* walk[i] is what frame i of the stack spells. Where emit is called, top is what with.
Track(graph, st, m, top, walk, rank, n) ==
    /\ Sound(graph, rank, n) /\ walk[1] = Whole
    /\ \A i \in 1..Len(st) :
          /\ Spells(graph, st[i], walk[i]) /\ Leads(graph, walk[i], Whole)
          /\ i # Len(st) \/ m = "emit" =>
                Child(graph, st[i], walk[i], walk[i + 1]) /\ Made(DOMAIN rank, st[i], st[i].i - 1)
    /\ m = "emit" => walk[Len(st) + 1] = top /\ Leads(graph, top, Whole)
    /\ m = "next" => IF st = <<>> THEN Whole \in DOMAIN rank
                     ELSE Going(graph, DOMAIN rank, st[Len(st)], walk[Len(st)])

LEMMA SpellsOn ==
    ASSUME NEW g, NEW g2, Grown(g, g2), NEW fr, NEW x, Spells(g, fr, x)
    PROVE  /\ Spells(g2, fr, x)
           /\ \A y : Child(g, fr, x, y) => Child(g2, fr, x, y)
           /\ \A done : Going(g, done, fr, x) => Going(g2, done, fr, x)
<1>1. Seen(g2, x[1]) /\ At(g2, x[1]) = At(g, x[1])
  BY FineSeen DEF Spells
<1>2. Spells(g2, fr, x)
  BY <1>1 DEF Spells
<1>3. \A y : Child(g, fr, x, y) <=> Child(g2, fr, x, y)
  BY <1>1 DEF Child
<1>4. \A done : Going(g, done, fr, x) => Going(g2, done, fr, x)
  BY <1>3 DEF Going
<1> QED
  BY <1>2, <1>3, <1>4

LEMMA TrackGrown ==
    ASSUME NEW g, NEW g2, Grown(g, g2), NEW st, IsStack(st), NEW m, NEW top, NEW walk, NEW rank,
           NEW n, Track(g, st, m, top, walk, rank, n)
    PROVE  Track(g2, st, m, top, walk, rank, n)
<1>1. Sound(g2, rank, n) /\ walk[1] = Whole
  BY SoundOn DEF Track
<1>2. ASSUME NEW i \in 1..Len(st)
      PROVE  /\ Spells(g2, st[i], walk[i]) /\ Leads(g2, walk[i], Whole)
             /\ i # Len(st) \/ m = "emit" =>
                   Child(g2, st[i], walk[i], walk[i + 1]) /\ Made(DOMAIN rank, st[i], st[i].i - 1)
  BY SpellsOn, BadOn DEF Track
<1>3. m = "emit" => walk[Len(st) + 1] = top /\ Leads(g2, top, Whole)
  BY BadOn DEF Track
<1>4. m = "next" => IF st = <<>> THEN Whole \in DOMAIN rank
                    ELSE Going(g2, DOMAIN rank, st[Len(st)], walk[Len(st)])
  <2>1. st # <<>> => Len(st) \in 1..Len(st)
    BY StackIndices
  <2> QED
    BY <2>1, SpellsOn DEF Track
<1> QED
  BY <1>1, <1>2, <1>3, <1>4 DEF Track

\* An error unwinds.
LEMMA TrackShape ==
    ASSUME NEW g, NEW st, NEW m, NEW top, NEW walk, NEW rank,
           NEW n, Track(g, st, m, top, walk, rank, n), NEW top2
    PROVE  Track(g, st, "shape", top2, walk, rank, n)
BY DEF Track

\* Without its frame a value is where it was when emit was called with it.
LEMMA TrackPop ==
    ASSUME NEW g, NEW st, IsStack(st), st # <<>>, NEW m, NEW top, NEW walk, NEW rank, NEW n,
           Track(g, st, m, top, walk, rank, n),
           NEW q, Len(q) = Len(st) - 1, \A i \in 1..Len(q) : q[i] = st[i]
    PROVE  Track(g, q, "emit", walk[Len(st)], walk, rank, n)
<1>1. Len(st) \in Nat /\ Len(st) > 0
  BY StackIndices
<1>2. Len(q) + 1 = Len(st) /\ Len(st) \in 1..Len(st)
      /\ \A i \in 1..Len(q) : i \in 1..Len(st) /\ i # Len(st)
  BY <1>1
<1> QED
  BY <1>2 DEF Track

\* The value emit was called with is spelled.
LEMMA TrackAnswer ==
    ASSUME NEW g, NEW st, IsStack(st), NEW top, NEW walk, NEW rank, NEW n,
           Track(g, st, "emit", top, walk, rank, n), Fine(g, DOMAIN rank, top),
           st # <<>> => Framed(st[Len(st)]), NEW top2
    PROVE  \E rank2, n2 : Track(g, st, "next", top2, walk, rank2, n2)
<1>1. PICK rank2, n2 : /\ Sound(g, rank2, n2)
                      /\ top \in DOMAIN rank2 /\ DOMAIN rank \subseteq DOMAIN rank2
  BY SoundMore DEF Track
<1>2. ASSUME NEW i \in 1..Len(st)
      PROVE  /\ Spells(g, st[i], walk[i]) /\ Leads(g, walk[i], Whole)
             /\ Child(g, st[i], walk[i], walk[i + 1]) /\ Made(DOMAIN rank2, st[i], st[i].i - 1)
  BY <1>1 DEF Track, Made
<1>3. Len(st) \in Nat /\ (st = <<>> <=> Len(st) = 0)
  BY StackIndices
<1>4. ASSUME st # <<>>
      PROVE  Going(g, DOMAIN rank2, st[Len(st)], walk[Len(st)])
  <2> DEFINE fr == st[Len(st)]
             x == walk[Len(st)]
  <2>1. Len(st) \in 1..Len(st) /\ walk[Len(st) + 1] = top
    BY <1>3, <1>4 DEF Track
  <2>2. Child(g, fr, x, top) /\ Made(DOMAIN rank2, fr, fr.i - 1) /\ Framed(fr)
    BY <1>2, <1>4, <2>1
  <2> HIDE DEF fr, x
  <2>3. Made(DOMAIN rank2, fr, fr.i)
    <3>1. ASSUME fr.f \in {"array", "object"}, NEW j \in 1..fr.i
          PROVE  <<fr.kids[j], FALSE, TRUE>> \in DOMAIN rank2
      <4>1. fr.i \in Int
        <5>1. fr.i \in 0..Len(fr.kids)
          BY <2>2, <3>1, FrameFields
        <5> QED
          BY <5>1
      <4>2. j = fr.i \/ j \in 1..(fr.i - 1)
        BY <4>1
      <4> QED
        BY <1>1, <2>2, <3>1, <4>2 DEF Child, Made
    <3> QED
      BY <2>2, <3>1 DEF Made
  <2>4. Going(g, DOMAIN rank2, fr, x)
    BY <1>1, <2>2, <2>3 DEF Going
  <2> QED
    BY <2>4 DEF fr, x
<1>5. st = <<>> => Whole \in DOMAIN rank2
  BY <1>1, <1>3 DEF Track
<1>6. walk[1] = Whole
  BY DEF Track
<1>7. Track(g, st, "next", top2, walk, rank2, n2)
  BY <1>1, <1>2, <1>4, <1>5, <1>6 DEF Track
<1> QED
  BY <1>7

\* A frame is put on the stack for the value emit was called with; it calls emit, or
\* it is on its own for a step.
LEMMA TrackPush ==
    ASSUME NEW g, NEW st, IsStack(st), NEW top, NEW walk, NEW rank, NEW n,
           Track(g, st, "emit", top, walk, rank, n),
           NEW fr, Spells(g, fr, top),
           NEW q, q # <<>>, Len(q) = Len(st) + 1, q[Len(q)] = fr,
           \A i \in 1..Len(st) : q[i] = st[i],
           NEW m \in {"emit", "next"}, NEW y,
           m = "emit" => /\ Child(g, fr, top, y) /\ Made(DOMAIN rank, fr, fr.i - 1)
                         /\ Leads(g, y, top),
           m = "next" => Going(g, DOMAIN rank, fr, top)
    PROVE  \E walk2 : Track(g, q, m, y, walk2, rank, n)
<1> DEFINE l == Len(st)
           walk2 == [i \in Nat |-> IF i = l + 2 THEN y ELSE walk[i]]
<1>1. l \in Nat /\ Len(q) = l + 1
  BY StackIndices
<1> HIDE DEF l
<1>2. /\ walk2[l + 2] = y /\ walk2[l + 1] = walk[l + 1] /\ walk2[1] = walk[1]
      /\ \A i \in 1..l : walk2[i] = walk[i] /\ walk2[i + 1] = walk[i + 1]
  BY <1>1
<1>3. walk[l + 1] = top /\ Leads(g, top, Whole) /\ walk[1] = Whole /\ Sound(g, rank, n)
  BY DEF Track, l
<1>4. \A i \in 1..l :
        /\ Spells(g, st[i], walk[i]) /\ Leads(g, walk[i], Whole)
        /\ Child(g, st[i], walk[i], walk[i + 1]) /\ Made(DOMAIN rank, st[i], st[i].i - 1)
  BY DEF Track, l
<1> HIDE DEF walk2
<1>5. ASSUME NEW i \in 1..Len(q)
      PROVE  /\ Spells(g, q[i], walk2[i]) /\ Leads(g, walk2[i], Whole)
             /\ i # Len(q) \/ m = "emit" =>
                   Child(g, q[i], walk2[i], walk2[i + 1]) /\ Made(DOMAIN rank, q[i], q[i].i - 1)
  <2>1. CASE i \in 1..l
    <3>1. q[i] = st[i]
      BY <2>1 DEF l
    <3> QED
      BY <1>2, <1>4, <2>1, <3>1
  <2>2. CASE i = l + 1
    <3>1. q[i] = fr /\ i = Len(q) /\ i + 1 = l + 2
      BY <1>1, <2>2
    <3> QED
      BY <1>2, <1>3, <2>2, <3>1
  <2> QED
    BY <1>1, <2>1, <2>2
<1>6. m = "emit" => walk2[Len(q) + 1] = y /\ Leads(g, y, Whole)
  <2>1. Len(q) + 1 = l + 2
    BY <1>1
  <2> QED
    BY <1>2, <1>3, <2>1, LeadsOn
<1>7. m = "next" => Going(g, DOMAIN rank, q[Len(q)], walk2[Len(q)])
  BY <1>1, <1>2, <1>3
<1> QED
  BY <1>2, <1>3, <1>5, <1>6, <1>7 DEF Track

\* A frame takes the place of the one on top, for the same value.
LEMMA TrackReplace ==
    ASSUME NEW g, NEW st, NEW m0, Stacked(st, m0), st # <<>>, NEW top, NEW walk, NEW rank, NEW n,
           Track(g, st, m0, top, walk, rank, n),
           NEW fr, Spells(g, fr, walk[Len(st)]),
           NEW q, q = [st EXCEPT ![Len(st)] = fr],
           NEW m \in {"emit", "next"}, NEW y,
           m = "emit" => /\ Child(g, fr, walk[Len(st)], y) /\ Made(DOMAIN rank, fr, fr.i - 1)
                         /\ Leads(g, y, walk[Len(st)]),
           m = "next" => Going(g, DOMAIN rank, fr, walk[Len(st)])
    PROVE  \E walk2 : Track(g, q, m, y, walk2, rank, n)
<1> DEFINE p == SubSeq(st, 1, Len(st) - 1)
<1>1. IsStack(st) /\ Len(st) \in Nat /\ Len(st) > 0
  BY StackIndices DEF Stacked
<1>2. IsStack(p) /\ Len(p) = Len(st) - 1 /\ \A i \in 1..Len(p) : p[i] = st[i]
  BY <1>1, StackPop
<1>3. /\ q # <<>> /\ Len(q) = Len(st) /\ q[Len(q)] = fr
      /\ \A i \in 1..Len(st) : i # Len(st) => q[i] = st[i]
  BY <1>1, StackReplace
<1> HIDE DEF p
<1>4. Track(g, p, "emit", walk[Len(st)], walk, rank, n)
  BY <1>1, <1>2, TrackPop
<1>5. Len(q) = Len(p) + 1 /\ \A i \in 1..Len(p) : i \in 1..Len(st) /\ i # Len(st)
  BY <1>1, <1>2, <1>3
<1>6. \A i \in 1..Len(p) : q[i] = p[i]
  BY <1>2, <1>3, <1>5
<1>7. PICK x : x = walk[Len(st)]
  OBVIOUS
<1>8. Spells(g, fr, x) /\ Track(g, p, "emit", x, walk, rank, n)
  BY <1>4, <1>7
<1>9. CASE m = "emit"
  <2>1. Child(g, fr, x, y) /\ Made(DOMAIN rank, fr, fr.i - 1) /\ Leads(g, y, x)
    BY <1>7, <1>9
  <2> QED
    BY ONLY <1>2, <1>3, <1>5, <1>6, <1>8, <1>9, <2>1, TrackPush
<1>10. CASE m = "next"
  <2>1. Going(g, DOMAIN rank, fr, x)
    BY <1>7, <1>10
  <2> QED
    BY ONLY <1>2, <1>3, <1>5, <1>6, <1>8, <1>10, <2>1, TrackPush
<1> QED
  BY <1>9, <1>10

\* The frame on top is done: the value it was there for is spelled.
LEMMA TrackDone ==
    ASSUME NEW g, NEW st, NEW m0, Stacked(st, m0), st # <<>>, NEW top, NEW walk, NEW rank, NEW n,
           Track(g, st, m0, top, walk, rank, n), Fine(g, DOMAIN rank, walk[Len(st)]),
           NEW q, q = Front(st), NEW top2
    PROVE  \E rank2, n2 : Track(g, q, "next", top2, walk, rank2, n2)
<1>1. IsStack(st) /\ Len(st) \in Nat /\ Len(st) > 0
  BY StackIndices DEF Stacked
<1>2. Stacked(q, m0) /\ Len(q) = Len(st) - 1 /\ \A i \in 1..Len(q) : q[i] = st[i]
  BY PopStacked
<1>3. Track(g, q, "emit", walk[Len(st)], walk, rank, n)
  BY <1>1, <1>2, TrackPop
<1>4. IsStack(q) /\ (q # <<>> => Framed(q[Len(q)]))
  <2>1. IsStack(q) /\ \A i \in DOMAIN q : Framed(q[i])
    BY <1>2 DEF Stacked
  <2>2. q # <<>> => Len(q) \in DOMAIN q
    BY <2>1, StackIndices
  <2> QED
    BY <2>1, <2>2
<1> QED
  BY <1>3, <1>4, TrackAnswer

-----------------------------------------------------------------------------
(* What the walk has come to know.                                         *)

Place == <<cur, under, may>>
Tracked == \E walk, rank, n : Track(heap, stack, mode, Place, walk, rank, n)
Judged ==
    /\ mode = "shape" \/ blank => Bad(heap, Whole)
    /\ outcome = "written" => mode = "next" /\ stack = <<>>
    /\ outcome = "refused" => mode = "shape"
Followed == Formed /\ Tracked /\ Judged

LEMMA InitTracked == Init => Tracked /\ Judged
<1> SUFFICES ASSUME Init PROVE Tracked /\ Judged
  OBVIOUS
<1> DEFINE walk == [i \in Nat |-> Whole]
           rank == [x \in {} |-> 0]
<1>1. DOMAIN rank = {} /\ walk[1] = Whole
  OBVIOUS
<1> HIDE DEF rank, walk
<1>2. Sound(heap, rank, 0)
  BY <1>1 DEF Sound
<1>3. Len(stack) = 0 /\ mode = "emit" /\ Place = Whole
  BY EmptySeq DEF Init, Place, Whole
<1>4. Leads(heap, Whole, Whole)
  BY DEF Leads
<1>5. Track(heap, stack, mode, Place, walk, rank, 0)
  BY <1>1, <1>2, <1>3, <1>4 DEF Track
<1> QED
  BY <1>5 DEF Tracked, Judged, Init

\* While something is spelled nothing has been judged but what has no spelling.
LEMMA StepJudged ==
    ASSUME Judged, outcome = "writing", outcome' = outcome, heap' = heap, blank' = blank,
           mode' = "shape" => Bad(heap, Whole)
    PROVE  Judged'
BY DEF Judged

LEMMA RevealTracked ==
    ASSUME Followed, Reveal
    PROVE  Tracked' /\ Judged'
<1>1. PICK h \in Heads :
          heap' = [n \in DOMAIN heap \cup {cur.n} |-> IF n = cur.n THEN h ELSE heap[n]]
  BY DEF Reveal
<1>2. Grown(heap, heap')
  BY <1>1 DEF Grown, Reveal, Hidden
<1>3. UNCHANGED <<stack, mode, cur, under, may, out, path, outcome, blank, calls>>
  BY DEF Reveal
<1>4. PICK walk, rank, n : Track(heap, stack, mode, Place, walk, rank, n)
  BY DEF Followed, Tracked
<1>5. IsStack(stack) /\ Place' = Place
  BY <1>3 DEF Followed, Formed, Stacked, Place
<1>6. Track(heap', stack, mode, Place, walk, rank, n)
  BY <1>2, <1>4, <1>5, TrackGrown
<1>7. Tracked'
  BY <1>3, <1>5, <1>6 DEF Tracked
<1>8. Judged'
  BY <1>2, <1>3, BadOn DEF Followed, Judged
<1> QED
  BY <1>7, <1>8

\* Where emit refuses the value, the whole has no spelling.
LEMMA RefuseTracked ==
    ASSUME Followed, mode = "emit", ~Hidden, outcome = "writing", Refuse,
           heap' = heap, outcome' = outcome, blank' = blank,
           \A done : ~Fine(heap, done, Place)
    PROVE  Tracked' /\ Judged'
<1>1. PICK walk, rank, n : Track(heap, stack, mode, Place, walk, rank, n)
  BY DEF Followed, Tracked
<1>2. Seen(heap, Place[1])
  BY DEF Hidden, Seen, Place
<1>3. Bad(heap, Place) /\ Leads(heap, Place, Whole)
  BY <1>1, <1>2, UnfitBad DEF Track
<1>4. Bad(heap, Whole)
  BY <1>3, GrownOn DEF Leads
<1>5. Track(heap, stack, "shape", Place', walk, rank, n)
  BY <1>1, TrackShape
<1>6. Tracked'
  BY <1>5 DEF Tracked, Refuse
<1>7. Judged'
  BY <1>4, StepJudged DEF Followed
<1> QED
  BY <1>6, <1>7

\* The value emit was called with is written.
LEMMA WriteTracked ==
    ASSUME Followed, mode = "emit", outcome = "writing", GoOn, stack' = stack,
           heap' = heap, outcome' = outcome, blank' = blank,
           \A done : Fine(heap, done, Place)
    PROVE  Tracked' /\ Judged'
<1>1. PICK walk, rank, n : Track(heap, stack, mode, Place, walk, rank, n)
  BY DEF Followed, Tracked
<1>2. IsStack(stack) /\ (stack # <<>> => Framed(stack[Len(stack)]))
  <2>1. Stacked(stack, mode)
    BY DEF Followed, Formed
  <2> QED
    BY <2>1, TopFramed DEF Stacked, Top
<1>3. PICK rank2, n2 : Track(heap, stack, "next", Place', walk, rank2, n2)
  BY <1>1, <1>2, TrackAnswer
<1>4. Tracked'
  BY <1>3 DEF Tracked, GoOn
<1>5. Judged'
  BY StepJudged DEF Followed, GoOn
<1> QED
  BY <1>4, <1>5

\* A frame is pushed for it.
LEMMA PushTracked ==
    ASSUME Followed, mode = "emit", outcome = "writing", heap' = heap, outcome' = outcome,
           blank' = blank, NEW fr, Framed(fr), Push(fr), Spells(heap, fr, Place),
           mode' \in {"emit", "next"}, mode' = "next" \/ Waits(fr),
           mode' = "emit" => /\ Child(heap, fr, Place, Place') /\ Leads(heap, Place', Place)
                             /\ \A done : Made(done, fr, fr.i - 1),
           mode' = "next" => \A done : Going(heap, done, fr, Place)
    PROVE  Tracked' /\ Judged'
<1>1. PICK walk, rank, n : Track(heap, stack, mode, Place, walk, rank, n)
  BY DEF Followed, Tracked
<1>2. Stacked(stack, mode) /\ IsStack(stack)
  BY DEF Followed, Formed, Stacked
<1>3. /\ stack' # <<>> /\ Len(stack') = Len(stack) + 1 /\ stack'[Len(stack')] = fr
      /\ \A i \in 1..Len(stack) : stack'[i] = stack[i]
  BY <1>2, PushStacked DEF Push
<1>4. \E walk2 : Track(heap, stack', mode', Place', walk2, rank, n)
  <2>1. CASE mode' = "emit"
    <3>1. Child(heap, fr, Place, Place') /\ Leads(heap, Place', Place)
          /\ Made(DOMAIN rank, fr, fr.i - 1)
      BY <2>1
    <3> QED
      BY <1>1, <1>2, <1>3, <2>1, <3>1, TrackPush
  <2>2. CASE mode' = "next"
    <3>1. Going(heap, DOMAIN rank, fr, Place)
      BY <2>2
    <3> QED
      BY <1>1, <1>2, <1>3, <2>2, <3>1, TrackPush
  <2> QED
    BY <2>1, <2>2
<1>5. Tracked'
  BY <1>4 DEF Tracked
<1>6. Judged'
  BY StepJudged DEF Followed
<1> QED
  BY <1>5, <1>6

\* The value emit was called with, where it has been looked at.
LEMMA Looked ==
    ASSUME ~Hidden
    PROVE  Seen(heap, cur) /\ At(heap, cur) = Obj /\ Place[1] = cur /\ Place[2] = under
           /\ Place[3] = may
BY DEF Hidden, Seen, At, Obj, Place

LEMMA FineHere ==
    ASSUME ~Hidden, NEW done, Fine(heap, done, Place)
    PROVE  /\ Obj.k \in {"null", "str", "tagged", "array", "object"} \cup Known \cup {"stray"}
           /\ Obj.k = "null" => ~under
           /\ Obj.k = "tagged" => <<Obj.kids[1], TRUE, TRUE>> \in done
           /\ Obj.k \in Known \cup {"stray"} => may
           /\ Obj.k \in (Known \ {"set"}) \cup {"stray"} => <<Spelled(Obj), under, FALSE>> \in done
<1>1. PICK x, o : x = Place /\ o = Obj
  OBVIOUS
<1>2. Fine(heap, done, x) /\ o = At(heap, x[1]) /\ x[2] = under /\ x[3] = may
  BY <1>1, Looked
<1>3. /\ o.k \in {"null", "str", "tagged", "array", "object"} \cup Known \cup {"stray"}
      /\ o.k = "null" => ~x[2]
      /\ o.k = "tagged" => <<o.kids[1], TRUE, TRUE>> \in done
      /\ o.k \in Known \cup {"stray"} => x[3]
      /\ o.k \in (Known \ {"set"}) \cup {"stray"} => <<Spelled(o), x[2], FALSE>> \in done
  <2>1. o.k \in {"null", "str", "tagged", "array", "object"} \cup Known \cup {"stray"}
    BY <1>2 DEF Fine, Known
  <2>2. o.k = "null" => ~x[2]
    BY ONLY <1>2, FineFor
  <2>3. o.k = "tagged" => <<o.kids[1], TRUE, TRUE>> \in done
    BY ONLY <1>2, FineFor
  <2>4. o.k \in Known \cup {"stray"} => x[3]
    BY <1>2 DEF Fine, Known
  <2>5. o.k \in (Known \ {"set"}) \cup {"stray"} => <<Spelled(o), x[2], FALSE>> \in done
    BY ONLY <1>2, FineFor
  <2> QED
    BY <2>1, <2>2, <2>3, <2>4, <2>5
<1> QED
  BY ONLY <1>1, <1>2, <1>3

LEMMA EmitTracked ==
    ASSUME Followed,
           \/ EmitBare \/ EmitScalar \/ EmitUnspellable \/ EmitTagged \/ EmitArray \/ EmitObject
    PROVE  Tracked' /\ Judged'
<1>1. /\ mode = "emit" /\ ~Hidden /\ outcome = "writing"
      /\ heap' = heap /\ outcome' = outcome /\ blank' = blank
  BY DEF EmitBare, EmitScalar, EmitUnspellable, EmitTagged, EmitArray, EmitObject, Emitting, Quiet
<1>2. Parted(Obj)
  BY <1>1, ObjParted DEF Followed
<1>3. /\ Seen(heap, Place[1]) /\ At(heap, Place[1]) = Obj /\ Place[2] = under
      /\ Place[3] = may
  BY <1>1, Looked
<1>4. CASE EmitBare
  <2>1. Obj.k = "null"
    BY <1>4 DEF EmitBare, Emitting
  <2>2. CASE under
    <3>1. Refuse
      BY <1>4, <2>2 DEF EmitBare
    <3>2. \A done : ~Fine(heap, done, Place)
      BY <1>1, <2>1, <2>2, FineHere
    <3> QED
      BY <1>1, <3>1, <3>2, RefuseTracked
  <2>3. CASE ~under
    <3>1. GoOn /\ stack' = stack
      BY <1>4, <2>3 DEF EmitBare
    <3>2. \A done : Fine(heap, done, Place)
      BY <1>3, <2>1, <2>3 DEF Fine
    <3> QED
      BY <1>1, <3>1, <3>2, WriteTracked
  <2> QED
    BY <2>2, <2>3
<1>5. CASE EmitScalar
  <2>1. Obj.k = "str" /\ GoOn /\ stack' = stack
    BY <1>5 DEF EmitScalar, Emitting
  <2>2. \A done : Fine(heap, done, Place)
    BY <1>3, <2>1 DEF Fine
  <2> QED
    BY <1>1, <2>1, <2>2, WriteTracked
<1>6. CASE EmitUnspellable
  <2>1. Obj.k = "unspellable" /\ Refuse
    BY <1>6 DEF EmitUnspellable, Emitting
  <2>2. \A done : ~Fine(heap, done, Place)
    BY <1>1, <2>1, FineHere DEF Known
  <2> QED
    BY <1>1, <2>1, <2>2, RefuseTracked
<1>7. CASE EmitTagged
  <2> DEFINE fr == [f |-> "tag"]
  <2>1. /\ Obj.k = "tagged" /\ Push(fr) /\ Emit(Obj.kids[1], TRUE, TRUE)
    BY <1>7 DEF EmitTagged, Emitting
  <2>2. Framed(fr) /\ Waits(fr) /\ fr.f = "tag"
    BY DEF Framed, Waits
  <2> HIDE DEF fr
  <2>3. mode' = "emit" /\ Place' = <<Obj.kids[1], TRUE, TRUE>>
    BY <2>1 DEF Emit, Place
  <2>4. Spells(heap, fr, Place)
    BY <1>3, <2>1, <2>2 DEF Spells
  <2>5. Child(heap, fr, Place, Place')
    BY <1>3, <2>2, <2>3 DEF Child
  <2>6. \A done : Fine(heap, done, Place) => <<Obj.kids[1], TRUE, TRUE>> \in done
    BY <1>1, <2>1, FineHere
  <2>7. Leads(heap, Place', Place)
    BY <1>3, <2>3, <2>6, NeededLeads
  <2>8. \A done : Made(done, fr, fr.i - 1)
    BY <2>2 DEF Made
  <2> QED
    BY <1>1, <2>1, <2>2, <2>3, <2>4, <2>5, <2>7, <2>8, PushTracked
<1>8. CASE EmitArray
  <2> DEFINE fr == [f |-> "array", kids |-> Obj.kids, i |-> 0]
  <2>1. /\ Obj.k = "array" /\ Push(fr) /\ mode' = "next"
    BY <1>8 DEF EmitArray, Emitting, GoOn
  <2>2. Framed(fr) /\ fr.f = "array" /\ fr.kids = Obj.kids /\ fr.i = 0
    BY <1>2, <2>1, LenProperties DEF Framed, Parted
  <2> HIDE DEF fr
  <2>3. Spells(heap, fr, Place)
    BY <1>3, <2>1, <2>2 DEF Spells
  <2>4. \A done : Going(heap, done, fr, Place)
    BY <2>2 DEF Going, Made
  <2> QED
    BY <1>1, <2>1, <2>2, <2>3, <2>4, PushTracked
<1>9. CASE EmitObject
  <2> DEFINE fr == [f |-> "object", keys |-> Obj.keys, kids |-> Obj.kids, i |-> 0]
  <2>1. /\ Obj.k = "object" /\ Push(fr) /\ mode' = "next"
    BY <1>9 DEF EmitObject, Emitting, GoOn
  <2>2. Framed(fr) /\ fr.f = "object" /\ fr.kids = Obj.kids /\ fr.keys = Obj.keys /\ fr.i = 0
    BY <1>2, <2>1, LenProperties DEF Framed, Parted, Keyed
  <2> HIDE DEF fr
  <2>3. Spells(heap, fr, Place)
    BY <1>3, <2>1, <2>2 DEF Spells
  <2>4. \A done : Going(heap, done, fr, Place)
    BY <2>2 DEF Going, Made
  <2> QED
    BY <1>1, <2>1, <2>2, <2>3, <2>4, PushTracked
<1> QED
  BY <1>4, <1>5, <1>6, <1>7, <1>8, <1>9

LEMMA HookTracked ==
    ASSUME Followed, Convert \/ StillUnknown \/ CannotEncode \/ Sort
    PROVE  Tracked' /\ Judged'
<1>1. /\ mode = "emit" /\ ~Hidden /\ outcome = "writing"
      /\ heap' = heap /\ outcome' = outcome /\ blank' = blank
  BY DEF Convert, StillUnknown, CannotEncode, Sort, Emitting, Quiet
<1>2. Parted(Obj)
  BY <1>1, ObjParted DEF Followed
<1>3. /\ Seen(heap, Place[1]) /\ At(heap, Place[1]) = Obj /\ Place[2] = under
      /\ Place[3] = may
  BY <1>1, Looked
<1>4. CASE StillUnknown
  <2>1. Obj.k \in Unknown /\ ~may /\ Refuse
    BY <1>4 DEF StillUnknown, Emitting
  <2>2. \A done : ~Fine(heap, done, Place)
    BY <1>1, <2>1, FineHere DEF Known, Unknown
  <2> QED
    BY <1>1, <2>1, <2>2, RefuseTracked
<1>5. CASE CannotEncode
  <2>1. Obj.k = "alien" /\ Refuse
    BY <1>5 DEF CannotEncode, Emitting
  <2>2. \A done : ~Fine(heap, done, Place)
    BY <1>1, <2>1, FineHere DEF Known
  <2> QED
    BY <1>1, <2>1, <2>2, RefuseTracked
<1>6. CASE Convert
  <2> DEFINE fr == [f |-> "convert"]
  <2>1. /\ Obj.k \in (Known \ {"set"}) \cup {"stray"} /\ may
        /\ Push(fr) /\ Emit(Spelled(Obj), under, FALSE)
    BY <1>6 DEF Convert, Emitting
  <2>2. Framed(fr) /\ Waits(fr) /\ fr.f = "convert"
    BY DEF Framed, Waits
  <2> HIDE DEF fr
  <2>3. mode' = "emit" /\ Place' = <<Spelled(Obj), under, FALSE>>
    BY <2>1 DEF Emit, Place
  <2>4. Spells(heap, fr, Place)
    BY <1>3, <2>1, <2>2 DEF Spells
  <2>5. Child(heap, fr, Place, Place')
    <3>1. Obj.k # "set"
      BY <2>1
    <3> QED
      BY <1>3, <2>2, <2>3, <3>1 DEF Child
  <2>6. \A done : Fine(heap, done, Place) => <<Spelled(Obj), under, FALSE>> \in done
    BY <1>1, <2>1, FineHere
  <2>7. Leads(heap, Place', Place)
    BY <1>3, <2>3, <2>6, NeededLeads
  <2>8. \A done : Made(done, fr, fr.i - 1)
    BY <2>2 DEF Made
  <2> QED
    BY <1>1, <2>1, <2>2, <2>3, <2>4, <2>5, <2>7, <2>8, PushTracked
<1>7. CASE Sort
  <2> DEFINE fr == [f |-> "sort", name |-> Obj.name, kids |-> Obj.kids, keys |-> <<>>, i |-> 0,
                    out |-> out, under |-> under]
  <2>1. /\ Obj.k = "set" /\ may /\ Push(fr) /\ mode' = "next"
    BY <1>7 DEF Sort, Emitting, GoOn
  <2>2. Framed(fr)
    <3>1. Obj.kids \in Seq(Refs) /\ Obj.name \in Word
      BY <1>2, <2>1, HeadParts DEF Parted, Known
    <3>2. <<>> \in Seq(Texts) /\ Len(<<>>) = 0 /\ Len(Obj.kids) \in Nat
      BY <3>1, EmptySeq, LenProperties
    <3> QED
      BY <3>1, <3>2 DEF Framed, Followed, Formed
  <2>3. fr.f = "sort" /\ fr.kids = Obj.kids /\ fr.under = under
    OBVIOUS
  <2> HIDE DEF fr
  <2>4. Spells(heap, fr, Place)
    BY <1>3, <2>1, <2>3 DEF Spells
  <2>5. \A done : Going(heap, done, fr, Place)
    BY <2>3 DEF Going, Made
  <2> QED
    BY <1>1, <2>1, <2>2, <2>4, <2>5, PushTracked
<1> QED
  BY <1>4, <1>5, <1>6, <1>7

\* The frame on top of the stack, and the place it is there for.
LEMMA TopTracked ==
    ASSUME Followed, stack # <<>>
    PROVE  \E walk, rank, n, x :
              /\ Track(heap, stack, mode, Place, walk, rank, n) /\ x = walk[Len(stack)]
              /\ Sound(heap, rank, n) /\ Spells(heap, Top, x) /\ Seen(heap, x[1])
              /\ Leads(heap, x, Whole) /\ Framed(Top)
              /\ mode = "next" => Going(heap, DOMAIN rank, Top, x)
<1>1. PICK walk, rank, n : Track(heap, stack, mode, Place, walk, rank, n)
  BY DEF Followed, Tracked
<1>2. Framed(Top) /\ Top = stack[Len(stack)] /\ Len(stack) \in 1..Len(stack)
  BY TopFramed DEF Followed, Formed
<1>3. Sound(heap, rank, n) /\ Spells(heap, Top, walk[Len(stack)]) /\ Leads(heap, walk[Len(stack)], Whole)
  BY <1>1, <1>2 DEF Track
<1>4. mode = "next" => Going(heap, DOMAIN rank, Top, walk[Len(stack)])
  BY <1>1, <1>2 DEF Track
<1> QED
  BY <1>1, <1>2, <1>3, <1>4 DEF Spells

\* A frame that has come to its end leaves with its value spelled.
LEMMA DoneTracked ==
    ASSUME Followed, stack # <<>>, mode = "next", outcome = "writing", Pop, mode' = "next",
           heap' = heap, outcome' = outcome, blank' = blank,
           \A x, rank, n : /\ Sound(heap, rank, n) /\ Spells(heap, Top, x)
                           /\ Going(heap, DOMAIN rank, Top, x)
                           => Fine(heap, DOMAIN rank, x)
    PROVE  Tracked' /\ Judged'
<1>1. PICK walk, rank, n, x :
          /\ Track(heap, stack, mode, Place, walk, rank, n) /\ x = walk[Len(stack)]
          /\ Sound(heap, rank, n) /\ Spells(heap, Top, x) /\ Going(heap, DOMAIN rank, Top, x)
  BY TopTracked
<1>2. Fine(heap, DOMAIN rank, walk[Len(stack)])
  BY <1>1
<1>3. Stacked(stack, mode)
  BY DEF Followed, Formed
<1>4. PICK rank2, n2 : Track(heap, stack', "next", Place', walk, rank2, n2)
  BY <1>1, <1>2, <1>3, TrackDone DEF Pop
<1>5. Tracked'
  BY <1>4 DEF Tracked
<1>6. Judged'
  BY StepJudged DEF Followed
<1> QED
  BY <1>5, <1>6

\* A frame calls emit with its next value, or goes on in another way.
LEMMA GoTracked ==
    ASSUME Followed, stack # <<>>, outcome = "writing", heap' = heap, outcome' = outcome,
           mode' \in {"emit", "next"}, mode = "shape" \/ blank' = blank,
           NEW fr, Replace(fr),
           \A x, rank, n :
              Sound(heap, rank, n) /\ Spells(heap, Top, x)
              /\ (mode = "next" => Going(heap, DOMAIN rank, Top, x)) =>
                 /\ Spells(heap, fr, x)
                 /\ mode' = "emit" => /\ Child(heap, fr, x, Place') /\ Leads(heap, Place', x)
                                      /\ Made(DOMAIN rank, fr, fr.i - 1)
                 /\ mode' = "next" => Going(heap, DOMAIN rank, fr, x)
    PROVE  Tracked' /\ Judged'
<1>1. PICK walk, rank, n, x :
          /\ Track(heap, stack, mode, Place, walk, rank, n) /\ x = walk[Len(stack)]
          /\ Sound(heap, rank, n) /\ Spells(heap, Top, x)
          /\ mode = "next" => Going(heap, DOMAIN rank, Top, x)
  BY TopTracked
<1>2. /\ Spells(heap, fr, x)
      /\ mode' = "emit" => /\ Child(heap, fr, x, Place') /\ Leads(heap, Place', x)
                           /\ Made(DOMAIN rank, fr, fr.i - 1)
      /\ mode' = "next" => Going(heap, DOMAIN rank, fr, x)
  BY <1>1
<1>3. Stacked(stack, mode)
  BY DEF Followed, Formed
<1>4. stack' = [stack EXCEPT ![Len(stack)] = fr]
  BY DEF Replace
<1>5. \E walk2 : Track(heap, stack', mode', Place', walk2, rank, n)
  <2>1. CASE mode' = "emit"
    <3>1. /\ Spells(heap, fr, walk[Len(stack)]) /\ Child(heap, fr, walk[Len(stack)], Place')
          /\ Leads(heap, Place', walk[Len(stack)]) /\ Made(DOMAIN rank, fr, fr.i - 1)
      BY <1>1, <1>2, <2>1
    <3> QED
      BY <1>1, <1>3, <1>4, <2>1, <3>1, TrackReplace
  <2>2. CASE mode' = "next"
    <3>1. Spells(heap, fr, walk[Len(stack)]) /\ Going(heap, DOMAIN rank, fr, walk[Len(stack)])
      BY <1>1, <1>2, <2>2
    <3> QED
      BY <1>1, <1>3, <1>4, <2>2, <3>1, TrackReplace
  <2> QED
    BY <2>1, <2>2
<1>6. Tracked'
  BY <1>5 DEF Tracked
<1>7. Judged'
  BY DEF Followed, Judged
<1> QED
  BY <1>6, <1>7

LEMMA LeaveTracked ==
    ASSUME Followed, Leave
    PROVE  Tracked' /\ Judged'
<1>1. /\ stack # <<>> /\ mode = "next" /\ outcome = "writing" /\ Pop /\ mode' = "next"
      /\ heap' = heap /\ outcome' = outcome /\ blank' = blank /\ Top.f \in {"tag", "convert"}
  BY DEF Leave, GoingOn, Quiet
<1>2. ASSUME NEW x, NEW rank, NEW n, Sound(heap, rank, n), Spells(heap, Top, x),
             Going(heap, DOMAIN rank, Top, x)
      PROVE  Fine(heap, DOMAIN rank, x)
  <2>1. PICK y \in DOMAIN rank : Child(heap, Top, x, y)
    BY <1>1, <1>2 DEF Going
  <2>2. CASE Top.f = "tag"
    BY <1>2, <2>1, <2>2 DEF Spells, Child, Fine
  <2>3. CASE Top.f = "convert" /\ At(heap, x[1]).k # "set"
    BY <1>2, <2>1, <2>3 DEF Spells, Child, Fine
  <2>4. CASE Top.f = "convert" /\ At(heap, x[1]).k = "set"
    <3>1. PICK name, ks : InOrder(At(heap, x[1]), ks)
                          /\ <<Tagged(name, Array(ks)), x[2], FALSE>> \in DOMAIN rank
      BY <2>1, <2>4 DEF Child
    <3>2. Elements(At(heap, x[1])) \subseteq DOMAIN rank
      BY <1>2, <3>1, SetFine
    <3> QED
      BY <1>2, <2>4, <3>2 DEF Spells, Fine
  <2> QED
    BY <1>1, <2>2, <2>3, <2>4
<1> QED
  BY <1>1, <1>2, DoneTracked

\* The next value of a frame over a container.
LEMMA NextLeads ==
    ASSUME NEW g, NEW fr, fr.f \in {"array", "object", "sort"}, NEW x, Spells(g, fr, x),
           NEW y \in Elements(fr)
    PROVE  Leads(g, y, x)
<1>1. Seen(g, x[1]) /\ At(g, x[1]).kids = fr.kids /\ At(g, x[1]).k \in {"array", "object", "set"}
  BY DEF Spells
<1>2. ASSUME NEW done, Fine(g, done, x) PROVE y \in done
  <2>1. Elements(At(g, x[1])) \subseteq done
    BY <1>1, <1>2 DEF Fine, Known
  <2>2. Elements(At(g, x[1])) = Elements(fr)
    BY <1>1 DEF Elements
  <2> QED
    BY <2>1, <2>2
<1> QED
  BY <1>1, <1>2, NeededLeads

LEMMA TopLeads ==
    ASSUME Top.f \in {"array", "object", "sort"}, NEW x, Spells(heap, Top, x),
           Top.i + 1 \in 1..Len(Top.kids)
    PROVE  Leads(heap, <<Top.kids[Top.i + 1], FALSE, TRUE>>, x)
<1>1. <<Top.kids[Top.i + 1], FALSE, TRUE>> \in Elements(Top)
  BY DEF Elements
<1> QED
  BY <1>1, NextLeads

LEMMA ElementsMade ==
    ASSUME NEW g, NEW fr, fr.f \in {"array", "object"}, fr.i = Len(fr.kids), NEW x,
           Spells(g, fr, x), NEW done, Going(g, done, fr, x)
    PROVE  Fine(g, done, x)
<1>1. Elements(At(g, x[1])) \subseteq done
  BY DEF Spells, Going, Made, Elements
<1>2. fr.f = "object" => \A j \in 1..Len(At(g, x[1]).kids) : At(g, x[1]).keys[j] # BadKey
  BY DEF Spells, Going, Made
<1> QED
  BY <1>1, <1>2 DEF Spells, Fine

LEMMA ArrayTracked ==
    ASSUME Followed, ArrayNext
    PROVE  Tracked' /\ Judged'
<1>1. /\ stack # <<>> /\ mode = "next" /\ outcome = "writing" /\ Top.f = "array"
      /\ heap' = heap /\ outcome' = outcome /\ blank' = blank
  BY DEF ArrayNext, GoingOn, Quiet
<1>2. Framed(Top)
  BY <1>1, TopFramed DEF Followed, Formed
<1>3. CASE Top.i = Len(Top.kids)
  <2>1. Pop /\ mode' = "next"
    BY <1>1, <1>3 DEF ArrayNext, GoOn
  <2>2. \A x, rank, n : /\ Sound(heap, rank, n) /\ Spells(heap, Top, x)
                        /\ Going(heap, DOMAIN rank, Top, x)
                        => Fine(heap, DOMAIN rank, x)
    BY <1>1, <1>3, ElementsMade
  <2> QED
    BY <1>1, <2>1, <2>2, DoneTracked
<1>4. CASE Top.i # Len(Top.kids)
  <2> DEFINE next == [f |-> "array", kids |-> Top.kids, i |-> Top.i + 1]
  <2>1. Replace([Top EXCEPT !.i = @ + 1]) /\ Emit(Top.kids[Top.i + 1], FALSE, TRUE)
    BY <1>4 DEF ArrayNext
  <2>2. Top = [f |-> "array", kids |-> Top.kids, i |-> Top.i] /\ Top.i \in 0..Len(Top.kids)
    BY <1>1, <1>2, FrameFields
  <2>3. [Top EXCEPT !.i = @ + 1] = next
    BY ONLY <2>2
  <2>4. Top.i + 1 \in 1..Len(Top.kids)
    BY <1>1, <1>2, <1>4, NextChild
  <2>5. Replace(next) /\ next.f = "array" /\ next.kids = Top.kids /\ next.i = Top.i + 1
    BY <2>1, <2>3
  <2> HIDE DEF next
  <2>6. mode' = "emit" /\ Place' = <<Top.kids[Top.i + 1], FALSE, TRUE>>
    BY <2>1 DEF Emit, Place
  <2>7. ASSUME NEW x, NEW rank, NEW n, Sound(heap, rank, n), Spells(heap, Top, x),
               Going(heap, DOMAIN rank, Top, x)
        PROVE  /\ Spells(heap, next, x) /\ Child(heap, next, x, Place') /\ Leads(heap, Place', x)
               /\ Made(DOMAIN rank, next, next.i - 1)
    <3>1. Spells(heap, next, x)
      BY <1>1, <2>5, <2>7 DEF Spells
    <3>2. Child(heap, next, x, Place')
      BY <2>5, <2>6 DEF Child
    <3>3. Leads(heap, Place', x)
      <4>1. Top.f \in {"array", "object", "sort"} /\ Top.i + 1 \in 1..Len(Top.kids)
        BY <1>1, <2>4
      <4>2. Leads(heap, <<Top.kids[Top.i + 1], FALSE, TRUE>>, x)
        BY <2>7, <4>1, TopLeads
      <4> QED
        BY <2>6, <4>2
    <3>4. next.i - 1 = Top.i
      BY <2>2, <2>5
    <3>5. Made(DOMAIN rank, next, next.i - 1)
      BY <1>1, <2>5, <2>7, <3>4 DEF Going, Made
    <3> QED
      BY <3>1, <3>2, <3>3, <3>5
  <2> QED
    BY <1>1, <2>5, <2>6, <2>7, GoTracked
<1> QED
  BY <1>3, <1>4

LEMMA ObjectTracked ==
    ASSUME Followed, ObjectNext
    PROVE  Tracked' /\ Judged'
<1>1. /\ stack # <<>> /\ mode = "next" /\ outcome = "writing" /\ Top.f = "object"
      /\ heap' = heap /\ outcome' = outcome /\ blank' = blank
  BY DEF ObjectNext, GoingOn, Quiet
<1>2. Framed(Top)
  BY <1>1, TopFramed DEF Followed, Formed
<1>3. CASE Top.i = Len(Top.kids)
  <2>1. Pop /\ mode' = "next"
    BY <1>1, <1>3 DEF ObjectNext, GoOn
  <2>2. \A x, rank, n : /\ Sound(heap, rank, n) /\ Spells(heap, Top, x)
                        /\ Going(heap, DOMAIN rank, Top, x)
                        => Fine(heap, DOMAIN rank, x)
    BY <1>1, <1>3, ElementsMade
  <2> QED
    BY <1>1, <2>1, <2>2, DoneTracked
<1>4. CASE Top.i # Len(Top.kids) /\ Top.keys[Top.i + 1] = BadKey
  <2>1. Pop /\ mode' = "shape"
    BY <1>4 DEF ObjectNext
  <2>2. Top.i + 1 \in 1..Len(Top.kids)
    BY <1>1, <1>2, <1>4, NextChild
  <2>3. PICK walk, rank, n, x :
            /\ Track(heap, stack, mode, Place, walk, rank, n)
            /\ Spells(heap, Top, x) /\ Seen(heap, x[1]) /\ Leads(heap, x, Whole)
    BY <1>1, TopTracked
  <2>4. \A done : ~Fine(heap, done, x)
    BY <1>1, <1>4, <2>2, <2>3 DEF Spells, Fine, Known
  <2>5. Bad(heap, x)
    BY <2>3, <2>4, UnfitBad
  <2>6. Bad(heap, Whole)
    BY <2>3, <2>5, GrownOn DEF Leads
  <2>7. Tracked'
    <3>1. Stacked(stack, mode)
      BY DEF Followed, Formed
    <3>2. IsStack(stack) /\ Len(stack') = Len(stack) - 1 /\ \A i \in 1..Len(stack') : stack'[i] = stack[i]
      BY <1>1, <2>1, <3>1, PopStacked DEF Pop, Stacked
    <3>3. Track(heap, stack', "emit", walk[Len(stack)], walk, rank, n)
      BY <1>1, <2>3, <3>2, TrackPop
    <3>4. Track(heap, stack', "shape", Place', walk, rank, n)
      BY <3>3, TrackShape
    <3> QED
      BY <1>1, <2>1, <3>4 DEF Tracked
  <2>8. Judged'
    BY <1>1, <2>6, StepJudged DEF Followed
  <2> QED
    BY <2>7, <2>8
<1>5. CASE Top.i # Len(Top.kids) /\ Top.keys[Top.i + 1] # BadKey
  <2> DEFINE next == [f |-> "object", keys |-> Top.keys, kids |-> Top.kids, i |-> Top.i + 1]
  <2>1. Replace([Top EXCEPT !.i = @ + 1]) /\ Emit(Top.kids[Top.i + 1], FALSE, TRUE)
    BY <1>5 DEF ObjectNext
  <2>2. Top = [f |-> "object", keys |-> Top.keys, kids |-> Top.kids, i |-> Top.i]
        /\ Top.i \in 0..Len(Top.kids)
    BY <1>1, <1>2, FrameFields
  <2>3. [Top EXCEPT !.i = @ + 1] = next
    BY ONLY <2>2
  <2>4. Top.i + 1 \in 1..Len(Top.kids)
    BY <1>1, <1>2, <1>5, NextChild
  <2>5. /\ Replace(next) /\ next.f = "object" /\ next.kids = Top.kids /\ next.keys = Top.keys
        /\ next.i = Top.i + 1
    BY <2>1, <2>3
  <2> HIDE DEF next
  <2>6. mode' = "emit" /\ Place' = <<Top.kids[Top.i + 1], FALSE, TRUE>>
    BY <2>1 DEF Emit, Place
  <2>7. ASSUME NEW x, NEW rank, NEW n, Sound(heap, rank, n), Spells(heap, Top, x),
               Going(heap, DOMAIN rank, Top, x)
        PROVE  /\ Spells(heap, next, x) /\ Child(heap, next, x, Place') /\ Leads(heap, Place', x)
               /\ Made(DOMAIN rank, next, next.i - 1)
    <3>1. Spells(heap, next, x)
      BY <1>1, <2>5, <2>7 DEF Spells
    <3>2. Child(heap, next, x, Place')
      BY <2>5, <2>6 DEF Child
    <3>3. Leads(heap, Place', x)
      <4>1. Top.f \in {"array", "object", "sort"} /\ Top.i + 1 \in 1..Len(Top.kids)
        BY <1>1, <2>4
      <4>2. Leads(heap, <<Top.kids[Top.i + 1], FALSE, TRUE>>, x)
        BY <2>7, <4>1, TopLeads
      <4> QED
        BY <2>6, <4>2
    <3>4. next.i - 1 = Top.i
      BY <2>2, <2>5
    <3>5. \A j \in 1..next.i : next.keys[j] # BadKey
      <4>1. \A j \in 1..next.i : j \in 1..Top.i \/ j = Top.i + 1
        BY <2>2, <2>5
      <4>2. \A j \in 1..Top.i : Top.keys[j] # BadKey
        BY <1>1, <2>7 DEF Going, Made
      <4> QED
        BY <1>5, <2>5, <4>1, <4>2
    <3>6. \A j \in 1..(next.i - 1) : <<next.kids[j], FALSE, TRUE>> \in DOMAIN rank
      BY <1>1, <2>5, <2>7, <3>4 DEF Going, Made
    <3>7. Made(DOMAIN rank, next, next.i - 1)
      BY <3>5, <3>6 DEF Made
    <3> QED
      BY <3>1, <3>2, <3>3, <3>7
  <2> QED
    BY <1>1, <2>5, <2>6, <2>7, GoTracked
<1> QED
  BY <1>3, <1>4, <1>5

LEMMA SortTracked ==
    ASSUME TextsOrdered, Followed, SortNext
    PROVE  Tracked' /\ Judged'
<1>1. /\ stack # <<>> /\ mode = "next" /\ outcome = "writing" /\ Top.f = "sort"
      /\ heap' = heap /\ outcome' = outcome /\ blank' = blank
  BY DEF SortNext, GoingOn, Quiet
<1>2. /\ SortKeys \in Seq(Texts) /\ Len(SortKeys) = Top.i
      /\ Top.i \in 0..Len(Top.kids) /\ Len(Top.kids) \in Nat /\ Top.kids \in Seq(Refs)
  BY <1>1, SortParts DEF Followed
<1>3. CASE Top.i < Len(Top.kids)
  <2> DEFINE next == [f |-> "sort", name |-> Top.name, kids |-> Top.kids, keys |-> SortKeys,
                      i |-> Top.i + 1, out |-> Top.out, under |-> Top.under]
  <2>1. /\ Replace([Top EXCEPT !.keys = SortKeys, !.i = @ + 1])
        /\ Emit(Top.kids[Top.i + 1], FALSE, TRUE)
    BY <1>3 DEF SortNext, SortKeys
  <2>2. [Top EXCEPT !.keys = SortKeys, !.i = @ + 1] = next
    <3>1. Top = [f |-> "sort", name |-> Top.name, kids |-> Top.kids, keys |-> Top.keys,
                 i |-> Top.i, out |-> Top.out, under |-> Top.under]
      BY <1>1, SortParts DEF Followed
    <3> QED
      BY <3>1, SortStep
  <2>3. Top.i + 1 \in 1..Len(Top.kids)
    BY <1>2, <1>3
  <2>4. /\ Replace(next) /\ next.f = "sort" /\ next.kids = Top.kids /\ next.i = Top.i + 1
        /\ next.under = Top.under
    BY <2>1, <2>2
  <2> HIDE DEF next
  <2>5. mode' = "emit" /\ Place' = <<Top.kids[Top.i + 1], FALSE, TRUE>>
    BY <2>1 DEF Emit, Place
  <2>6. ASSUME NEW x, NEW rank, NEW n, Spells(heap, Top, x)
        PROVE  /\ Spells(heap, next, x) /\ Child(heap, next, x, Place') /\ Leads(heap, Place', x)
               /\ Made(DOMAIN rank, next, next.i - 1)
    <3>1. Spells(heap, next, x)
      BY <1>1, <2>4, <2>6 DEF Spells
    <3>2. Child(heap, next, x, Place')
      BY <2>4, <2>5 DEF Child
    <3>3. Leads(heap, Place', x)
      <4>1. Top.f \in {"array", "object", "sort"} /\ Top.i + 1 \in 1..Len(Top.kids)
        BY <1>1, <2>3
      <4>2. Leads(heap, <<Top.kids[Top.i + 1], FALSE, TRUE>>, x)
        BY <2>6, <4>1, TopLeads
      <4> QED
        BY <2>5, <4>2
    <3>4. Made(DOMAIN rank, next, next.i - 1)
      BY <2>4 DEF Made
    <3> QED
      BY <3>1, <3>2, <3>3, <3>4
  <2> QED
    BY <1>1, <2>4, <2>5, <2>6, GoTracked
<1>4. CASE ~(Top.i < Len(Top.kids))
  <2> DEFINE next == [f |-> "convert"]
             ks == SortedBy(Top.kids, SortKeys)
  <2>1. Replace(next) /\ Emit(Tagged(Top.name, Array(ks)), Top.under, FALSE)
    BY <1>4 DEF SortNext, SortKeys, Array
  <2>2. next.f = "convert"
    OBVIOUS
  <2>3. Len(SortKeys) = Len(Top.kids)
    BY <1>2, <1>4
  <2>4. /\ Len(ks) = Len(Top.kids)
        /\ \A i \in 1..Len(Top.kids) :
              /\ \E r \in 1..Len(Top.kids) : ks[r] = Top.kids[i]
              /\ \E j \in 1..Len(Top.kids) : ks[i] = Top.kids[j]
    BY <1>2, <2>3, SortedElements
  <2> HIDE DEF next, ks
  <2>5. mode' = "emit" /\ Place' = <<Tagged(Top.name, Array(ks)), Top.under, FALSE>>
    BY <2>1 DEF Emit, Place
  <2>6. ASSUME NEW x, NEW rank, NEW n, Spells(heap, Top, x)
        PROVE  /\ Spells(heap, next, x) /\ Child(heap, next, x, Place') /\ Leads(heap, Place', x)
               /\ Made(DOMAIN rank, next, next.i - 1)
    <3>1. /\ Seen(heap, x[1]) /\ x[3] /\ At(heap, x[1]).k = "set"
          /\ At(heap, x[1]).kids = Top.kids /\ Top.under = x[2]
      BY <1>1, <2>6 DEF Spells
    <3>2. InOrder(At(heap, x[1]), ks)
      <4>1. PICK o : o = At(heap, x[1]) /\ o.kids = Top.kids
        BY <3>1
      <4>2. InOrder(o, ks)
        BY <2>4, <4>1 DEF InOrder
      <4> QED
        BY <4>1, <4>2
    <3>3. Spells(heap, next, x)
      BY <2>2, <3>1 DEF Spells, Known
    <3>4. Child(heap, next, x, Place')
      BY <2>2, <2>5, <3>1, <3>2 DEF Child
    <3>5. Leads(heap, Place', x)
      <4>1. Leads(heap, <<Tagged(Top.name, Array(ks)), Top.under, FALSE>>, x)
        BY <3>1, <3>2, SetLeads
      <4> QED
        BY <2>5, <4>1
    <3>6. Made(DOMAIN rank, next, next.i - 1)
      BY <2>2 DEF Made
    <3> QED
      BY <3>3, <3>4, <3>5, <3>6
  <2> QED
    BY <1>1, <2>1, <2>5, <2>6, GoTracked
<1> QED
  BY <1>3, <1>4

LEMMA UnwindTracked ==
    ASSUME Followed, Unwind
    PROVE  Tracked' /\ Judged'
<1>1. /\ stack # <<>> /\ mode = "shape" /\ outcome = "writing" /\ Pop /\ mode' = "shape"
      /\ heap' = heap /\ outcome' = outcome /\ blank' = blank
  BY DEF Unwind, Unwinding, Quiet
<1>2. PICK walk, rank, n : Track(heap, stack, mode, Place, walk, rank, n)
  BY DEF Followed, Tracked
<1>3. Stacked(stack, mode)
  BY DEF Followed, Formed
<1>4. IsStack(stack) /\ Len(stack') = Len(stack) - 1 /\ \A i \in 1..Len(stack') : stack'[i] = stack[i]
  BY <1>1, <1>3, PopStacked DEF Pop, Stacked
<1>5. Track(heap, stack', "emit", walk[Len(stack)], walk, rank, n)
  BY <1>1, <1>2, <1>4, TrackPop
<1>6. Track(heap, stack', "shape", Place', walk, rank, n)
  BY <1>5, TrackShape
<1>7. Tracked'
  BY <1>1, <1>6 DEF Tracked
<1>8. Judged'
  BY <1>1, StepJudged DEF Followed, Judged
<1> QED
  BY <1>7, <1>8

LEMMA SpellingTracked ==
    ASSUME Followed, SpellingTakes
    PROVE  Tracked' /\ Judged'
<1> DEFINE fr == [f |-> "sort", name |-> Top.name, kids |-> Top.kids,
                  keys |-> Append(Top.keys, <<>>), i |-> Top.i, out |-> Top.out,
                  under |-> Top.under]
<1>1. /\ stack # <<>> /\ Top.f = "sort" /\ mode = "shape" /\ mode' = "next" /\ blank' = TRUE
      /\ outcome = "writing" /\ Replace([Top EXCEPT !.keys = Append(@, <<>>)])
      /\ UNCHANGED <<heap, cur, under, may, out, outcome, calls>>
  BY DEF SpellingTakes, Unwinding
<1>2. Top = [f |-> "sort", name |-> Top.name, kids |-> Top.kids, keys |-> Top.keys,
             i |-> Top.i, out |-> Top.out, under |-> Top.under]
  BY <1>1, TopFramed, FrameFields DEF Followed, Formed
<1>3. [Top EXCEPT !.keys = Append(@, <<>>)] = fr
  BY <1>2, SortTexts
<1>4. Replace(fr) /\ fr.f = "sort" /\ fr.kids = Top.kids /\ fr.under = Top.under
  BY <1>1, <1>3
<1> HIDE DEF fr
<1>5. ASSUME NEW x, NEW rank, Spells(heap, Top, x)
      PROVE  Spells(heap, fr, x) /\ Going(heap, DOMAIN rank, fr, x)
  BY <1>1, <1>4, <1>5 DEF Spells, Going, Made
<1> QED
  BY <1>1, <1>4, <1>5, GoTracked

LEMMA OverTracked ==
    ASSUME Followed, TooDeep \/ EmitOverlong \/ HookRaises \/ Finish \/ Refused \/ Stopped \/ UNCHANGED vars
    PROVE  Tracked' /\ Judged'
<1>1. UNCHANGED <<heap, stack, mode, cur, under, may, blank>>
  BY DEF TooDeep, EmitOverlong, HookRaises, Raise, Finish, Refused, Stopped, vars
<1>2. /\ outcome' = "written" => outcome = "written" \/ (mode = "next" /\ stack = <<>>)
      /\ outcome' = "refused" => outcome = "refused" \/ mode = "shape"
  BY DEF TooDeep, EmitOverlong, HookRaises, Raise, Finish, Refused, Unwinding, Stopped, vars
<1>3. Place' = Place
  BY <1>1 DEF Place
<1>4. Tracked'
  BY <1>1, <1>3 DEF Followed, Tracked
<1>5. Judged'
  BY <1>1, <1>2 DEF Followed, Judged
<1> QED
  BY <1>4, <1>5

LEMMA NextFollowed ==
    ASSUME TextsOrdered, Followed, [Next]_vars
    PROVE  Followed'
<1>1. Formed'
  BY NextFormed DEF Followed
<1>2. Tracked' /\ Judged'
  <2>1. CASE Reveal
    BY <2>1, RevealTracked
  <2>2. CASE EmitBare \/ EmitScalar \/ EmitUnspellable \/ EmitTagged \/ EmitArray \/ EmitObject
    BY <2>2, EmitTracked
  <2>3. CASE Convert \/ StillUnknown \/ CannotEncode \/ Sort
    BY <2>3, HookTracked
  <2>4. CASE Leave
    BY <2>4, LeaveTracked
  <2>5. CASE ArrayNext
    BY <2>5, ArrayTracked
  <2>6. CASE ObjectNext
    BY <2>6, ObjectTracked
  <2>7. CASE SortNext
    BY <2>7, SortTracked
  <2>8. CASE Unwind
    BY <2>8, UnwindTracked
  <2>9. CASE SpellingTakes
    BY <2>9, SpellingTracked
  <2>10. CASE TooDeep \/ EmitOverlong \/ HookRaises \/ Finish \/ Refused \/ Stopped \/ UNCHANGED vars
    BY <2>10, OverTracked
  <2> QED
    BY <2>1, <2>2, <2>3, <2>4, <2>5, <2>6, <2>7, <2>8, <2>9, <2>10 DEF Next
<1> QED
  BY <1>1, <1>2 DEF Followed

-----------------------------------------------------------------------------
(* What dumps answers.                                                     *)

LEMMA FollowedVerdict ==
    ASSUME Followed
    PROVE  Verdict /\ NoBlankWritten
<1>1. ASSUME outcome = "written"
      PROVE  \E rank, n : Sound(heap, rank, n) /\ Whole \in DOMAIN rank
  BY <1>1 DEF Followed, Tracked, Judged, Track
<1>2. ASSUME outcome = "written", blank PROVE FALSE
  <2>1. PICK rank, n : Sound(heap, rank, n) /\ Whole \in DOMAIN rank
    BY <1>1, <1>2
  <2>2. Bad(heap, Whole)
    BY <1>2 DEF Followed, Judged
  <2> QED
    BY <2>1, <2>2, GrownOn DEF Bad
<1> QED
  BY <1>1, <1>2 DEF Verdict, NoBlankWritten, Followed, Judged

\* dumps answers with a text only for what has a spelling, and with a refusal only for
\* what has none: neither the frames of the stack, the hook called in the middle of
\* the walk nor the writers inside it make a difference to which it is.
THEOREM AnswersRightly ==
    ASSUME TextsOrdered PROVE Spec => []Verdict
<1>1. Init => Followed
  BY InitFormed, InitTracked DEF Followed
<1> QED
  BY <1>1, NextFollowed, FollowedVerdict, PTL DEF Spec

\* "The traversal is about to fail on this element anyway": where _spelling answered
\* "" for an element of a set, no text is handed over, however deep the set lies and
\* whatever is written after it.
THEOREM NoBlankNeverWritten ==
    ASSUME TextsOrdered PROVE Spec => []NoBlankWritten
<1>1. Init => Followed
  BY InitFormed, InitTracked DEF Followed
<1> QED
  BY <1>1, NextFollowed, FollowedVerdict, PTL DEF Spec

=============================================================================
