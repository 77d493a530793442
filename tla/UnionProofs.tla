----------------------------- MODULE UnionProofs -----------------------------
(***************************************************************************)
(* The union's dispatch is exact for every set of names, every set of      *)
(* shapes and every number of members.                                     *)
(***************************************************************************)
EXTENDS Unions, SequenceTheorems, TLAPS

(* What a shape claims is what its decoder reads. *)

Covers(claims, h) == h \in claims \/ WholeKind(h.kind) \in claims

\* An atom's decoder accepts a head exactly when the atom claims its slot or its kind.
LEMMA AtomClaimsAreReads ==
    ASSUME NEW a, a.form \in Form, a.names \subseteq Name, NEW h \in Document
    PROVE  AtomReads(a, h) <=> Covers(AtomClaims(a), h)
<1>1. h.kind \in Kind /\ h = [kind |-> h.kind, name |-> h.name]
  BY DEF Document, Kind, Named
<1>2. h.kind \in Named => h.name \in Name /\ h.name # Whole
  BY NamesAssumption, ConstantsAssumption DEF Document, Kind, Named
<1>3. CASE a.form = "Dynamic"
  BY <1>1, <1>3 DEF AtomReads, AtomClaims, Covers, WholeKind
<1>4. CASE a.form = "EnumOf"
  <2>1. AtomClaims(a) = {[kind |-> "symbol", name |-> n] : n \in a.names}
    BY <1>4 DEF AtomClaims
  <2>2. AtomReads(a, h) <=> h.kind = "symbol" /\ h.name \in a.names
    BY <1>4 DEF AtomReads, IsInstance
  <2>3. WholeKind(h.kind) \notin AtomClaims(a)
    BY <2>1, NamesAssumption, ConstantsAssumption DEF WholeKind
  <2> QED
    BY <1>1, <2>1, <2>2, <2>3 DEF Covers
<1>5. CASE a.form = "NamedTag"
  <2>1. AtomClaims(a) = {[kind |-> "tagged", name |-> n] : n \in a.names}
    BY <1>5 DEF AtomClaims
  <2>2. AtomReads(a, h) <=> h.kind = "tagged" /\ h.name \in a.names
    BY <1>5 DEF AtomReads, IsInstance
  <2>3. WholeKind(h.kind) \notin AtomClaims(a)
    BY <2>1, NamesAssumption, ConstantsAssumption DEF WholeKind
  <2> QED
    BY <1>1, <2>1, <2>2, <2>3 DEF Covers
<1>6. CASE a.form = "SetOf"
  <2>1. AtomClaims(a) = {[kind |-> "tagged", name |-> SetTag]}
    BY <1>6 DEF AtomClaims
  <2>2. AtomReads(a, h) <=> h.kind = "tagged" /\ h.name = SetTag
    BY <1>6 DEF AtomReads, IsInstance
  <2>3. WholeKind(h.kind) \notin AtomClaims(a)
    BY <2>1, NamesAssumption, ConstantsAssumption DEF WholeKind
  <2> QED
    BY <1>1, <2>1, <2>2, <2>3 DEF Covers
<1>7. CASE a.form \notin {"Dynamic", "EnumOf", "NamedTag", "SetOf"}
  <2> DEFINE k == KindOfForm(a.form)
  <2>1. AtomClaims(a) = {WholeKind(k)}
    BY <1>7 DEF AtomClaims
  <2>2. AtomReads(a, h) <=> h.kind = k
    BY <1>7 DEF AtomReads, IsInstance, KindOfForm, Form
  <2>3. h = WholeKind(k) <=> h.kind = k /\ h.name = Whole
    BY <1>1 DEF WholeKind
  <2>4. WholeKind(h.kind) = WholeKind(k) <=> h.kind = k
    BY DEF WholeKind
  <2> QED
    BY <2>1, <2>2, <2>3, <2>4 DEF Covers
<1> QED
  BY <1>3, <1>4, <1>5, <1>6, <1>7

\* A member reads exactly the documents that fill one of its claims.
LEMMA ClaimsAreReads ==
    ASSUME NEW s \in Shape, NEW h \in Document
    PROVE  Reads(s, h) <=> Covers(Claims(s), h)
<1>1. CASE s.form = "UnionOf"
  <2>1. \A a \in s.members : AtomReads(a, h) <=> Covers(AtomClaims(a), h)
    BY AtomClaimsAreReads DEF Shape, Atom
  <2> QED
    BY <1>1, <2>1 DEF Reads, Claims, Covers
<1>2. CASE s.form # "UnionOf"
  <2>1. s.form \in Form /\ s.names \subseteq Name
    BY <1>2 DEF Shape
  <2> QED
    BY <1>2, <2>1, AtomClaimsAreReads DEF Reads, Claims
<1> QED
  BY <1>1, <1>2

\* Two shapes that read one document have claims that meet.
LEMMA SharedDocumentMeets ==
    ASSUME NEW c, NEW d, NEW h \in Document, Covers(c, h), Covers(d, h)
    PROVE  Meet(c, d)
BY DEF Covers, Meet, WholeKind

-----------------------------------------------------------------------------
(* The members compared so far do not meet, and the table holds the claims *)
(* of the members it was filled from, each under the member that made it.  *)

Apart(i, j) == ~Meet(Claims(members[i]), Claims(members[j]))

Counted ==
    /\ members \in Seq(Shapes)
    /\ stage \in Stage
    /\ one \in Nat \ {0} /\ other \in Nat \ {0}
    /\ filled \in 0..Len(members)
    /\ document \in Document
    /\ stage \in {"writing", "comparing", "refused"} => filled = 0
    /\ stage = "writing" => one = 1 /\ other = 2
    /\ stage = "comparing" => one < other /\ other <= Len(members)
    /\ stage = "building" => filled < Len(members)
    /\ stage \in {"ready", "read"} => filled = Len(members)

ComparedApart ==
    \A i, j \in DOMAIN members :
        \/ i >= j
        \/ stage \in {"writing", "refused"}
        \/ stage = "comparing" /\ (i > one \/ (i = one /\ j >= other))
        \/ Apart(i, j)

TableHoldsClaims ==
    /\ DOMAIN table = UNION {Claims(members[i]) : i \in 1..filled}
    /\ \A s \in DOMAIN table : table[s] \in 1..filled /\ s \in Claims(members[table[s]])

Settled == Counted /\ ComparedApart /\ TableHoldsClaims

\* Claims meet both ways round, so comparing each pair once is enough.
LEMMA MeetSymmetric ==
    ASSUME NEW c, NEW d, Meet(c, d) PROVE Meet(d, c)
BY DEF Meet

\* The members written are shapes, and are numbered from 1.
LEMMA MembersShape ==
    ASSUME Counted
    PROVE  /\ Len(members) \in Nat /\ DOMAIN members = 1..Len(members)
           /\ \A i \in DOMAIN members : members[i] \in Shape
<1>1. members \in Seq(Shapes)
  BY DEF Counted
<1> QED
  BY <1>1, LenProperties, ElementOfSeq, NamesAssumption, ConstantsAssumption

\* Arithmetic of a counter below its bound.
LEMMA Successor ==
    ASSUME NEW m \in Nat, NEW n \in Nat, m < n
    PROVE  m + 1 \in 0..n /\ (m + 1 < n \/ m + 1 = n)
OBVIOUS

\* Before anything is written there is nothing to settle.
LEMMA InitSettled == Init => Settled
<1> SUFFICES ASSUME Init PROVE Settled
  OBVIOUS
<1>1. members = <<>> /\ members \in Seq(Shapes) /\ Len(members) = 0 /\ DOMAIN members = {}
  BY EmptySeq, LenProperties DEF Init
<1>2. Counted
  BY <1>1 DEF Init, Counted, Stage, Document, Kind, Named, WholeKind
<1>3. ComparedApart
  BY <1>1 DEF ComparedApart
<1>4. TableHoldsClaims
  BY DEF Init, TableHoldsClaims
<1> QED
  BY <1>2, <1>3, <1>4 DEF Settled

\* Once the comparisons are over, a slot belongs to one member at most.
LEMMA SlotOfOne ==
    ASSUME Settled, stage \in {"building", "ready", "read"},
           NEW i \in DOMAIN members, NEW j \in DOMAIN members, NEW h \in Document,
           Covers(Claims(members[i]), h), Covers(Claims(members[j]), h)
    PROVE  i = j
<1>1. i \in Nat /\ j \in Nat
  BY MembersShape DEF Settled
<1>2. Meet(Claims(members[i]), Claims(members[j])) /\ Meet(Claims(members[j]), Claims(members[i]))
  BY SharedDocumentMeets
<1>3. i >= j /\ j >= i
  BY <1>2 DEF Settled, ComparedApart, Apart
<1> QED
  BY <1>1, <1>3

\* Every step of the analysis, of the fill and of a read keeps the invariant.
LEMMA NextSettled == Settled /\ [Next]_vars => Settled'
<1> SUFFICES ASSUME Settled, [Next]_vars PROVE Settled'
  OBVIOUS
<1>0. /\ Counted /\ ComparedApart /\ TableHoldsClaims
      /\ Len(members) \in Nat /\ DOMAIN members = 1..Len(members)
  BY MembersShape DEF Settled
<1>1. ASSUME NEW s \in Shapes, Write(s) PROVE Settled'
  <2>1. /\ members' \in Seq(Shapes) /\ Len(members') = Len(members) + 1
        /\ stage = "writing" /\ filled = 0
        /\ UNCHANGED <<stage, one, other, filled, table, document>>
    BY <1>0, <1>1, AppendProperties DEF Write, Counted
  <2>2. Counted'
    BY <1>0, <2>1 DEF Counted
  <2>3. ComparedApart' /\ TableHoldsClaims'
    BY <1>0, <2>1 DEF ComparedApart, TableHoldsClaims
  <2> QED
    BY <2>2, <2>3 DEF Settled
<1>2. CASE Analyse
  <2>1. Counted' /\ TableHoldsClaims'
    BY <1>0, <1>2 DEF Analyse, Counted, Stage, TableHoldsClaims
  <2>2. ComparedApart'
    BY <1>0, <1>2 DEF Analyse, Counted, ComparedApart
  <2> QED
    BY <2>1, <2>2 DEF Settled
<1>3. CASE Refuse
  BY <1>0, <1>3 DEF Refuse, Settled, Counted, Stage, ComparedApart, TableHoldsClaims
<1>4. CASE Compare
  <2>1. /\ stage = "comparing" /\ filled = 0 /\ Apart(one, other)
        /\ one < other /\ other <= Len(members) /\ one \in Nat \ {0} /\ other \in Nat \ {0}
        /\ UNCHANGED <<members, filled, table, document>>
        /\ stage' = IF one' < Len(members) THEN "comparing" ELSE "building"
        /\ IF other < Len(members) THEN one' = one /\ other' = other + 1
                                   ELSE one' = one + 1 /\ other' = one + 2
    BY <1>0, <1>4 DEF Compare, NextPair, Counted, Apart
  <2>2. Counted' /\ TableHoldsClaims'
    BY <1>0, <2>1 DEF Counted, Stage, TableHoldsClaims
  <2>3. ComparedApart'
    <3> SUFFICES ASSUME NEW i \in DOMAIN members, NEW j \in DOMAIN members, i < j,
                        ~(stage' = "comparing" /\ (i > one' \/ (i = one' /\ j >= other')))
                 PROVE  Apart(i, j)
      BY <1>0, <2>1 DEF ComparedApart, Apart
    <3>1. i < one \/ (i = one /\ j <= other)
      BY <1>0, <2>1
    <3>2. CASE i < one \/ j < other
      BY <1>0, <2>1, <3>1, <3>2 DEF ComparedApart
    <3>3. CASE i = one /\ j = other
      BY <2>1, <3>3
    <3> QED
      BY <1>0, <2>1, <3>1, <3>2, <3>3
  <2> QED
    BY <2>2, <2>3 DEF Settled
<1>5. CASE Fill
  <2> DEFINE claimed == Claims(members[filled + 1])
  <2>1. /\ stage = "building" /\ filled \in Nat /\ filled < Len(members)
        /\ table' = [s \in DOMAIN table \cup claimed |->
                         IF s \in claimed THEN filled + 1 ELSE table[s]]
        /\ filled' = filled + 1
        /\ stage' = IF filled + 1 < Len(members) THEN "building" ELSE "ready"
        /\ UNCHANGED <<members, one, other, document>>
    BY <1>0, <1>5 DEF Fill, Counted
  <2>2. Counted'
    <3>1. filled + 1 \in 0..Len(members) /\ (filled + 1 < Len(members) \/ filled + 1 = Len(members))
      BY <1>0, <2>1, Successor
    <3>2. /\ stage' \in {"building", "ready"}
          /\ stage' = "building" => filled + 1 < Len(members)
          /\ stage' = "ready" => filled + 1 = Len(members)
      BY <2>1, <3>1
    <3>3. UNCHANGED <<members, one, other, document>> /\ filled' = filled + 1
      BY <2>1
    <3> QED
      BY <1>0, <3>1, <3>2, <3>3 DEF Counted, Stage
  <2>3. ComparedApart'
    BY <1>0, <2>1 DEF ComparedApart, Apart
  <2>4. TableHoldsClaims'
    <3>1. 1..(filled + 1) = 1..filled \cup {filled + 1}
      BY <2>1
    <3>2. DOMAIN table' = UNION {Claims(members[i]) : i \in 1..(filled + 1)}
      BY <1>0, <2>1, <3>1 DEF TableHoldsClaims
    <3>3. ASSUME NEW s \in DOMAIN table'
          PROVE  table'[s] \in 1..(filled + 1) /\ s \in Claims(members[table'[s]])
      <4>1. s \in DOMAIN table \cup claimed
            /\ table'[s] = IF s \in claimed THEN filled + 1 ELSE table[s]
        BY <2>1
      <4>2. CASE s \in claimed
        BY <2>1, <3>1, <4>1, <4>2
      <4>3. CASE s \notin claimed
        <5>1. s \in DOMAIN table /\ table'[s] = table[s]
          BY <4>1, <4>3
        <5>2. table[s] \in 1..filled /\ s \in Claims(members[table[s]])
          BY <1>0, <5>1 DEF TableHoldsClaims
        <5> QED
          BY <3>1, <5>1, <5>2
      <4> QED
        BY <4>2, <4>3
    <3>4. members' = members /\ filled' = filled + 1
      BY <2>1
    <3> HIDE DEF claimed
    <3> QED
      BY <3>2, <3>3, <3>4 DEF TableHoldsClaims, Claims
  <2> QED
    BY <2>2, <2>3, <2>4 DEF Settled
<1>6. ASSUME NEW h \in Document, Read(h) PROVE Settled'
  <2>1. Counted' /\ TableHoldsClaims'
    BY <1>0, <1>6 DEF Read, Counted, Stage, TableHoldsClaims
  <2>2. ComparedApart'
    BY <1>0, <1>6 DEF Read, ComparedApart, Apart
  <2> QED
    BY <2>1, <2>2 DEF Settled
<1>7. CASE UNCHANGED vars
  BY <1>0, <1>7 DEF vars, Settled, Counted, ComparedApart, Apart, TableHoldsClaims
<1> QED
  BY <1>1, <1>2, <1>3, <1>4, <1>5, <1>6, <1>7 DEF Next

\* What the table answers for a document is the one member that reads it.
LEMMA LookupExact ==
    ASSUME Settled, stage \in {"ready", "read"}, NEW h \in Document, NEW i \in DOMAIN members
    PROVE  Reads(members[i], h) <=> i = Lookup(h)
<1>1. /\ Counted /\ TableHoldsClaims /\ filled = Len(members)
      /\ DOMAIN members = 1..filled /\ members[i] \in Shape /\ i # 0
  BY MembersShape DEF Settled, Counted
<1>2. h = [kind |-> h.kind, name |-> h.name]
  BY DEF Document, Named, Kind
<1>3. Reads(members[i], h) <=> Covers(Claims(members[i]), h)
  BY <1>1, ClaimsAreReads
<1>4. Lookup(h) = IF h \in DOMAIN table THEN table[h]
                  ELSE IF WholeKind(h.kind) \in DOMAIN table THEN table[WholeKind(h.kind)]
                  ELSE 0
  BY <1>2 DEF Lookup
<1>5. ASSUME Covers(Claims(members[i]), h) PROVE i = Lookup(h)
  <2>1. h \in DOMAIN table \/ WholeKind(h.kind) \in DOMAIN table
    BY <1>1, <1>5 DEF Covers, TableHoldsClaims
  <2>2. Lookup(h) \in DOMAIN members /\ Covers(Claims(members[Lookup(h)]), h)
    BY <1>1, <1>4, <2>1 DEF Covers, TableHoldsClaims
  <2> QED
    BY <1>5, <2>2, SlotOfOne
<1>6. ASSUME i = Lookup(h) PROVE Covers(Claims(members[i]), h)
  BY <1>1, <1>4, <1>6 DEF Covers, TableHoldsClaims
<1> QED
  BY <1>3, <1>5, <1>6

ReadExact == stage = "read" => chosen = Lookup(document)

\* A document read at a union reaches the one member that reads it, and nothing
\* else is tried: for every union that was not refused.
THEOREM DispatchExact == Spec => []DispatchesToReader
<1>1. Init => ReadExact
  BY DEF Init, ReadExact
<1>2. Settled /\ ReadExact /\ [Next]_vars => ReadExact'
  <2> SUFFICES ASSUME Settled, ReadExact, [Next]_vars, stage' = "read"
               PROVE  chosen' = Lookup(document)'
    BY DEF ReadExact
  <2>1. CASE \E h \in Document : Read(h)
    BY <2>1 DEF Read, Lookup
  <2>2. CASE UNCHANGED vars
    BY <2>2 DEF vars, ReadExact, Lookup
  <2>3. CASE \/ \E s \in Shapes : Write(s)
             \/ Analyse \/ Refuse \/ Compare \/ Fill
    BY <2>3 DEF Write, Analyse, Refuse, Compare, Fill
  <2> QED
    BY <2>1, <2>2, <2>3 DEF Next
<1>3. Settled /\ ReadExact => DispatchesToReader
  BY LookupExact DEF ReadExact, DispatchesToReader, Settled, Counted
<1> QED
  BY <1>1, <1>2, <1>3, InitSettled, NextSettled, PTL DEF Spec

\* No slot of the table ever changes hands while it is being filled.
THEOREM NoCollision == Spec => FillNeverCollides
<1> DEFINE Kept == \A s \in DOMAIN table : s \in DOMAIN table' /\ table'[s] = table[s]
<1>1. ASSUME Settled, Fill PROVE Kept
  <2>0. /\ Counted /\ TableHoldsClaims /\ stage = "building" /\ filled \in Nat
        /\ Len(members) \in Nat /\ DOMAIN members = 1..Len(members) /\ filled < Len(members)
    BY <1>1, MembersShape DEF Settled, Fill, Counted
  <2> DEFINE claimed == Claims(members[filled + 1])
  <2>1. table' = [s \in DOMAIN table \cup claimed |->
                      IF s \in claimed THEN filled + 1 ELSE table[s]]
    BY <1>1 DEF Fill
  <2>2. ASSUME NEW s \in DOMAIN table, s \in claimed PROVE FALSE
    <3>1. table[s] \in 1..filled /\ s \in Claims(members[table[s]])
      BY <2>0 DEF TableHoldsClaims
    <3>2. Meet(Claims(members[table[s]]), claimed)
      BY <2>2, <3>1 DEF Meet
    <3>3. table[s] \in DOMAIN members /\ filled + 1 \in DOMAIN members /\ ~(table[s] >= filled + 1)
      BY <2>0, <3>1
    <3> QED
      BY <1>1, <2>0, <3>2, <3>3 DEF Settled, ComparedApart, Apart
  <2> QED
    BY <2>1, <2>2
<1>2. Settled /\ [Next]_vars => [Kept]_vars
  <2> SUFFICES ASSUME Settled, Next PROVE Kept
    OBVIOUS
  <2>1. CASE Fill
    BY <1>1, <2>1
  <2>2. CASE \/ \E s \in Shapes : Write(s)
             \/ Analyse \/ Refuse \/ Compare
             \/ \E h \in Document : Read(h)
    BY <2>2 DEF Write, Analyse, Refuse, Compare, Read
  <2> QED
    BY <2>1, <2>2 DEF Next
<1> QED
  BY <1>2, InitSettled, NextSettled, PTL DEF Spec, FillNeverCollides
-----------------------------------------------------------------------------
(* What is claimed is slots, and two claims that meet share a document.    *)

LEMMA AtomClaimsSlots ==
    ASSUME NEW a, a.form \in Form, a.names \subseteq Name
    PROVE  AtomClaims(a) \subseteq Slot
<1>1. \A k \in Kind : WholeKind(k) \in Slot
  BY DEF WholeKind, Slot
<1>2. \A n \in Name : \A k \in Named : [kind |-> k, name |-> n] \in Slot
  BY DEF Slot
<1>3. KindOfForm(a.form) \in Kind
  BY DEF KindOfForm, Kind
<1>4. CASE a.form = "Dynamic"
  BY <1>1, <1>4 DEF AtomClaims
<1>5. CASE a.form \in {"EnumOf", "NamedTag"}
  BY <1>2, <1>5 DEF AtomClaims, Named
<1>6. CASE a.form = "SetOf"
  BY <1>2, <1>6, NamesAssumption DEF AtomClaims, Named
<1>7. CASE a.form \notin {"Dynamic", "EnumOf", "NamedTag", "SetOf"}
  BY <1>1, <1>3, <1>7 DEF AtomClaims
<1> QED
  BY <1>4, <1>5, <1>6, <1>7

\* A shape claims slots, whatever it is made of.
LEMMA ClaimsSlots ==
    ASSUME NEW s \in Shape
    PROVE  Claims(s) \subseteq Slot
<1>1. CASE s.form = "UnionOf"
  <2>1. \A a \in s.members : AtomClaims(a) \subseteq Slot
    BY AtomClaimsSlots DEF Shape, Atom
  <2> QED
    BY <1>1, <2>1 DEF Claims
<1>2. CASE s.form # "UnionOf"
  <2>1. s.form \in Form /\ s.names \subseteq Name
    BY <1>2 DEF Shape
  <2> QED
    BY <1>2, <2>1, AtomClaimsSlots DEF Claims
<1> QED
  BY <1>1, <1>2

\* Claims meet only over a document that both cover: a named slot's own, the kind's
\* where the kind has no names, and any name's where both claim the kind whole.
LEMMA MeetingShareDocument ==
    ASSUME NEW c \in SUBSET Slot, NEW d \in SUBSET Slot, Meet(c, d)
    PROVE  \E h \in Document : Covers(c, h) /\ Covers(d, h)
<1>1. PICK mine \in c, theirs \in d :
          /\ mine.kind = theirs.kind
          /\ mine.name = theirs.name \/ mine.name = Whole \/ theirs.name = Whole
  BY DEF Meet
<1> DEFINE k == mine.kind
           Fits(slot, name) == slot.name = name \/ slot.name = Whole
<1>2. /\ mine = [kind |-> k, name |-> mine.name] /\ theirs = [kind |-> k, name |-> theirs.name]
      /\ k \in Kind
      /\ mine.name # Whole => k \in Named /\ mine.name \in Name
      /\ theirs.name # Whole => k \in Named /\ theirs.name \in Name
  <2>1. mine \in Slot /\ theirs \in Slot
    OBVIOUS
  <2> QED
    BY <1>1, <2>1 DEF Slot, Named, Kind
<1>3. PICK n : [kind |-> k, name |-> n] \in Document /\ Fits(mine, n) /\ Fits(theirs, n)
  <2>1. CASE k \notin Named
    <3>1. [kind |-> k, name |-> Whole] \in Document
      BY <1>2, <2>1 DEF Document
    <3> QED
      BY <1>2, <2>1, <3>1
  <2>2. CASE k \in Named
    <3>1. \A n \in Name : [kind |-> k, name |-> n] \in Document
      BY <2>2 DEF Document
    <3>2. PICK n \in Name : Fits(mine, n) /\ Fits(theirs, n)
      BY <1>1, <1>2, NamesAssumption
    <3> QED
      BY <3>1, <3>2
  <2> QED
    BY <2>1, <2>2
<1> DEFINE h == [kind |-> k, name |-> n]
<1>4. \A slot \in {mine, theirs} : slot = h \/ slot = WholeKind(h.kind)
  BY <1>2, <1>3 DEF WholeKind
<1>5. Covers(c, h) /\ Covers(d, h)
  BY <1>4 DEF Covers
<1> QED
  BY <1>3, <1>5

\* The pair the analysis stopped at, and the members a slot or a read leads to.
RefusedPair ==
    stage = "refused" =>
        one < other /\ other <= Len(members) /\ Meet(Claims(members[one]), Claims(members[other]))
ChosenMember == chosen \in 0..Len(members)

LEMMA NextRefusedPair == Settled /\ RefusedPair /\ [Next]_vars => RefusedPair'
<1> SUFFICES ASSUME Settled, RefusedPair, [Next]_vars, stage' = "refused" PROVE RefusedPair'
  BY DEF RefusedPair
<1>1. CASE Refuse
  BY <1>1 DEF Refuse, RefusedPair, Settled, Counted, Claims
<1>2. CASE UNCHANGED vars
  BY <1>2 DEF vars, RefusedPair, Claims
<1>3. CASE \E s \in Shapes : Write(s)
  BY <1>3 DEF Write
<1>4. CASE Analyse \/ Compare \/ Fill
  BY <1>4 DEF Analyse, Compare, Fill
<1>5. CASE \E h \in Document : Read(h)
  BY <1>5 DEF Read
<1> QED
  BY <1>1, <1>2, <1>3, <1>4, <1>5 DEF Next

\* Every union that is refused has a document that two of its members would read: no
\* union is refused for nothing, whatever the shapes and however they are nested.
THEOREM RefusedForAmbiguity == Spec => []RefusedIsAmbiguous
<1>1. Init => RefusedPair
  BY DEF Init, RefusedPair
<1>2. Settled /\ RefusedPair => RefusedIsAmbiguous
  <2> SUFFICES ASSUME Settled, RefusedPair, stage = "refused"
               PROVE  \E h \in Document : Reads(members[one], h) /\ Reads(members[other], h)
    BY DEF RefusedIsAmbiguous
  <2>1. /\ one \in DOMAIN members /\ other \in DOMAIN members
        /\ Meet(Claims(members[one]), Claims(members[other]))
    <3>1. /\ DOMAIN members = 1..Len(members) /\ Len(members) \in Nat
          /\ one \in Nat \ {0} /\ other \in Nat \ {0}
      BY MembersShape DEF Settled, Counted
    <3> QED
      BY <3>1 DEF RefusedPair
  <2>2. members[one] \in Shape /\ members[other] \in Shape
    BY <2>1, MembersShape DEF Settled
  <2>3. PICK h \in Document : Covers(Claims(members[one]), h) /\ Covers(Claims(members[other]), h)
    BY <2>1, <2>2, ClaimsSlots, MeetingShareDocument
  <2> QED
    BY <2>2, <2>3, ClaimsAreReads
<1> QED
  BY <1>1, <1>2, NextRefusedPair, InitSettled, NextSettled, PTL DEF Spec

\* Every table leads from slots of the grammar to members of the union, and a read
\* ends at one of them or at none.
THEOREM TypeCorrect == Spec => []TypeOK
<1>1. Init => ChosenMember
  BY EmptySeq, LenProperties DEF Init, ChosenMember
<1>2. Settled /\ ChosenMember /\ [Next]_vars => ChosenMember'
  <2> SUFFICES ASSUME Settled, ChosenMember, [Next]_vars PROVE ChosenMember'
    OBVIOUS
  <2>0. Len(members) \in Nat /\ members \in Seq(Shapes)
    BY MembersShape DEF Settled, Counted
  <2>1. CASE \E s \in Shapes : Write(s)
    <3>1. Len(members') = Len(members) + 1 /\ chosen' = chosen
      BY <2>0, <2>1, AppendProperties DEF Write
    <3> QED
      BY <2>0, <3>1 DEF ChosenMember
  <2>2. CASE \E h \in Document : Read(h)
    <3>1. PICK h \in Document : Read(h)
      BY <2>2
    <3>2. filled = Len(members) /\ \A s \in DOMAIN table : table[s] \in 1..filled
      BY <3>1 DEF Settled, Counted, TableHoldsClaims, Read
    <3>3. Lookup(h) \in 0..filled
      BY <2>0, <3>2 DEF Lookup
    <3> QED
      BY <3>1, <3>2, <3>3 DEF Read, ChosenMember
  <2>3. CASE Analyse \/ Refuse \/ Compare \/ Fill \/ UNCHANGED vars
    BY <2>3 DEF Analyse, Refuse, Compare, Fill, vars, ChosenMember
  <2> QED
    BY <2>1, <2>2, <2>3 DEF Next
<1>3. Settled /\ ChosenMember => TypeOK
  <2> SUFFICES ASSUME Settled, ChosenMember PROVE TypeOK
    OBVIOUS
  <2>1. \A i \in 1..filled : i \in DOMAIN members
    BY MembersShape DEF Settled, Counted
  <2>2. DOMAIN table \subseteq Slot
    BY <2>1, MembersShape, ClaimsSlots DEF Settled, TableHoldsClaims
  <2> QED
    BY <2>2 DEF TypeOK, Settled, Counted, TableHoldsClaims, ChosenMember
<1> QED
  BY <1>1, <1>2, <1>3, InitSettled, NextSettled, PTL DEF Spec
=============================================================================
