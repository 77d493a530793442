-------------------------------- MODULE Unions --------------------------------
(***************************************************************************)
(* How `A | B | C` is settled and read: _analyse._union refuses members    *)
(* whose claims meet, _decode._build_union fills one table of slots, and a *)
(* document is sent to the member whose slot it fills.                     *)
(*                                                                         *)
(* Documents and shapes are abstracted to their heads (Claims). A member   *)
(* that is itself a union, which an alias can be, has atoms for members    *)
(* (bound: one level).                                                     *)
(***************************************************************************)
EXTENDS Claims, Naturals, Sequences, FiniteSets

CONSTANTS
    Shapes,      \* the shapes a union may be written with
    MaxMembers   \* bound: members of a union

Shape == [form: Form \cup {"UnionOf"}, names: SUBSET Name, members: SUBSET Atom]

ASSUME ConstantsAssumption ==
    /\ Shapes \subseteq Shape
    /\ MaxMembers \in Nat

-----------------------------------------------------------------------------
Claims(s) == IF s.form = "UnionOf" THEN UNION {AtomClaims(a) : a \in s.members}
                                   ELSE AtomClaims(s)

\* A member that is a union was itself accepted, and reads what one of its own
\* members reads.
Reads(s, h) == IF s.form = "UnionOf" THEN \E a \in s.members : AtomReads(a, h)
                                     ELSE AtomReads(s, h)

-----------------------------------------------------------------------------

VARIABLES
    members,   \* the union's members as written, each analysed
    stage,     \* "writing", "comparing", "refused", "building", "ready", "read"
    one, other,\* the pair of members being held against each other
    filled,    \* how many members the table has been filled from
    table,     \* table[slot]: the member whose decoder the slot leads to
    document,  \* the head of the document last read
    chosen     \* the member it was sent to, 0 when it was refused

vars == <<members, stage, one, other, filled, table, document, chosen>>

Stage == {"writing", "comparing", "refused", "building", "ready", "read"}

TypeOK ==
    /\ members \in Seq(Shapes)
    /\ stage \in Stage
    /\ one \in Nat \ {0} /\ other \in Nat \ {0}
    /\ filled \in 0..Len(members)
    /\ DOMAIN table \subseteq Slot
    /\ \A s \in DOMAIN table : table[s] \in 1..filled
    /\ document \in Document
    /\ chosen \in 0..Len(members)

Init ==
    /\ members = <<>>
    /\ stage = "writing"
    /\ one = 1 /\ other = 2
    /\ filled = 0
    /\ table = [s \in {} |-> 0]
    /\ document = WholeKind("null")
    /\ chosen = 0

\* The union is written, one member after another.
Write(s) ==
    /\ stage = "writing"
    /\ Len(members) < MaxMembers
    /\ members' = Append(members, s)
    /\ UNCHANGED <<stage, one, other, filled, table, document, chosen>>

\* Its first use analyses it; a union has two members at least.
Analyse ==
    /\ stage = "writing"
    /\ Len(members) > 1
    /\ stage' = "comparing"
    /\ UNCHANGED <<members, one, other, filled, table, document, chosen>>

\* Two members that say the same thing cannot be told apart.
Refuse ==
    /\ stage = "comparing"
    /\ Meet(Claims(members[one]), Claims(members[other]))
    /\ stage' = "refused"
    /\ UNCHANGED <<members, one, other, filled, table, document, chosen>>

\* Mutated form: each member is held against the first only.
NextPair_FirstOnly ==
    IF other < Len(members) THEN one' = one /\ other' = other + 1
                            ELSE one' = Len(members) /\ other' = Len(members) + 1

\* The next pair, in the order itertools.combinations gives them.
NextPair ==
    IF other < Len(members) THEN one' = one /\ other' = other + 1
                            ELSE one' = one + 1 /\ other' = one + 2

Compare ==
    /\ stage = "comparing"
    /\ ~Meet(Claims(members[one]), Claims(members[other]))
    /\ NextPair
    /\ stage' = IF one' < Len(members) THEN "comparing" ELSE "building"
    /\ UNCHANGED <<members, filled, table, document, chosen>>

\* Mutated form: a member filled in is not counted.
Fill_NotCounted ==
    /\ stage = "building"
    /\ LET claimed == Claims(members[filled + 1])
       IN  table' = [s \in DOMAIN table \cup claimed |->
                         IF s \in claimed THEN filled + 1 ELSE table[s]]
    /\ stage' = IF filled + 1 < Len(members) THEN "building" ELSE "ready"
    /\ UNCHANGED <<members, one, other, filled, document, chosen>>

\* One member's decoder goes under every slot it claims.
Fill ==
    /\ stage = "building"
    /\ LET claimed == Claims(members[filled + 1])
       IN  table' = [s \in DOMAIN table \cup claimed |->
                         IF s \in claimed THEN filled + 1 ELSE table[s]]
    /\ filled' = filled + 1
    /\ stage' = IF filled + 1 < Len(members) THEN "building" ELSE "ready"
    /\ UNCHANGED <<members, one, other, document, chosen>>

\* The slot a document fills, then the kind it belongs to.
Lookup(h) ==
    LET slot == [kind |-> h.kind, name |-> h.name]
    IN  IF slot \in DOMAIN table THEN table[slot]
        ELSE IF WholeKind(h.kind) \in DOMAIN table THEN table[WholeKind(h.kind)]
        ELSE 0

Read(h) ==
    /\ stage \in {"ready", "read"}
    /\ document' = h
    /\ chosen' = Lookup(h)
    /\ stage' = "read"
    /\ UNCHANGED <<members, one, other, filled, table>>

Next ==
    \/ \E s \in Shapes : Write(s)
    \/ Analyse \/ Refuse \/ Compare \/ Fill
    \/ \E h \in Document : Read(h)

Spec == Init /\ [][Next]_vars

-----------------------------------------------------------------------------
(* Properties. *)

\* A document goes to the one member that reads it, whatever order the members
\* were written in, and is refused only when none does: "there is nothing to
\* choose between" (_decode.py, _build_union).
DispatchesToReader ==
    stage = "read" =>
        \A i \in DOMAIN members : Reads(members[i], document) <=> i = chosen

\* Filling the table never takes a slot from a member that had it: "filling this
\* table cannot collide".
FillNeverCollides ==
    [][\A s \in DOMAIN table : s \in DOMAIN table' /\ table'[s] = table[s]]_vars

\* A union is refused only when some document is read by two of its members.
RefusedIsAmbiguous ==
    stage = "refused" =>
        \E h \in Document : Reads(members[one], h) /\ Reads(members[other], h)
=============================================================================
