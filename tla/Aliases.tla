-------------------------------- MODULE Aliases --------------------------------
(***************************************************************************)
(* _analyse.analyse: what a type form denotes, when aliases may contain    *)
(* themselves. An alias that is met while it is being read becomes a       *)
(* Deferred over a cell, which is filled when the alias has been read.     *)
(*                                                                         *)
(* A cell is a Python list and is known by its identity. An identity goes  *)
(* to another list as soon as nothing refers to the first (bound: Cells    *)
(* identities, the least free one is taken next), because _decode.build    *)
(* keeps its memo under the identity and not under the list.               *)
(*                                                                         *)
(* Forms are records: an "atom" stands for itself, "of" is a container of  *)
(* an item, "union" has members, "alias" and "class" a name, "bad" is what *)
(* no shape is denoted by. Shapes are records too, by their form.          *)
(***************************************************************************)
EXTENDS Claims, Naturals, Sequences, SequencesExt, FiniteSets, TLC

CONSTANTS
    Cells,     \* identities of cells, numbers
    Programs   \* what is written: aliases, classes and the shape asked for

VARIABLE program

\* A cell that is not filled, and what it holds when it is.
NoCells == [c \in Cells |-> <<>>]

\* The cells a shape refers to.
RECURSIVE CellsOf(_)
CellsOf(s) ==
    CASE s.form = "Deferred" -> {s.cell}
      [] s.form \in {"ArrayOf", "MappingOf", "SetOf", "TaggedOf"} -> CellsOf(s.item)
      [] s.form = "UnionOf" -> UNION {CellsOf(s.members[i]) : i \in DOMAIN s.members}
      [] OTHER -> {}

\* Those and what their contents refer to in turn.
RECURSIVE Reached(_, _)
Reached(held, cells) ==
    LET on == held \cup UNION {CellsOf(cells[c][1]) : c \in {d \in held : cells[d] # <<>>}}
    IN  IF on = held THEN held ELSE Reached(on, cells)

Fresh(held, cells) ==
    CHOOSE c \in Cells \ Reached(held, cells) :
        \A d \in Cells \ Reached(held, cells) : c <= d

-----------------------------------------------------------------------------
(* What a shape claims; the claims of atoms are Claims'. *)

\* The atom a shape is to Claims.
AsAtom(s) ==
    CASE s.form = "Record" -> [form |-> "NamedTag", names |-> {s.class}]
      [] s.form = "CarrierOf" -> [form |-> "NamedTag", names |-> {s.carrier}]
      [] s.form = "EnumOf" -> [form |-> "EnumOf", names |-> s.names]
      [] OTHER -> [form |-> s.form, names |-> {}]

\* A deferred shape claims what its cell holds.
RECURSIVE ShapeClaims(_, _)
ShapeClaims(s, cells) ==
    CASE s.form = "UnionOf" -> UNION {ShapeClaims(s.members[i], cells) : i \in DOMAIN s.members}
      [] s.form = "Deferred" -> ShapeClaims(cells[s.cell][1], cells)
      [] OTHER -> AtomClaims(AsAtom(s))

\* A Deferred that holds itself claims nothing, for ever.
HoldsItself(s, cells) == s.form = "Deferred" /\ cells[s.cell] = <<s>>

-----------------------------------------------------------------------------

Answer(shape, cells) == [why |-> "", shape |-> shape, cells |-> cells]
Refusal(why, cells) == [why |-> why, shape |-> [form |-> "Dynamic"], cells |-> cells]

\* A member that is an alias still being read has nothing to claim yet.
OwnAlternative(shapes, cells) ==
    \E i \in DOMAIN shapes : shapes[i].form = "Deferred" /\ cells[shapes[i].cell] = <<>>

\* _union, once its members have been analysed.
Joined(shapes, cells) ==
    LET claimed == [i \in DOMAIN shapes |-> ShapeClaims(shapes[i], cells)]
    IN  IF OwnAlternative(shapes, cells) THEN Refusal("own member", cells)
        ELSE IF \E i \in DOMAIN shapes : HoldsItself(shapes[i], cells)
          THEN Refusal("recursion", cells)
        ELSE IF \E i, j \in DOMAIN shapes : i < j /\ Meet(claimed[i], claimed[j])
          THEN Refusal("ambiguous", cells)
        ELSE Answer([form |-> "UnionOf", members |-> shapes], cells)

\* `aliases` are those being read, each with its cell; `held` the cells that
\* something outside this call refers to.
RECURSIVE Analysed(_, _, _, _)
Analysed(form, aliases, held, cells) ==
    LET Each(acc, f) ==
            IF acc.why # "" THEN acc
            ELSE LET given == UNION {CellsOf(acc.shapes[i]) : i \in DOMAIN acc.shapes}
                     one == Analysed(f, aliases, held \cup given, acc.cells)
                 IN  [why |-> one.why, cells |-> one.cells,
                      shapes |-> Append(acc.shapes, one.shape)]
    IN
    CASE form.w = "alias" /\ form.name \in DOMAIN aliases ->
            Answer([form |-> "Deferred", cell |-> aliases[form.name]], cells)
      [] form.w = "alias" /\ form.name \notin DOMAIN aliases ->
            LET cell == Fresh(held \cup {aliases[a] : a \in DOMAIN aliases}, cells)
                denoted == Analysed(program.aliases[form.name], aliases @@ (form.name :> cell),
                                    held, [cells EXCEPT ![cell] = <<>>])
            IN  IF denoted.why # "" THEN denoted
                ELSE [denoted EXCEPT !.cells[cell] = <<denoted.shape>>]
      [] form.w = "of" ->
            LET item == Analysed(form.item, aliases, held, cells)
            IN  IF item.why # "" THEN item
                ELSE Answer([form |-> form.form, mutable |-> form.mutable,
                             item |-> item.shape], item.cells)
      [] form.w = "union" ->
            LET all == FoldLeft(Each, [why |-> "", cells |-> cells, shapes |-> <<>>], form.members)
            IN  IF all.why # "" THEN Refusal(all.why, all.cells)
                ELSE Joined(all.shapes, all.cells)
      [] form.w = "bad" -> Refusal("unsupported", cells)
      [] form.w = "class" -> Answer([form |-> "Record", class |-> form.name], cells)
      [] OTHER -> Answer(form.shape, cells)
=============================================================================
