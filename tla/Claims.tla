-------------------------------- MODULE Claims --------------------------------
(***************************************************************************)
(* The vocabulary shapes are told apart by: the kinds of value a document  *)
(* is made of, the slots a shape claims (_ir.claims), when two claims meet *)
(* (_ir.meeting), and the first test of every decoder (_decode.build).     *)
(*                                                                         *)
(* A document is abstracted to its head: its kind and, for a symbol or a   *)
(* tagged value, its name. A shape is abstracted to what it asks of a      *)
(* head; what it asks of the inside belongs to the shapes inside it.       *)
(***************************************************************************)

CONSTANTS
    Name,        \* tags and symbol spellings
    SetTag,      \* the tag `Set`
    Whole        \* the name of a slot that takes a whole kind

ASSUME NamesAssumption == SetTag \in Name /\ Whole \notin Name

Kind == {"null", "bool", "int", "float", "str", "symbol", "tagged", "array", "object"}
Named == {"symbol", "tagged"}
Slot == [kind: Named, name: Name] \cup [kind: Kind, name: {Whole}]
Document == [kind: Named, name: Name] \cup [kind: Kind \ Named, name: {Whole}]

\* An atom's form, and the names it goes by: the spellings of an enum, the tag
\* of a dataclass or a carrier.
Form == {"Dynamic", "Null", "Bool", "Int", "Float", "Str", "SymbolOf", "EnumOf",
         "ArrayOf", "MappingOf", "SetOf", "NamedTag", "TaggedOf"}
Atom == [form: Form, names: SUBSET Name]

WholeKind(k) == [kind |-> k, name |-> Whole]

-----------------------------------------------------------------------------
(* What a shape claims, and when two claims meet (_ir.py). *)

KindOfForm(f) ==
    CASE f = "Null" -> "null"       [] f = "Bool" -> "bool"
      [] f = "Int" -> "int"         [] f = "Float" -> "float"
      [] f = "Str" -> "str"         [] f = "SymbolOf" -> "symbol"
      [] f = "ArrayOf" -> "array"   [] f = "MappingOf" -> "object"
      [] OTHER -> "tagged"

\* Mutated form: an enum claims symbols whole.
AtomClaims_EnumWhole(a) ==
    CASE a.form = "Dynamic"  -> {WholeKind(k) : k \in Kind}
      [] a.form = "EnumOf"   -> {WholeKind("symbol")}
      [] a.form = "NamedTag" -> {[kind |-> "tagged", name |-> n] : n \in a.names}
      [] a.form = "SetOf"    -> {[kind |-> "tagged", name |-> SetTag]}
      [] OTHER               -> {WholeKind(KindOfForm(a.form))}

AtomClaims(a) ==
    CASE a.form = "Dynamic"  -> {WholeKind(k) : k \in Kind}
      [] a.form = "EnumOf"   -> {[kind |-> "symbol", name |-> n] : n \in a.names}
      [] a.form = "NamedTag" -> {[kind |-> "tagged", name |-> n] : n \in a.names}
      [] a.form = "SetOf"    -> {[kind |-> "tagged", name |-> SetTag]}
      [] OTHER               -> {WholeKind(KindOfForm(a.form))}

\* Mutated form: two claims meet only in a slot of both.
Meet_SlotsOnly(one, other) == one \cap other # {}

\* A kind claimed whole covers every named slot of that kind.
Meet(one, other) ==
    \E mine \in one, theirs \in other :
        /\ mine.kind = theirs.kind
        /\ mine.name = theirs.name \/ mine.name = Whole \/ theirs.name = Whole

-----------------------------------------------------------------------------
(* What each decoder asks of a head before anything else (_decode.py),     *)
(* written from the decoders and not from the claims.                      *)

\* Python's isinstance: a bool is an int.
IsInstance(h, k) == h.kind = k \/ (k = "int" /\ h.kind = "bool")

AtomReads(a, h) ==
    CASE a.form = "Dynamic"  -> TRUE
      [] a.form = "Int"      -> IsInstance(h, "int") /\ ~IsInstance(h, "bool")
      [] a.form = "EnumOf"   -> IsInstance(h, "symbol") /\ h.name \in a.names
      [] a.form = "NamedTag" -> IsInstance(h, "tagged") /\ h.name \in a.names
      [] a.form = "SetOf"    -> IsInstance(h, "tagged") /\ h.name = SetTag
      [] OTHER               -> IsInstance(h, KindOfForm(a.form))
=============================================================================
