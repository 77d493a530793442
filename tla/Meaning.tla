-------------------------------- MODULE Meaning --------------------------------
(***************************************************************************)
(* The reference Decoders is checked against: what a type form means of a  *)
(* value, read off the form as it is written, an alias being its right-    *)
(* hand side. There are no shapes, cells, memo, slots or tables here.      *)
(***************************************************************************)
EXTENDS Decoders

(* Which forms a program has, and which aliases say something. *)

Inside(form) ==
    CASE form.w = "alias" -> {program.aliases[form.name]}
      [] form.w = "of" -> {form.item}
      [] form.w = "union" -> {form.members[i] : i \in DOMAIN form.members}
      [] form.w = "class" -> {program.classes[form.name].fields[i].form :
                                  i \in DOMAIN program.classes[form.name].fields}
      [] OTHER -> {}

\* The forms reached from some, and those reached without passing through a
\* container or a class.
RECURSIVE Within(_), AtOnce(_)
Within(forms) ==
    LET on == forms \cup UNION {Inside(f) : f \in forms}
    IN  IF on = forms THEN on ELSE Within(on)
AtOnce(forms) ==
    LET on == forms \cup UNION {Inside(f) : f \in {g \in forms : g.w \in {"alias", "union"}}}
    IN  IF on = forms THEN on ELSE AtOnce(on)

Written == Within({program.root})

\* An alias that is itself, or one of its own alternatives.
IsItsOwn(alias) == alias \in AtOnce(Inside(alias))

Productive == \A f \in Written : f.w = "alias" => ~IsItsOwn(f)

\* Whether a form reads values with a head, of a productive program.
RECURSIVE Takes(_, _)
Takes(form, head) ==
    CASE form.w \in {"alias", "union"} -> \E f \in Inside(form) : Takes(f, head)
      [] form.w = "class" -> head = [kind |-> "tagged", name |-> form.name]
      [] form.w = "of" -> AtomReads([form |-> form.form, names |-> {}], head)
      [] form.w = "bad" -> FALSE
      [] OTHER -> AtomReads(AsAtom(form.shape), head)

Ambiguous(form) ==
    /\ form.w = "union"
    /\ \E i, j \in DOMAIN form.members, head \in Document :
            i < j /\ Takes(form.members[i], head) /\ Takes(form.members[j], head)

-----------------------------------------------------------------------------
(* What a form means of a value: the value it reads, and every place where *)
(* it does not, in the order a reader comes to them.                       *)

Means(v) == [faults |-> <<>>, of |-> v]
AtFault == [faults |-> << <<>> >>, of |-> [is |-> "none"]]
Below(step, m) == [m EXCEPT !.faults = [i \in DOMAIN @ |-> <<step>> \o @[i]]]
FaultsOf(parts) == FlattenSeq([i \in DOMAIN parts |-> parts[i].faults])
Together(parts, v) == [faults |-> FaultsOf(parts), of |-> v]

RECURSIVE Meant(_, _)
Meant(form, v) ==
    LET items == [i \in DOMAIN v.items |-> Below(At(i), Meant(form.item, v.items[i]))]
        elements == [i \in DOMAIN v.of.items |-> Below(Some, Meant(form.item, v.of.items[i]))]
        pairs == [i \in DOMAIN v.pairs |-> Below(Key(v.pairs[i].key), Meant(form.item, v.pairs[i].of))]
    IN
    IF ~Takes(form, HeadOf(v)) THEN AtFault ELSE
    CASE form.w \in {"alias", "union"} ->
            Meant(CHOOSE f \in Inside(form) : Takes(f, HeadOf(v)), v)
      [] form.w = "of" /\ form.form = "ArrayOf" ->
            Together(items, [is |-> IF form.mutable THEN "list" ELSE "array", items |-> Kept(items)])
      [] form.w = "of" /\ form.form = "MappingOf" ->
            Together(pairs, [is |-> IF form.mutable THEN "dict" ELSE "object",
                           pairs |-> [i \in DOMAIN pairs |-> [key |-> v.pairs[i].key, of |-> pairs[i].of]]])
      [] form.w = "of" /\ form.form = "TaggedOf" ->
            LET payload == Meant(form.item, v.of)
            IN  Together(<<payload>>, [is |-> "tagged", tag |-> v.tag, of |-> payload.of])
      [] form.w = "of" /\ form.form = "SetOf" ->
            IF v.of.is # "array" THEN AtFault
            ELSE IF FaultsOf(elements) = <<>> /\ \E i \in DOMAIN elements : ~Hashable(elements[i].of)
              THEN AtFault
            ELSE Together(elements, [is |-> IF form.mutable THEN "set" ELSE "frozenset",
                                   items |-> {elements[i].of : i \in DOMAIN elements}])
      [] form.w = "class" ->
            LET class == program.classes[form.name]
                given == {v.of.pairs[i].key : i \in DOMAIN v.of.pairs}
                Of(f) == IF f.key \in given
                           THEN Below(Key(f.key), Meant(f.form, CHOOSE w \in Lookup(v.of, f.key) : TRUE))
                           ELSE IF f.required THEN AtFault ELSE Means([is |-> "absent"])
                parts == [i \in DOMAIN class.fields |-> Of(class.fields[i])]
                fields == [i \in DOMAIN parts |-> [key |-> class.fields[i].key, of |-> parts[i].of]]
            IN  IF v.of.is # "object" THEN AtFault
                ELSE IF FaultsOf(parts) = <<>> /\ \E i \in DOMAIN fields : fields[i].of \in class.refuses
                  THEN AtFault
                ELSE Together(parts, [is |-> "instance", class |-> form.name, fields |-> fields])
      [] OTHER -> LET a == AtomValue(form.shape, v) IN IF a.is = "wrong" THEN AtFault ELSE Means(a.of)
=============================================================================
