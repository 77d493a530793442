------------------------------ MODULE MCDecoders ------------------------------
(***************************************************************************)
(* Decoders against Meaning: the programs it is checked with, two aliases  *)
(* and a class that name each other in every way listed, and the values    *)
(* that are read.                                                          *)
(***************************************************************************)
EXTENDS Meaning

CONSTANTS red, t, C, D

Atomic(f) == [w |-> "atom", shape |-> [form |-> f]]
Integer == Atomic("Int")
Str == Atomic("Str")
Null == Atomic("Null")
Anything == Atomic("Dynamic")
Colour == [w |-> "atom", shape |-> [form |-> "EnumOf", names |-> {red}]]
Shade == [w |-> "atom", shape |-> [form |-> "EnumOf", names |-> {t}]]
Decimal == [w |-> "atom", shape |-> [form |-> "CarrierOf", carrier |-> D, takes |-> {"1.5"}]]
Bad == [w |-> "bad"]
Alias(n) == [w |-> "alias", name |-> n]
Class == [w |-> "class", name |-> C]
Of(f, mutable, item) == [w |-> "of", form |-> f, mutable |-> mutable, item |-> item]
List(item) == Of("ArrayOf", TRUE, item)
Tuple(item) == Of("ArrayOf", FALSE, item)
Dict(item) == Of("MappingOf", TRUE, item)
Set(item) == Of("SetOf", FALSE, item)
Tagged(item) == Of("TaggedOf", FALSE, item)
Either(f, g) == [w |-> "union", members |-> <<f, g>>]

A == Alias("A")
B == Alias("B")

Field(key, required, form) == [key |-> key, required |-> required, form |-> form]
TwoFields(f, g) == [fields |-> <<Field("x", TRUE, f), Field("y", FALSE, g)>>, frozen |-> TRUE,
                    refuses |-> {[is |-> "str", s |-> "bad"]}]
Program(a, b, class, root) == [aliases |-> [A |-> a, B |-> b],
                                classes |-> (C :> class), root |-> root]

\* What an alias is made of. `Self` is the alias, `Other` the other one.
Bodies(Self, Other) ==
    {Integer, Other, Class, List(Self), Dict(Other), Tuple(Set(Other)),
     Either(Integer, List(Self)), Either(List(Other), Str), Either(Other, Str),
     Either(Tagged(Other), List(Class)), Either(Null, Class), Either(Anything, Other),
     Either(Colour, Either(Set(Self), Shade)), Either(Decimal, Either(Str, Other)), Dict(Either(Integer, Self))}

AllPrograms ==
    {Program(a, b, class, root) :
        a \in Bodies(A, B), b \in Bodies(B, A),
        class \in {TwoFields(A, B), TwoFields(List(A), Either(Null, Class)),
                   [TwoFields(Integer, Set(Str)) EXCEPT !.frozen = FALSE]},
        root \in {A, Class, Set(B), Either(A, Class)}}
    \cup {Program(a, List(B), TwoFields(B, form), root) :
            a \in Bodies(A, B), form \in {Bad, Either(Colour, Shade), Either(B, Either(A, List(Integer)))},
            root \in {Class, Tagged(A)}}

-----------------------------------------------------------------------------

I == [is |-> "int", s |-> "7"]
S(text) == [is |-> "str", s |-> text]
Arr(items) == [is |-> "array", items |-> items]
Obj(pairs) == [is |-> "object", pairs |-> [i \in DOMAIN pairs |-> [key |-> pairs[i][1], of |-> pairs[i][2]]]]
Tag(name, v) == [is |-> "tagged", tag |-> name, of |-> v]

AllDocuments ==
    LET c == Tag(C, Obj(<< <<"x", I>> >>))
        d == Tag(D, S("1.5"))
    IN  {I, S("u"), [is |-> "null", s |-> "null"], [is |-> "bool", s |-> "true"],
         [is |-> "symbol", s |-> red],
         Arr(<<>>), Arr(<<I, Arr(<<I>>)>>), Arr(<<Arr(<<I>>), S("u")>>), Arr(<<c, d>>),
         Obj(<< <<"a", I>> >>), Obj(<< <<"a", Obj(<< <<"b", I>> >>)>>, <<"c", S("u")>> >>),
         c, Tag(C, Obj(<<>>)), Tag(C, I),
         Tag(C, Obj(<< <<"x", Arr(<<I>>)>>, <<"y", Obj(<< <<"a", I>> >>)>>, <<"z", I>> >>)),
         Tag(C, Obj(<< <<"y", c>>, <<"x", Arr(<<c>>)>> >>)),
         Tag(C, Obj(<< <<"x", S("bad")>> >>)),
         Tag(SetTag, Arr(<<I, S("u")>>)), Tag(SetTag, Arr(<<Arr(<<I>>)>>)), Tag(SetTag, I),
         Tag(SetTag, Arr(<<c>>)), Tag(t, Arr(<<I>>)), d, Tag(D, S("u"))}

-----------------------------------------------------------------------------
(* Properties. *)

TypeOK ==
    /\ stage \in {"written", "refused", "compiled", "read"}
    /\ why \in {"", "unsupported", "ambiguous", "own member", "recursion"}
    /\ stage = "refused" <=> why # ""
    /\ answer.is \in {"none", "value", "wrong", "recursion"}
    /\ \A b \in DOMAIN boxes : Len(boxes[b]) = 1

\* Whatever aliases and classes contain themselves or each other, and wherever
\* reading started, a value is read as the form that was written says, and one it
\* does not allow is refused at the first place where it does not.
ReadsWhatIsWritten ==
    stage = "read" /\ Productive =>
        LET meant == Meant(program.root, document)
        IN  answer = IF meant.faults = <<>> THEN Value(meant.of)
                     ELSE [is |-> "wrong", path |-> meant.faults[1]]

\* What compiles has no form that denotes nothing, no union that a member brings
\* back to itself before anything is read, and no union with two members that take
\* one head.
AcceptedIsSound ==
    stage = "compiled" =>
        \A f \in Written :
            /\ f.w # "bad"
            /\ f.w = "union" => \A g \in AtOnce(Inside(f)) : g.w = "alias" => ~IsItsOwn(g)
            /\ Productive => ~Ambiguous(f)

\* What is refused has such a form, or a union that an alias among its own members
\* contains.
RefusedForCause ==
    stage = "refused" /\ Productive =>
        CASE why = "unsupported" -> \E f \in Written : f.w = "bad"
          [] why = "ambiguous" -> \E f \in Written : Ambiguous(f)
          [] why = "own member" -> \E f \in Written : f.w = "union"
                /\ \E g \in Within(Inside(f)) : g.w = "alias" /\ f \in Within(Inside(g))
          [] OTHER -> FALSE

RECURSIVE IsWhole(_)
IsWhole(v) ==
    CASE v.is \in {"set", "frozenset"} -> \A x \in v.items : IsWhole(x)
      [] v.is \in {"list", "array"} -> \A i \in DOMAIN v.items : IsWhole(v.items[i])
      [] v.is \in {"dict", "object"} -> \A i \in DOMAIN v.pairs : IsWhole(v.pairs[i].of)
      [] v.is = "tagged" -> IsWhole(v.of)
      [] v.is = "instance" -> \A i \in DOMAIN v.fields : IsWhole(v.fields[i].of)
      [] OTHER -> v.is # "absent"

\* What was read at a form is written so that reading it there again answers the
\* same value. (A field that was left to its default is written as that; defaults
\* are the program's.)
ComesBack ==
    stage = "read" /\ answer.is = "value" /\ IsWhole(answer.of) =>
        Decoded(decoder, Spelled(answer.of), RecursionAt) = answer

\* "an alias that is directly one of its own alternatives is refused"
\* (_ir.py:329), and for that reason only.
RefusedOnlyUnproductive == why = "own member" => ~Productive
=============================================================================
