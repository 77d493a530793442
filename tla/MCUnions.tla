------------------------------- MODULE MCUnions -------------------------------
(***************************************************************************)
(* The shapes Unions is checked with: every form; enums that share a       *)
(* spelling, enums that do not and one with no members; two classes that   *)
(* share a tag; unions as members.                                         *)
(***************************************************************************)
EXTENDS Unions

CONSTANTS red, blue, order

Plain(f) == [form |-> f, names |-> {}, members |-> {}]
Going(f, ns) == [form |-> f, names |-> ns, members |-> {}]
Inner(atoms) == [form |-> "UnionOf", names |-> {}, members |-> atoms]
AtomOf(f, ns) == [form |-> f, names |-> ns]

AllShapes ==
    {Plain(f) : f \in Form \ {"EnumOf", "NamedTag"}}
    \cup {Going("EnumOf", ns) : ns \in {{}, {red}, {blue}, {red, blue}}}
    \cup {Going("NamedTag", {n}) : n \in {order, SetTag}}
    \cup {Inner({AtomOf("Int", {}), AtomOf("NamedTag", {order})}),
          Inner({AtomOf("Null", {}), AtomOf("EnumOf", {red})})}
=============================================================================
