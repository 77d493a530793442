-------------------------------- MODULE Rules ---------------------------------
(***************************************************************************)
(* The grammar of the format as rules: what the tokens from one place of a *)
(* text to another spell, given what shorter stretches spell. A text       *)
(* spells a value when the rules lead to it, that is when the value is in  *)
(* every set of facts they add nothing to.                                 *)
(***************************************************************************)
EXTENDS Reader

BareParts == {"null", "bool", "symbol"}

\* The places of a text with a token of some kind.
Places(s, kinds) == {i \in DOMAIN s : s[i].t \in kinds}

\* A fact: tokens from one place up to another spell a value; or open an array
\* with some elements, or an object with some members, the last of them with the
\* comma after it.
Fact(part, from, to, what) == <<part, from, to, what>>
Values(R) == {x \in R : x[1] = "value"}
OpenArrays(R) == {x \in R : x[1] = "items"}
OpenObjects(R) == {x \in R : x[1] = "pairs"}

\* An element, or a member, that follows what is open, up to a token of a kind.
Elements(s, R, kind) ==
    {e \in OpenArrays(R) \X Values(R) :
        e[1][3] = e[2][2] /\ e[2][3] \in Places(s, {kind})}
Keyed(s, R, kind) ==
    {e \in OpenObjects(R) \X Values(R) :
        /\ e[1][3] \in Places(s, {"str", "id"}) /\ e[1][3] + 1 \in Places(s, {":"})
        /\ e[2][2] = e[1][3] + 2 /\ e[2][3] \in Places(s, {kind})}
Extended(e) == Append(e[1][4], e[2][4])
Updated(s, e) == SetItem(e[1][4], s[e[1][3]].s, e[2][4])

Scalars(s) == {Fact("value", i, i + 1, [is |-> s[i].t, s |-> s[i].s]) : i \in Places(s, {"str", "num"})}
Words(s) == {Fact("value", i, i + 1, Bare(s[i].s)) : i \in Places(s, {"id"})}
Brackets(s) == {Fact("items", i, i + 1, <<>>) : i \in Places(s, {"["})}
Braces(s) == {Fact("pairs", i, i + 1, <<>>) : i \in Places(s, {"{"})}
Applied(s, R) ==
    {Fact("value", x[2] - 1, x[3], [is |-> "tagged", tag |-> s[x[2] - 1].s, of |-> x[4]]) :
        x \in {y \in Values(R) : y[4].is \notin BareParts /\ y[2] - 1 \in Places(s, {"id"})}}
MoreItems(s, R) == {Fact("items", e[1][2], e[2][3] + 1, Extended(e)) : e \in Elements(s, R, ",")}
Arrays(s, R) ==
    {Fact("value", x[2], x[3] + 1, [is |-> "array", items |-> x[4]]) :
        x \in {y \in OpenArrays(R) : y[3] \in Places(s, {"]"})}}
    \cup {Fact("value", e[1][2], e[2][3] + 1, [is |-> "array", items |-> Extended(e)]) :
        e \in Elements(s, R, "]")}
MorePairs(s, R) == {Fact("pairs", e[1][2], e[2][3] + 1, Updated(s, e)) : e \in Keyed(s, R, ",")}
Objects(s, R) ==
    {Fact("value", x[2], x[3] + 1, [is |-> "object", pairs |-> x[4]]) :
        x \in {y \in OpenObjects(R) : y[3] \in Places(s, {"}"})}}
    \cup {Fact("value", e[1][2], e[2][3] + 1, [is |-> "object", pairs |-> Updated(s, e)]) :
        e \in Keyed(s, R, "}")}

\* What follows from some facts in one step, and when nothing new does.
Yield(s, R) ==
    Scalars(s) \cup Words(s) \cup Brackets(s) \cup Braces(s) \cup Applied(s, R)
    \cup MoreItems(s, R) \cup Arrays(s, R) \cup MorePairs(s, R) \cup Objects(s, R)
Closed(s, R) == Yield(s, R) \subseteq R

\* What the rules lead to.
Led(s, part, from, to, what) == \A R : Closed(s, R) => Fact(part, from, to, what) \in R
Spells(s, v) == Led(s, "value", 1, Len(s) + 1, v)

\* The documents that begin with what was scanned; at the end of the input, that one.
Continues(s) ==
    IF ahead = Eof THEN s = text ELSE \A i \in DOMAIN text : i \in DOMAIN s /\ s[i] = text[i]

\* A document that is answered with a value spells that value: nothing is read
\* into a text that it does not say, whatever its length and its depth. The rules
\* share with the parser only how a dict takes a key and what a bare word is to
\* the host; they know nothing of its modes, its frames or its token of lookahead.
AcceptedIsSpelled == outcome = "value" => Spells(text, val)

\* It spells no other: no document has two meanings for the parser to choose from.
AnswerIsTheMeaning == outcome = "value" => \A v : Spells(text, v) <=> v = val

\* A document is refused only when neither it nor any document that begins with
\* what was scanned of it spells anything: the one token of lookahead never turns
\* away a document that the rules lead to.
RefusedIsUnspelled ==
    outcome = "error" => \A s \in Seq(Token) : Continues(s) => \A v : ~Spells(s, v)
=============================================================================
