------------------------------- MODULE MCWriter -------------------------------
(***************************************************************************)
(* Writer over small object graphs, against what a graph means: the value  *)
(* it is the image of, and where in it a write can fail.                   *)
(***************************************************************************)
EXTENDS Spellable, Grammar

CONSTANTS
    Kinds,    \* the kinds of object a run has
    MaxKids   \* bound: children of an object

KidSeqs == UNION {[1..n -> {Ref(m) : m \in Node}] : n \in 0..MaxKids}
KeySeq == <<"a", "-">>
Keys(n) == SubSeq(KeySeq, 1, n)
\* The keys of a mapping, the last with no spelling perhaps.
KeySeqs(n) == {Keys(n)} \cup IF n > 0 THEN {[Keys(n) EXCEPT ![n] = BadKey]} ELSE {}
\* The keys of a dataclass's fields, two fields with one key perhaps.
FieldSeqs(n) == {Keys(n)} \cup IF n > 1 THEN {[Keys(n) EXCEPT ![n] = Keys(n)[1]]} ELSE {}

AllHeads ==
    {[k |-> "null", s |-> "null"], [k |-> "enum", s |-> "red"],
     [k |-> "str", s |-> "a"], [k |-> "str", s |-> "b"],
     [k |-> "carrier", name |-> "Date", s |-> "d"]}
    \cup {[k |-> k] : k \in {"unspellable", "overlong", "alien", "crash", "stray"}}
    \cup {Tagged("T", Ref(n)) : n \in Node}
    \cup {[k |-> k, kids |-> ks] : k \in {"array", "list"}, ks \in KidSeqs}
    \cup {[k |-> "run", name |-> "R", kids |-> ks] : ks \in KidSeqs}
    \cup {[k |-> "set", name |-> "Set", kids |-> ks] :
            ks \in {s \in KidSeqs : \A i, j \in DOMAIN s : s[i] = s[j] => i = j}}
    \cup UNION {{[k |-> k, keys |-> keys, kids |-> ks] :
                    k \in {"object", "dict"}, keys \in KeySeqs(Len(ks))} : ks \in KidSeqs}
    \cup UNION {{[k |-> "class", name |-> "C", keys |-> keys, kids |-> ks] :
                    keys \in FieldSeqs(Len(ks))} : ks \in KidSeqs}

SomeHeads == {h \in AllHeads : h.k \in Kinds}

\* Texts in the order of their first difference: any total order of the tokens
\* will do.
Ranked == <<Str("a"), Str("b"), Str("d"), Str("-"), Id("a"), Id("null"), Id("red"), Id("C"),
            Id("Date"), Id("R"), Id("Set"), Id("T"), Mk(","), Mk(":"), Mk("["), Mk("]"),
            Mk("{"), Mk("}")>>
Rank(t) == CHOOSE i \in DOMAIN Ranked : Ranked[i] = t
Earlier(s, u) ==
    \E n \in 0..Len(s) :
        /\ n <= Len(u) /\ SubSeq(s, 1, n) = SubSeq(u, 1, n)
        /\ \/ n = Len(s) /\ n < Len(u)
           \/ n < Len(s) /\ n < Len(u) /\ Rank(s[n + 1]) < Rank(u[n + 1])

\* They are ordered as Python's are, one of any two before the other, as far as texts
\* of two of the tokens go.
ASSUME EarlierIsAnOrder ==
    LET texts == UNION {[1..n -> {Str("a"), Id("a"), Mk(","), Mk("[")}] : n \in 0..2}
    IN  \A s, u \in texts :
            /\ ~Earlier(s, s)
            /\ s # u => Earlier(s, u) \/ Earlier(u, s)
            /\ \A v \in texts : Earlier(s, u) /\ Earlier(u, v) => Earlier(s, v)

-----------------------------------------------------------------------------

\* The children that are spelled: of two fields of one key, the later one.
MembersOf(h) == LastWins([i \in DOMAIN h.keys |-> [key |-> h.keys[i], of |-> h.kids[i]]])
Spoken(h) == IF h.k = "class" THEN {p.of : p \in Range(MembersOf(h))} ELSE Kids(h)

\* The objects within so many steps of some, and whether a walk of the graph
\* comes to an end.
RECURSIVE Within(_, _)
Within(ns, steps) ==
    IF steps = 0 THEN ns
    ELSE Within(ns \cup {kid.n : kid \in UNION {Spoken(heap[n]) : n \in ns \cap DOMAIN heap}},
                steps - 1)
Below(n) == Within({kid.n : kid \in Spoken(heap[n])}, Cardinality(Node))
Ends == \A n \in Within({Root}, Cardinality(Node)) : n \in DOMAIN heap /\ n \notin Below(n)

\* The value of the format an object stands for.
RECURSIVE Image(_)
Image(v) ==
    LET h == IF v.k = "ref" THEN heap[v.n] ELSE v
        Array(kids) == [is |-> "array", items |-> [i \in DOMAIN kids |-> Image(kids[i])]]
        Object == LET ms == MembersOf(h)
                  IN  [is |-> "object",
                       pairs |-> [i \in DOMAIN ms |-> [ms[i] EXCEPT !.of = Image(@)]]]
        Over(tag, value) == [is |-> "tagged", tag |-> tag, of |-> value]
    IN  CASE h.k \in {"null", "enum"} -> BareWord(h.s)
          [] h.k = "str" -> [is |-> "str", s |-> h.s]
          [] h.k = "carrier" -> Over(h.name, [is |-> "str", s |-> h.s])
          [] h.k = "tagged" -> Over(h.tag, Image(h.kids[1]))
          [] h.k \in {"array", "list"} -> Array(h.kids)
          [] h.k = "run" -> Over(h.name, Array(h.kids))
          [] h.k = "set" -> LET before(v1, v2) == Earlier(Unparsed(v1), Unparsed(v2))
                IN  Over(h.name, [is |-> "array", items |->
                        SortSeq([i \in DOMAIN h.kids |-> Image(h.kids[i])], before)])
          [] h.k \in {"object", "dict"} -> Object
          [] h.k = "class" -> Over(h.name, Object)

\* A text that is handed over denotes the value the graph stands for and no
\* other, so reading it back gives that value, and a graph with a cycle in it is
\* never answered with a text.
WritesTheValue == outcome = "written" => Ends /\ Denoted(out) = {Image(Ref(Root))}

\* Reading a text back takes no more frames of the recursion guard than writing it
\* did, conversions included.
WrittenIsReadable == outcome = "written" => Height(Image(Ref(Root))) <= Limit

-----------------------------------------------------------------------------

\* What cannot be spelled for what it is itself, tags and conversions included,
\* and whatever its children are.
RECURSIVE AtFault(_, _)
AtFault(v, tagged) ==
    LET h == IF v.k = "ref" THEN heap[v.n] ELSE v
    IN  \/ h.k \in {"unspellable", "alien", "stray"}
        \/ h.k \in {"null", "enum"} /\ tagged
        \/ h.k \in {"object", "dict"} /\ \E i \in DOMAIN h.keys : h.keys[i] = BadKey
        \/ h.k = "tagged" /\ AtFault(h.kids[1], TRUE)

\* The values one step of a path may lead to: several only under a set, whose
\* elements are numbered in the order they are written in.
RECURSIVE StepFrom(_, _)
StepFrom(v, seg) ==
    LET h == IF v.k = "ref" THEN heap[v.n] ELSE v
    IN  CASE h.k = "tagged" -> StepFrom(h.kids[1], seg)
          [] h.k \in {"array", "list", "run"} ->
                {h.kids[i] : i \in {j \in DOMAIN h.kids : [index |-> j - 1] = seg}}
          [] h.k = "set" -> Kids(h)
          [] h.k \in {"object", "dict"} ->
                {h.kids[i] : i \in {j \in DOMAIN h.keys : [key |-> h.keys[j]] = seg}}
          [] h.k = "class" ->
                {h.kids[i] : i \in {j \in DOMAIN h.keys : /\ [key |-> h.keys[j]] = seg
                    /\ \A l \in (j + 1)..Len(h.keys) : [key |-> h.keys[l]] # seg}}
          [] OTHER -> {}

LedTo == FoldLeft(LAMBDA vs, seg : UNION {StepFrom(v, seg) : v \in vs}, {Ref(Root)}, path)

\* The path an error carries leads from the root to a value that has no spelling
\* whatever stands around it, however many conversions, tags and sets it passed
\* through on the way out.
PathLeadsToFault == outcome = "refused" => \E v \in LedTo : AtFault(v, FALSE)

-----------------------------------------------------------------------------

\* The places of a graph: its objects, what the hook makes of them and the payloads
\* that are no objects.
Converted(graph) == {Spelled(graph[n]) : n \in {m \in DOMAIN graph :
                        graph[m].k \in (Known \ {"set"}) \cup {"stray"}}}
Places(graph) ==
    {<<Ref(n), u, TRUE>> : n \in Node, u \in BOOLEAN}
    \cup {<<v, u, FALSE>> : v \in Converted(graph), u \in BOOLEAN}
    \cup {<<v.kids[1], TRUE, TRUE>> : v \in {c \in Converted(graph) : c.k = "tagged"}}

\* What has a spelling once these have one: the least such set.
RECURSIVE Spelt(_, _)
Spelt(graph, done) ==
    LET more == done \cup {x \in Places(graph) : Fine(graph, done, x)}
    IN  IF more = done THEN done ELSE Spelt(graph, more)

\* dumps answers with a text only for what has a spelling, and with a refusal only for
\* what has none even if everything that was not looked at had one.
AnswersAsSpellable ==
    /\ outcome = "written" => Whole \in Spelt(heap, {})
    /\ outcome = "refused" =>
          Whole \notin Spelt(heap, {<<Ref(n), u, TRUE>> : n \in Node \ DOMAIN heap, u \in BOOLEAN})
=============================================================================
