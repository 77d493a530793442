-------------------------------- MODULE Grammar --------------------------------
(***************************************************************************)
(* The grammar of the format over whole sequences of tokens: what a        *)
(* sequence denotes, with no parser and no writer in sight. It is the      *)
(* reference the reader and the writer are both checked against.           *)
(***************************************************************************)
EXTENDS Naturals, Sequences, SequencesExt, FiniteSets

Slice(s, i, j) == SubSeq(s, i, j)

\* The values a sequence of tokens denotes as a value; as the inside of an
\* array; as the inside of an object.
RECURSIVE Denoted(_), Items(_), Members(_)

BareWord(name) ==
    CASE name = "null" -> [is |-> "null"]
      [] name \in {"true", "false"} -> [is |-> "bool", s |-> name = "true"]
      [] OTHER -> [is |-> "symbol", s |-> name]

BareKinds == {"null", "bool", "symbol"}

\* Members in the order of the first occurrence of their key, each with the
\* value of the last.
LastWins(ms) ==
    LET FirstOf == {i \in DOMAIN ms : \A j \in 1..(i - 1) : ms[j].key # ms[i].key}
        Latest(i) == CHOOSE j \in DOMAIN ms : /\ ms[j].key = ms[i].key
                                            /\ \A l \in (j + 1)..Len(ms) : ms[l].key # ms[i].key
        order == SetToSortSeq(FirstOf, <)
    IN  [n \in DOMAIN order |-> ms[Latest(order[n])]]

Denoted(s) ==
    LET n == Len(s) IN
    IF n = 0 THEN {}
    ELSE IF n = 1 THEN
        IF s[1].t \in {"str", "num"} THEN {[is |-> s[1].t, s |-> s[1].s]}
        ELSE IF s[1].t = "id" THEN {BareWord(s[1].s)} ELSE {}
    ELSE IF s[1].t = "id" THEN
        {[is |-> "tagged", tag |-> s[1].s, of |-> v] :
            v \in {w \in Denoted(Tail(s)) : w.is \notin BareKinds}}
    ELSE IF s[1].t = "[" /\ s[n].t = "]" THEN
        {[is |-> "array", items |-> vs] : vs \in Items(Slice(s, 2, n - 1))}
    ELSE IF s[1].t = "{" /\ s[n].t = "}" THEN
        {[is |-> "object", pairs |-> LastWins(ms)] : ms \in Members(Slice(s, 2, n - 1))}
    ELSE {}

Items(s) ==
    IF s = <<>> THEN {<<>>}
    ELSE {<<v>> : v \in Denoted(s)}
         \cup UNION {LET rest == Items(Slice(s, k + 1, Len(s)))
                     IN  {<<v>> \o vs : v \in Denoted(Slice(s, 1, k - 1)), vs \in rest} :
                        k \in {j \in 2..Len(s) : s[j].t = ","}}

Members(s) ==
    LET Pair(m) == IF Len(m) > 2 /\ m[1].t \in {"id", "str"} /\ m[2].t = ":"
                     THEN {[key |-> m[1].s, of |-> v] : v \in Denoted(Slice(m, 3, Len(m)))}
                     ELSE {}
    IN  IF s = <<>> THEN {<<>>}
        ELSE {<<p>> : p \in Pair(s)}
             \cup UNION {LET rest == Members(Slice(s, k + 1, Len(s)))
                         IN  {<<p>> \o ms : p \in Pair(Slice(s, 1, k - 1)), ms \in rest} :
                            k \in {j \in 2..Len(s) : s[j].t = ","}}

\* The brackets a sequence leaves open, closed.
Closers(s) ==
    LET Step(k, open) == CASE k.t = "[" -> <<[t |-> "]", s |-> "]"]>> \o open
                           [] k.t = "{" -> <<[t |-> "}", s |-> "}"]>> \o open
                           [] k.t \in {"]", "}"} /\ open # <<>> -> Tail(open)
                           [] OTHER -> open
    IN  FoldLeft(LAMBDA open, k : Step(k, open), <<>>, s)

\* How many frames of parse_value a value takes.
RECURSIVE Height(_)
Height(v) ==
    CASE v.is = "tagged" -> 1 + Height(v.of)
      [] v.is = "array" -> 1 + FoldLeft(LAMBDA m, x : IF Height(x) > m THEN Height(x) ELSE m, 0, v.items)
      [] v.is = "object" -> 1 + FoldLeft(LAMBDA m, p : IF Height(p.of) > m THEN Height(p.of) ELSE m, 0, v.pairs)
      [] OTHER -> 1

\* The text a value is spelled as.
RECURSIVE Unparsed(_)
Unparsed(v) ==
    LET mark(m) == <<[t |-> m, s |-> m]>>
        Joined(parts) == FoldLeft(LAMBDA acc, p :
            IF acc = <<>> THEN p ELSE acc \o mark(",") \o p, <<>>, parts)
        Key(key) == <<IF key = "a" THEN [t |-> "id", s |-> key] ELSE [t |-> "str", s |-> key]>>
    IN  CASE v.is = "null" -> <<[t |-> "id", s |-> "null"]>>
          [] v.is = "bool" -> <<[t |-> "id", s |-> IF v.s THEN "true" ELSE "false"]>>
          [] v.is = "symbol" -> <<[t |-> "id", s |-> v.s]>>
          [] v.is \in {"str", "num"} -> <<[t |-> v.is, s |-> v.s]>>
          [] v.is = "tagged" -> <<[t |-> "id", s |-> v.tag]>> \o Unparsed(v.of)
          [] v.is = "array" -> mark("[")
                \o Joined([i \in DOMAIN v.items |-> Unparsed(v.items[i])]) \o mark("]")
          [] v.is = "object" -> mark("{")
                \o Joined([i \in DOMAIN v.pairs |->
                        Key(v.pairs[i].key) \o mark(":") \o Unparsed(v.pairs[i].of)]) \o mark("}")
=============================================================================
