------------------------------- MODULE MCReader -------------------------------
(***************************************************************************)
(* Reader against the grammar of the format.                               *)
(***************************************************************************)
EXTENDS Rules, Grammar

\* A sequence that some document begins with: closing what is open, after
\* supplying at most the value, or the colon and the value, it broke off before.
Viable(s) ==
    LET num == [t |-> "num", s |-> CHOOSE n \in Number : TRUE]
        colon == [t |-> ":", s |-> ":"]
    IN  \E fix \in {<<>>, <<num>>, <<colon, num>>} : Denoted(s \o fix \o Closers(s)) # {}

\* A document is answered with the one value the grammar gives it: a trailing
\* comma adds nothing, the last of a repeated key wins in the first one's place,
\* and a tag takes the whole of the value after it.
ReadsTheGrammar == outcome = "value" => Denoted(text) = {val}

\* A document is refused only when what was scanned begins no document at all,
\* so a missing comma between two identifiers is never taken for a tag, nor a
\* document refused that the grammar has.
RefusesOnlyNonsense ==
    outcome = "error" => IF ahead = Eof THEN Denoted(text) = {} ELSE ~Viable(text)

\* What the rules lead to from nothing: every step takes in a token more at least.
Least(s) == FoldLeft(LAMBDA R, k : R \cup Yield(s, R), {}, [k \in 1..Len(s) |-> k])

\* The texts the two statements of the grammar are compared on: four pieces, each
\* a token, a member with the comma after it or an array, so that brackets stand in
\* brackets, keys repeat and commas trail. Neither statement knows `junk` or `broken`.
Piece ==
    LET mark(m) == [t |-> m, s |-> m]
        name == CHOOSE k \in Token : k.t = "id" /\ k.s \in Text
        num == CHOOSE k \in Token : k.t = "num"
    IN  {<<k>> : k \in {k \in Token : k.t \notin {"junk", "broken"}}}
        \cup {<<name, mark(":"), num, mark(",")>>,
              <<[t |-> "str", s |-> name.s], mark(":"), name, mark(",")>>,
              <<mark("["), num, mark("]")>>}
Compared == {FlattenSeq(pieces) : pieces \in SeqOf(Piece, 4)}

\* The rules, that the proofs speak of, say of a text what Denoted says, that the
\* runs speak of: the same value, or none; and nothing more follows from what the
\* rules lead to. It is about the two references alone, and no property of the parser.
ASSUME RulesAreGrammar ==
    \A s \in Compared :
        LET R == Least(s)
        IN  /\ Closed(s, R)
            /\ {x[4] : x \in {y \in Values(R) : y[2] = 1 /\ y[3] = Len(s) + 1}} = Denoted(s)

\* The recursion limit is reached only by documents that nest that deep.
TooDeepIsDeep ==
    /\ outcome = "recursion" => Len(stack) = Limit
    /\ outcome = "value" => Height(val) <= Limit
=============================================================================
