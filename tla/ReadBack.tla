-------------------------------- MODULE ReadBack -------------------------------
(***************************************************************************)
(* What the writer spells, scanned: a string it has spelled, wherever in a *)
(* text it stands and whatever comes before and after it.                  *)
(***************************************************************************)
EXTENDS Scanner

\* What was written is a str too.
ASSUME WrittenAreTexts ==
    \A i \in Inputs : \A v \in Range(i.wrote) :
        v.kind \in {"str", "key"} =>
            v.value \in Seq(Nat) /\ \A k \in DOMAIN v.value : IsChar(v.value[k])

\* The strings and keys a text was written from.
StringsWritten == {v.value : v \in {v \in Range(input.wrote) : v.kind \in {"str", "key"}}}

\* The loops between the quotes of a string.
InString == mode \in {"string", "escape", "hex", "unpaired"}

\* The token being read begins where a spelling does.
Reading(spelling) ==
    /\ local.from.pos + Len(spelling) <= Len(text)
    /\ SubSeq(text, local.from.pos + 1, local.from.pos + Len(spelling)) = spelling

\* escape_string, then parse_string: a string that is come to as the writer spells
\* it is never refused, and what it is read as is the string, no character lost,
\* changed or taken for its end; and the scanner goes on after its last quote.
StringsReadBack ==
    [][\A s \in StringsWritten : InString /\ Reading(EscapeString(s)) =>
          /\ outcome'.is # "error"
          /\ tokens' # tokens => /\ tokens' = Append(tokens, [t |-> "str", s |-> s])
                                 /\ at'.pos = local.from.pos + Len(EscapeString(s))]_vars
=============================================================================
