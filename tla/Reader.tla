-------------------------------- MODULE Reader --------------------------------
(***************************************************************************)
(* The parser of src/parse.rs over tokens: recursive descent with one      *)
(* token of lookahead, its call stack made explicit.                       *)
(*                                                                         *)
(* The document is not fixed beforehand: every bump chooses the next       *)
(* token, or the end of the input, so the model reads every document of    *)
(* up to MaxTokens tokens and stops on each as the parser does. Whitespace *)
(* and comments are between tokens; a token whose own scan fails (a string *)
(* that does not end, a number with nothing after the point, a comment     *)
(* left open before it) is `broken`, and a character that starts no token  *)
(* is `junk`.                                                              *)
(***************************************************************************)
EXTENDS Naturals, Sequences, SequencesExt

CONSTANTS
    Ident,      \* identifiers, `true`, `false` and `null` among them
    Text,       \* the contents of strings; an identifier key is its spelling
    Number,     \* numbers
    MaxTokens,  \* bound: tokens of a document
    Limit       \* the interpreter's recursion limit, in frames of parse_value

ASSUME ConstantsAssumption == MaxTokens \in Nat /\ Limit \in Nat

Mark == {"[", "]", "{", "}", ",", ":", "junk", "broken", "eof"}
Eof == [t |-> "eof", s |-> "eof"]
Token ==
    [t: {"id"}, s: Ident] \cup [t: {"str"}, s: Text]
    \cup [t: {"num"}, s: Number] \cup {[t |-> m, s |-> m] : m \in Mark \ {"eof"}}

StartsValue(k) == k.t \in {"{", "[", "str", "num", "broken", "id"}

VARIABLES
    text,    \* the tokens scanned so far, the one ahead included
    ahead,   \* the token the parser looks at
    mode,    \* where in the parser the innermost frame is
    under,   \* whether the value to be read is a tag's payload
    stack,   \* the frames of parse_value that are waiting
    val,     \* the value the innermost frame has just returned
    outcome  \* "reading", "value", "error" or "recursion"

vars == <<text, ahead, mode, under, stack, val, outcome>>

Mode == {"document", "value", "identifier", "array", "object", "colon", "member", "return"}
NoValue == [is |-> "none"]

Init ==
    /\ ahead \in Token \cup {Eof}
    /\ text = IF ahead = Eof THEN <<>> ELSE <<ahead>>
    /\ mode = "document"
    /\ under = FALSE
    /\ stack = <<>>
    /\ val = NoValue
    /\ outcome = "reading"

-----------------------------------------------------------------------------

Reading(m) == outcome = "reading" /\ mode = m
Bump ==
    \/ /\ Len(text) < MaxTokens
       /\ \E k \in Token : ahead' = k /\ text' = Append(text, k)
    \/ ahead' = Eof /\ UNCHANGED text
Stay == UNCHANGED <<text, ahead>>

Top == stack[Len(stack)]
Push(frame) == stack' = Append(stack, frame)
Pop == stack' = Front(stack)
Replace(frame) == stack' = [stack EXCEPT ![Len(stack)] = frame]

\* An error leaves through every waiting frame.
Fail(what) ==
    /\ outcome' = what
    /\ Stay
    /\ UNCHANGED <<mode, under, stack, val>>

Return(v) ==
    /\ val' = v
    /\ mode' = "return"
    /\ UNCHANGED <<under, outcome>>

Go(m, tagged) ==
    /\ mode' = m
    /\ under' = tagged
    /\ UNCHANGED <<val, outcome>>

\* The host value a bare identifier denotes.
Bare(name) == CASE name = "null" -> [is |-> "null"]
                [] name = "true" -> [is |-> "bool", s |-> TRUE]
                [] name = "false" -> [is |-> "bool", s |-> FALSE]
                [] OTHER -> [is |-> "symbol", s |-> name]

\* PyDict.set_item: the last value under a key wins, in the first one's place.
SetItem(pairs, key, v) ==
    IF \E i \in DOMAIN pairs : pairs[i].key = key
      THEN [i \in DOMAIN pairs |-> IF pairs[i].key = key THEN [key |-> key, of |-> v]
                                                         ELSE pairs[i]]
      ELSE Append(pairs, [key |-> key, of |-> v])

-----------------------------------------------------------------------------
(* parse_document *)

EmptyDocument == Reading("document") /\ ahead = Eof /\ Fail("error")

Document ==
    /\ Reading("document") /\ ahead # Eof
    /\ Go("value", FALSE) /\ Stay /\ UNCHANGED stack

TrailingContent == Reading("return") /\ stack = <<>> /\ ahead # Eof /\ Fail("error")

Finish ==
    /\ Reading("return") /\ stack = <<>> /\ ahead = Eof
    /\ outcome' = "value"
    /\ Stay /\ UNCHANGED <<mode, under, stack, val>>

(* parse_value *)

TooDeep == Reading("value") /\ Len(stack) >= Limit /\ Fail("recursion")

\* Mutated form: the recursion guard is not entered.
Entered_Unguarded == Reading("value")

Entered == Reading("value") /\ Len(stack) < Limit

Scalar ==
    /\ Entered /\ ahead.t \in {"str", "num"}
    /\ Return([is |-> ahead.t, s |-> ahead.s]) /\ Bump /\ UNCHANGED stack

Open ==
    /\ Entered
    /\ \/ ahead.t = "[" /\ Push([f |-> "array", items |-> <<>>]) /\ Go("array", FALSE)
       \/ ahead.t = "{" /\ Push([f |-> "object", pairs |-> <<>>, key |-> ""]) /\ Go("object", FALSE)
    /\ Bump

Identifier ==
    /\ Entered /\ ahead.t = "id"
    /\ Push([f |-> "tag", name |-> ahead.s])
    /\ Go("identifier", under)
    /\ Bump

NoValueHere ==
    /\ Entered
    /\ ~StartsValue(ahead) \/ ahead.t = "broken"
    /\ Fail("error")

\* One token decides whether the identifier is a tag. Its argument is read next,
\* and the frame waits for it.
Tag ==
    /\ Reading("identifier") /\ StartsValue(ahead)
    /\ Go("value", TRUE) /\ Stay /\ UNCHANGED stack

\* Mutated form: the payload of a tag may be a bare symbol.
TagOverSymbol_Accepted ==
    /\ Reading("identifier") /\ ~StartsValue(ahead) /\ under
    /\ Return(Bare(Top.name)) /\ Pop /\ Stay

TagOverSymbol == Reading("identifier") /\ ~StartsValue(ahead) /\ under /\ Fail("error")

Symbol ==
    /\ Reading("identifier") /\ ~StartsValue(ahead) /\ ~under
    /\ Return(Bare(Top.name)) /\ Pop /\ Stay

Tagged ==
    /\ Reading("return") /\ stack # <<>> /\ Top.f = "tag"
    /\ Return([is |-> "tagged", tag |-> Top.name, of |-> val]) /\ Pop /\ Stay

(* parse_array *)

\* Mutated form: a bracket ends the array only after an element.
ArrayHead_NoTrailingComma ==
    /\ Reading("array")
    /\ \/ ahead = Eof /\ Fail("error")
       \/ /\ ahead.t = "]" /\ Top.items = <<>>
          /\ Return([is |-> "array", items |-> Top.items]) /\ Pop /\ Bump
       \/ ahead # Eof /\ (ahead.t # "]" \/ Top.items # <<>>)
          /\ Go("value", FALSE) /\ Stay /\ UNCHANGED stack

ArrayHead ==
    /\ Reading("array")
    /\ \/ ahead = Eof /\ Fail("error")
       \/ /\ ahead.t = "]"
          /\ Return([is |-> "array", items |-> Top.items]) /\ Pop /\ Bump
       \/ ahead # Eof /\ ahead.t # "]" /\ Go("value", FALSE) /\ Stay /\ UNCHANGED stack

ArrayItem ==
    /\ Reading("return") /\ stack # <<>> /\ Top.f = "array"
    /\ LET items == Append(Top.items, val)
       IN  \/ /\ ahead.t = ","
              /\ Replace([Top EXCEPT !.items = items]) /\ Go("array", FALSE) /\ Bump
           \/ /\ ahead.t = "]"
              /\ Return([is |-> "array", items |-> items]) /\ Pop /\ Bump
           \/ ahead.t \notin {",", "]"} /\ Fail("error")

(* parse_object *)

ObjectHead ==
    /\ Reading("object")
    /\ \/ /\ ahead.t = "}"
          /\ Return([is |-> "object", pairs |-> Top.pairs]) /\ Pop /\ Bump
       \/ /\ ahead.t \in {"str", "id"}
          /\ Replace([Top EXCEPT !.key = ahead.s]) /\ Go("colon", FALSE) /\ Bump
       \/ ahead.t \notin {"}", "str", "id"} /\ Fail("error")

Colon ==
    /\ Reading("colon")
    /\ \/ ahead.t = ":" /\ Go("member", FALSE) /\ Bump /\ UNCHANGED stack
       \/ ahead.t # ":" /\ Fail("error")

\* Mutated form: the end of the input is not looked for after a colon.
Member_EofUnchecked ==
    /\ Reading("member")
    /\ Go("value", FALSE) /\ Stay /\ UNCHANGED stack

Member ==
    /\ Reading("member")
    /\ \/ ahead # Eof /\ Go("value", FALSE) /\ Stay /\ UNCHANGED stack
       \/ ahead = Eof /\ Fail("error")

\* Mutated form: a comma ends the object's frame.
ObjectItem_CommaPops ==
    /\ Reading("return") /\ stack # <<>> /\ Top.f = "object"
    /\ LET pairs == SetItem(Top.pairs, Top.key, val)
       IN  \/ ahead.t = "," /\ Pop /\ Go("object", FALSE) /\ Bump
           \/ /\ ahead.t = "}"
              /\ Return([is |-> "object", pairs |-> pairs]) /\ Pop /\ Bump
           \/ ahead.t \notin {",", "}"} /\ Fail("error")

\* Mutated form: the members are collected in a list, so that a repeated key stays
\* in it twice.
ObjectItem_Collects ==
    /\ Reading("return") /\ stack # <<>> /\ Top.f = "object"
    /\ LET pairs == Append(Top.pairs, [key |-> Top.key, of |-> val])
       IN  \/ /\ ahead.t = ","
              /\ Replace([Top EXCEPT !.pairs = pairs]) /\ Go("object", FALSE) /\ Bump
           \/ /\ ahead.t = "}"
              /\ Return([is |-> "object", pairs |-> pairs]) /\ Pop /\ Bump
           \/ ahead.t \notin {",", "}"} /\ Fail("error")

ObjectItem ==
    /\ Reading("return") /\ stack # <<>> /\ Top.f = "object"
    /\ LET pairs == SetItem(Top.pairs, Top.key, val)
       IN  \/ /\ ahead.t = ","
              /\ Replace([Top EXCEPT !.pairs = pairs]) /\ Go("object", FALSE) /\ Bump
           \/ /\ ahead.t = "}"
              /\ Return([is |-> "object", pairs |-> pairs]) /\ Pop /\ Bump
           \/ ahead.t \notin {",", "}"} /\ Fail("error")

\* parse_document has returned or raised.
Stopped == outcome # "reading" /\ UNCHANGED vars

Next ==
    \/ EmptyDocument \/ Document \/ TrailingContent \/ Finish
    \/ TooDeep \/ Scalar \/ Open \/ Identifier \/ NoValueHere
    \/ Tag \/ TagOverSymbol \/ Symbol \/ Tagged
    \/ ArrayHead \/ ArrayItem
    \/ ObjectHead \/ Colon \/ Member \/ ObjectItem
    \/ Stopped

Spec == Init /\ [][Next]_vars

-----------------------------------------------------------------------------
(* Properties. *)

TypeOK ==
    /\ text \in Seq(Token)
    /\ ahead \in Token \cup {Eof}
    /\ mode \in Mode
    /\ under \in BOOLEAN
    /\ outcome \in {"reading", "value", "error", "recursion"}
    /\ \A i \in DOMAIN stack : stack[i].f \in {"tag", "array", "object"}
    /\ mode = "identifier" => stack # <<>> /\ Top.f = "tag"
    /\ mode = "array" => stack # <<>> /\ Top.f = "array"
    /\ mode \in {"object", "colon", "member"} => stack # <<>> /\ Top.f = "object"

\* parse_value takes a character that is there: it is never entered at the end
\* of the input ("every caller checks for eof", parse.rs:195).
NeverPastEnd == mode = "value" => ahead # Eof

\* A tag is never applied to a bare symbol, null, true or false, however long the
\* chain of tags and whatever it stands in: the Tagged the parser makes is one
\* that Symbol and Tagged's own constructors would have let through.
TagTakesNoSymbol ==
    mode = "return" /\ stack # <<>> /\ Top.f = "tag" =>
        val.is \notin {"null", "bool", "symbol"}
=============================================================================
