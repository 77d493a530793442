----------------------------- MODULE ReaderProofs -----------------------------
(***************************************************************************)
(* What the parser does with every document: for every set of identifiers, *)
(* strings and numbers, every length and every recursion limit.            *)
(***************************************************************************)
EXTENDS Rules, Basics

(* The frames, and what the mode says of them. *)

\* A frame of parse_value: a tag whose argument is awaited, an array or an object.
Framed(fr) ==
    \/ fr = [f |-> "tag", name |-> fr.name]
    \/ fr = [f |-> "array", items |-> fr.items]
    \/ fr = [f |-> "object", pairs |-> fr.pairs, key |-> fr.key]

Lexed ==
    /\ text \in Seq(Token)
    /\ ahead \in Token \cup {Eof}
    /\ mode \in Mode
    /\ under \in BOOLEAN
    /\ outcome \in {"reading", "value", "error", "recursion"}

\* `under` says whether the value, or the identifier, is read under a tag.
UnderTag ==
    /\ mode = "value" => (under <=> stack # <<>> /\ Top.f = "tag")
    /\ mode = "identifier" => (under <=> Len(stack) > 1 /\ stack[Len(stack) - 1].f = "tag")

\* The guard of parse_value has let every waiting frame in.
Guarded ==
    /\ Len(stack) <= Limit
    /\ outcome = "recursion" => Len(stack) = Limit

Stacked ==
    /\ IsStack(stack)
    /\ \A i \in DOMAIN stack : Framed(stack[i])
    /\ mode = "document" => stack = <<>>
    /\ mode = "identifier" => stack # <<>> /\ Top.f = "tag"
    /\ mode = "array" => stack # <<>> /\ Top.f = "array"
    /\ mode \in {"object", "colon", "member"} => stack # <<>> /\ Top.f = "object"

Parsing == Lexed /\ Stacked /\ UnderTag /\ Guarded /\ NeverPastEnd /\ TagTakesNoSymbol

\* What a frame is says what fields it has.
LEMMA FrameFields ==
    ASSUME NEW fr, Framed(fr)
    PROVE  /\ fr.f \in {"tag", "array", "object"}
           /\ fr.f = "tag" => fr = [f |-> "tag", name |-> fr.name]
           /\ fr.f = "array" => fr = [f |-> "array", items |-> fr.items]
           /\ fr.f = "object" => fr = [f |-> "object", pairs |-> fr.pairs, key |-> fr.key]
BY DEF Framed

\* The next token is a token.
LEMMA BumpLexed ==
    ASSUME text \in Seq(Token), Bump
    PROVE  text' \in Seq(Token) /\ ahead' \in Token \cup {Eof}
BY AppendProperties DEF Bump

\* The innermost waiting frame.
LEMMA TopFramed ==
    ASSUME Stacked, stack # <<>>
    PROVE  Framed(Top) /\ Len(stack) \in DOMAIN stack /\ Len(stack) \in Nat \ {0}
<1>1. Len(stack) \in Nat /\ DOMAIN stack = 1..Len(stack) /\ Len(stack) > 0
  BY StackIndices DEF Stacked
<1>2. Len(stack) \in DOMAIN stack
  BY <1>1
<1> QED
  BY <1>1, <1>2 DEF Stacked, Top

\* A frame more, a frame less, and the innermost frame changed.
LEMMA PushFrame ==
    ASSUME Stacked, NEW fr, Framed(fr), Push(fr)
    PROVE  /\ IsStack(stack') /\ \A i \in DOMAIN stack' : Framed(stack'[i])
           /\ stack' # <<>> /\ Top' = fr /\ Len(stack') = Len(stack) + 1
           /\ \A i \in DOMAIN stack : stack'[i] = stack[i]
<1>1. /\ IsStack(stack') /\ stack' # <<>> /\ Len(stack') = Len(stack) + 1
      /\ stack'[Len(stack')] = fr /\ \A i \in 1..Len(stack) : stack'[i] = stack[i]
  <2>1. IsStack(stack) /\ stack' = Append(stack, fr)
    BY DEF Push, Stacked
  <2>2. IsStack(stack') /\ stack' # <<>>
    BY <2>1, StackPush
  <2>3. Len(stack') = Len(stack) + 1 /\ stack'[Len(stack')] = fr
    BY <2>1, StackPush
  <2>4. \A i \in 1..Len(stack) : stack'[i] = stack[i]
    BY <2>1, StackPush
  <2> QED
    BY <2>2, <2>3, <2>4
<1>2. /\ Len(stack) \in Nat /\ DOMAIN stack = 1..Len(stack)
      /\ DOMAIN stack' = 1..Len(stack')
  BY <1>1, StackIndices DEF Stacked
<1>3. ASSUME NEW i \in DOMAIN stack' PROVE Framed(stack'[i])
  <2>1. i \in DOMAIN stack \/ i = Len(stack')
    BY <1>1, <1>2
  <2>2. CASE i \in DOMAIN stack
    BY <1>1, <1>2, <2>2 DEF Stacked
  <2>3. CASE i = Len(stack')
    BY <1>1, <2>3
  <2> QED
    BY <2>1, <2>2, <2>3
<1> QED
  BY <1>1, <1>2, <1>3 DEF Top

LEMMA ReplaceFrame ==
    ASSUME Stacked, stack # <<>>, NEW fr, Framed(fr), Replace(fr)
    PROVE  /\ IsStack(stack') /\ \A i \in DOMAIN stack' : Framed(stack'[i])
           /\ stack' # <<>> /\ Top' = fr /\ Len(stack') = Len(stack)
           /\ \A i \in DOMAIN stack : i # Len(stack) => stack'[i] = stack[i]
<1>1. /\ IsStack(stack') /\ stack' # <<>> /\ Len(stack') = Len(stack)
      /\ stack'[Len(stack')] = fr
      /\ \A i \in 1..Len(stack) : i # Len(stack) => stack'[i] = stack[i]
  <2>1. IsStack(stack) /\ stack' = [stack EXCEPT ![Len(stack)] = fr]
    BY DEF Replace, Stacked
  <2>2. IsStack(stack') /\ stack' # <<>>
    BY <2>1, StackReplace
  <2>3. Len(stack') = Len(stack) /\ stack'[Len(stack')] = fr
    BY <2>1, StackReplace
  <2>4. \A i \in 1..Len(stack) : i # Len(stack) => stack'[i] = stack[i]
    BY <2>1, StackReplace
  <2> QED
    BY <2>2, <2>3, <2>4
<1>2. /\ Len(stack) \in Nat /\ DOMAIN stack = 1..Len(stack)
      /\ DOMAIN stack' = 1..Len(stack')
  BY <1>1, StackIndices DEF Stacked
<1>3. ASSUME NEW i \in DOMAIN stack' PROVE Framed(stack'[i])
  BY <1>1, <1>2 DEF Stacked
<1> QED
  BY <1>1, <1>2, <1>3 DEF Top

LEMMA PopFrame ==
    ASSUME Stacked, stack # <<>>, Pop
    PROVE  /\ IsStack(stack') /\ \A i \in DOMAIN stack' : Framed(stack'[i])
           /\ Len(stack') = Len(stack) - 1
           /\ \A i \in DOMAIN stack' : i \in DOMAIN stack /\ stack'[i] = stack[i]
<1>1. /\ IsStack(stack') /\ Len(stack') = Len(stack) - 1
      /\ \A i \in 1..Len(stack') : stack'[i] = stack[i]
  <2>1. IsStack(stack) /\ stack' = SubSeq(stack, 1, Len(stack) - 1)
    BY DEF Pop, Front, Stacked
  <2> QED
    BY <2>1, StackPop
<1>2. /\ Len(stack) \in Nat /\ DOMAIN stack = 1..Len(stack)
      /\ DOMAIN stack' = 1..Len(stack')
  BY <1>1, StackIndices DEF Stacked
<1>3. ASSUME NEW i \in DOMAIN stack' PROVE i \in DOMAIN stack /\ Framed(stack'[i])
  <2>1. i \in DOMAIN stack
    BY <1>1, <1>2
  <2> QED
    BY <1>1, <1>2, <2>1 DEF Stacked
<1> QED
  BY <1>1, <1>2, <1>3

\* At the first token nothing is waiting.
LEMMA InitParsing == Init => Parsing
<1> SUFFICES ASSUME Init PROVE Parsing
  OBVIOUS
<1>1. /\ stack = <<>> /\ IsStack(stack) /\ Len(stack) = 0 /\ DOMAIN stack = {}
      /\ Len(stack) <= Limit
  <2>1. stack = <<>> /\ stack \in Seq({0}) /\ Len(stack) = 0
    BY EmptySeq DEF Init
  <2>2. IsStack(stack)
    BY <2>1, SeqIsStack
  <2>3. DOMAIN stack = 1..Len(stack)
    BY <2>2, StackIndices
  <2> QED
    BY <2>1, <2>2, <2>3, ConstantsAssumption
<1>2. text \in Seq(Token)
  <2>1. CASE ahead = Eof
    BY <2>1, EmptySeq DEF Init
  <2>2. CASE ahead # Eof
    <3>1. ahead \in Token /\ text = <<ahead>>
      BY <2>2 DEF Init
    <3> QED
      BY <3>1
  <2> QED
    BY <2>1, <2>2
<1> QED
  BY <1>1, <1>2
     DEF Init, Parsing, Lexed, Stacked, UnderTag, Guarded, NeverPastEnd, TagTakesNoSymbol, Mode

\* An error stops the parser where it is.
LEMMA FailParsing ==
    ASSUME Parsing, NEW what, Fail(what),
           what = "error" \/ (what = "recursion" /\ Len(stack) = Limit)
    PROVE  Parsing'
BY DEF Fail, Stay, Parsing, Lexed, Stacked, UnderTag, Guarded, NeverPastEnd,
       TagTakesNoSymbol, Top

\* A value other than a bare word is returned to whatever frame waits.
LEMMA ReturnParsing ==
    ASSUME Parsing, NEW v, Return(v), Bump \/ Stay, outcome = "reading",
           IsStack(stack'), \A i \in DOMAIN stack' : Framed(stack'[i]),
           Len(stack') <= Limit,
           stack' # <<>> /\ Top'.f = "tag" => v.is \notin {"null", "bool", "symbol"}
    PROVE  Parsing'
<1>1. text' \in Seq(Token) /\ ahead' \in Token \cup {Eof}
  BY BumpLexed DEF Parsing, Lexed, Stay
<1> QED
  BY <1>1
     DEF Return, Parsing, Lexed, Stacked, UnderTag, Guarded, NeverPastEnd,
         TagTakesNoSymbol, Top, Mode

\* A value is about to be read; what waits is unchanged.
LEMMA ValueParsing ==
    ASSUME Parsing, outcome = "reading", NEW tagged \in BOOLEAN, Go("value", tagged), Stay,
           UNCHANGED stack, ahead # Eof, tagged <=> stack # <<>> /\ Top.f = "tag"
    PROVE  Parsing'
BY DEF Go, Stay, Parsing, Lexed, Stacked, UnderTag, Guarded, NeverPastEnd,
       TagTakesNoSymbol, Top, Mode

\* The frame on top goes on to another part of itself, or is new there.
LEMMA HeadParsing ==
    ASSUME Parsing, outcome = "reading", Bump, NEW m, Go(m, FALSE),
           IsStack(stack'), \A i \in DOMAIN stack' : Framed(stack'[i]),
           stack' # <<>>, Len(stack') <= Limit,
           \/ m = "array" /\ Top'.f = "array"
           \/ m \in {"object", "colon", "member"} /\ Top'.f = "object"
    PROVE  Parsing'
<1>1. text' \in Seq(Token) /\ ahead' \in Token \cup {Eof}
  BY BumpLexed DEF Parsing, Lexed
<1> QED
  BY <1>1
     DEF Go, Parsing, Lexed, Stacked, UnderTag, Guarded, NeverPastEnd,
         TagTakesNoSymbol, Top, Mode

\* Every step keeps the frames, the tag flag and the guard.
LEMMA NextParsing == Parsing /\ [Next]_vars => Parsing'
<1> SUFFICES ASSUME Parsing, [Next]_vars PROVE Parsing'
  OBVIOUS
<1>0. /\ Stacked /\ Lexed /\ UnderTag /\ Guarded /\ NeverPastEnd /\ TagTakesNoSymbol
      /\ IsStack(stack) /\ Len(stack) \in Nat /\ DOMAIN stack = 1..Len(stack)
      /\ stack # <<>> <=> Len(stack) > 0
  BY StackIndices DEF Parsing, Stacked
<1>a. Limit \in Nat /\ Len(stack) \in Nat /\ Len(stack) <= Limit
  BY <1>0, ConstantsAssumption DEF Guarded
<1>1. Eof.t = "eof" /\ ~StartsValue(Eof)
  BY DEF Eof, StartsValue
<1>2. CASE EmptyDocument \/ TrailingContent \/ NoValueHere \/ TagOverSymbol
  BY <1>2, FailParsing DEF EmptyDocument, TrailingContent, NoValueHere, TagOverSymbol
<1>3. CASE Document
  BY <1>0, <1>3, ValueParsing DEF Document, Reading, Stacked
<1>4. CASE Finish
  BY <1>4
     DEF Finish, Stay, Parsing, Lexed, Stacked, UnderTag, Guarded, NeverPastEnd,
         TagTakesNoSymbol, Top
<1>5. CASE TooDeep
  <2>1. Len(stack) = Limit
    BY <1>5, <1>a DEF TooDeep
  <2> QED
    BY <1>5, <2>1, FailParsing DEF TooDeep
<1>6. CASE Scalar
  <2>1. [is |-> ahead.t, s |-> ahead.s].is \in {"str", "num"}
    BY <1>6 DEF Scalar
  <2> QED
    BY <1>0, <1>6, <2>1, ReturnParsing DEF Scalar, Entered, Reading, Stacked, Guarded
<1>7. CASE Open
  <2>0. outcome = "reading" /\ Len(stack) < Limit /\ Bump
    BY <1>7 DEF Open, Entered, Reading
  <2>1. outcome = "reading" /\ Len(stack) + 1 <= Limit /\ Bump
    BY <1>a, <2>0
  <2>2. CASE Push([f |-> "array", items |-> <<>>]) /\ Go("array", FALSE)
    <3> DEFINE fr == [f |-> "array", items |-> <<>>]
    <3>1. Framed(fr) /\ fr.f = "array"
      BY DEF Framed
    <3> HIDE DEF fr
    <3>2. Push(fr)
      BY <2>2 DEF fr
    <3> QED
      BY <1>0, <2>1, <2>2, <3>1, <3>2, PushFrame, HeadParsing
  <2>3. CASE Push([f |-> "object", pairs |-> <<>>, key |-> ""]) /\ Go("object", FALSE)
    <3> DEFINE fr == [f |-> "object", pairs |-> <<>>, key |-> ""]
    <3>1. Framed(fr) /\ fr.f = "object"
      BY DEF Framed
    <3> HIDE DEF fr
    <3>2. Push(fr)
      BY <2>3 DEF fr
    <3> QED
      BY <1>0, <2>1, <2>3, <3>1, <3>2, PushFrame, HeadParsing
  <2> QED
    BY <1>7, <2>2, <2>3 DEF Open
<1>8. CASE Identifier
  <2> DEFINE fr == [f |-> "tag", name |-> ahead.s]
  <2>1. /\ outcome = "reading" /\ mode = "value" /\ Len(stack) + 1 <= Limit
        /\ Bump /\ Push(fr) /\ Go("identifier", under)
    BY <1>8, <1>a DEF Identifier, Entered, Reading
  <2>2. Framed(fr) /\ fr.f = "tag"
    BY DEF Framed
  <2> HIDE DEF fr
  <2>3. /\ IsStack(stack') /\ \A i \in DOMAIN stack' : Framed(stack'[i])
        /\ stack' # <<>> /\ Top' = fr /\ Len(stack') = Len(stack) + 1
        /\ \A i \in DOMAIN stack : stack'[i] = stack[i]
    BY <1>0, <2>1, <2>2, PushFrame
  <2>4. text' \in Seq(Token) /\ ahead' \in Token \cup {Eof}
    BY <1>0, <2>1, BumpLexed DEF Lexed
  <2>5. under' <=> Len(stack') > 1 /\ stack'[Len(stack') - 1].f = "tag"
    <3>1. Len(stack') - 1 = Len(stack) /\ (Len(stack') > 1 <=> stack # <<>>)
      BY <1>0, <2>3
    <3>2. stack # <<>> => stack'[Len(stack)] = Top
      BY <1>0, <2>3, TopFramed DEF Top
    <3> QED
      BY <1>0, <2>1, <3>1, <3>2 DEF Go, UnderTag
  <2> QED
    BY <1>0, <2>1, <2>2, <2>3, <2>4, <2>5
       DEF Go, Parsing, Lexed, Stacked, UnderTag, Guarded, NeverPastEnd, TagTakesNoSymbol, Mode
<1>9. CASE Tag
  BY <1>0, <1>1, <1>9, ValueParsing DEF Tag, Reading, Stacked
<1>10. CASE Symbol
  <2>1. mode = "identifier" /\ outcome = "reading" /\ ~under /\ Stay /\ Pop /\ Return(Bare(Top.name))
    BY <1>10 DEF Symbol, Reading
  <2>2. stack # <<>>
    BY <1>0, <2>1 DEF Stacked
  <2>3. /\ IsStack(stack') /\ \A i \in DOMAIN stack' : Framed(stack'[i])
        /\ Len(stack') = Len(stack) - 1
        /\ \A i \in DOMAIN stack' : i \in DOMAIN stack /\ stack'[i] = stack[i]
    BY <1>0, <2>1, <2>2, PopFrame
  <2>4. ~(stack' # <<>> /\ Top'.f = "tag")
    <3> SUFFICES ASSUME stack' # <<>> PROVE Top'.f # "tag"
      OBVIOUS
    <3>1. Len(stack') > 0 /\ Len(stack') \in Nat /\ DOMAIN stack' = 1..Len(stack')
      BY <2>3, StackIndices
    <3>2. Len(stack) > 1 /\ Top' = stack[Len(stack) - 1]
      BY <1>0, <2>3, <3>1 DEF Top
    <3> QED
      BY <1>0, <2>1, <3>2 DEF UnderTag
  <2>5. Len(stack') <= Limit
    BY <1>a, <2>3
  <2> QED
    BY <2>1, <2>3, <2>4, <2>5, ReturnParsing
<1>11. ASSUME NEW v, v.is \in {"tagged", "array", "object"}, Return(v), Pop, Bump \/ Stay,
              outcome = "reading", stack # <<>>
       PROVE  Parsing'
  <2>1. /\ IsStack(stack') /\ \A i \in DOMAIN stack' : Framed(stack'[i])
        /\ Len(stack') = Len(stack) - 1
    BY <1>0, <1>11, PopFrame
  <2>2. Len(stack') <= Limit
    BY <1>a, <2>1
  <2> QED
    BY <1>11, <2>1, <2>2, ReturnParsing
<1>12. CASE Tagged
  <2> DEFINE v == [is |-> "tagged", tag |-> Top.name, of |-> val]
  <2>1. v.is = "tagged" /\ Return(v) /\ Pop /\ Stay /\ outcome = "reading" /\ stack # <<>>
    BY <1>12 DEF Tagged, Reading
  <2> HIDE DEF v
  <2> QED
    BY <1>11, <2>1
<1>13. ASSUME NEW items, outcome = "reading", stack # <<>>,
              Return([is |-> "array", items |-> items]), Pop, Bump
       PROVE  Parsing'
  <2> DEFINE v == [is |-> "array", items |-> items]
  <2>1. v.is = "array" /\ Return(v)
    BY <1>13
  <2> HIDE DEF v
  <2> QED
    BY <1>11, <1>13, <2>1
<1>14. ASSUME NEW pairs, outcome = "reading", stack # <<>>,
              Return([is |-> "object", pairs |-> pairs]), Pop, Bump
       PROVE  Parsing'
  <2> DEFINE v == [is |-> "object", pairs |-> pairs]
  <2>1. v.is = "object" /\ Return(v)
    BY <1>14
  <2> HIDE DEF v
  <2> QED
    BY <1>11, <1>14, <2>1
<1>15. CASE ArrayHead
  <2>1. mode = "array" /\ outcome = "reading" /\ stack # <<>> /\ Top.f = "array"
    BY <1>0, <1>15 DEF ArrayHead, Reading, Stacked
  <2>2. CASE Fail("error")
    BY <2>2, FailParsing
  <2>3. CASE Return([is |-> "array", items |-> Top.items]) /\ Pop /\ Bump
    BY <1>13, <2>1, <2>3
  <2>4. CASE ahead # Eof /\ Go("value", FALSE) /\ Stay /\ UNCHANGED stack
    BY <2>1, <2>4, ValueParsing
  <2> QED
    BY <1>15, <2>2, <2>3, <2>4 DEF ArrayHead
<1>16. ASSUME outcome = "reading", stack # <<>>, Bump, NEW fr, Framed(fr), Replace(fr),
              NEW m, Go(m, FALSE),
              \/ m = "array" /\ fr.f = "array"
              \/ m \in {"object", "colon", "member"} /\ fr.f = "object"
       PROVE  Parsing'
  <2>1. /\ IsStack(stack') /\ \A i \in DOMAIN stack' : Framed(stack'[i])
        /\ stack' # <<>> /\ Top' = fr /\ Len(stack') = Len(stack)
    BY <1>0, <1>16, ReplaceFrame
  <2>2. Len(stack') <= Limit
    BY <1>0, <2>1 DEF Guarded
  <2> QED
    BY <1>16, <2>1, <2>2, HeadParsing
<1>17. CASE ArrayItem
  <2>1. outcome = "reading" /\ stack # <<>> /\ Top.f = "array"
    BY <1>17 DEF ArrayItem, Reading
  <2> DEFINE items == Append(Top.items, val)
             fr == [Top EXCEPT !.items = items]
  <2>2. Framed(fr) /\ fr.f = "array"
    <3>1. Top = [f |-> "array", items |-> Top.items]
      BY <1>0, <2>1, TopFramed, FrameFields
    <3>2. fr = [f |-> "array", items |-> items]
      BY SMTT(20), <3>1
    <3> HIDE DEF items, fr
    <3> QED
      BY <3>2 DEF Framed
  <2>3. \/ Replace(fr) /\ Go("array", FALSE) /\ Bump
        \/ Return([is |-> "array", items |-> items]) /\ Pop /\ Bump
        \/ Fail("error")
    BY <1>17 DEF ArrayItem
  <2> HIDE DEF items, fr
  <2>4. CASE Replace(fr) /\ Go("array", FALSE) /\ Bump
    BY <1>16, <2>1, <2>2, <2>4
  <2>5. CASE Return([is |-> "array", items |-> items]) /\ Pop /\ Bump
    BY <1>13, <2>1, <2>5
  <2> QED
    BY <2>3, <2>4, <2>5, FailParsing
<1>18. CASE ObjectHead
  <2>1. mode = "object" /\ outcome = "reading" /\ stack # <<>> /\ Top.f = "object"
    BY <1>0, <1>18 DEF ObjectHead, Reading, Stacked
  <2> DEFINE fr == [Top EXCEPT !.key = ahead.s]
  <2>2. Framed(fr) /\ fr.f = "object"
    <3>1. Top = [f |-> "object", pairs |-> Top.pairs, key |-> Top.key]
      BY <1>0, <2>1, TopFramed, FrameFields
    <3>2. fr = [f |-> "object", pairs |-> Top.pairs, key |-> ahead.s]
      BY <3>1
    <3> HIDE DEF fr
    <3> QED
      BY <3>2 DEF Framed
  <2>3. \/ Return([is |-> "object", pairs |-> Top.pairs]) /\ Pop /\ Bump
        \/ Replace(fr) /\ Go("colon", FALSE) /\ Bump
        \/ Fail("error")
    BY <1>18 DEF ObjectHead
  <2> HIDE DEF fr
  <2>4. CASE Replace(fr) /\ Go("colon", FALSE) /\ Bump
    BY <1>16, <2>1, <2>2, <2>4
  <2>5. CASE Return([is |-> "object", pairs |-> Top.pairs]) /\ Pop /\ Bump
    BY <1>14, <2>1, <2>5
  <2> QED
    BY <2>3, <2>4, <2>5, FailParsing
<1>19. CASE Colon
  <2>1. mode = "colon" /\ outcome = "reading" /\ stack # <<>> /\ Top.f = "object"
    BY <1>0, <1>19 DEF Colon, Reading, Stacked
  <2>2. CASE Go("member", FALSE) /\ Bump /\ UNCHANGED stack
    BY <1>0, <2>1, <2>2, HeadParsing DEF Stacked, Guarded, Top
  <2> QED
    BY <1>19, <2>2, FailParsing DEF Colon
<1>20. CASE Member
  <2>1. mode = "member" /\ outcome = "reading" /\ stack # <<>> /\ Top.f = "object"
    BY <1>0, <1>20 DEF Member, Reading, Stacked
  <2>2. CASE ahead # Eof /\ Go("value", FALSE) /\ Stay /\ UNCHANGED stack
    BY <2>1, <2>2, ValueParsing
  <2> QED
    BY <1>20, <2>2, FailParsing DEF Member
<1>21. CASE ObjectItem
  <2>1. outcome = "reading" /\ stack # <<>> /\ Top.f = "object"
    BY <1>21 DEF ObjectItem, Reading
  <2> DEFINE pairs == SetItem(Top.pairs, Top.key, val)
             fr == [Top EXCEPT !.pairs = pairs]
  <2>2. Framed(fr) /\ fr.f = "object"
    <3> HIDE DEF pairs
    <3>1. Top = [f |-> "object", pairs |-> Top.pairs, key |-> Top.key]
      BY <1>0, <2>1, TopFramed, FrameFields
    <3>2. fr = [f |-> "object", pairs |-> pairs, key |-> Top.key]
      BY <3>1
    <3> HIDE DEF fr
    <3> QED
      BY <3>2 DEF Framed
  <2>3. \/ Replace(fr) /\ Go("object", FALSE) /\ Bump
        \/ Return([is |-> "object", pairs |-> pairs]) /\ Pop /\ Bump
        \/ Fail("error")
    BY <1>21 DEF ObjectItem
  <2> HIDE DEF pairs, fr
  <2>4. CASE Replace(fr) /\ Go("object", FALSE) /\ Bump
    BY <1>16, <2>1, <2>2, <2>4
  <2>5. CASE Return([is |-> "object", pairs |-> pairs]) /\ Pop /\ Bump
    BY <1>14, <2>1, <2>5
  <2> QED
    BY <2>3, <2>4, <2>5, FailParsing
<1>22. CASE Stopped \/ UNCHANGED vars
  BY <1>22
     DEF Stopped, vars, Parsing, Lexed, Stacked, UnderTag, Guarded, NeverPastEnd,
         TagTakesNoSymbol, Top
<1> QED
  BY <1>2, <1>3, <1>4, <1>5, <1>6, <1>7, <1>8, <1>9, <1>10, <1>12, <1>15, <1>17, <1>18,
     <1>19, <1>20, <1>21, <1>22
     DEF Next
-----------------------------------------------------------------------------
(* The rules, one by one, and that a longer text spells what it did.       *)

LEMMA Steps ==
    ASSUME NEW s, NEW R, Closed(s, R)
    PROVE  /\ Scalars(s) \subseteq R /\ Words(s) \subseteq R
           /\ Brackets(s) \subseteq R /\ Braces(s) \subseteq R /\ Applied(s, R) \subseteq R
           /\ MoreItems(s, R) \subseteq R /\ Arrays(s, R) \subseteq R
           /\ MorePairs(s, R) \subseteq R /\ Objects(s, R) \subseteq R
BY DEF Closed, Yield

LEMMA LedScalar ==
    ASSUME NEW s, NEW i \in DOMAIN s, s[i].t \in {"str", "num"}
    PROVE  Led(s, "value", i, i + 1, [is |-> s[i].t, s |-> s[i].s])
BY Steps DEF Led, Scalars, Places

LEMMA LedWord ==
    ASSUME NEW s, NEW i \in DOMAIN s, s[i].t = "id"
    PROVE  Led(s, "value", i, i + 1, Bare(s[i].s))
BY Steps DEF Led, Words, Places

LEMMA LedOpen ==
    ASSUME NEW s, NEW i \in DOMAIN s
    PROVE  /\ s[i].t = "[" => Led(s, "items", i, i + 1, <<>>)
           /\ s[i].t = "{" => Led(s, "pairs", i, i + 1, <<>>)
BY Steps DEF Led, Brackets, Braces, Places

LEMMA LedTagged ==
    ASSUME NEW s, NEW i \in DOMAIN s, i \in Nat, s[i].t = "id", NEW j, NEW v,
           Led(s, "value", i + 1, j, v), v.is \notin BareParts
    PROVE  Led(s, "value", i, j, [is |-> "tagged", tag |-> s[i].s, of |-> v])
<1> SUFFICES ASSUME NEW R, Closed(s, R)
             PROVE  Fact("value", i, j, [is |-> "tagged", tag |-> s[i].s, of |-> v]) \in R
  BY DEF Led
<1> DEFINE x == Fact("value", i + 1, j, v)
<1>1. /\ x \in R /\ x[1] = "value" /\ x[2] - 1 = i /\ x[3] = j /\ x[4] = v
  BY DEF Led, Fact
<1> HIDE DEF x
<1>2. x \in {y \in Values(R) : y[4].is \notin BareParts /\ y[2] - 1 \in Places(s, {"id"})}
  BY <1>1 DEF Values, Places
<1>3. Fact("value", x[2] - 1, x[3], [is |-> "tagged", tag |-> s[x[2] - 1].s, of |-> x[4]]) \in R
  BY <1>2, Steps DEF Applied
<1> QED
  BY <1>1, <1>3

\* An element, and a member, with what follows it.
LEMMA ElementFact ==
    ASSUME NEW s, NEW R, Closed(s, R)
    PROVE  \A a, b, vs, v : \A c \in DOMAIN s :
               Led(s, "items", a, b, vs) /\ Led(s, "value", b, c, v) =>
                   \E e \in Elements(s, R, s[c].t) :
                       e[1][2] = a /\ e[2][3] = c /\ Extended(e) = Append(vs, v)
<1> TAKE a, b, vs, v
<1> TAKE c \in DOMAIN s
<1> HAVE Led(s, "items", a, b, vs) /\ Led(s, "value", b, c, v)
<1> DEFINE x == Fact("items", a, b, vs)
           y == Fact("value", b, c, v)
<1>1. /\ x \in R /\ x[1] = "items" /\ x[2] = a /\ x[3] = b /\ x[4] = vs
      /\ y \in R /\ y[1] = "value" /\ y[2] = b /\ y[3] = c /\ y[4] = v
  BY DEF Led, Fact
<1> HIDE DEF x, y
<1> DEFINE e == <<x, y>>
<1>2. e \in OpenArrays(R) \X Values(R) /\ e[1] = x /\ e[2] = y
  BY <1>1 DEF OpenArrays, Values
<1> HIDE DEF e
<1>3. e \in Elements(s, R, s[c].t)
  BY <1>1, <1>2 DEF Elements, Places
<1> QED
  BY <1>1, <1>2, <1>3 DEF Extended

LEMMA MemberFact ==
    ASSUME NEW s, NEW R, Closed(s, R)
    PROVE  \A a, ps, v : \A k, c \in DOMAIN s :
               /\ s[k].t \in {"str", "id"} /\ k + 1 \in DOMAIN s /\ s[k + 1].t = ":"
               /\ Led(s, "pairs", a, k, ps) /\ Led(s, "value", k + 2, c, v)
               => \E e \in Keyed(s, R, s[c].t) :
                      e[1][2] = a /\ e[2][3] = c /\ Updated(s, e) = SetItem(ps, s[k].s, v)
<1> TAKE a, ps, v
<1> TAKE k, c \in DOMAIN s
<1> HAVE /\ s[k].t \in {"str", "id"} /\ k + 1 \in DOMAIN s /\ s[k + 1].t = ":"
         /\ Led(s, "pairs", a, k, ps) /\ Led(s, "value", k + 2, c, v)
<1> DEFINE x == Fact("pairs", a, k, ps)
           y == Fact("value", k + 2, c, v)
<1>1. /\ x \in R /\ x[1] = "pairs" /\ x[2] = a /\ x[3] = k /\ x[4] = ps
      /\ y \in R /\ y[1] = "value" /\ y[2] = k + 2 /\ y[3] = c /\ y[4] = v
  BY DEF Led, Fact
<1> HIDE DEF x, y
<1> DEFINE e == <<x, y>>
<1>2. e \in OpenObjects(R) \X Values(R) /\ e[1] = x /\ e[2] = y
  BY <1>1 DEF OpenObjects, Values
<1> HIDE DEF e
<1>3. e \in Keyed(s, R, s[c].t)
  BY <1>1, <1>2 DEF Keyed, Places
<1> QED
  BY <1>1, <1>2, <1>3 DEF Updated

LEMMA LedItem ==
    ASSUME NEW s, NEW a, NEW b, NEW c \in DOMAIN s, NEW vs, NEW v,
           Led(s, "items", a, b, vs), Led(s, "value", b, c, v)
    PROVE  /\ s[c].t = "," => Led(s, "items", a, c + 1, Append(vs, v))
           /\ s[c].t = "]" =>
                Led(s, "value", a, c + 1, [is |-> "array", items |-> Append(vs, v)])
<1>0. \A R : Closed(s, R) => \E e \in Elements(s, R, s[c].t) :
                                 e[1][2] = a /\ e[2][3] = c /\ Extended(e) = Append(vs, v)
  BY ElementFact
<1>1. ASSUME NEW R, Closed(s, R), s[c].t = ","
      PROVE  Fact("items", a, c + 1, Append(vs, v)) \in R
  <2>1. PICK e \in Elements(s, R, ",") :
            e[1][2] = a /\ e[2][3] = c /\ Extended(e) = Append(vs, v)
    BY <1>0, <1>1
  <2>2. Fact("items", e[1][2], e[2][3] + 1, Extended(e)) \in R
    BY <1>1, Steps DEF MoreItems
  <2> QED
    BY <2>1, <2>2
<1>2. ASSUME NEW R, Closed(s, R), s[c].t = "]"
      PROVE  Fact("value", a, c + 1, [is |-> "array", items |-> Append(vs, v)]) \in R
  <2>1. PICK e \in Elements(s, R, "]") :
            e[1][2] = a /\ e[2][3] = c /\ Extended(e) = Append(vs, v)
    BY <1>0, <1>2
  <2>2. Fact("value", e[1][2], e[2][3] + 1, [is |-> "array", items |-> Extended(e)]) \in R
    BY <1>2, Steps DEF Arrays
  <2> QED
    BY <2>1, <2>2
<1> QED
  BY <1>1, <1>2 DEF Led

LEMMA LedMember ==
    ASSUME NEW s, NEW a, NEW k \in DOMAIN s, NEW c \in DOMAIN s, NEW ps, NEW v,
           Led(s, "pairs", a, k, ps), Led(s, "value", k + 2, c, v),
           s[k].t \in {"str", "id"}, k + 1 \in DOMAIN s, s[k + 1].t = ":"
    PROVE  /\ s[c].t = "," => Led(s, "pairs", a, c + 1, SetItem(ps, s[k].s, v))
           /\ s[c].t = "}" =>
                Led(s, "value", a, c + 1, [is |-> "object", pairs |-> SetItem(ps, s[k].s, v)])
<1>0. \A R : Closed(s, R) => \E e \in Keyed(s, R, s[c].t) :
                  e[1][2] = a /\ e[2][3] = c /\ Updated(s, e) = SetItem(ps, s[k].s, v)
  BY MemberFact
<1> DEFINE u == SetItem(ps, s[k].s, v)
<1>1. ASSUME NEW R, Closed(s, R), s[c].t = "," PROVE Fact("pairs", a, c + 1, u) \in R
  <2>1. PICK e \in Keyed(s, R, ",") : e[1][2] = a /\ e[2][3] = c /\ Updated(s, e) = u
    BY <1>0, <1>1
  <2>2. Fact("pairs", e[1][2], e[2][3] + 1, Updated(s, e)) \in R
    <3>1. Fact("pairs", e[1][2], e[2][3] + 1, Updated(s, e)) \in MorePairs(s, R)
      BY DEF MorePairs
    <3> QED
      BY <1>1, <3>1, Steps
  <2> QED
    BY <2>1, <2>2
<1>2. ASSUME NEW R, Closed(s, R), s[c].t = "}"
      PROVE  Fact("value", a, c + 1, [is |-> "object", pairs |-> u]) \in R
  <2>1. PICK e \in Keyed(s, R, "}") : e[1][2] = a /\ e[2][3] = c /\ Updated(s, e) = u
    BY <1>0, <1>2
  <2>2. Fact("value", e[1][2], e[2][3] + 1, [is |-> "object", pairs |-> Updated(s, e)]) \in R
    <3>1. Fact("value", e[1][2], e[2][3] + 1, [is |-> "object", pairs |-> Updated(s, e)])
              \in Objects(s, R)
      BY DEF Objects
    <3> QED
      BY <1>2, <3>1, Steps
  <2> QED
    BY <2>1, <2>2
<1> QED
  BY <1>1, <1>2 DEF Led

\* An array and an object that a bracket ends at once.
LEMMA LedEnd ==
    ASSUME NEW s, NEW a, NEW c \in DOMAIN s, NEW w
    PROVE  /\ s[c].t = "]" /\ Led(s, "items", a, c, w)
                => Led(s, "value", a, c + 1, [is |-> "array", items |-> w])
           /\ s[c].t = "}" /\ Led(s, "pairs", a, c, w)
                => Led(s, "value", a, c + 1, [is |-> "object", pairs |-> w])
<1>1. ASSUME NEW R, Closed(s, R), s[c].t = "]", Led(s, "items", a, c, w)
      PROVE  Fact("value", a, c + 1, [is |-> "array", items |-> w]) \in R
  <2> DEFINE x == Fact("items", a, c, w)
  <2>1. x \in R /\ x[1] = "items" /\ x[2] = a /\ x[3] = c /\ x[4] = w
    BY <1>1 DEF Led, Fact
  <2> HIDE DEF x
  <2>2. x \in {y \in OpenArrays(R) : y[3] \in Places(s, {"]"})}
    BY <1>1, <2>1 DEF OpenArrays, Places
  <2>3. Fact("value", x[2], x[3] + 1, [is |-> "array", items |-> x[4]]) \in R
    BY <1>1, <2>2, Steps DEF Arrays
  <2> QED
    BY <2>1, <2>3
<1>2. ASSUME NEW R, Closed(s, R), s[c].t = "}", Led(s, "pairs", a, c, w)
      PROVE  Fact("value", a, c + 1, [is |-> "object", pairs |-> w]) \in R
  <2> DEFINE x == Fact("pairs", a, c, w)
  <2>1. x \in R /\ x[1] = "pairs" /\ x[2] = a /\ x[3] = c /\ x[4] = w
    BY <1>2 DEF Led, Fact
  <2> HIDE DEF x
  <2>2. x \in {y \in OpenObjects(R) : y[3] \in Places(s, {"}"})}
    BY <1>2, <2>1 DEF OpenObjects, Places
  <2>3. Fact("value", x[2], x[3] + 1, [is |-> "object", pairs |-> x[4]]) \in R
    BY <1>2, <2>2, Steps DEF Objects
  <2> QED
    BY <2>1, <2>3
<1> QED
  BY <1>1, <1>2 DEF Led

\* A text spells on what its beginning spells.
LEMMA LedOnwards ==
    ASSUME NEW s, NEW u, \A i \in DOMAIN s : i \in DOMAIN u /\ u[i] = s[i],
           NEW part, NEW a, NEW b, NEW w, Led(s, part, a, b, w)
    PROVE  Led(u, part, a, b, w)
<1> SUFFICES ASSUME NEW R, Closed(u, R) PROVE Closed(s, R)
  BY DEF Led
<1>1. \A kinds : \A i \in Places(s, kinds) : i \in Places(u, kinds) /\ u[i] = s[i]
  BY DEF Places
<1>2. \A kind : Elements(s, R, kind) \subseteq Elements(u, R, kind)
  BY <1>1 DEF Elements
<1>3. \A kind : \A e \in Keyed(s, R, kind) : e \in Keyed(u, R, kind) /\ Updated(u, e) = Updated(s, e)
  BY <1>1 DEF Keyed, Updated
<1>4. Scalars(s) \subseteq R /\ Words(s) \subseteq R
  BY <1>1, Steps DEF Scalars, Words
<1>5. Brackets(s) \subseteq R /\ Braces(s) \subseteq R
  BY <1>1, Steps DEF Brackets, Braces
<1>6. Applied(s, R) \subseteq R
  <2> DEFINE given(t) == {y \in Values(R) : y[4].is \notin BareParts /\ y[2] - 1 \in Places(t, {"id"})}
  <2> SUFFICES ASSUME NEW x \in given(s)
               PROVE  Fact("value", x[2] - 1, x[3],
                           [is |-> "tagged", tag |-> s[x[2] - 1].s, of |-> x[4]]) \in R
    BY DEF Applied
  <2>1. x \in given(u) /\ u[x[2] - 1] = s[x[2] - 1]
    BY <1>1
  <2>2. Fact("value", x[2] - 1, x[3], [is |-> "tagged", tag |-> u[x[2] - 1].s, of |-> x[4]]) \in R
    BY <2>1, Steps DEF Applied
  <2> QED
    BY <2>1, <2>2
<1>7. MoreItems(s, R) \subseteq R
  <2>1. MoreItems(s, R) \subseteq MoreItems(u, R)
    BY <1>2 DEF MoreItems
  <2> QED
    BY <2>1, Steps
<1>8. Arrays(s, R) \subseteq R
  <2>1. Arrays(s, R) \subseteq Arrays(u, R)
    BY <1>1, <1>2 DEF Arrays
  <2> QED
    BY <2>1, Steps
<1>9. MorePairs(s, R) \subseteq R
  <2> SUFFICES ASSUME NEW e \in Keyed(s, R, ",")
               PROVE  Fact("pairs", e[1][2], e[2][3] + 1, Updated(s, e)) \in R
    BY DEF MorePairs
  <2>1. e \in Keyed(u, R, ",") /\ Updated(u, e) = Updated(s, e)
    BY <1>3
  <2>2. Fact("pairs", e[1][2], e[2][3] + 1, Updated(u, e)) \in R
    BY <2>1, Steps DEF MorePairs
  <2> QED
    BY <2>1, <2>2
<1>10. Objects(s, R) \subseteq R
  <2>1. ASSUME NEW e \in Keyed(s, R, "}")
        PROVE  Fact("value", e[1][2], e[2][3] + 1, [is |-> "object", pairs |-> Updated(s, e)]) \in R
    <3>1. e \in Keyed(u, R, "}") /\ Updated(u, e) = Updated(s, e)
      BY <1>3
    <3>2. Fact("value", e[1][2], e[2][3] + 1, [is |-> "object", pairs |-> Updated(u, e)]) \in R
      BY <3>1, Steps DEF Objects
    <3> QED
      BY <3>1, <3>2
  <2>2. ASSUME NEW x \in {y \in OpenObjects(R) : y[3] \in Places(s, {"}"})}
        PROVE  Fact("value", x[2], x[3] + 1, [is |-> "object", pairs |-> x[4]]) \in R
    <3>1. x \in {y \in OpenObjects(R) : y[3] \in Places(u, {"}"})}
      BY <1>1, <2>2
    <3> QED
      BY <3>1, Steps DEF Objects
  <2> QED
    BY <2>1, <2>2 DEF Objects
<1> QED
  BY <1>4, <1>5, <1>6, <1>7, <1>8, <1>9, <1>10 DEF Closed, Yield
-----------------------------------------------------------------------------
(* Each waiting frame began at some place of the text, and what was scanned *)
(* from there up to where the next one began is what the frame holds. The   *)
(* operators take the state apart, so that a lemma speaks of any two texts  *)
(* and any stack.                                                           *)

\* The place of the token ahead.
Here == IF ahead = Eof THEN Len(text) + 1 ELSE Len(text)
InText == ahead # Eof => Len(text) > 0 /\ text[Len(text)] = ahead

\* A text that another begins with.
Begins(s, u) == \A i \in DOMAIN s : i \in DOMAIN u /\ u[i] = s[i]

\* The members of an object up to a key, and the key; up to the key's colon; and
\* a tag up to its argument.
AtKey(s, fr, a, k) ==
    /\ Led(s, "pairs", a, k, fr.pairs)
    /\ k \in DOMAIN s /\ s[k].t \in {"str", "id"} /\ s[k].s = fr.key
AfterColon(s, fr, a, b) ==
    \E k \in DOMAIN s :
        AtKey(s, fr, a, k) /\ k + 1 \in DOMAIN s /\ s[k + 1].t = ":" /\ b = k + 2
AfterTag(s, fr, a, b) ==
    a \in DOMAIN s /\ s[a].t = "id" /\ s[a].s = fr.name /\ b = a + 1

\* A frame that began at a place waits for the value that begins at another.
Waiting(s, fr, a, b) ==
    \/ fr.f = "tag" /\ AfterTag(s, fr, a, b)
    \/ fr.f = "array" /\ Led(s, "items", a, b, fr.items)
    \/ fr.f = "object" /\ AfterColon(s, fr, a, b)

\* The innermost frame, that began at a place, is at its own tokens.
Heading(s, m, fr, a, h) ==
    \/ m = "identifier" /\ AfterTag(s, fr, a, h)
    \/ m = "array" /\ Led(s, "items", a, h, fr.items)
    \/ m = "object" /\ Led(s, "pairs", a, h, fr.pairs)
    \/ m = "colon" /\ \E k \in DOMAIN s : AtKey(s, fr, a, k) /\ h = k + 1
    \/ m = "member" /\ AfterColon(s, fr, a, h)
Heads == {"identifier", "array", "object", "colon", "member"}

\* Where the frames began: the first at the first token, and each of the first n
\* frames waits for what began at the place after its own.
Below(s, st, n, p) == p[1] = 1 /\ \A i \in 1..n : Waiting(s, st[i], p[i], p[i + 1])

Starts(s, st, m, h, v, p) ==
    /\ m \in {"document", "value", "return"} => Below(s, st, Len(st), p)
    /\ m \in {"document", "value"} => p[Len(st) + 1] = h
    /\ m = "return" => Led(s, "value", p[Len(st) + 1], h, v)
    /\ m \in Heads =>
          Below(s, st, Len(st) - 1, p) /\ Heading(s, m, st[Len(st)], p[Len(st)], h)

Finished == outcome = "value" => mode = "return" /\ stack = <<>> /\ ahead = Eof
Spelled ==
    InText /\ Finished /\ \E p \in [Nat -> Nat] : Starts(text, stack, mode, Here, val, p)

\* What is found in a text is found in a longer one.
LEMMA WaitingOnwards ==
    ASSUME NEW s, NEW u, Begins(s, u)
    PROVE  /\ \A fr, a, b : Waiting(s, fr, a, b) => Waiting(u, fr, a, b)
           /\ \A fr, a, k : AtKey(s, fr, a, k) => AtKey(u, fr, a, k)
           /\ \A fr, a, b : AfterColon(s, fr, a, b) => AfterColon(u, fr, a, b)
           /\ \A fr, a, b : AfterTag(s, fr, a, b) => AfterTag(u, fr, a, b)
           /\ \A part, a, b, w : Led(s, part, a, b, w) => Led(u, part, a, b, w)
<1>1. \A part, a, b, w : Led(s, part, a, b, w) => Led(u, part, a, b, w)
  BY LedOnwards DEF Begins
<1>2. \A fr, a, k : AtKey(s, fr, a, k) => AtKey(u, fr, a, k)
  BY <1>1 DEF Begins, AtKey
<1>3. \A fr, a, b : AfterColon(s, fr, a, b) => AfterColon(u, fr, a, b)
  BY <1>2 DEF Begins, AfterColon
<1>4. \A fr, a, b : AfterTag(s, fr, a, b) => AfterTag(u, fr, a, b)
  BY DEF Begins, AfterTag
<1>5. \A fr, a, b : Waiting(s, fr, a, b) => Waiting(u, fr, a, b)
  BY <1>1, <1>3, <1>4 DEF Waiting
<1> QED
  BY <1>1, <1>2, <1>3, <1>4, <1>5

LEMMA BelowOnwards ==
    ASSUME NEW s, NEW u, Begins(s, u), NEW st, NEW st2, NEW n \in Int, NEW p,
           NEW m \in Int, n <= m, Below(s, st, m, p), \A i \in 1..n : st2[i] = st[i]
    PROVE  Below(u, st2, n, p)
<1>1. ASSUME NEW i \in 1..n PROVE Waiting(u, st2[i], p[i], p[i + 1])
  <2>1. i \in 1..m /\ st2[i] = st[i]
    OBVIOUS
  <2>2. Waiting(s, st[i], p[i], p[i + 1])
    BY <2>1 DEF Below
  <2> QED
    BY <2>1, <2>2, WaitingOnwards
<1> QED
  BY <1>1 DEF Below

\* The value that a frame goes on to wait for begins at a place.
LEMMA PlaceValue ==
    ASSUME NEW s, NEW st, NEW n \in Nat, NEW p \in [Nat -> Nat], NEW h \in Nat,
           Below(s, st, n - 1, p), n > 0, Waiting(s, st[n], p[n], h)
    PROVE  \E q \in [Nat -> Nat] : Below(s, st, n, q) /\ q[n + 1] = h
<1> DEFINE q == [p EXCEPT ![n + 1] = h]
<1>1. q \in [Nat -> Nat] /\ q[n + 1] = h /\ \A i \in 1..n : q[i] = p[i]
  OBVIOUS
<1> HIDE DEF q
<1>2. q[1] = 1
  BY <1>1 DEF Below
<1>3. ASSUME NEW i \in 1..n PROVE Waiting(s, st[i], q[i], q[i + 1])
  <2>1. CASE i = n
    BY <1>1, <2>1
  <2>2. CASE i # n
    <3>1. i \in 1..(n - 1) /\ q[i] = p[i] /\ q[i + 1] = p[i + 1]
      BY <1>1, <2>2
    <3> QED
      BY <3>1 DEF Below
  <2> QED
    BY <2>1, <2>2
<1> QED
  BY <1>1, <1>2, <1>3 DEF Below

\* The token ahead is the last of the text, and the next one comes after it.
LEMMA BumpOnwards ==
    ASSUME Lexed, InText, ahead # Eof, Bump
    PROVE  /\ Begins(text, text') /\ InText' /\ Here' = Here + 1 /\ Here \in Nat
           /\ Here \in DOMAIN text' /\ text'[Here] = ahead
<1>1. /\ text \in Seq(Token) /\ Len(text) \in Nat /\ DOMAIN text = 1..Len(text)
      /\ Len(text) > 0 /\ text[Len(text)] = ahead /\ Here = Len(text)
  BY LenProperties DEF Lexed, InText, Here
<1>2. Eof \notin Token
  BY DEF Eof, Token, Mark
<1>3. CASE ahead' = Eof /\ UNCHANGED text
  BY <1>1, <1>3 DEF Begins, InText, Here
<1>4. ASSUME NEW k \in Token, ahead' = k, text' = Append(text, k)
      PROVE  /\ Begins(text, text') /\ InText' /\ Here' = Here + 1
             /\ Here \in DOMAIN text' /\ text'[Here] = ahead
  <2>1. /\ Len(text') = Len(text) + 1 /\ text'[Len(text) + 1] = k
        /\ \A i \in 1..Len(text) : text'[i] = text[i]
    BY <1>1, <1>4, AppendProperties
  <2>2. DOMAIN text' = 1..Len(text')
    BY <1>1, <1>4, AppendProperties, LenProperties
  <2>3. ahead' # Eof
    BY <1>2, <1>4
  <2>4. Begins(text, text')
    BY <1>1, <2>1, <2>2 DEF Begins
  <2>5. Len(text') > 0 /\ text'[Len(text')] = ahead'
    BY <1>1, <1>4, <2>1
  <2>6. Here' = Len(text')
    BY <2>3 DEF Here
  <2>7. Here \in DOMAIN text' /\ text'[Here] = ahead
    BY <1>1, <2>1, <2>2
  <2> QED
    BY <1>1, <2>1, <2>4, <2>5, <2>6, <2>7 DEF InText
<1> QED
  BY <1>1, <1>3, <1>4 DEF Bump

LEMMA StayOnwards ==
    ASSUME Stay, InText, Lexed
    PROVE  Begins(text, text') /\ InText' /\ Here' = Here /\ Here \in Nat
BY LenProperties DEF Stay, Begins, InText, Here, Lexed
-----------------------------------------------------------------------------
(* What a step does to the places.                                         *)

\* The frame on top has become a value that begins where it did.
LEMMA PopSpelled ==
    ASSUME Parsing, stack # <<>>, Pop, NEW p \in [Nat -> Nat],
           Below(text, stack, Len(stack) - 1, p),
           Begins(text, text'), InText', NEW v, Return(v), outcome = "reading",
           Led(text', "value", p[Len(stack)], Here', v)
    PROVE  Spelled'
<1>1. /\ Len(stack') = Len(stack) - 1 /\ Len(stack) \in Nat
      /\ \A i \in 1..Len(stack') : stack'[i] = stack[i]
      /\ Len(stack') \in Nat
  <2>1. /\ IsStack(stack') /\ Len(stack') = Len(stack) - 1
        /\ \A i \in DOMAIN stack' : i \in DOMAIN stack /\ stack'[i] = stack[i]
    BY PopFrame DEF Parsing
  <2> QED
    BY <2>1, StackIndices DEF Parsing, Stacked
<1> DEFINE n == Len(stack) - 1
<1>2. Below(text', stack', Len(stack'), p)
  <2>1. n \in Int /\ n <= n /\ Len(stack') = n /\ \A i \in 1..n : stack'[i] = stack[i]
    BY <1>1
  <2>2. Below(text, stack, n, p)
    OBVIOUS
  <2> HIDE DEF n
  <2>3. Below(text', stack', n, p)
    BY <2>1, <2>2, BelowOnwards
  <2> QED
    BY <2>1, <2>3
<1>3. Len(stack') + 1 = Len(stack)
  BY <1>1
<1>4. mode' = "return" /\ val' = v /\ Finished'
  BY DEF Return, Finished
<1>5. Starts(text', stack', mode', Here', val', p)
  BY <1>2, <1>3, <1>4 DEF Starts, Heads
<1> QED
  BY <1>4, <1>5 DEF Spelled

\* The frame on top is at its own tokens.
LEMMA HeadSpelled ==
    ASSUME Parsing, NEW p \in [Nat -> Nat], Below(text', stack', Len(stack') - 1, p),
           InText', outcome = "reading", NEW m \in Heads, NEW tagged, Go(m, tagged),
           Heading(text', m, Top', p[Len(stack')], Here')
    PROVE  Spelled'
<1>1. mode' = m /\ Finished'
  BY DEF Go, Finished
<1>2. Starts(text', stack', mode', Here', val', p)
  BY <1>1 DEF Starts, Heads, Top
<1> QED
  BY <1>1, <1>2 DEF Spelled

\* A value begins at the token ahead, for the frame on top.
LEMMA ValueSpelled ==
    ASSUME Parsing, InText, stack # <<>>, NEW p \in [Nat -> Nat],
           Below(text, stack, Len(stack) - 1, p), Waiting(text, Top, p[Len(stack)], Here),
           outcome = "reading", NEW tagged, Go("value", tagged), Stay, UNCHANGED stack
    PROVE  Spelled'
<1>1. Len(stack) \in Nat /\ Len(stack) > 0
  BY StackIndices DEF Parsing, Stacked
<1>2. text' = text /\ InText' /\ Here' = Here /\ Here \in Nat
  BY StayOnwards DEF Parsing, Stay
<1>3. \E q \in [Nat -> Nat] : Below(text, stack, Len(stack), q) /\ q[Len(stack) + 1] = Here
  <2> DEFINE n == Len(stack)
             h == Here
  <2>1. n \in Nat /\ n > 0 /\ h \in Nat
    BY <1>1, <1>2
  <2>2. Below(text, stack, n - 1, p) /\ Waiting(text, stack[n], p[n], h)
    BY DEF Top
  <2> HIDE DEF n, h
  <2>3. \E q \in [Nat -> Nat] : Below(text, stack, n, q) /\ q[n + 1] = h
    BY ONLY SMTT(20), <2>1, <2>2, p \in [Nat -> Nat], PlaceValue
  <2> QED
    BY <2>3 DEF n, h
<1>4. mode' = "value" /\ Finished'
  BY DEF Go, Finished
<1>5. ASSUME NEW q \in [Nat -> Nat], Below(text, stack, Len(stack), q), q[Len(stack) + 1] = Here
      PROVE  Starts(text', stack', mode', Here', val', q)
  BY <1>2, <1>4, <1>5 DEF Starts, Heads
<1> QED
  BY <1>2, <1>3, <1>4, <1>5 DEF Spelled

\* A frame more, that began at the token before the one ahead.
LEMMA PushSpelled ==
    ASSUME Parsing, NEW p \in [Nat -> Nat], Below(text, stack, Len(stack), p),
           Begins(text, text'), InText', outcome = "reading", NEW m \in Heads, NEW tagged,
           Go(m, tagged), NEW fr, Framed(fr), Push(fr),
           Heading(text', m, fr, p[Len(stack) + 1], Here')
    PROVE  Spelled'
<1>1. /\ Len(stack') = Len(stack) + 1 /\ Top' = fr /\ Len(stack) \in Nat
      /\ \A i \in 1..Len(stack) : stack'[i] = stack[i]
  BY PushFrame, StackIndices DEF Parsing, Stacked
<1> DEFINE n == Len(stack)
<1>2. Below(text', stack', n, p)
  <2>1. n \in Int /\ n <= n /\ \A i \in 1..n : stack'[i] = stack[i]
    BY <1>1
  <2>2. Below(text, stack, n, p)
    OBVIOUS
  <2> HIDE DEF n
  <2> QED
    BY <2>1, <2>2, BelowOnwards
<1>3. Len(stack') - 1 = Len(stack)
  BY <1>1
<1> QED
  BY <1>1, <1>2, <1>3, HeadSpelled

\* The frame on top changed, where it began.
LEMMA ReplaceSpelled ==
    ASSUME Parsing, stack # <<>>, NEW p \in [Nat -> Nat],
           Below(text, stack, Len(stack) - 1, p),
           Begins(text, text'), InText', outcome = "reading", NEW m \in Heads, NEW tagged,
           Go(m, tagged), NEW fr, Framed(fr), Replace(fr),
           Heading(text', m, fr, p[Len(stack)], Here')
    PROVE  Spelled'
<1>1. /\ Len(stack') = Len(stack) /\ Top' = fr /\ Len(stack) \in Nat
      /\ DOMAIN stack = 1..Len(stack)
      /\ \A i \in DOMAIN stack : i # Len(stack) => stack'[i] = stack[i]
  BY ReplaceFrame, StackIndices DEF Parsing, Stacked
<1> DEFINE n == Len(stack) - 1
<1>2. /\ n \in Int /\ n <= n /\ \A i \in 1..n : i \in DOMAIN stack /\ i # Len(stack)
  <2> DEFINE k == Len(stack)
  <2>1. k \in Nat /\ DOMAIN stack = 1..k
    BY <1>1
  <2> HIDE DEF k
  <2>2. k - 1 \in Int /\ k - 1 <= k - 1 /\ \A i \in 1..(k - 1) : i \in 1..k /\ i # k
    BY <2>1
  <2> QED
    BY <2>1, <2>2 DEF k
<1>3. Below(text', stack', n, p)
  <2>1. \A i \in 1..n : stack'[i] = stack[i]
    BY <1>1, <1>2
  <2>2. Below(text, stack, n, p)
    OBVIOUS
  <2> HIDE DEF n
  <2> QED
    BY <1>2, <2>1, <2>2, BelowOnwards
<1> QED
  BY <1>1, <1>3, HeadSpelled

LEMMA InitSpelled == Init => Spelled
<1> SUFFICES ASSUME Init PROVE Spelled
  OBVIOUS
<1>1. stack = <<>> /\ Len(stack) = 0 /\ mode = "document" /\ outcome = "reading"
  BY DEF Init
<1>2. InText /\ Here = 1
  <2>1. CASE ahead = Eof
    BY <2>1 DEF Init, InText, Here
  <2>2. CASE ahead # Eof
    <3>1. text = <<ahead>>
      BY <2>2 DEF Init
    <3> QED
      BY <2>2, <3>1 DEF InText, Here
  <2> QED
    BY <2>1, <2>2
<1> DEFINE p == [i \in Nat |-> 1]
<1>3. p \in [Nat -> Nat] /\ p[1] = 1
  OBVIOUS
<1> HIDE DEF p
<1>4. Below(text, stack, 0, p)
  BY <1>3 DEF Below
<1>5. Starts(text, stack, mode, Here, val, p)
  BY <1>1, <1>2, <1>3, <1>4 DEF Starts, Heads
<1> QED
  BY <1>1, <1>2, <1>3, <1>5 DEF Spelled, Finished

\* What holds of the frame on top, by where the parser is.
LEMMA TopStarts ==
    ASSUME Parsing, stack # <<>>, NEW p \in [Nat -> Nat],
           Starts(text, stack, mode, Here, val, p), NEW n, n = Len(stack)
    PROVE  /\ mode \in Heads \cup {"return"} => Below(text, stack, n - 1, p)
           /\ mode \in Heads => Heading(text, mode, Top, p[n], Here)
           /\ mode = "return" => /\ Waiting(text, Top, p[n], p[n + 1])
                                 /\ Led(text, "value", p[n + 1], Here, val)
<1>1. n \in Nat /\ n > 0 /\ Top = stack[n]
  BY StackIndices DEF Parsing, Stacked, Top
<1>2. CASE mode \in Heads
  BY <1>1, <1>2 DEF Starts, Heads
<1>3. CASE mode = "return"
  <2>1. Below(text, stack, n, p) /\ Led(text, "value", p[n + 1], Here, val)
    <3>1. mode = "return" => Led(text, "value", p[Len(stack) + 1], Here, val)
      BY ZenonT(20) DEF Starts
    <3>2. mode = "return" => Below(text, stack, Len(stack), p)
      BY ZenonT(20) DEF Starts
    <3> QED
      BY <1>3, <3>1, <3>2
  <2>2. n \in 1..n /\ \A i \in 1..(n - 1) : i \in 1..n
    BY ONLY <1>1
  <2>3. Below(text, stack, n - 1, p) /\ Waiting(text, stack[n], p[n], p[n + 1])
    BY <2>1, <2>2 DEF Below
  <2> QED
    BY <1>1, <1>3, <2>1, <2>3 DEF Heads
<1> QED
  BY <1>2, <1>3

\* A value begins: a scalar ends there, or a frame is pushed.
LEMMA EnteredSpelled ==
    ASSUME Parsing, Spelled, Scalar \/ Open \/ Identifier
    PROVE  Spelled'
<1>1. /\ mode = "value" /\ outcome = "reading" /\ Bump /\ ahead # Eof
      /\ Len(stack) \in Nat
  BY StackIndices DEF Scalar, Open, Identifier, Entered, Reading, Parsing, NeverPastEnd, Stacked
<1>2. PICK p \in [Nat -> Nat] : Starts(text, stack, mode, Here, val, p)
  BY DEF Spelled
<1>3. Below(text, stack, Len(stack), p) /\ p[Len(stack) + 1] = Here
  BY <1>1, <1>2 DEF Starts
<1> DEFINE h == Here
<1>4. /\ Begins(text, text') /\ InText' /\ Here' = h + 1 /\ h \in Nat
      /\ h \in DOMAIN text' /\ text'[h] = ahead /\ p[Len(stack) + 1] = h
  BY <1>1, <1>3, BumpOnwards DEF Parsing, Spelled
<1> HIDE DEF h
<1>5. CASE Scalar
  <2> DEFINE v == [is |-> ahead.t, s |-> ahead.s]
  <2>1. Return(v) /\ stack' = stack /\ ahead.t \in {"str", "num"}
    BY <1>5 DEF Scalar
  <2>2. Led(text', "value", h, h + 1, v)
    BY <1>4, <2>1, LedScalar
  <2> HIDE DEF v
  <2> DEFINE n == Len(stack)
  <2>3. Below(text', stack', n, p)
    <3>1. n \in Int /\ n <= n /\ \A i \in 1..n : stack'[i] = stack[i]
      BY <1>1, <2>1
    <3>2. Below(text, stack, n, p)
      BY <1>3
    <3> HIDE DEF n
    <3> QED
      BY <1>4, <3>1, <3>2, BelowOnwards
  <2>4. mode' = "return" /\ val' = v /\ Finished'
    BY <1>1, <2>1 DEF Return, Finished
  <2>5. Starts(text', stack', mode', Here', val', p)
    BY <1>4, <2>1, <2>2, <2>3, <2>4 DEF Starts, Heads
  <2> QED
    BY <1>4, <2>4, <2>5 DEF Spelled
<1>6. CASE Open
  <2>1. CASE ahead.t = "[" /\ Push([f |-> "array", items |-> <<>>]) /\ Go("array", FALSE)
    <3> DEFINE fr == [f |-> "array", items |-> <<>>]
    <3>1. Framed(fr) /\ fr.items = <<>> /\ Push(fr)
      BY <2>1 DEF Framed
    <3> HIDE DEF fr
    <3>2. Heading(text', "array", fr, h, h + 1)
      BY <1>4, <2>1, <3>1, LedOpen DEF Heading
    <3> QED
      BY <1>1, <1>3, <1>4, <2>1, <3>1, <3>2, PushSpelled DEF Heads
  <2>2. CASE /\ ahead.t = "{" /\ Push([f |-> "object", pairs |-> <<>>, key |-> ""])
             /\ Go("object", FALSE)
    <3> DEFINE fr == [f |-> "object", pairs |-> <<>>, key |-> ""]
    <3>1. Framed(fr) /\ fr.pairs = <<>> /\ Push(fr)
      BY <2>2 DEF Framed
    <3> HIDE DEF fr
    <3>2. Heading(text', "object", fr, h, h + 1)
      BY <1>4, <2>2, <3>1, LedOpen DEF Heading
    <3> QED
      BY <1>1, <1>3, <1>4, <2>2, <3>1, <3>2, PushSpelled DEF Heads
  <2> QED
    BY <1>6, <2>1, <2>2 DEF Open
<1>7. CASE Identifier
  <2> DEFINE fr == [f |-> "tag", name |-> ahead.s]
  <2>1. Framed(fr) /\ fr.name = ahead.s /\ Push(fr) /\ Go("identifier", under) /\ ahead.t = "id"
    BY <1>7 DEF Framed, Identifier
  <2> HIDE DEF fr
  <2>2. Heading(text', "identifier", fr, h, h + 1)
    BY <1>4, <2>1 DEF Heading, AfterTag
  <2> QED
    BY <1>1, <1>3, <1>4, <2>1, <2>2, PushSpelled DEF Heads
<1> QED
  BY <1>5, <1>6, <1>7

\* An identifier is a tag, or a word; a tag has its argument.
LEMMA TagSpelled ==
    ASSUME Parsing, Spelled, Tag \/ Symbol \/ Tagged
    PROVE  Spelled'
<1>1. /\ mode \in {"identifier", "return"} /\ outcome = "reading" /\ Stay
      /\ stack # <<>> /\ Top.f = "tag" /\ Len(stack) \in Nat
  BY StackIndices DEF Tag, Symbol, Tagged, Reading, Parsing, Stacked
<1>2. PICK p \in [Nat -> Nat] : Starts(text, stack, mode, Here, val, p)
  BY DEF Spelled
<1> DEFINE n == Len(stack)
           h == Here
<1>3. /\ text' = text /\ Begins(text, text') /\ InText' /\ Here' = h /\ h \in Nat
  BY <1>1, StayOnwards DEF Parsing, Spelled, Stay
<1>4. /\ Below(text, stack, n - 1, p)
      /\ mode \in Heads => Heading(text, mode, Top, p[n], h)
      /\ mode = "return" => /\ Waiting(text, Top, p[n], p[n + 1])
                            /\ Led(text, "value", p[n + 1], h, val)
  BY <1>1, <1>2, TopStarts DEF Heads
<1>5. CASE Tag
  <2>1. mode = "identifier" /\ Go("value", TRUE) /\ UNCHANGED stack
    BY <1>5 DEF Tag, Reading
  <2>2. Waiting(text, Top, p[n], h)
    BY <1>1, <1>4, <2>1 DEF Heading, Heads, Waiting
  <2> QED
    BY <1>1, <1>4, <2>1, <2>2, ValueSpelled DEF Spelled
<1>6. CASE Symbol
  <2> DEFINE v == Bare(Top.name)
  <2>1. mode = "identifier" /\ Return(v) /\ Pop
    BY <1>6 DEF Symbol, Reading
  <2>2. AfterTag(text, Top, p[n], h)
    BY <1>4, <2>1 DEF Heading, Heads
  <2>3. Led(text', "value", p[n], h, v)
    BY <1>3, <2>2, LedWord DEF AfterTag
  <2> HIDE DEF v
  <2> QED
    BY <1>1, <1>3, <1>4, <2>1, <2>3, PopSpelled
<1>7. CASE Tagged
  <2> DEFINE v == [is |-> "tagged", tag |-> Top.name, of |-> val]
  <2>1. mode = "return" /\ Return(v) /\ Pop
    BY <1>7 DEF Tagged, Reading
  <2>2. val.is \notin BareParts
    BY <1>1, <2>1 DEF Parsing, TagTakesNoSymbol, BareParts
  <2>3. AfterTag(text, Top, p[n], p[n + 1]) /\ Led(text, "value", p[n + 1], h, val)
    BY <1>1, <1>4, <2>1 DEF Waiting
  <2>4. /\ p[n] \in DOMAIN text /\ p[n] \in Nat /\ text[p[n]].t = "id"
        /\ text[p[n]].s = Top.name /\ p[n + 1] = p[n] + 1
    BY <1>1, <2>3 DEF AfterTag
  <2>5. Led(text', "value", p[n], h, v)
    BY <1>3, <2>2, <2>3, <2>4, LedTagged
  <2> HIDE DEF v
  <2> QED
    BY <1>1, <1>3, <1>4, <2>1, <2>5, PopSpelled
<1> QED
  BY <1>5, <1>6, <1>7

\* An array has another element, or ends.
LEMMA ArraySpelled ==
    ASSUME Parsing, Spelled, ArrayHead \/ ArrayItem, ~Fail("error")
    PROVE  Spelled'
<1>1. /\ mode \in {"array", "return"} /\ outcome = "reading"
      /\ stack # <<>> /\ Top.f = "array" /\ Len(stack) \in Nat
      /\ Top = [f |-> "array", items |-> Top.items]
  <2>1. /\ mode \in {"array", "return"} /\ outcome = "reading"
        /\ stack # <<>> /\ Top.f = "array"
    BY DEF ArrayHead, ArrayItem, Reading, Parsing, Stacked
  <2> QED
    BY <2>1, StackIndices, TopFramed, FrameFields DEF Parsing, Stacked
<1>2. PICK p \in [Nat -> Nat] : Starts(text, stack, mode, Here, val, p)
  BY DEF Spelled
<1> DEFINE n == Len(stack)
           h == Here
<1>3. ASSUME ahead # Eof, Bump
      PROVE  /\ Begins(text, text') /\ InText' /\ Here' = h + 1 /\ h \in Nat
             /\ h \in DOMAIN text' /\ text'[h] = ahead
  BY <1>3, BumpOnwards DEF Parsing, Spelled
<1>4. /\ Below(text, stack, n - 1, p)
      /\ mode \in Heads => Heading(text, mode, Top, p[n], h)
      /\ mode = "return" => /\ Waiting(text, Top, p[n], p[n + 1])
                            /\ Led(text, "value", p[n + 1], h, val)
  BY <1>1, <1>2, TopStarts DEF Heads
<1>5. Eof.t \notin {",", "]"}
  BY DEF Eof
<1>6. CASE ArrayHead
  <2>1. Led(text, "items", p[n], h, Top.items)
    BY <1>4, <1>6 DEF ArrayHead, Reading, Heading, Heads
  <2>2. CASE ahead.t = "]" /\ Return([is |-> "array", items |-> Top.items]) /\ Pop /\ Bump
    <3> DEFINE v == [is |-> "array", items |-> Top.items]
    <3>1. /\ Begins(text, text') /\ InText' /\ Here' = h + 1
          /\ h \in DOMAIN text' /\ text'[h].t = "]"
      BY <1>3, <1>5, <2>2
    <3>2. Led(text', "items", p[n], h, Top.items)
      BY <2>1, <3>1, WaitingOnwards
    <3>3. Led(text', "value", p[n], h + 1, v)
      BY <3>1, <3>2, LedEnd
    <3> HIDE DEF v
    <3>4. Return(v)
      BY <2>2 DEF v
    <3> QED
      BY <1>1, <1>4, <2>2, <3>1, <3>3, <3>4, PopSpelled
  <2>3. CASE ahead # Eof /\ Go("value", FALSE) /\ Stay /\ UNCHANGED stack
    <3>1. Waiting(text, Top, p[n], h)
      BY <1>1, <2>1 DEF Waiting
    <3> QED
      BY <1>1, <1>4, <2>3, <3>1, ValueSpelled DEF Spelled
  <2> QED
    BY <1>6, <2>2, <2>3 DEF ArrayHead
<1>7. CASE ArrayItem
  <2> DEFINE items == Append(Top.items, val)
             fr == [Top EXCEPT !.items = items]
             v == [is |-> "array", items |-> items]
  <2>1. fr = [f |-> "array", items |-> items] /\ fr.items = items
    <3> HIDE DEF items
    <3> QED
      BY <1>1
  <2>2. /\ Led(text, "items", p[n], p[n + 1], Top.items)
        /\ Led(text, "value", p[n + 1], h, val)
    BY <1>1, <1>4, <1>7 DEF ArrayItem, Reading, Waiting
  <2>3. /\ Bump /\ ahead.t \in {",", "]"}
        /\ \/ ahead.t = "," /\ Replace(fr) /\ Go("array", FALSE)
           \/ ahead.t = "]" /\ Return(v) /\ Pop
    BY <1>7 DEF ArrayItem
  <2>4. /\ Begins(text, text') /\ InText' /\ Here' = h + 1 /\ h \in Nat
        /\ h \in DOMAIN text' /\ text'[h] = ahead
    BY <1>3, <1>5, <2>3
  <2>5. /\ Led(text', "items", p[n], p[n + 1], Top.items)
        /\ Led(text', "value", p[n + 1], h, val)
    BY <2>2, <2>4, WaitingOnwards
  <2>6. /\ ahead.t = "," => Led(text', "items", p[n], h + 1, items)
        /\ ahead.t = "]" => Led(text', "value", p[n], h + 1, v)
    BY <2>4, <2>5, LedItem
  <2>7. Framed(fr)
    <3> HIDE DEF items, fr
    <3> QED
      BY <2>1 DEF Framed
  <2> HIDE DEF items, fr, v
  <2>8. CASE ahead.t = "," /\ Replace(fr) /\ Go("array", FALSE)
    <3>1. Heading(text', "array", fr, p[n], Here')
      BY <2>1, <2>4, <2>6, <2>8 DEF Heading
    <3> QED
      BY <1>1, <1>4, <2>4, <2>7, <2>8, <3>1, ReplaceSpelled DEF Heads
  <2>9. CASE ahead.t = "]" /\ Return(v) /\ Pop
    BY <1>1, <1>4, <2>4, <2>6, <2>9, PopSpelled
  <2> QED
    BY <2>3, <2>8, <2>9
<1> QED
  BY <1>6, <1>7

\* An object comes to a key, a colon, a value or its end.
LEMMA ObjectSpelled ==
    ASSUME Parsing, Spelled, ObjectHead \/ Colon \/ Member \/ ObjectItem, ~Fail("error")
    PROVE  Spelled'
<1>1. /\ mode \in {"object", "colon", "member", "return"} /\ outcome = "reading"
      /\ stack # <<>> /\ Top.f = "object" /\ Len(stack) \in Nat
      /\ Top = [f |-> "object", pairs |-> Top.pairs, key |-> Top.key]
  <2>1. /\ mode \in {"object", "colon", "member", "return"} /\ outcome = "reading"
        /\ stack # <<>> /\ Top.f = "object"
    BY DEF ObjectHead, Colon, Member, ObjectItem, Reading, Parsing, Stacked
  <2> QED
    BY <2>1, StackIndices, TopFramed, FrameFields DEF Parsing, Stacked
<1>2. PICK p \in [Nat -> Nat] : Starts(text, stack, mode, Here, val, p)
  BY DEF Spelled
<1> DEFINE n == Len(stack)
           h == Here
<1>3. ASSUME ahead # Eof, Bump
      PROVE  /\ Begins(text, text') /\ InText' /\ Here' = h + 1 /\ h \in Nat
             /\ h \in DOMAIN text' /\ text'[h] = ahead
  BY <1>3, BumpOnwards DEF Parsing, Spelled
<1>4. /\ Below(text, stack, n - 1, p)
      /\ mode \in Heads => Heading(text, mode, Top, p[n], h)
      /\ mode = "return" => /\ Waiting(text, Top, p[n], p[n + 1])
                            /\ Led(text, "value", p[n + 1], h, val)
  BY <1>1, <1>2, TopStarts DEF Heads
<1>5. Eof.t \notin {",", "}", ":", "str", "id"}
  BY DEF Eof
<1>6. CASE ObjectHead
  <2>1. Led(text, "pairs", p[n], h, Top.pairs)
    BY <1>4, <1>6 DEF ObjectHead, Reading, Heading, Heads
  <2>2. CASE ahead.t = "}" /\ Return([is |-> "object", pairs |-> Top.pairs]) /\ Pop /\ Bump
    <3> DEFINE v == [is |-> "object", pairs |-> Top.pairs]
    <3>1. /\ Begins(text, text') /\ InText' /\ Here' = h + 1
          /\ h \in DOMAIN text' /\ text'[h].t = "}"
      BY <1>3, <1>5, <2>2
    <3>2. Led(text', "pairs", p[n], h, Top.pairs)
      BY <2>1, <3>1, WaitingOnwards
    <3>3. Led(text', "value", p[n], h + 1, v)
      BY <3>1, <3>2, LedEnd
    <3> HIDE DEF v
    <3>4. Return(v)
      BY <2>2 DEF v
    <3> QED
      BY <1>1, <1>4, <2>2, <3>1, <3>3, <3>4, PopSpelled
  <2>3. CASE /\ ahead.t \in {"str", "id"} /\ Replace([Top EXCEPT !.key = ahead.s])
             /\ Go("colon", FALSE) /\ Bump
    <3> DEFINE fr == [Top EXCEPT !.key = ahead.s]
    <3>1. fr = [f |-> "object", pairs |-> Top.pairs, key |-> ahead.s]
      <4>1. Top = [f |-> "object", pairs |-> Top.pairs, key |-> Top.key]
        BY <1>1
      <4> QED
        BY ONLY <4>1
    <3>2. Framed(fr) /\ fr.pairs = Top.pairs /\ fr.key = ahead.s
      <4> HIDE DEF fr
      <4> QED
        BY <3>1 DEF Framed
    <3> HIDE DEF fr
    <3>3. /\ Begins(text, text') /\ InText' /\ Here' = h + 1
          /\ h \in DOMAIN text' /\ text'[h] = ahead
      BY <1>3, <1>5, <2>3
    <3>4. Led(text', "pairs", p[n], h, Top.pairs)
      BY <2>1, <3>3, WaitingOnwards
    <3>5. AtKey(text', fr, p[n], h)
      BY <2>3, <3>2, <3>3, <3>4 DEF AtKey
    <3>6. Heading(text', "colon", fr, p[n], Here')
      BY <3>3, <3>5 DEF Heading
    <3>7. Replace(fr)
      BY <2>3 DEF fr
    <3> QED
      BY <1>1, <1>4, <2>3, <3>2, <3>3, <3>6, <3>7, ReplaceSpelled DEF Heads
  <2> QED
    BY <1>6, <2>2, <2>3 DEF ObjectHead
<1>7. CASE Colon
  <2>1. mode = "colon" /\ ahead.t = ":" /\ Go("member", FALSE) /\ Bump /\ UNCHANGED stack
    BY <1>7 DEF Colon, Reading
  <2>2. PICK k \in DOMAIN text : AtKey(text, Top, p[n], k) /\ h = k + 1
    BY <1>4, <2>1 DEF Heading, Heads
  <2>3. /\ Begins(text, text') /\ InText' /\ Here' = h + 1
        /\ h \in DOMAIN text' /\ text'[h] = ahead
    BY <1>3, <1>5, <2>1
  <2>4. k \in DOMAIN text' /\ AtKey(text', Top, p[n], k)
    BY <2>2, <2>3, WaitingOnwards DEF Begins
  <2>5. k \in Nat /\ Here' = k + 2
    <3>1. DOMAIN text = 1..Len(text)
      BY LenProperties DEF Parsing, Lexed
    <3>2. k \in Nat
      BY <3>1, LenProperties DEF Parsing, Lexed
    <3> QED
      BY <2>2, <2>3, <3>2
  <2>6. AfterColon(text', Top, p[n], Here')
    BY <2>1, <2>2, <2>3, <2>4, <2>5 DEF AfterColon
  <2>7. Heading(text', "member", Top', p[n], Here')
    BY <2>1, <2>6 DEF Heading, Top
  <2>8. Below(text', stack', n - 1, p)
    <3> DEFINE i == n - 1
    <3>1. i \in Int /\ i <= i
      BY <1>1
    <3>2. Below(text, stack, i, p)
      BY <1>4
    <3> HIDE DEF i
    <3>3. \A j \in 1..i : stack'[j] = stack[j]
      BY <2>1
    <3>4. Below(text', stack', i, p)
      BY <2>3, <3>1, <3>2, <3>3, BelowOnwards
    <3> QED
      BY <3>4 DEF i
  <2> QED
    BY <1>1, <2>1, <2>3, <2>7, <2>8, HeadSpelled DEF Heads
<1>8. CASE Member
  <2>1. mode = "member" /\ Go("value", FALSE) /\ Stay /\ UNCHANGED stack
    BY <1>8 DEF Member, Reading
  <2>2. Waiting(text, Top, p[n], h)
    BY <1>1, <1>4, <2>1 DEF Heading, Heads, Waiting
  <2> QED
    BY <1>1, <1>4, <2>1, <2>2, ValueSpelled DEF Spelled
<1>9. CASE ObjectItem
  <2> DEFINE pairs == SetItem(Top.pairs, Top.key, val)
             fr == [Top EXCEPT !.pairs = pairs]
             v == [is |-> "object", pairs |-> pairs]
  <2>1. fr = [f |-> "object", pairs |-> pairs, key |-> Top.key] /\ fr.pairs = pairs
    <3> HIDE DEF pairs
    <3> QED
      BY <1>1
  <2>2. AfterColon(text, Top, p[n], p[n + 1]) /\ Led(text, "value", p[n + 1], h, val)
    BY <1>1, <1>4, <1>9 DEF ObjectItem, Reading, Waiting
  <2>3. /\ Bump /\ ahead.t \in {",", "}"}
        /\ \/ ahead.t = "," /\ Replace(fr) /\ Go("object", FALSE)
           \/ ahead.t = "}" /\ Return(v) /\ Pop
    BY <1>9 DEF ObjectItem
  <2>4. /\ Begins(text, text') /\ InText' /\ Here' = h + 1 /\ h \in Nat
        /\ h \in DOMAIN text' /\ text'[h] = ahead
    BY <1>3, <1>5, <2>3
  <2>5. /\ AfterColon(text', Top, p[n], p[n + 1])
        /\ Led(text', "value", p[n + 1], h, val)
    BY <2>2, <2>4, WaitingOnwards
  <2>6. PICK k \in DOMAIN text' :
            /\ AtKey(text', Top, p[n], k) /\ k + 1 \in DOMAIN text'
            /\ text'[k + 1].t = ":" /\ p[n + 1] = k + 2
    BY <2>5 DEF AfterColon
  <2>7. /\ ahead.t = "," => Led(text', "pairs", p[n], h + 1, pairs)
        /\ ahead.t = "}" => Led(text', "value", p[n], h + 1, v)
    <3>1. /\ Led(text', "pairs", p[n], k, Top.pairs) /\ text'[k].t \in {"str", "id"}
          /\ text'[k].s = Top.key /\ Led(text', "value", k + 2, h, val)
      BY <2>5, <2>6 DEF AtKey
    <3> QED
      BY <2>4, <2>6, <3>1, LedMember
  <2>8. Framed(fr)
    <3> HIDE DEF pairs, fr
    <3> QED
      BY <2>1 DEF Framed
  <2> HIDE DEF pairs, fr, v
  <2>9. CASE ahead.t = "," /\ Replace(fr) /\ Go("object", FALSE)
    <3>1. Heading(text', "object", fr, p[n], Here')
      BY <2>1, <2>4, <2>7, <2>9 DEF Heading
    <3> QED
      BY <1>1, <1>4, <2>4, <2>8, <2>9, <3>1, ReplaceSpelled DEF Heads
  <2>10. CASE ahead.t = "}" /\ Return(v) /\ Pop
    BY <1>1, <1>4, <2>4, <2>7, <2>10, PopSpelled
  <2> QED
    BY <2>3, <2>9, <2>10
<1> QED
  BY <1>6, <1>7, <1>8, <1>9

\* Every step keeps what was read so far spelled.
LEMMA NextSpelled == Parsing /\ Spelled /\ [Next]_vars => Spelled'
<1> SUFFICES ASSUME Parsing, Spelled, [Next]_vars PROVE Spelled'
  OBVIOUS
<1>1. ASSUME NEW what, Fail(what), what \in {"error", "recursion"} PROVE Spelled'
  BY <1>1 DEF Fail, Stay, Spelled, InText, Finished, Here
<1>2. CASE \/ EmptyDocument \/ TrailingContent \/ NoValueHere \/ TagOverSymbol \/ TooDeep
  BY <1>1, <1>2 DEF EmptyDocument, TrailingContent, NoValueHere, TagOverSymbol, TooDeep
<1>3. CASE Document
  <2>1. mode = "document" /\ Go("value", FALSE) /\ Stay /\ UNCHANGED stack /\ outcome = "reading"
    BY <1>3 DEF Document, Reading
  <2>2. PICK p \in [Nat -> Nat] : Starts(text, stack, mode, Here, val, p)
    BY DEF Spelled
  <2>3. mode' = "value" /\ text' = text /\ InText' /\ Here' = Here /\ Finished'
    BY <2>1, StayOnwards DEF Go, Stay, Parsing, Spelled, Finished
  <2>4. Starts(text', stack', mode', Here', val', p)
    BY <2>1, <2>2, <2>3 DEF Starts, Heads
  <2> QED
    BY <2>3, <2>4 DEF Spelled
<1>4. CASE Finish
  <2>1. text' = text /\ mode' = mode /\ stack' = stack /\ val' = val /\ ahead' = ahead
    BY <1>4 DEF Finish, Stay
  <2>2. Finished' /\ InText' /\ Here' = Here
    BY <1>4, <2>1 DEF Finish, Reading, Finished, Spelled, InText, Here
  <2> QED
    BY <2>1, <2>2 DEF Spelled
<1>5. CASE Scalar \/ Open \/ Identifier
  BY <1>5, EnteredSpelled
<1>6. CASE Tag \/ Symbol \/ Tagged
  BY <1>6, TagSpelled
<1>7. CASE ArrayHead \/ ArrayItem
  BY <1>1, <1>7, ArraySpelled
<1>8. CASE ObjectHead \/ Colon \/ Member \/ ObjectItem
  BY <1>1, <1>8, ObjectSpelled
<1>9. CASE Stopped \/ UNCHANGED vars
  BY <1>9 DEF Stopped, vars, Spelled, InText, Finished, Here
<1> QED
  BY <1>2, <1>3, <1>4, <1>5, <1>6, <1>7, <1>8, <1>9 DEF Next

(* The facts of a text: the rules are followed as often as there are numbers. *)

\* More facts yield more.
LEMMA MoreYield ==
    ASSUME NEW s, NEW R, NEW Q, R \subseteq Q
    PROVE  Yield(s, R) \subseteq Yield(s, Q)
<1>1. /\ Values(R) \subseteq Values(Q) /\ OpenArrays(R) \subseteq OpenArrays(Q)
      /\ OpenObjects(R) \subseteq OpenObjects(Q)
  BY DEF Values, OpenArrays, OpenObjects
<1>2. \A kind : Elements(s, R, kind) \subseteq Elements(s, Q, kind)
  BY <1>1 DEF Elements
<1>3. \A kind : Keyed(s, R, kind) \subseteq Keyed(s, Q, kind)
  BY <1>1 DEF Keyed
<1>4. Applied(s, R) \subseteq Applied(s, Q)
  BY <1>1 DEF Applied
<1>5. MoreItems(s, R) \subseteq MoreItems(s, Q)
  BY <1>2 DEF MoreItems
<1>6. Arrays(s, R) \subseteq Arrays(s, Q)
  BY <1>1, <1>2 DEF Arrays
<1>7. MorePairs(s, R) \subseteq MorePairs(s, Q)
  BY <1>3 DEF MorePairs
<1>8. Objects(s, R) \subseteq Objects(s, Q)
  BY <1>1, <1>3 DEF Objects
<1> QED
  BY <1>4, <1>5, <1>6, <1>7, <1>8 DEF Yield

\* What yields from facts found one after another yields from those found by some moment.
LEMMA YieldFrom ==
    ASSUME NEW s, NEW F, \A m, n \in Nat : m <= n => F[m] \subseteq F[n]
    PROVE  Yield(s, UNION {F[n] : n \in Nat}) \subseteq UNION {Yield(s, F[n]) : n \in Nat}
<1> DEFINE U == UNION {F[n] : n \in Nat}
<1>1. \A x \in U : \E n \in Nat : x \in F[n]
  OBVIOUS
<1>2. \A x, y \in U : \E n \in Nat : x \in F[n] /\ y \in F[n]
  <2> TAKE x, y \in U
  <2>1. PICK m \in Nat, n \in Nat : x \in F[m] /\ y \in F[n]
    BY <1>1
  <2>2. m <= n \/ n <= m
    BY <2>1
  <2> QED
    BY <2>1, <2>2
<1> HIDE DEF U
<1>3. ASSUME NEW kind, NEW e \in Elements(s, U, kind)
      PROVE  \E n \in Nat : e \in Elements(s, F[n], kind)
  <2>1. PICK n \in Nat : e[1] \in F[n] /\ e[2] \in F[n]
    BY <1>2 DEF Elements, OpenArrays, Values
  <2> QED
    BY <2>1 DEF Elements, OpenArrays, Values
<1>4. ASSUME NEW kind, NEW e \in Keyed(s, U, kind)
      PROVE  \E n \in Nat : e \in Keyed(s, F[n], kind)
  <2>1. PICK n \in Nat : e[1] \in F[n] /\ e[2] \in F[n]
    BY <1>2 DEF Keyed, OpenObjects, Values
  <2> QED
    BY <2>1 DEF Keyed, OpenObjects, Values
<1>5. \A x \in Applied(s, U) : \E n \in Nat : x \in Applied(s, F[n])
  <2> DEFINE given(R) == {y \in Values(R) : y[4].is \notin BareParts /\ y[2] - 1 \in Places(s, {"id"})}
             said(y) == Fact("value", y[2] - 1, y[3],
                             [is |-> "tagged", tag |-> s[y[2] - 1].s, of |-> y[4]])
  <2>1. \A R : Applied(s, R) = {said(y) : y \in given(R)}
    BY DEF Applied
  <2>2. \A y \in given(U) : \E n \in Nat : y \in given(F[n])
    BY <1>1 DEF Values
  <2> HIDE DEF given, said
  <2> QED
    BY <2>1, <2>2
<1>6. \A x \in MoreItems(s, U) : \E n \in Nat : x \in MoreItems(s, F[n])
  BY <1>3 DEF MoreItems
<1>7. \A x \in Arrays(s, U) : \E n \in Nat : x \in Arrays(s, F[n])
  <2> DEFINE given(R) == {y \in OpenArrays(R) : y[3] \in Places(s, {"]"})}
             ended(y) == Fact("value", y[2], y[3] + 1, [is |-> "array", items |-> y[4]])
             closed(e) == Fact("value", e[1][2], e[2][3] + 1, [is |-> "array", items |-> Extended(e)])
  <2>1. \A R : Arrays(s, R) = {ended(y) : y \in given(R)} \cup {closed(e) : e \in Elements(s, R, "]")}
    BY DEF Arrays
  <2>2. \A y \in given(U) : \E n \in Nat : y \in given(F[n])
    BY <1>1 DEF OpenArrays
  <2> HIDE DEF given, ended, closed
  <2> QED
    BY <1>3, <2>1, <2>2
<1>8. \A x \in MorePairs(s, U) : \E n \in Nat : x \in MorePairs(s, F[n])
  BY <1>4 DEF MorePairs
<1>9. \A x \in Objects(s, U) : \E n \in Nat : x \in Objects(s, F[n])
  <2> DEFINE given(R) == {y \in OpenObjects(R) : y[3] \in Places(s, {"}"})}
             ended(y) == Fact("value", y[2], y[3] + 1, [is |-> "object", pairs |-> y[4]])
             closed(e) == Fact("value", e[1][2], e[2][3] + 1, [is |-> "object", pairs |-> Updated(s, e)])
  <2>1. \A R, x : x \in Objects(s, R) <=> \/ \E y \in given(R) : x = ended(y)
                                          \/ \E e \in Keyed(s, R, "}") : x = closed(e)
    BY DEF Objects
  <2>2. \A y \in given(U) : \E n \in Nat : y \in given(F[n])
    BY <1>1 DEF OpenObjects
  <2> HIDE DEF given, ended, closed
  <2>3. \A e \in Keyed(s, U, "}") : \E n \in Nat : e \in Keyed(s, F[n], "}")
    BY <1>4
  <2> TAKE x \in Objects(s, U)
  <2>4. CASE \E y \in given(U) : x = ended(y)
    <3>1. PICK y \in given(U) : x = ended(y)
      BY <2>4
    <3>2. PICK n \in Nat : y \in given(F[n])
      BY <2>2
    <3>3. x \in Objects(s, F[n])
      BY <2>1, <3>1, <3>2
    <3> QED
      BY <3>3
  <2>5. CASE \E e \in Keyed(s, U, "}") : x = closed(e)
    <3>1. PICK e \in Keyed(s, U, "}") : x = closed(e)
      BY <2>5
    <3>2. PICK n \in Nat : e \in Keyed(s, F[n], "}")
      BY <2>3
    <3>3. x \in Objects(s, F[n])
      BY <2>1, <3>1, <3>2
    <3> QED
      BY <3>3
  <2>6. (\E y \in given(U) : x = ended(y)) \/ (\E e \in Keyed(s, U, "}") : x = closed(e))
    BY <2>1
  <2> QED
    BY <2>4, <2>5, <2>6
<1>10. 0 \in Nat
  OBVIOUS
<1> SUFFICES ASSUME NEW x \in Yield(s, U)
             PROVE  \E n \in Nat : x \in Yield(s, F[n])
  BY DEF U
<1> QED
  BY <1>5, <1>6, <1>7, <1>8, <1>9, <1>10 DEF Yield

\* The facts found in so many rounds.
Rounds(s, f, n) ==
    f[0] = {} /\ \A k \in Nat : k < n => f[k + 1] = f[k] \cup Yield(s, f[k])
Round(s, n) == (CHOOSE f : Rounds(s, f, n))[n]

\* The rounds: nothing at first, and what follows from one is the next.
LEMMA RoundsExist ==
    ASSUME NEW s
    PROVE  \A n \in Nat : \E f : Rounds(s, f, n)
<1> DEFINE S == {n \in Nat : \E f : Rounds(s, f, n)}
<1>1. 0 \in S
  <2>1. Rounds(s, [k \in {0} |-> {}], 0)
    BY DEF Rounds
  <2> QED
    BY <2>1
<1>2. ASSUME NEW n \in Nat, n \in S
      PROVE  n + 1 \in S
  <2>1. PICK f : Rounds(s, f, n)
    BY <1>2
  <2> DEFINE g == [k \in 0..n + 1 |-> IF k <= n THEN f[k] ELSE f[n] \cup Yield(s, f[n])]
  <2>2. \A k \in 0..n : g[k] = f[k]
    OBVIOUS
  <2>3. g[n + 1] = f[n] \cup Yield(s, f[n])
    OBVIOUS
  <2> HIDE DEF g
  <2>4. ASSUME NEW k \in Nat, k < n + 1
        PROVE  g[k + 1] = g[k] \cup Yield(s, g[k])
    <3>1. CASE k = n
      BY <2>2, <2>3, <3>1
    <3>2. CASE k < n
      <4>1. k \in 0..n /\ k + 1 \in 0..n
        BY <3>2
      <4> QED
        BY <2>1, <2>2, <3>2, <4>1 DEF Rounds
    <3> QED
      BY <2>4, <3>1, <3>2
  <2>5. Rounds(s, g, n + 1)
    BY <2>1, <2>2, <2>4 DEF Rounds
  <2> QED
    BY <2>5
<1> HIDE DEF S
<1>3. \A n \in Nat : n \in S
  BY <1>1, <1>2, Induct
<1> QED
  BY <1>3 DEF S

\* There is one sequence of rounds.
LEMMA RoundsAgree ==
    ASSUME NEW s, NEW f, NEW g, NEW n \in Nat, NEW m \in Nat,
           Rounds(s, f, n), Rounds(s, g, m)
    PROVE  \A k \in Nat : k <= n /\ k <= m => f[k] = g[k]
<1> DEFINE S == {k \in Nat : k <= n /\ k <= m => f[k] = g[k]}
<1>1. 0 \in S
  BY DEF Rounds
<1>2. ASSUME NEW k \in Nat, k \in S
      PROVE  k + 1 \in S
  <2> SUFFICES ASSUME k + 1 <= n, k + 1 <= m
               PROVE  f[k + 1] = g[k + 1]
    OBVIOUS
  <2>1. k < n /\ k < m /\ k <= n /\ k <= m
    OBVIOUS
  <2>2. f[k] = g[k]
    BY <1>2, <2>1
  <2>3. f[k + 1] = f[k] \cup Yield(s, f[k]) /\ g[k + 1] = g[k] \cup Yield(s, g[k])
    BY <2>1 DEF Rounds
  <2> QED
    BY <2>2, <2>3
<1> HIDE DEF S
<1>3. \A k \in Nat : k \in S
  BY <1>1, <1>2, Induct
<1> QED
  BY <1>3 DEF S

\* Each round adds what the one before yields.
LEMMA RoundNext ==
    ASSUME NEW s
    PROVE  /\ Round(s, 0) = {}
           /\ \A n \in Nat : Round(s, n + 1) = Round(s, n) \cup Yield(s, Round(s, n))
<1> DEFINE f(n) == CHOOSE f : Rounds(s, f, n)
<1>1. \A n \in Nat : Rounds(s, f(n), n)
  BY RoundsExist
<1>2. \A n : Round(s, n) = f(n)[n]
  BY DEF Round
<1> HIDE DEF f
<1>3. Round(s, 0) = {}
  BY <1>1, <1>2 DEF Rounds
<1>4. ASSUME NEW n \in Nat
      PROVE  Round(s, n + 1) = Round(s, n) \cup Yield(s, Round(s, n))
  <2>1. n + 1 \in Nat /\ n < n + 1 /\ n <= n + 1 /\ n <= n
    OBVIOUS
  <2>2. f(n + 1)[n + 1] = f(n + 1)[n] \cup Yield(s, f(n + 1)[n])
    BY <1>1, <2>1 DEF Rounds
  <2>3. f(n + 1)[n] = f(n)[n]
    BY <1>1, <2>1, RoundsAgree
  <2> QED
    BY <1>2, <2>2, <2>3
<1> QED
  BY <1>3, <1>4

\* Every round has what those before it have.
LEMMA RoundsGrow ==
    ASSUME NEW s
    PROVE  \A m, n \in Nat : m <= n => Round(s, m) \subseteq Round(s, n)
<1> DEFINE S == {n \in Nat : \A m \in Nat : m <= n => Round(s, m) \subseteq Round(s, n)}
<1>1. 0 \in S
  BY RoundNext
<1>2. ASSUME NEW n \in Nat, n \in S
      PROVE  n + 1 \in S
  <2> SUFFICES ASSUME NEW m \in Nat, m <= n + 1
               PROVE  Round(s, m) \subseteq Round(s, n + 1)
    OBVIOUS
  <2>1. m <= n \/ m = n + 1
    OBVIOUS
  <2>2. Round(s, n) \subseteq Round(s, n + 1)
    BY RoundNext
  <2> QED
    BY <1>2, <2>1, <2>2
<1> HIDE DEF S
<1>3. \A n \in Nat : n \in S
  BY <1>1, <1>2, Induct
<1> QED
  BY <1>3 DEF S

\* So there is a set of facts that nothing is to be added to.
LEMMA ClosedExists ==
    ASSUME NEW s
    PROVE  \E R : Closed(s, R)
<1> DEFINE F == [n \in Nat |-> Round(s, n)]
           U == UNION {F[n] : n \in Nat}
<1>1. \A m, n \in Nat : m <= n => F[m] \subseteq F[n]
  BY RoundsGrow
<1>2. \A n \in Nat : Yield(s, F[n]) \subseteq F[n + 1]
  BY RoundNext
<1> HIDE DEF F
<1>3. Yield(s, U) \subseteq UNION {Yield(s, F[n]) : n \in Nat}
  BY <1>1, YieldFrom
<1>4. \A n \in Nat : Yield(s, F[n]) \subseteq U
  BY <1>2
<1> HIDE DEF U
<1>5. Yield(s, U) \subseteq U
  BY <1>3, <1>4
<1> QED
  BY <1>5 DEF Closed

\* The facts of a text are what is in every such set.
Facts(s) == {x \in CHOOSE R : Closed(s, R) : \A R : Closed(s, R) => x \in R}

\* What some round has is closed, and is what the rules lead to.
LEMMA FactsAre ==
    ASSUME NEW s
    PROVE  /\ Closed(s, Facts(s)) /\ Facts(s) \subseteq Yield(s, Facts(s))
           /\ \A R : Closed(s, R) => Facts(s) \subseteq R
           /\ \A part, a, b, w : Led(s, part, a, b, w) <=> Fact(part, a, b, w) \in Facts(s)
<1> DEFINE F == Facts(s)
<1>1. \A R : Closed(s, R) => F \subseteq R
  BY DEF Facts
<1>2. \A x : (\A R : Closed(s, R) => x \in R) => x \in F
  BY ClosedExists DEF Facts
<1> HIDE DEF F
<1>3. Closed(s, F)
  <2>1. ASSUME NEW x \in Yield(s, F), NEW R, Closed(s, R)
        PROVE  x \in R
    <3>1. Yield(s, F) \subseteq Yield(s, R)
      BY <1>1, <2>1, MoreYield
    <3> QED
      BY <2>1, <3>1 DEF Closed
  <2> QED
    BY <1>2, <2>1 DEF Closed
<1>4. F \subseteq Yield(s, F)
  <2>1. Yield(s, Yield(s, F)) \subseteq Yield(s, F)
    BY <1>3, MoreYield DEF Closed
  <2> QED
    BY <1>1, <2>1 DEF Closed
<1>5. \A part, a, b, w : Led(s, part, a, b, w) <=> Fact(part, a, b, w) \in F
  BY <1>1, <1>2 DEF Led
<1> QED
  BY <1>1, <1>3, <1>4, <1>5 DEF F

-----------------------------------------------------------------------------
(* What a fact follows from. Arrays and objects are alike: some members, each *)
(* up to a comma, and a last one up to the closing bracket, or none.          *)

Opens == {"items", "pairs"}
Opening(part) == IF part = "items" THEN "[" ELSE "{"
Closing(part) == IF part = "items" THEN "]" ELSE "}"
Made(part, xs) ==
    IF part = "items" THEN [is |-> "array", items |-> xs] ELSE [is |-> "object", pairs |-> xs]

\* A member from one place up to another, with its key in an object; and what is open
\* with one more.
Entry(s, part, b, c, v) ==
    IF part = "items" THEN Led(s, "value", b, c, v)
    ELSE /\ b \in DOMAIN s /\ s[b].t \in {"str", "id"}
         /\ b + 1 \in DOMAIN s /\ s[b + 1].t = ":"
         /\ Led(s, "value", b + 2, c, v)
With(s, part, b, xs, v) ==
    IF part = "items" THEN Append(xs, v) ELSE SetItem(xs, s[b].s, v)

\* A fact is about a stretch of the text that begins with a token of its own.
Starting(part, t) ==
    \/ part = "value" /\ t \in {"str", "num", "id", "[", "{"}
    \/ part = "items" /\ t = "["
    \/ part = "pairs" /\ t = "{"
Within(s, a, b) == a \in Nat /\ a >= 1 /\ b \in Nat /\ a < b /\ b <= Len(s) + 1
Placed(s, part, a, b) == Within(s, a, b) /\ Starting(part, s[a].t)
PlacedFact(s, x) == x = Fact(x[1], x[2], x[3], x[4]) /\ Placed(s, x[1], x[2], x[3])

\* Facts have their four parts where they are looked for.
LEMMA FactPlaced ==
    ASSUME NEW s, NEW part, NEW a, NEW b, NEW w, Placed(s, part, a, b)
    PROVE  PlacedFact(s, Fact(part, a, b, w))
BY DEF Fact, PlacedFact

\* The places with a token of some kind, by their numbers.
LEMMA PlacesAre ==
    ASSUME NEW s, IsStack(s), NEW kinds
    PROVE  \A i : i \in Places(s, kinds) <=> i \in Nat /\ i >= 1 /\ i <= Len(s) /\ s[i].t \in kinds
<1>1. Len(s) \in Nat /\ DOMAIN s = 1..Len(s)
  BY StackIndices
<1> QED
  BY <1>1 DEF Places

\* What yields from such facts are such facts.
LEMMA YieldPlaced ==
    ASSUME NEW s, IsStack(s), NEW Q, \A x \in Q : PlacedFact(s, x)
    PROVE  \A x \in Yield(s, Q) : PlacedFact(s, x)
<1>1. Len(s) \in Nat
  BY StackIndices
<1>2. \A kinds, i : i \in Places(s, kinds) <=>
                        i \in Nat /\ i >= 1 /\ i <= Len(s) /\ s[i].t \in kinds
  BY PlacesAre
<1>3. \A x \in Q : Placed(s, x[1], x[2], x[3])
  BY DEF PlacedFact
<1>a. \A kinds : \A i \in Places(s, kinds) : Within(s, i, i + 1)
  BY <1>1, <1>2 DEF Within
<1>4. \A x \in Scalars(s) \cup Words(s) : PlacedFact(s, x)
  <2>1. \A i \in Places(s, {"str", "num"}) \cup Places(s, {"id"}) :
            Within(s, i, i + 1) /\ Starting("value", s[i].t)
    BY <1>a DEF Places, Starting
  <2>2. \A i, w : i \in Places(s, {"str", "num"}) \cup Places(s, {"id"}) =>
            PlacedFact(s, Fact("value", i, i + 1, w))
    BY <2>1, FactPlaced DEF Placed
  <2> QED
    BY <2>2 DEF Scalars, Words
<1>5. \A x \in Brackets(s) \cup Braces(s) : PlacedFact(s, x)
  <2>1. /\ \A i \in Places(s, {"["}) : Within(s, i, i + 1) /\ Starting("items", s[i].t)
        /\ \A i \in Places(s, {"{"}) : Within(s, i, i + 1) /\ Starting("pairs", s[i].t)
    BY <1>a DEF Places, Starting
  <2>2. /\ \A i \in Places(s, {"["}) : PlacedFact(s, Fact("items", i, i + 1, <<>>))
        /\ \A i \in Places(s, {"{"}) : PlacedFact(s, Fact("pairs", i, i + 1, <<>>))
    BY <2>1, FactPlaced DEF Placed
  <2> QED
    BY <2>2 DEF Brackets, Braces
<1>6. \A x \in Applied(s, Q) : PlacedFact(s, x)
  <2>1. ASSUME NEW y \in Values(Q), y[2] - 1 \in Places(s, {"id"})
        PROVE  Placed(s, "value", y[2] - 1, y[3])
    <3>1. Within(s, y[2], y[3])
      BY <1>3 DEF Values, Placed
    <3>2. y[2] - 1 \in Nat /\ y[2] - 1 >= 1
      BY <1>2, <2>1
    <3>3. Within(s, y[2] - 1, y[3])
      BY <3>1, <3>2 DEF Within
    <3>4. Starting("value", s[y[2] - 1].t)
      BY <2>1 DEF Places, Starting
    <3> QED
      BY <3>3, <3>4 DEF Placed
  <2> QED
    BY <2>1, FactPlaced DEF Applied
<1>b. \A part \in Opens : \A a, b : Placed(s, part, a, b) => Starting("value", s[a].t)
  BY DEF Placed, Starting, Opens
<1>7. ASSUME NEW part \in Opens, NEW a, NEW b, NEW c, NEW d,
             Placed(s, part, a, b), Placed(s, "value", d, c), d = b \/ d = b + 2, c <= Len(s)
      PROVE  Placed(s, part, a, c + 1) /\ Placed(s, "value", a, c + 1)
  <2>1. Within(s, a, b) /\ Within(s, d, c)
    BY <1>7 DEF Placed
  <2>2. Within(s, a, c + 1)
    BY <1>1, <1>7, <2>1 DEF Within
  <2> QED
    BY <1>7, <1>b, <2>2 DEF Placed
<1>8. ASSUME NEW kind, NEW e \in Elements(s, Q, kind)
      PROVE  Placed(s, "items", e[1][2], e[2][3] + 1) /\ Placed(s, "value", e[1][2], e[2][3] + 1)
  <2>1. /\ Placed(s, "items", e[1][2], e[1][3]) /\ Placed(s, "value", e[2][2], e[2][3])
        /\ e[1][3] = e[2][2] /\ e[2][3] \in Places(s, {kind})
    BY <1>3 DEF Elements, OpenArrays, Values
  <2>2. e[2][3] <= Len(s)
    BY <1>2, <2>1
  <2> QED
    BY <1>7, <2>1, <2>2 DEF Opens
<1>9. ASSUME NEW kind, NEW e \in Keyed(s, Q, kind)
      PROVE  Placed(s, "pairs", e[1][2], e[2][3] + 1) /\ Placed(s, "value", e[1][2], e[2][3] + 1)
  <2>1. /\ Placed(s, "pairs", e[1][2], e[1][3]) /\ Placed(s, "value", e[2][2], e[2][3])
        /\ e[2][2] = e[1][3] + 2 /\ e[2][3] \in Places(s, {kind})
    BY <1>3 DEF Keyed, OpenObjects, Values
  <2>2. e[2][3] <= Len(s)
    BY <1>2, <2>1
  <2> QED
    BY <1>7, <2>1, <2>2 DEF Opens
<1>10. ASSUME NEW part \in Opens, NEW y \in Q, y[1] = part, y[3] \in Places(s, {Closing(part)})
       PROVE  Placed(s, "value", y[2], y[3] + 1)
  <2>1. Placed(s, part, y[2], y[3]) /\ y[3] <= Len(s)
    BY <1>2, <1>3, <1>10
  <2>2. Within(s, y[2], y[3] + 1)
    BY <1>1, <2>1 DEF Within, Placed
  <2> QED
    BY <1>b, <2>1, <2>2 DEF Placed
<1>11. \A x \in MoreItems(s, Q) : PlacedFact(s, x)
  BY <1>8, FactPlaced DEF MoreItems
<1>12. \A x \in MorePairs(s, Q) : PlacedFact(s, x)
  BY <1>9, FactPlaced DEF MorePairs
<1>13. \A x \in Arrays(s, Q) : PlacedFact(s, x)
  <2>1. \A y \in {y \in OpenArrays(Q) : y[3] \in Places(s, {"]"})} : Placed(s, "value", y[2], y[3] + 1)
    BY <1>10 DEF OpenArrays, Opens, Closing
  <2>2. \A y \in {y \in OpenArrays(Q) : y[3] \in Places(s, {"]"})} :
            PlacedFact(s, Fact("value", y[2], y[3] + 1, [is |-> "array", items |-> y[4]]))
    BY <2>1, FactPlaced
  <2>3. \A e \in Elements(s, Q, "]") :
            PlacedFact(s, Fact("value", e[1][2], e[2][3] + 1, [is |-> "array", items |-> Extended(e)]))
    BY <1>8, FactPlaced
  <2> QED
    BY <2>2, <2>3 DEF Arrays
<1>14. \A x \in Objects(s, Q) : PlacedFact(s, x)
  <2>1. \A y \in {y \in OpenObjects(Q) : y[3] \in Places(s, {"}"})} : Placed(s, "value", y[2], y[3] + 1)
    BY <1>10 DEF OpenObjects, Opens, Closing
  <2>2. \A y \in {y \in OpenObjects(Q) : y[3] \in Places(s, {"}"})} :
            PlacedFact(s, Fact("value", y[2], y[3] + 1, [is |-> "object", pairs |-> y[4]]))
    BY <2>1, FactPlaced
  <2>3. \A e \in Keyed(s, Q, "}") :
            PlacedFact(s, Fact("value", e[1][2], e[2][3] + 1, [is |-> "object", pairs |-> Updated(s, e)]))
    BY <1>9, FactPlaced
  <2> QED
    BY <2>2, <2>3 DEF Objects
<1> QED
  BY <1>4, <1>5, <1>6, <1>11, <1>12, <1>13, <1>14 DEF Yield

\* So what the rules lead to is placed.
LEMMA FactsPlaced ==
    ASSUME NEW s, IsStack(s)
    PROVE  /\ \A x \in Facts(s) : PlacedFact(s, x)
           /\ \A part, a, b, w : Led(s, part, a, b, w) => Placed(s, part, a, b)
<1> DEFINE F == Facts(s)
           Q == {x \in F : PlacedFact(s, x)}
<1>1. Q \subseteq F /\ \A x \in Q : PlacedFact(s, x)
  OBVIOUS
<1>2. \A x \in F : PlacedFact(s, x) => x \in Q
  OBVIOUS
<1>3. Closed(s, F) /\ \A R : Closed(s, R) => F \subseteq R
  BY FactsAre
<1> HIDE DEF F, Q
<1>4. Yield(s, Q) \subseteq Yield(s, F)
  BY <1>1, MoreYield
<1>5. \A x \in Yield(s, Q) : PlacedFact(s, x)
  BY <1>1, YieldPlaced
<1>6. Closed(s, Q)
  BY <1>2, <1>3, <1>4, <1>5 DEF Closed
<1>7. \A x \in F : PlacedFact(s, x)
  BY <1>1, <1>3, <1>6
<1>8. \A part, a, b, w : Led(s, part, a, b, w) => Placed(s, part, a, b)
  <2>1. \A part, a, b, w : Led(s, part, a, b, w) => Fact(part, a, b, w) \in F
    BY FactsAre DEF F
  <2> QED
    <3> TAKE part, a, b, w
    <3> HAVE Led(s, part, a, b, w)
    <3>1. PlacedFact(s, Fact(part, a, b, w))
      BY <1>7, <2>1
    <3> QED
      BY <3>1 DEF Fact, PlacedFact
<1> QED
  BY <1>7, <1>8 DEF F

\* What is open with a member more, and what comes after it: a comma, or the bracket.
Joined(s, part, kind, i, j, ys) ==
    \E b, c, vs, v :
        /\ Led(s, part, i, b, vs) /\ Entry(s, part, b, c, v)
        /\ c \in DOMAIN s /\ s[c].t = kind
        /\ j = c + 1 /\ ys = With(s, part, b, vs, v)
Extends(s, part, i, j, ys) ==
    (j = i + 1 /\ ys = <<>>) \/ Joined(s, part, ",", i, j, ys)
Shut(s, part, i, j, ys) ==
    \/ \E b : Led(s, part, i, b, ys) /\ b \in DOMAIN s /\ s[b].t = Closing(part) /\ j = b + 1
    \/ Joined(s, part, Closing(part), i, j, ys)
Ends(s, part, i, j, w) == \E ys : Shut(s, part, i, j, ys) /\ w = Made(part, ys)

\* Either a token of its own, or a tag and what it is over, or what is open and ends.
IsScalar(s, i, m, w) ==
    s[i].t \in {"str", "num"} /\ m = i + 1 /\ w = [is |-> s[i].t, s |-> s[i].s]
IsWord(s, i, m, w) == s[i].t = "id" /\ m = i + 1 /\ w = Bare(s[i].s)
IsTagged(s, i, m, w) ==
    s[i].t = "id" /\ \E u : /\ Led(s, "value", i + 1, m, u) /\ u.is \notin BareParts
                            /\ w = [is |-> "tagged", tag |-> s[i].s, of |-> u]

\* A fact found is one that is led to.
LEMMA FactLed ==
    ASSUME NEW s, IsStack(s), NEW x \in Facts(s)
    PROVE  Led(s, x[1], x[2], x[3], x[4])
<1>1. x = Fact(x[1], x[2], x[3], x[4])
  BY FactsPlaced DEF PlacedFact
<1> QED
  BY <1>1, FactsAre

\* An element of an array, taken from the facts, joins what is open.
LEMMA ElementIs ==
    ASSUME NEW s, IsStack(s), NEW kind, NEW e \in Elements(s, Facts(s), kind)
    PROVE  Joined(s, "items", kind, e[1][2], e[2][3] + 1, Extended(e))
<1>1. /\ e[1] \in Facts(s) /\ e[1][1] = "items" /\ e[2] \in Facts(s) /\ e[2][1] = "value"
      /\ e[1][3] = e[2][2] /\ e[2][3] \in DOMAIN s /\ s[e[2][3]].t = kind
  BY DEF Elements, OpenArrays, Values, Places
<1>2. Led(s, "items", e[1][2], e[1][3], e[1][4])
  BY <1>1, FactLed
<1>3. Entry(s, "items", e[1][3], e[2][3], e[2][4])
  <2>1. Led(s, "value", e[2][2], e[2][3], e[2][4])
    BY <1>1, FactLed
  <2> QED
    BY <1>1, <2>1 DEF Entry
<1>4. Extended(e) = With(s, "items", e[1][3], e[1][4], e[2][4])
  BY DEF Extended, With
<1> QED
  BY <1>1, <1>2, <1>3, <1>4 DEF Joined

\* And so does a member of an object.
LEMMA KeyedIs ==
    ASSUME NEW s, IsStack(s), NEW kind, NEW e \in Keyed(s, Facts(s), kind)
    PROVE  Joined(s, "pairs", kind, e[1][2], e[2][3] + 1, Updated(s, e))
<1>1. /\ e[1] \in Facts(s) /\ e[1][1] = "pairs" /\ e[2] \in Facts(s) /\ e[2][1] = "value"
      /\ e[2][2] = e[1][3] + 2 /\ e[2][3] \in DOMAIN s /\ s[e[2][3]].t = kind
  BY DEF Keyed, OpenObjects, Values, Places
<1>2. Led(s, "pairs", e[1][2], e[1][3], e[1][4])
  BY <1>1, FactLed
<1>3. Entry(s, "pairs", e[1][3], e[2][3], e[2][4])
  <2>1. Led(s, "value", e[2][2], e[2][3], e[2][4])
    BY <1>1, FactLed
  <2>2. /\ e[1][3] \in DOMAIN s /\ s[e[1][3]].t \in {"str", "id"}
        /\ e[1][3] + 1 \in DOMAIN s /\ s[e[1][3] + 1].t = ":"
    BY DEF Keyed, Places
  <2>3. Led(s, "value", e[1][3] + 2, e[2][3], e[2][4])
    BY <1>1, <2>1
  <2> QED
    BY <2>2, <2>3 DEF Entry
<1>4. Updated(s, e) = With(s, "pairs", e[1][3], e[1][4], e[2][4])
  BY DEF Updated, With
<1> QED
  BY <1>1, <1>2, <1>3, <1>4 DEF Joined

\* Each rule makes facts of one kind.
LEMMA PartsAre ==
    ASSUME NEW s, NEW R
    PROVE  /\ \A y \in Brackets(s) : y[1] = "items"
           /\ \A y \in MoreItems(s, R) : y[1] = "items"
           /\ \A y \in Braces(s) : y[1] = "pairs"
           /\ \A y \in MorePairs(s, R) : y[1] = "pairs"
           /\ \A y \in Scalars(s) : y[1] = "value"
           /\ \A y \in Words(s) : y[1] = "value"
           /\ \A y \in Applied(s, R) : y[1] = "value"
           /\ \A y \in Arrays(s, R) : y[1] = "value"
           /\ \A y \in Objects(s, R) : y[1] = "value"
<1>1. \A p, c, d, v : Fact(p, c, d, v)[1] = p
  BY DEF Fact
<1>2. ASSUME NEW y \in Brackets(s) PROVE y[1] = "items"
  <2>1. PICK c, d, v : y = Fact("items", c, d, v)
    BY DEF Brackets
  <2> QED
    BY <1>1, <2>1
<1>3. ASSUME NEW y \in MoreItems(s, R) PROVE y[1] = "items"
  <2>1. PICK c, d, v : y = Fact("items", c, d, v)
    BY DEF MoreItems
  <2> QED
    BY <1>1, <2>1
<1>4. ASSUME NEW y \in Braces(s) PROVE y[1] = "pairs"
  <2>1. PICK c, d, v : y = Fact("pairs", c, d, v)
    BY DEF Braces
  <2> QED
    BY <1>1, <2>1
<1>5. ASSUME NEW y \in MorePairs(s, R) PROVE y[1] = "pairs"
  <2>1. PICK c, d, v : y = Fact("pairs", c, d, v)
    BY DEF MorePairs
  <2> QED
    BY <1>1, <2>1
<1>6. ASSUME NEW y \in Scalars(s) PROVE y[1] = "value"
  <2>1. PICK c, d, v : y = Fact("value", c, d, v)
    BY DEF Scalars
  <2> QED
    BY <1>1, <2>1
<1>7. ASSUME NEW y \in Words(s) PROVE y[1] = "value"
  <2>1. PICK c, d, v : y = Fact("value", c, d, v)
    BY DEF Words
  <2> QED
    BY <1>1, <2>1
<1>8. ASSUME NEW y \in Applied(s, R) PROVE y[1] = "value"
  <2>1. PICK c, d, v : y = Fact("value", c, d, v)
    BY DEF Applied
  <2> QED
    BY <1>1, <2>1
<1>9. ASSUME NEW y \in Arrays(s, R) PROVE y[1] = "value"
  <2>1. PICK c, d, v : y = Fact("value", c, d, v)
    BY DEF Arrays
  <2> QED
    BY <1>1, <2>1
<1>10. ASSUME NEW y \in Objects(s, R) PROVE y[1] = "value"
  <2>1. PICK c, d, v : y = Fact("value", c, d, v)
    BY DEF Objects
  <2> QED
    BY <1>1, <2>1
<1> QED
  BY <1>2, <1>3, <1>4, <1>5, <1>6, <1>7, <1>8, <1>9, <1>10

\* So a fact of a kind comes from the rules for it.
LEMMA YieldedBy ==
    ASSUME NEW s, NEW R, NEW part, NEW a, NEW b, NEW w, NEW x, x = Fact(part, a, b, w),
           x \in Yield(s, R)
    PROVE  /\ part = "items" => x \in Brackets(s) \/ x \in MoreItems(s, R)
           /\ part = "pairs" => x \in Braces(s) \/ x \in MorePairs(s, R)
           /\ part = "value" => \/ x \in Scalars(s) \/ x \in Words(s) \/ x \in Applied(s, R)
                                \/ x \in Arrays(s, R) \/ x \in Objects(s, R)
<1>1. x[1] = part
  BY DEF Fact
<1> QED
  BY <1>1, PartsAre DEF Yield

\* Facts are alike in every part.
LEMMA SameFact ==
    ASSUME NEW p, NEW a, NEW b, NEW w, NEW q, NEW c, NEW d, NEW v,
           Fact(p, a, b, w) = Fact(q, c, d, v)
    PROVE  p = q /\ a = c /\ b = d /\ w = v
BY DEF Fact

\* What the rules lead to follows from facts in one step.
LEMMA LedIsYielded ==
    ASSUME NEW s, NEW part, NEW a, NEW b, NEW w, Led(s, part, a, b, w)
    PROVE  Fact(part, a, b, w) \in Yield(s, Facts(s))
BY FactsAre

\* What is open was opened there, or has had a member more.
LEMMA OpenFrom ==
    ASSUME NEW s, IsStack(s), NEW part \in Opens, NEW i, NEW j, NEW xs, Led(s, part, i, j, xs)
    PROVE  Extends(s, part, i, j, xs)
<1> DEFINE x == Fact(part, i, j, xs)
<1>1. x \in Yield(s, Facts(s))
  BY LedIsYielded
<1>2. /\ part = "items" => x \in Brackets(s) \/ x \in MoreItems(s, Facts(s))
      /\ part = "pairs" => x \in Braces(s) \/ x \in MorePairs(s, Facts(s))
  <2> HIDE DEF x
  <2>1. x = Fact(part, i, j, xs)
    BY DEF x
  <2> QED
    BY <1>1, <2>1, YieldedBy
<1>3. CASE x \in Brackets(s) \/ x \in Braces(s)
  <2>1. PICK a, p : x = Fact(p, a, a + 1, <<>>)
    BY <1>3 DEF Brackets, Braces
  <2>2. i = a /\ j = a + 1 /\ xs = <<>>
    BY <2>1, SameFact
  <2> QED
    BY <2>2 DEF Extends
<1>4. CASE part = "items" /\ x \in MoreItems(s, Facts(s))
  <2>1. PICK a, k, ys : x = Fact("items", a, k, ys) /\ Joined(s, "items", ",", a, k, ys)
    BY <1>4, ElementIs DEF MoreItems
  <2>2. i = a /\ j = k /\ xs = ys
    <3>1. Fact(part, i, j, xs) = Fact("items", a, k, ys)
      BY <2>1
    <3> QED
      BY <3>1, SameFact
  <2> QED
    BY <1>4, <2>1, <2>2 DEF Extends
<1>5. CASE part = "pairs" /\ x \in MorePairs(s, Facts(s))
  <2>1. PICK a, k, ys : x = Fact("pairs", a, k, ys) /\ Joined(s, "pairs", ",", a, k, ys)
    BY <1>5, KeyedIs DEF MorePairs
  <2>2. i = a /\ j = k /\ xs = ys
    <3>1. Fact(part, i, j, xs) = Fact("pairs", a, k, ys)
      BY <2>1
    <3> QED
      BY <3>1, SameFact
  <2> QED
    BY <1>5, <2>1, <2>2 DEF Extends
<1> QED
  BY <1>2, <1>3, <1>4, <1>5 DEF Opens

\* An array is what was open and ended.
LEMMA ArrayFrom ==
    ASSUME NEW s, IsStack(s), NEW i, NEW m, NEW w,
           Fact("value", i, m, w) \in Arrays(s, Facts(s))
    PROVE  Ends(s, "items", i, m, w)
<1> DEFINE x == Fact("value", i, m, w)
<1>1. CASE \E y \in OpenArrays(Facts(s)) :
               /\ y[3] \in Places(s, {"]"})
               /\ x = Fact("value", y[2], y[3] + 1, [is |-> "array", items |-> y[4]])
  <2>1. PICK y \in Facts(s) :
            /\ y[1] = "items" /\ y[3] \in DOMAIN s /\ s[y[3]].t = Closing("items")
            /\ x = Fact("value", y[2], y[3] + 1, Made("items", y[4]))
    BY <1>1 DEF OpenArrays, Places, Closing, Made
  <2>2. Led(s, "items", y[2], y[3], y[4])
    BY <2>1, FactLed
  <2>3. Shut(s, "items", y[2], y[3] + 1, y[4])
    BY <2>1, <2>2 DEF Shut
  <2>4. PICK a, k, ys : Fact("value", i, m, w) = Fact("value", a, k, Made("items", ys)) /\ Shut(s, "items", a, k, ys)
    BY <2>1, <2>3
  <2>5. i = a /\ m = k /\ w = Made("items", ys)
    BY <2>4, SameFact
  <2> QED
    BY <2>4, <2>5 DEF Ends
<1>2. CASE \E e \in Elements(s, Facts(s), "]") :
               x = Fact("value", e[1][2], e[2][3] + 1, [is |-> "array", items |-> Extended(e)])
  <2>1. PICK a, k, ys : /\ Fact("value", i, m, w) = Fact("value", a, k, [is |-> "array", items |-> ys])
                        /\ Joined(s, "items", "]", a, k, ys)
    BY <1>2, ElementIs
  <2>2. [is |-> "array", items |-> ys] = Made("items", ys) /\ Closing("items") = "]"
    BY DEF Made, Closing
  <2>3. i = a /\ m = k /\ w = Made("items", ys)
    <3> DEFINE v == [is |-> "array", items |-> ys]
    <3>1. Fact("value", i, m, w) = Fact("value", a, k, v) /\ v = Made("items", ys)
      BY <2>1, <2>2
    <3> HIDE DEF v
    <3> QED
      BY <3>1, SameFact
  <2> QED
    BY <2>1, <2>2, <2>3 DEF Ends, Shut
<1> QED
  BY <1>1, <1>2 DEF Arrays

\* And so is an object.
LEMMA ObjectFrom ==
    ASSUME NEW s, IsStack(s), NEW i, NEW m, NEW w,
           Fact("value", i, m, w) \in Objects(s, Facts(s))
    PROVE  Ends(s, "pairs", i, m, w)
<1> DEFINE x == Fact("value", i, m, w)
<1>1. CASE \E y \in OpenObjects(Facts(s)) :
               /\ y[3] \in Places(s, {"}"})
               /\ x = Fact("value", y[2], y[3] + 1, [is |-> "object", pairs |-> y[4]])
  <2>1. PICK y \in Facts(s) :
            /\ y[1] = "pairs" /\ y[3] \in DOMAIN s /\ s[y[3]].t = Closing("pairs")
            /\ x = Fact("value", y[2], y[3] + 1, Made("pairs", y[4]))
    BY <1>1 DEF OpenObjects, Places, Closing, Made
  <2>2. Led(s, "pairs", y[2], y[3], y[4])
    BY <2>1, FactLed
  <2>3. Shut(s, "pairs", y[2], y[3] + 1, y[4])
    BY <2>1, <2>2 DEF Shut
  <2>4. PICK a, k, ys : Fact("value", i, m, w) = Fact("value", a, k, Made("pairs", ys)) /\ Shut(s, "pairs", a, k, ys)
    BY <2>1, <2>3
  <2>5. i = a /\ m = k /\ w = Made("pairs", ys)
    BY <2>4, SameFact
  <2> QED
    BY <2>4, <2>5 DEF Ends
<1>2. CASE \E e \in Keyed(s, Facts(s), "}") :
               x = Fact("value", e[1][2], e[2][3] + 1, [is |-> "object", pairs |-> Updated(s, e)])
  <2>1. PICK a, k, ys : /\ Fact("value", i, m, w) = Fact("value", a, k, [is |-> "object", pairs |-> ys])
                        /\ Joined(s, "pairs", "}", a, k, ys)
    BY <1>2, KeyedIs
  <2>2. [is |-> "object", pairs |-> ys] = Made("pairs", ys) /\ Closing("pairs") = "}"
    BY DEF Made, Closing
  <2>3. i = a /\ m = k /\ w = Made("pairs", ys)
    <3> DEFINE v == [is |-> "object", pairs |-> ys]
    <3>1. Fact("value", i, m, w) = Fact("value", a, k, v) /\ v = Made("pairs", ys)
      BY <2>1, <2>2
    <3> HIDE DEF v
    <3> QED
      BY <3>1, SameFact
  <2> QED
    BY <2>1, <2>2, <2>3 DEF Ends, Shut
<1> QED
  BY <1>1, <1>2 DEF Objects

\* It begins with its bracket.
LEMMA EndsOpening ==
    ASSUME NEW s, IsStack(s), NEW part \in Opens, NEW i, NEW m, NEW w, Ends(s, part, i, m, w)
    PROVE  s[i].t = Opening(part)
<1>1. PICK b, vs : Led(s, part, i, b, vs)
  BY DEF Ends, Shut, Joined
<1>2. Starting(part, s[i].t)
  BY <1>1, FactsPlaced DEF Placed
<1> QED
  BY <1>2 DEF Starting, Opens, Opening

\* A value is a token, or a word, or a tag over another, or what was open and ended.
LEMMA ValueFrom ==
    ASSUME NEW s, IsStack(s), NEW i, NEW m, NEW w, Led(s, "value", i, m, w)
    PROVE  \/ IsScalar(s, i, m, w) \/ IsWord(s, i, m, w) \/ IsTagged(s, i, m, w)
           \/ \E part \in Opens : s[i].t = Opening(part) /\ Ends(s, part, i, m, w)
<1> DEFINE F == Facts(s)
           x == Fact("value", i, m, w)
<1>1. \/ x \in Scalars(s) \/ x \in Words(s) \/ x \in Applied(s, F)
      \/ x \in Arrays(s, F) \/ x \in Objects(s, F)
  <2> DEFINE y == x
  <2>1. y = Fact("value", i, m, w) /\ y \in Yield(s, F)
    BY LedIsYielded
  <2> HIDE DEF y, F
  <2>2. \/ y \in Scalars(s) \/ y \in Words(s) \/ y \in Applied(s, F)
        \/ y \in Arrays(s, F) \/ y \in Objects(s, F)
    BY <2>1, YieldedBy
  <2> QED
    BY <2>2 DEF y
<1>2. CASE x \in Scalars(s)
  <2>1. PICK j \in Places(s, {"str", "num"}) :
            x = Fact("value", j, j + 1, [is |-> s[j].t, s |-> s[j].s])
    BY <1>2 DEF Scalars
  <2>2. i = j /\ m = j + 1 /\ w = [is |-> s[j].t, s |-> s[j].s]
    BY <2>1, SameFact
  <2> QED
    BY <2>1, <2>2 DEF IsScalar, Places
<1>3. CASE x \in Words(s)
  <2>1. PICK j \in Places(s, {"id"}) : x = Fact("value", j, j + 1, Bare(s[j].s))
    BY <1>3 DEF Words
  <2>2. i = j /\ m = j + 1 /\ w = Bare(s[j].s)
    BY <2>1, SameFact
  <2> QED
    BY <2>1, <2>2 DEF IsWord, Places
<1>4. CASE x \in Applied(s, F)
  <2>1. PICK y \in Facts(s) :
            /\ y[1] = "value" /\ y[4].is \notin BareParts /\ s[y[2] - 1].t = "id"
            /\ x = Fact("value", y[2] - 1, y[3],
                        [is |-> "tagged", tag |-> s[y[2] - 1].s, of |-> y[4]])
    BY <1>4 DEF Applied, Values, Places
  <2>2. i = y[2] - 1 /\ m = y[3] /\ w = [is |-> "tagged", tag |-> s[y[2] - 1].s, of |-> y[4]]
    BY <2>1, SameFact
  <2>3. Led(s, "value", y[2], y[3], y[4])
    BY <2>1, FactLed
  <2>4. y[2] \in Nat
    BY <2>3, FactsPlaced DEF Placed, Within
  <2>5. y[2] = i + 1
    BY <2>2, <2>4
  <2> QED
    BY <2>1, <2>2, <2>3, <2>5 DEF IsTagged
<1>5. CASE x \in Arrays(s, F)
  <2>1. Ends(s, "items", i, m, w) /\ "items" \in Opens
    BY <1>5, ArrayFrom DEF Opens
  <2> QED
    BY <2>1, EndsOpening
<1>6. CASE x \in Objects(s, F)
  <2>1. Ends(s, "pairs", i, m, w) /\ "pairs" \in Opens
    BY <1>6, ObjectFrom DEF Opens
  <2> QED
    BY <2>1, EndsOpening
<1> QED
  BY <1>1, <1>2, <1>3, <1>4, <1>5, <1>6

-----------------------------------------------------------------------------
(* No text spells two values. *)

\* A value is whole where it is: a bare word is not about to be a tag.
Whole(s, m, w) == w.is \in BareParts => ~(m \in DOMAIN s /\ StartsValue(s[m]))
OneValue(s, i) ==
    \A m, n, v, w : /\ Led(s, "value", i, m, v) /\ Whole(s, m, v)
                    /\ Led(s, "value", i, n, w) /\ Whole(s, n, w)
                    => m = n /\ v = w

\* Where a member ends.
After == {",", "]", "}"}
OneEntry(s, part, b) ==
    \A c, d, u, v : /\ Entry(s, part, b, c, u) /\ c \in DOMAIN s /\ s[c].t \in After
                    /\ Entry(s, part, b, d, v) /\ d \in DOMAIN s /\ s[d].t \in After
                    => c = d /\ u = v

\* A value begins at a token that starts one.
LEMMA ValueStarts ==
    ASSUME NEW s, IsStack(s), NEW i, NEW m, NEW w, Led(s, "value", i, m, w)
    PROVE  /\ i \in Nat /\ m \in Nat /\ i < m /\ i \in DOMAIN s /\ m <= Len(s) + 1
           /\ StartsValue(s[i]) /\ s[i].t \notin After \cup {"broken"}
<1>1. Within(s, i, m) /\ Starting("value", s[i].t)
  BY FactsPlaced DEF Placed
<1>2. Len(s) \in Nat /\ DOMAIN s = 1..Len(s)
  BY StackIndices
<1>3. i \in DOMAIN s
  BY <1>1, <1>2 DEF Within
<1>4. StartsValue(s[i]) /\ s[i].t \notin After \cup {"broken"}
  BY <1>1 DEF Starting, StartsValue, After
<1> QED
  BY <1>1, <1>3, <1>4 DEF Within

\* A member begins with none of the tokens it may end at.
LEMMA EntryStarts ==
    ASSUME NEW s, IsStack(s), NEW part \in Opens, NEW b \in Nat, NEW c, NEW v,
           Entry(s, part, b, c, v)
    PROVE  c \in Nat /\ b < c /\ s[b].t \notin After
<1>1. CASE part = "items"
  BY <1>1, ValueStarts DEF Entry
<1>2. CASE part = "pairs"
  <2>1. s[b].t \in {"str", "id"} /\ Led(s, "value", b + 2, c, v)
    BY <1>2 DEF Entry
  <2>2. c \in Nat /\ b + 2 < c
    BY <2>1, ValueStarts
  <2>3. s[b].t \notin After
    BY <2>1 DEF After
  <2> QED
    BY <2>2, <2>3
<1> QED
  BY <1>1, <1>2 DEF Opens

\* Before a comma or a closing bracket every value is whole.
LEMMA StoppedWhole ==
    ASSUME NEW s, NEW c \in DOMAIN s, s[c].t \in After, NEW w
    PROVE  Whole(s, c, w)
BY DEF Whole, StartsValue, After

\* If later values have one meaning, so has a member.
LEMMA EntryOne ==
    ASSUME NEW s, NEW part \in Opens, NEW i \in Nat, NEW b \in Nat, i < b,
           \A k \in Nat : i < k => OneValue(s, k)
    PROVE  OneEntry(s, part, b)
<1> SUFFICES ASSUME NEW c \in DOMAIN s, NEW d \in DOMAIN s, NEW u, NEW v,
                    s[c].t \in After, Entry(s, part, b, c, u),
                    s[d].t \in After, Entry(s, part, b, d, v)
             PROVE  c = d /\ u = v
  BY DEF OneEntry
<1>1. Whole(s, c, u) /\ Whole(s, d, v)
  BY StoppedWhole
<1>2. CASE part = "items"
  <2>1. Led(s, "value", b, c, u) /\ Led(s, "value", b, d, v) /\ OneValue(s, b)
    BY <1>2 DEF Entry
  <2> QED
    BY <1>1, <2>1 DEF OneValue
<1>3. CASE part = "pairs"
  <2>1. Led(s, "value", b + 2, c, u) /\ Led(s, "value", b + 2, d, v)
    BY <1>3 DEF Entry
  <2>2. b + 2 \in Nat /\ i < b + 2
    OBVIOUS
  <2>3. OneValue(s, b + 2)
    BY <2>2
  <2> QED
    BY <1>1, <2>1, <2>3 DEF OneValue
<1> QED
  BY <1>2, <1>3 DEF Opens

\* A member with the comma after it.
Item(s, part, b, c, v) == Entry(s, part, b, c, v) /\ c \in DOMAIN s /\ s[c].t = ","

\* And so has a member with its comma.
LEMMA ItemOne ==
    ASSUME NEW s, NEW part, NEW b, OneEntry(s, part, b),
           NEW c, NEW d, NEW u, NEW v, Item(s, part, b, c, u), Item(s, part, b, d, v)
    PROVE  c = d /\ u = v
<1>1. \A e \in DOMAIN s : s[e].t = "," => s[e].t \in After
  BY DEF After
<1> QED
  BY <1>1 DEF Item, OneEntry

\* What is open up to one place and up to a later one: there is one member from the
\* first that a comma follows, before the second.
Passed(s, part, j, xs, k, ys) ==
    /\ j = k => xs = ys
    /\ j < k => \E c \in Nat : \E v : Item(s, part, j, c, v) /\ c < k
PassedUpTo(s, part, i, n) ==
    \A j, k \in Nat : \A xs, ys :
        /\ j <= k /\ k <= n /\ Led(s, part, i, j, xs) /\ Led(s, part, i, k, ys)
        => Passed(s, part, j, xs, k, ys)

\* What was open before the last comma.
Before(s, part, i, k, ys, b, c, vs, v) ==
    /\ b \in Nat /\ c \in Nat /\ i < b /\ b < c /\ k = c + 1
    /\ Led(s, part, i, b, vs) /\ Item(s, part, b, c, v)
    /\ ys = With(s, part, b, vs, v)

\* What is open is open at once, or from an earlier place on.
LEMMA OpenBefore ==
    ASSUME NEW s, IsStack(s), NEW part \in Opens, NEW i, NEW k, NEW ys, Led(s, part, i, k, ys)
    PROVE  /\ i \in Nat /\ k \in Nat /\ i < k
           /\ \/ k = i + 1 /\ ys = <<>>
              \/ \E b, c, vs, v : Before(s, part, i, k, ys, b, c, vs, v)
<1>1. \A b, vs : Led(s, part, i, b, vs) => i \in Nat /\ b \in Nat /\ i < b
  BY FactsPlaced DEF Placed, Within
<1>2. CASE k = i + 1 /\ ys = <<>>
  BY <1>1, <1>2
<1>3. CASE Joined(s, part, ",", i, k, ys)
  <2>1. PICK b, c, vs, v :
            /\ Led(s, part, i, b, vs) /\ Entry(s, part, b, c, v)
            /\ c \in DOMAIN s /\ s[c].t = ","
            /\ k = c + 1 /\ ys = With(s, part, b, vs, v)
    BY <1>3 DEF Joined
  <2>2. b \in Nat /\ i < b
    BY <1>1, <2>1
  <2>3. c \in Nat /\ b < c
    BY <2>1, <2>2, EntryStarts
  <2>4. Before(s, part, i, k, ys, b, c, vs, v)
    BY <2>1, <2>2, <2>3 DEF Before, Item
  <2> QED
    BY <1>1, <2>4
<1> QED
  BY <1>2, <1>3, OpenFrom DEF Extends

\* What PassedUpTo says of two different places.
LEMMA PassedBetween ==
    ASSUME NEW s, NEW part, NEW i, NEW n \in Nat, PassedUpTo(s, part, i, n),
           NEW j \in Nat, NEW k \in Nat, NEW xs, NEW ys, j < k, k <= n,
           Led(s, part, i, j, xs), Led(s, part, i, k, ys)
    PROVE  \E c \in Nat : \E v : Item(s, part, j, c, v) /\ c < k
<1>1. j <= k
  OBVIOUS
<1>2. Passed(s, part, j, xs, k, ys)
  BY <1>1 DEF PassedUpTo
<1> QED
  BY <1>2 DEF Passed

\* And of one place twice.
LEMMA PassedAt ==
    ASSUME NEW s, NEW part, NEW i, NEW n \in Nat, PassedUpTo(s, part, i, n),
           NEW j \in Nat, NEW xs, NEW ys, j <= n,
           Led(s, part, i, j, xs), Led(s, part, i, j, ys)
    PROVE  xs = ys
<1>1. j <= j
  OBVIOUS
<1>2. Passed(s, part, j, xs, j, ys)
  BY <1>1 DEF PassedUpTo
<1> QED
  BY <1>2 DEF Passed

\* Nothing is open up to a place before the first member.
LEMMA PassedFirst ==
    ASSUME NEW s, IsStack(s), NEW part \in Opens, NEW i \in Nat, NEW k \in Nat,
           NEW j \in Nat, NEW xs, j <= k, k = i + 1, Led(s, part, i, j, xs)
    PROVE  j = k /\ xs = <<>>
<1>1. i < j
  BY OpenBefore
<1>2. j = i + 1 /\ j = k
  BY <1>1
<1>3. ASSUME NEW b, NEW c, NEW vs, NEW v, Before(s, part, i, j, xs, b, c, vs, v)
      PROVE  FALSE
  <2>1. b \in Nat /\ c \in Nat /\ i < b /\ b < c /\ j = c + 1
    BY <1>3 DEF Before
  <2> QED
    BY <1>2, <2>1
<1> QED
  BY <1>2, <1>3, OpenBefore

\* One member on: what is open before a place is passed on the way to what is open after it.
LEMMA PassedLater ==
    ASSUME NEW s, IsStack(s), NEW part \in Opens, NEW i \in Nat, NEW n \in Nat,
           \A b \in Nat : i < b => OneEntry(s, part, b),
           PassedUpTo(s, part, i, n),
           NEW j \in Nat, NEW k \in Nat, NEW xs, NEW ys, j < k, k <= n + 1,
           Led(s, part, i, j, xs),
           NEW b, NEW c, NEW vs, NEW v, Before(s, part, i, k, ys, b, c, vs, v)
    PROVE  \E d \in Nat : \E u : Item(s, part, j, d, u) /\ d < k
<1>1. /\ b \in Nat /\ c \in Nat /\ i < b /\ b < c /\ k = c + 1
      /\ Led(s, part, i, b, vs) /\ Item(s, part, b, c, v)
  BY DEF Before
<1>2. b <= n /\ c < k /\ b < k /\ j <= n /\ j <= c
  BY <1>1
<1>3. CASE j < b
  <2>1. PICK d \in Nat : \E u : Item(s, part, j, d, u) /\ d < b
    BY <1>1, <1>2, <1>3, PassedBetween
  <2>2. d < b => d < k
    BY <1>1, <1>2
  <2> QED
    BY <2>1, <2>2
<1>4. CASE j = b
  BY <1>1, <1>2, <1>4
<1>5. CASE b < j
  <2>1. PICK d \in Nat : \E u : Item(s, part, b, d, u) /\ d < j
    BY <1>1, <1>2, <1>5, PassedBetween
  <2>2. d = c
    BY <1>1, <2>1, ItemOne
  <2>3. d < j
    BY <2>1
  <2> QED
    BY <1>1, <1>2, <2>2, <2>3
<1>6. j < b \/ j = b \/ b < j
  BY <1>1
<1> QED
  BY <1>3, <1>4, <1>5, <1>6

\* Two readings up to the same comma are one.
LEMMA PassedSame ==
    ASSUME NEW s, IsStack(s), NEW part \in Opens, NEW i \in Nat, NEW n \in Nat,
           \A b \in Nat : i < b => OneEntry(s, part, b),
           PassedUpTo(s, part, i, n),
           NEW k \in Nat, NEW xs, NEW ys, k <= n + 1,
           NEW a, NEW d, NEW us, NEW u, Before(s, part, i, k, xs, a, d, us, u),
           NEW b, NEW c, NEW vs, NEW v, Before(s, part, i, k, ys, b, c, vs, v)
    PROVE  xs = ys
<1>1. /\ b \in Nat /\ c \in Nat /\ i < b /\ b < c /\ k = c + 1
      /\ Led(s, part, i, b, vs) /\ Item(s, part, b, c, v) /\ ys = With(s, part, b, vs, v)
  BY DEF Before
<1>2. /\ a \in Nat /\ d \in Nat /\ i < a /\ a < d /\ k = d + 1
      /\ Led(s, part, i, a, us) /\ Item(s, part, a, d, u) /\ xs = With(s, part, a, us, u)
  BY DEF Before
<1>3. a <= n /\ b <= n /\ c = d
  BY <1>1, <1>2
<1>4. ~(a < b)
  <2> SUFFICES ASSUME a < b
               PROVE  FALSE
    OBVIOUS
  <2>1. PICK e \in Nat : \E w : Item(s, part, a, e, w) /\ e < b
    BY <1>1, <1>2, <1>3, PassedBetween
  <2>2. e = d
    BY <1>2, <2>1, ItemOne
  <2>3. e < b
    BY <2>1
  <2> QED
    BY <1>1, <1>3, <2>2, <2>3
<1>5. ~(b < a)
  <2> SUFFICES ASSUME b < a
               PROVE  FALSE
    OBVIOUS
  <2>1. PICK e \in Nat : \E w : Item(s, part, b, e, w) /\ e < a
    BY <1>1, <1>2, <1>3, PassedBetween
  <2>2. e = c
    BY <1>1, <2>1, ItemOne
  <2>3. e < a
    BY <2>1
  <2> QED
    BY <1>2, <1>3, <2>2, <2>3
<1>6. a = b
  BY <1>1, <1>2, <1>4, <1>5
<1>7. us = vs
  BY <1>1, <1>2, <1>3, <1>6, PassedAt
<1>8. u = v
  BY <1>1, <1>2, <1>6, ItemOne
<1> QED
  BY <1>1, <1>2, <1>6, <1>7, <1>8

\* So two readings are one, up to a place further on.
LEMMA PassedNext ==
    ASSUME NEW s, IsStack(s), NEW part \in Opens, NEW i \in Nat, NEW n \in Nat,
           \A b \in Nat : i < b => OneEntry(s, part, b),
           PassedUpTo(s, part, i, n),
           NEW j \in Nat, NEW k \in Nat, NEW xs, NEW ys, j <= k, k <= n + 1,
           Led(s, part, i, j, xs), Led(s, part, i, k, ys)
    PROVE  Passed(s, part, j, xs, k, ys)
<1>1. CASE k = i + 1 /\ ys = <<>>
  <2>1. j = k /\ xs = <<>>
    BY <1>1, PassedFirst
  <2> QED
    BY <1>1, <2>1 DEF Passed
<1>2. CASE \E b, c, vs, v : Before(s, part, i, k, ys, b, c, vs, v)
  <2>1. PICK b, c, vs, v : Before(s, part, i, k, ys, b, c, vs, v)
    BY <1>2
  <2>2. j < k => \E d \in Nat : \E u : Item(s, part, j, d, u) /\ d < k
    BY <2>1, PassedLater
  <2>3. ASSUME j = k
        PROVE  xs = ys
    <3>1. CASE k = i + 1 /\ xs = <<>>
      <4>1. k <= k
        OBVIOUS
      <4>2. ys = <<>>
        BY <3>1, <4>1, PassedFirst
      <4> QED
        BY <3>1, <4>2
    <3>2. CASE \E a, d, us, u : Before(s, part, i, k, xs, a, d, us, u)
      <4>1. PICK a, d, us, u : Before(s, part, i, k, xs, a, d, us, u)
        BY <3>2
      <4> QED
        BY <2>1, <4>1, PassedSame
    <3>3. Led(s, part, i, k, xs)
      BY <2>3
    <3> QED
      BY <3>1, <3>2, <3>3, OpenBefore
  <2> QED
    BY <2>2, <2>3 DEF Passed
<1> QED
  BY <1>1, <1>2, OpenBefore

\* And however far.
LEMMA PassedAll ==
    ASSUME NEW s, IsStack(s), NEW part \in Opens, NEW i \in Nat,
           \A b \in Nat : i < b => OneEntry(s, part, b)
    PROVE  \A n \in Nat : PassedUpTo(s, part, i, n)
<1> DEFINE S == {n \in Nat : PassedUpTo(s, part, i, n)}
<1>1. 0 \in S
  <2>1. ASSUME NEW j \in Nat, NEW k \in Nat, NEW ys, k <= 0, Led(s, part, i, k, ys)
        PROVE  FALSE
    <3>1. i < k
      BY <2>1, OpenBefore
    <3> QED
      BY <2>1, <3>1
  <2> QED
    BY <2>1 DEF PassedUpTo
<1>2. ASSUME NEW n \in Nat, n \in S
      PROVE  n + 1 \in S
  <2>0. PassedUpTo(s, part, i, n)
    BY <1>2
  <2>1. \A j, k \in Nat : \A xs, ys :
            /\ j <= k /\ k <= n + 1 /\ Led(s, part, i, j, xs) /\ Led(s, part, i, k, ys)
            => Passed(s, part, j, xs, k, ys)
    BY <2>0, PassedNext
  <2>2. PassedUpTo(s, part, i, n + 1)
    BY <2>1 DEF PassedUpTo
  <2> QED
    BY <2>2
<1> HIDE DEF S
<1>3. \A n \in Nat : n \in S
  BY <1>1, <1>2, Induct
<1> QED
  BY <1>3 DEF S

\* What is open up to a place, and then ends: there, or after a last member.
ShutAt(s, part, b, vs, j, ys) ==
    b \in DOMAIN s /\ s[b].t = Closing(part) /\ j = b + 1 /\ ys = vs
ShutAfter(s, part, b, vs, j, ys) ==
    \E c, v : /\ Entry(s, part, b, c, v) /\ c \in DOMAIN s /\ s[c].t = Closing(part)
              /\ j = c + 1 /\ ys = With(s, part, b, vs, v)
ShutFrom(s, part, i, b, vs, j, ys) ==
    /\ b \in Nat /\ i < b /\ Led(s, part, i, b, vs)
    /\ ShutAt(s, part, b, vs, j, ys) \/ ShutAfter(s, part, b, vs, j, ys)

\* What has ended was open up to some place, and ended there or after a last member.
LEMMA ShutSomewhere ==
    ASSUME NEW s, IsStack(s), NEW part \in Opens, NEW i, NEW j, NEW ys, Shut(s, part, i, j, ys)
    PROVE  \E b, vs : ShutFrom(s, part, i, b, vs, j, ys)
<1>1. PICK b, vs : /\ Led(s, part, i, b, vs)
                   /\ ShutAt(s, part, b, vs, j, ys) \/ ShutAfter(s, part, b, vs, j, ys)
  BY DEF Shut, Joined, ShutAt, ShutAfter
<1>2. b \in Nat /\ i < b
  BY <1>1, OpenBefore
<1> QED
  BY <1>1, <1>2 DEF ShutFrom

\* The closing brackets are among the tokens a member ends at.
LEMMA ClosingStops == \A part \in Opens : Closing(part) \in After /\ Closing(part) # ","
BY DEF Opens, Closing, After

\* Where it ends no member follows with a comma.
LEMMA ShutNoItem ==
    ASSUME NEW s, IsStack(s), NEW part \in Opens, NEW i, NEW b, NEW vs, NEW j, NEW ys,
           ShutFrom(s, part, i, b, vs, j, ys), OneEntry(s, part, b),
           NEW d, NEW u, Item(s, part, b, d, u)
    PROVE  FALSE
<1>1. CASE ShutAt(s, part, b, vs, j, ys)
  <2>1. b \in Nat /\ Entry(s, part, b, d, u)
    BY DEF ShutFrom, Item
  <2>2. s[b].t \notin After
    BY <2>1, EntryStarts
  <2> QED
    BY <1>1, <2>2, ClosingStops DEF ShutAt
<1>2. CASE ShutAfter(s, part, b, vs, j, ys)
  <2>1. PICK c, v : Entry(s, part, b, c, v) /\ c \in DOMAIN s /\ s[c].t = Closing(part)
    BY <1>2 DEF ShutAfter
  <2>2. Entry(s, part, b, d, u) /\ d \in DOMAIN s /\ s[d].t = "," /\ "," \in After
    BY DEF Item, After
  <2>3. c = d
    BY <2>1, <2>2, ClosingStops DEF OneEntry
  <2> QED
    BY <2>1, <2>2, <2>3, ClosingStops
<1> QED
  BY <1>1, <1>2 DEF ShutFrom

\* So nothing is open from the same place up to a later one.
LEMMA ShutLast ==
    ASSUME NEW s, IsStack(s), NEW part \in Opens, NEW i \in Nat,
           \A b \in Nat : i < b => OneEntry(s, part, b),
           NEW b, NEW vs, NEW j, NEW ys, ShutFrom(s, part, i, b, vs, j, ys),
           NEW a \in Nat, NEW xs, Led(s, part, i, a, xs)
    PROVE  a <= b
<1> SUFFICES ASSUME b < a PROVE FALSE
  BY DEF ShutFrom
<1>1. b \in Nat /\ i < b /\ Led(s, part, i, b, vs) /\ OneEntry(s, part, b)
  BY DEF ShutFrom
<1>2. PassedUpTo(s, part, i, a) /\ a <= a
  BY PassedAll
<1>3. PICK d \in Nat : \E u : Item(s, part, b, d, u) /\ d < a
  BY <1>1, <1>2, PassedBetween
<1> QED
  BY <1>1, <1>3, ShutNoItem

\* So what is opened ends in one way.
LEMMA ShutOne ==
    ASSUME NEW s, IsStack(s), NEW part \in Opens, NEW i \in Nat,
           \A b \in Nat : i < b => OneEntry(s, part, b),
           NEW j, NEW k, NEW xs, NEW ys, Shut(s, part, i, j, xs), Shut(s, part, i, k, ys)
    PROVE  j = k /\ xs = ys
<1>1. PICK a, us : ShutFrom(s, part, i, a, us, j, xs)
  BY ShutSomewhere
<1>2. PICK b, vs : ShutFrom(s, part, i, b, vs, k, ys)
  BY ShutSomewhere
<1>3. /\ a \in Nat /\ i < a /\ Led(s, part, i, a, us)
      /\ b \in Nat /\ Led(s, part, i, b, vs)
  BY <1>1, <1>2 DEF ShutFrom
<1>4. a <= b /\ b <= a
  BY <1>1, <1>2, <1>3, ShutLast
<1>5. a = b
  BY <1>3, <1>4
<1>6. us = vs
  <2>1. PassedUpTo(s, part, i, a) /\ a <= a
    BY <1>3, PassedAll
  <2> QED
    BY <1>3, <1>5, <2>1, PassedAt
<1>7. ASSUME ShutAt(s, part, a, us, j, xs), ShutAt(s, part, a, us, k, ys)
      PROVE  j = k /\ xs = ys
  BY <1>7 DEF ShutAt
<1>8. ASSUME NEW l, NEW zs, ShutAt(s, part, a, us, l, zs),
             NEW m, NEW ws, ShutAfter(s, part, a, us, m, ws)
      PROVE  FALSE
  <2>1. PICK c, v : Entry(s, part, a, c, v)
    BY <1>8 DEF ShutAfter
  <2>2. s[a].t \notin After
    BY <1>3, <2>1, EntryStarts
  <2> QED
    BY <1>8, <2>2, ClosingStops DEF ShutAt
<1>9. ASSUME ShutAfter(s, part, a, us, j, xs), ShutAfter(s, part, a, us, k, ys)
      PROVE  j = k /\ xs = ys
  <2>1. PICK c, v : /\ Entry(s, part, a, c, v) /\ c \in DOMAIN s /\ s[c].t = Closing(part)
                    /\ j = c + 1 /\ xs = With(s, part, a, us, v)
    BY <1>9 DEF ShutAfter
  <2>2. PICK d, u : /\ Entry(s, part, a, d, u) /\ d \in DOMAIN s /\ s[d].t = Closing(part)
                    /\ k = d + 1 /\ ys = With(s, part, a, us, u)
    BY <1>9 DEF ShutAfter
  <2>3. s[c].t \in After /\ s[d].t \in After /\ OneEntry(s, part, a)
    BY <1>3, <2>1, <2>2, ClosingStops
  <2>4. c = d /\ v = u
    BY <2>1, <2>2, <2>3 DEF OneEntry
  <2> QED
    BY <2>1, <2>2, <2>4
<1>10. /\ ShutAt(s, part, a, us, j, xs) \/ ShutAfter(s, part, a, us, j, xs)
       /\ ShutAt(s, part, a, us, k, ys) \/ ShutAfter(s, part, a, us, k, ys)
  BY <1>1, <1>2, <1>5, <1>6 DEF ShutFrom
<1> QED
  BY <1>7, <1>8, <1>9, <1>10

\* The token a value begins with says what it is.
LEMMA ValueByToken ==
    ASSUME NEW s, IsStack(s), NEW i, NEW m, NEW w, Led(s, "value", i, m, w)
    PROVE  /\ s[i].t \in {"str", "num", "id", "[", "{"}
           /\ s[i].t \in {"str", "num"} => IsScalar(s, i, m, w)
           /\ s[i].t = "id" => IsWord(s, i, m, w) \/ IsTagged(s, i, m, w)
           /\ \A part \in Opens : s[i].t = Opening(part) => Ends(s, part, i, m, w)
<1>1. \A part \in Opens : Opening(part) \in {"[", "{"}
  BY DEF Opens, Opening
<1>2. \A part, q \in Opens : Opening(part) = Opening(q) => part = q
  BY DEF Opens, Opening
<1>3. CASE IsScalar(s, i, m, w)
  <2>1. s[i].t \in {"str", "num"}
    BY <1>3 DEF IsScalar
  <2>2. s[i].t # "id" /\ s[i].t \notin {"[", "{"}
    BY <2>1
  <2> QED
    BY <1>1, <1>3, <2>1, <2>2
<1>4. CASE IsWord(s, i, m, w) \/ IsTagged(s, i, m, w)
  <2>1. s[i].t = "id"
    BY <1>4 DEF IsWord, IsTagged
  <2> QED
    BY <1>1, <1>4, <2>1
<1>5. ASSUME NEW part \in Opens, s[i].t = Opening(part), Ends(s, part, i, m, w)
      PROVE  /\ s[i].t \in {"[", "{"}
             /\ \A q \in Opens : s[i].t = Opening(q) => Ends(s, q, i, m, w)
  BY <1>1, <1>2, <1>5
<1>6. ASSUME NEW part \in Opens, s[i].t = Opening(part), Ends(s, part, i, m, w)
      PROVE  s[i].t \notin {"str", "num"} /\ s[i].t # "id"
  <2>1. s[i].t \in {"[", "{"}
    BY <1>6, <1>1
  <2> QED
    BY <2>1
<1> QED
  BY <1>3, <1>4, <1>5, <1>6, ValueFrom

\* A word is a bare value.
LEMMA BareIs == \A name : Bare(name).is \in BareParts
BY DEF Bare, BareParts

\* Longer first: if the text after a place has one meaning everywhere, so has the text
\* from that place.
LEMMA OneValueHere ==
    ASSUME NEW s, IsStack(s), NEW i \in Nat, \A k \in Nat : i < k => OneValue(s, k)
    PROVE  OneValue(s, i)
<1> SUFFICES ASSUME NEW m, NEW n, NEW v, NEW w,
                    Led(s, "value", i, m, v), Whole(s, m, v),
                    Led(s, "value", i, n, w), Whole(s, n, w)
             PROVE  m = n /\ v = w
  BY DEF OneValue
<1>1. CASE s[i].t \in {"str", "num"}
  <2>1. IsScalar(s, i, m, v) /\ IsScalar(s, i, n, w)
    BY <1>1, ValueByToken
  <2> QED
    BY <2>1 DEF IsScalar
<1>2. CASE s[i].t = "id"
  <2>1. ASSUME NEW m1, NEW v1, NEW m2, NEW v2,
               IsWord(s, i, m1, v1), Whole(s, m1, v1), IsTagged(s, i, m2, v2)
        PROVE  FALSE
    <3>1. m1 = i + 1 /\ v1.is \in BareParts
      BY <2>1, BareIs DEF IsWord
    <3>2. PICK u : Led(s, "value", i + 1, m2, u)
      BY <2>1 DEF IsTagged
    <3>3. i + 1 \in DOMAIN s /\ StartsValue(s[i + 1])
      BY <3>2, ValueStarts
    <3> QED
      BY <2>1, <3>1, <3>3 DEF Whole
  <2>2. ASSUME IsWord(s, i, m, v), IsWord(s, i, n, w)
        PROVE  m = n /\ v = w
    BY <2>2 DEF IsWord
  <2>3. ASSUME IsTagged(s, i, m, v), IsTagged(s, i, n, w)
        PROVE  m = n /\ v = w
    <3>1. PICK x : /\ Led(s, "value", i + 1, m, x) /\ x.is \notin BareParts
                   /\ v = [is |-> "tagged", tag |-> s[i].s, of |-> x]
      BY <2>3 DEF IsTagged
    <3>2. PICK y : /\ Led(s, "value", i + 1, n, y) /\ y.is \notin BareParts
                   /\ w = [is |-> "tagged", tag |-> s[i].s, of |-> y]
      BY <2>3 DEF IsTagged
    <3>3. Whole(s, m, x) /\ Whole(s, n, y)
      BY <3>1, <3>2 DEF Whole
    <3>4. i + 1 \in Nat /\ i < i + 1
      OBVIOUS
    <3>5. OneValue(s, i + 1)
      BY <3>4
    <3>6. m = n /\ x = y
      BY <3>1, <3>2, <3>3, <3>5 DEF OneValue
    <3> QED
      BY <3>1, <3>2, <3>6
  <2>4. /\ IsWord(s, i, m, v) \/ IsTagged(s, i, m, v)
        /\ IsWord(s, i, n, w) \/ IsTagged(s, i, n, w)
    BY <1>2, ValueByToken
  <2> QED
    BY <2>1, <2>2, <2>3, <2>4
<1>3. ASSUME NEW part \in Opens, s[i].t = Opening(part)
      PROVE  m = n /\ v = w
  <2>1. Ends(s, part, i, m, v) /\ Ends(s, part, i, n, w)
    BY <1>3, ValueByToken
  <2>2. PICK xs : Shut(s, part, i, m, xs) /\ v = Made(part, xs)
    BY <2>1 DEF Ends
  <2>3. PICK ys : Shut(s, part, i, n, ys) /\ w = Made(part, ys)
    BY <2>1 DEF Ends
  <2>4. \A b \in Nat : i < b => OneEntry(s, part, b)
    BY EntryOne
  <2>5. m = n /\ xs = ys
    BY <2>2, <2>3, <2>4, ShutOne
  <2> QED
    BY <2>2, <2>3, <2>5
<1>4. \/ s[i].t \in {"str", "num"} \/ s[i].t = "id"
      \/ \E part \in Opens : s[i].t = Opening(part)
  <2>1. s[i].t \in {"str", "num", "id", "[", "{"}
    BY ValueByToken
  <2>2. \A t \in {"[", "{"} : \E part \in Opens : t = Opening(part)
    BY DEF Opens, Opening
  <2> QED
    BY <2>1, <2>2
<1> QED
  BY <1>1, <1>2, <1>3, <1>4

\* Induction on how much of the text there is after the place.
LEMMA OneValueEverywhere ==
    ASSUME NEW s, IsStack(s)
    PROVE  \A i \in Nat : OneValue(s, i)
<1> DEFINE l == Len(s)
           S == {n \in Nat : \A i \in Nat : i + n > l => OneValue(s, i)}
<1>0. l \in Nat
  BY StackIndices
<1>1. 0 \in S
  <2>1. ASSUME NEW i \in Nat, i > l PROVE OneValue(s, i)
    <3>1. ASSUME NEW m, NEW w, Led(s, "value", i, m, w) PROVE FALSE
      <4>1. i < m /\ m <= Len(s) + 1 /\ m \in Nat
        BY <3>1, ValueStarts
      <4> QED
        BY <1>0, <2>1, <4>1
    <3> QED
      BY <3>1 DEF OneValue
  <2> HIDE DEF l
  <2>2. \A i \in Nat : i + 0 > l => i > l
    BY <1>0
  <2> QED
    BY <2>1, <2>2
<1>2. ASSUME NEW n \in Nat, n \in S PROVE n + 1 \in S
  <2> HIDE DEF l
  <2>1. \A i \in Nat : i + n > l => OneValue(s, i)
    BY <1>2
  <2>2. ASSUME NEW i \in Nat, i + (n + 1) > l PROVE OneValue(s, i)
    <3>1. \A k \in Nat : i < k => k + n > l
      BY <1>0, <2>2
    <3>2. \A k \in Nat : i < k => OneValue(s, k)
      BY <2>1, <3>1
    <3> QED
      BY <3>2, OneValueHere
  <2> QED
    BY <2>2
<1> HIDE DEF S
<1>3. \A n \in Nat : n \in S
  BY <1>1, <1>2, Induct
<1>4. SUFFICES ASSUME NEW i \in Nat PROVE OneValue(s, i)
  OBVIOUS
<1>5. l + 1 \in S /\ i + (l + 1) > l
  <2> HIDE DEF l
  <2> QED
    BY <1>0, <1>3
<1> QED
  BY <1>5 DEF S

-----------------------------------------------------------------------------
(* What a document spells says what must come at the place the parser is at. *)

\* What a frame, or the document, makes of the value it waits for.
Suits(s, f, m, w) ==
    \/ f = "document" /\ m = Len(s) + 1
    \/ f = "tag" /\ w.is \notin BareParts
    \/ f = "array" /\ m \in DOMAIN s /\ s[m].t \in {",", Closing("items")}
    \/ f = "object" /\ m \in DOMAIN s /\ s[m].t \in {",", Closing("pairs")}
Wanted(s, f, a) == \E m, w : Led(s, "value", a, m, w) /\ Suits(s, f, m, w)
Kind(st, n) == IF n = 0 THEN "document" ELSE st[n].f

\* What the frame has seen ahead of the value.
Fits(s, fr, b) ==
    /\ fr.f = "tag" => b \in DOMAIN s /\ StartsValue(s[b])
    /\ fr.f = "array" => ~(b \in DOMAIN s /\ s[b].t = "]")

\* What a frame can use is whole.
LEMMA SuitsWhole ==
    ASSUME NEW s, IsStack(s), NEW f, NEW m, NEW w, Suits(s, f, m, w)
    PROVE  Whole(s, m, w)
<1>1. Len(s) + 1 \notin DOMAIN s
  <2>1. Len(s) \in Nat /\ DOMAIN s = 1..Len(s)
    BY StackIndices
  <2> QED
    BY <2>1
<1>2. CASE f = "document" /\ m = Len(s) + 1
  BY <1>1, <1>2 DEF Whole
<1>3. CASE w.is \notin BareParts
  BY <1>3 DEF Whole
<1>4. CASE m \in DOMAIN s /\ s[m].t \in {",", "]", "}"}
  BY <1>4, StoppedWhole DEF After
<1> QED
  BY <1>2, <1>3, <1>4 DEF Suits, Closing

\* A value that is wanted begins with a token that starts one, and that was scanned.
LEMMA WantedStarts ==
    ASSUME NEW s, IsStack(s), NEW f, NEW a, Wanted(s, f, a)
    PROVE  a \in Nat /\ a \in DOMAIN s /\ StartsValue(s[a]) /\ s[a].t # "broken"
<1>1. PICK m, w : Led(s, "value", a, m, w)
  BY DEF Wanted
<1> QED
  BY <1>1, ValueStarts

\* What is open began at its bracket.
LEMMA OpenStarts ==
    ASSUME NEW s, IsStack(s), NEW part \in Opens, NEW a, NEW b, NEW xs, Led(s, part, a, b, xs)
    PROVE  /\ a \in Nat /\ b \in Nat /\ a < b /\ a \in DOMAIN s /\ s[a].t = Opening(part)
           /\ StartsValue(s[a]) /\ s[a].t # "]"
<1>1. Within(s, a, b) /\ Starting(part, s[a].t)
  BY FactsPlaced DEF Placed
<1>2. Len(s) \in Nat /\ DOMAIN s = 1..Len(s)
  BY StackIndices
<1>3. a \in DOMAIN s
  BY <1>1, <1>2 DEF Within
<1>4. s[a].t = Opening(part) /\ s[a].t \in {"[", "{"}
  BY <1>1 DEF Starting, Opens, Opening
<1>5. StartsValue(s[a]) /\ s[a].t # "]"
  BY <1>4 DEF StartsValue
<1> QED
  BY <1>1, <1>3, <1>4, <1>5 DEF Within

\* What is open within a document that spells something: its bracket comes next, or
\* a member and then a comma or the bracket.
LastOrNext(s, part, b) ==
    \/ b \in DOMAIN s /\ s[b].t = Closing(part)
    \/ \E c, v : Entry(s, part, b, c, v) /\ c \in DOMAIN s /\ s[c].t \in {",", Closing(part)}

\* There is no third possibility: what is open goes on as the document's own value does.
LEMMA NextMember ==
    ASSUME NEW s, IsStack(s), NEW f, NEW a, Wanted(s, f, a), NEW part \in Opens,
           NEW b, NEW xs, Led(s, part, a, b, xs)
    PROVE  LastOrNext(s, part, b)
<1>1. a \in Nat /\ b \in Nat /\ a < b /\ s[a].t = Opening(part)
  BY OpenStarts
<1>2. PICK m, w : Led(s, "value", a, m, w)
  BY DEF Wanted
<1>3. PICK ys : Shut(s, part, a, m, ys)
  BY <1>1, <1>2, ValueByToken DEF Ends
<1>4. PICK k, vs : ShutFrom(s, part, a, k, vs, m, ys)
  BY <1>3, ShutSomewhere
<1>5. \A i \in Nat : a < i => OneEntry(s, part, i)
  <2>1. \A i \in Nat : OneValue(s, i)
    BY OneValueEverywhere
  <2> QED
    BY <1>1, <2>1, EntryOne
<1>6. k \in Nat /\ b <= k /\ Led(s, part, a, k, vs)
  BY <1>1, <1>4, <1>5, ShutLast DEF ShutFrom
<1>7. CASE b = k
  <2>1. CASE ShutAt(s, part, b, vs, m, ys)
    BY <2>1 DEF ShutAt, LastOrNext
  <2>2. CASE ShutAfter(s, part, b, vs, m, ys)
    BY <2>2 DEF ShutAfter, LastOrNext
  <2> QED
    BY <1>4, <1>7, <2>1, <2>2 DEF ShutFrom
<1>8. CASE b < k
  <2>1. PassedUpTo(s, part, a, k) /\ k <= k
    BY <1>1, <1>5, <1>6, PassedAll
  <2>2. PICK c \in Nat : \E v : Item(s, part, b, c, v)
    BY <1>1, <1>6, <1>8, <2>1, PassedBetween
  <2> QED
    BY <2>2 DEF Item, LastOrNext
<1> QED
  BY <1>1, <1>6, <1>7, <1>8

\* A tag wants its argument, when something that could be one comes next.
LEMMA WantedTag ==
    ASSUME NEW s, IsStack(s), NEW f, NEW a, Wanted(s, f, a), NEW fr, NEW b,
           AfterTag(s, fr, a, b), f = "tag" \/ (b \in DOMAIN s /\ StartsValue(s[b]))
    PROVE  Wanted(s, "tag", b)
<1>1. PICK m, w : Led(s, "value", a, m, w) /\ Suits(s, f, m, w)
  BY DEF Wanted
<1>2. s[a].t = "id" /\ b = a + 1
  BY DEF AfterTag
<1>3. CASE IsWord(s, a, m, w)
  <2>1. m = b /\ w.is \in BareParts
    BY <1>2, <1>3, BareIs DEF IsWord
  <2>2. Whole(s, m, w)
    BY <1>1, SuitsWhole
  <2>3. f # "tag"
    BY <1>1, <2>1 DEF Suits
  <2> QED
    BY <2>1, <2>2, <2>3 DEF Whole
<1>4. CASE IsTagged(s, a, m, w)
  BY <1>2, <1>4 DEF IsTagged, Wanted, Suits
<1> QED
  BY <1>1, <1>2, <1>3, <1>4, ValueByToken

\* An array wants an element, unless its bracket comes next.
LEMMA WantedArray ==
    ASSUME NEW s, IsStack(s), NEW f, NEW a, Wanted(s, f, a),
           NEW b, NEW xs, Led(s, "items", a, b, xs), ~(b \in DOMAIN s /\ s[b].t = "]")
    PROVE  Wanted(s, "array", b)
<1>1. LastOrNext(s, "items", b)
  BY NextMember DEF Opens
<1>2. PICK c, v : /\ Entry(s, "items", b, c, v)
                  /\ c \in DOMAIN s /\ s[c].t \in {",", Closing("items")}
  BY <1>1 DEF LastOrNext, Closing
<1> QED
  BY <1>2 DEF Entry, Wanted, Suits

\* A key comes next, and its colon and its value, unless the object ends.
LEMMA WantedKey ==
    ASSUME NEW s, IsStack(s), NEW f, NEW a, Wanted(s, f, a),
           NEW k, NEW xs, Led(s, "pairs", a, k, xs), ~(k \in DOMAIN s /\ s[k].t = "}")
    PROVE  /\ k \in DOMAIN s /\ s[k].t \in {"str", "id"}
           /\ k + 1 \in DOMAIN s /\ s[k + 1].t = ":"
           /\ Wanted(s, "object", k + 2)
<1>1. LastOrNext(s, "pairs", k)
  BY NextMember DEF Opens
<1>2. PICK c, v : /\ Entry(s, "pairs", k, c, v)
                  /\ c \in DOMAIN s /\ s[c].t \in {",", Closing("pairs")}
  BY <1>1 DEF LastOrNext, Closing
<1>3. Led(s, "value", k + 2, c, v)
  BY <1>2 DEF Entry
<1>4. Suits(s, "object", c, v)
  BY <1>2 DEF Suits
<1>5. Wanted(s, "object", k + 2)
  BY <1>3, <1>4 DEF Wanted
<1> QED
  BY <1>2, <1>5 DEF Entry

\* A key is not a closing brace.
LEMMA KeyIsNoBrace ==
    ASSUME NEW s, NEW fr, NEW a, NEW k, AtKey(s, fr, a, k)
    PROVE  Led(s, "pairs", a, k, fr.pairs) /\ ~(k \in DOMAIN s /\ s[k].t = "}")
BY DEF AtKey

\* An object wants the value after a colon.
LEMMA WantedMember ==
    ASSUME NEW s, IsStack(s), NEW f, NEW a, Wanted(s, f, a), NEW fr, NEW b,
           AfterColon(s, fr, a, b)
    PROVE  Wanted(s, "object", b)
<1>1. PICK k \in DOMAIN s : AtKey(s, fr, a, k) /\ b = k + 2
  BY DEF AfterColon
<1>2. Led(s, "pairs", a, k, fr.pairs) /\ ~(k \in DOMAIN s /\ s[k].t = "}")
  BY <1>1, KeyIsNoBrace
<1>3. Wanted(s, "object", k + 2)
  BY <1>2, WantedKey
<1> QED
  BY <1>1, <1>3

\* So a frame that is wanted wants the value it waits for.
LEMMA WantedNext ==
    ASSUME NEW s, IsStack(s), NEW f, NEW a, Wanted(s, f, a), NEW fr, NEW b,
           Waiting(s, fr, a, b), Fits(s, fr, b)
    PROVE  Wanted(s, fr.f, b)
<1>1. CASE fr.f = "tag" /\ AfterTag(s, fr, a, b)
  BY <1>1, WantedTag DEF Fits
<1>2. CASE fr.f = "array" /\ Led(s, "items", a, b, fr.items)
  BY <1>2, WantedArray DEF Fits
<1>3. CASE fr.f = "object" /\ AfterColon(s, fr, a, b)
  BY <1>3, WantedMember
<1> QED
  BY <1>1, <1>2, <1>3 DEF Waiting

\* A frame began at an identifier or a bracket.
LEMMA FrameStarts ==
    ASSUME NEW s, IsStack(s), NEW m, NEW fr, NEW a, NEW b,
           Waiting(s, fr, a, b) \/ Heading(s, m, fr, a, b)
    PROVE  \A below : Fits(s, below, a)
<1>1. ASSUME AfterTag(s, fr, a, b)
      PROVE  a \in DOMAIN s /\ StartsValue(s[a]) /\ s[a].t # "]"
  BY <1>1 DEF AfterTag, StartsValue
<1>2. ASSUME NEW part \in Opens, NEW c, NEW xs, Led(s, part, a, c, xs)
      PROVE  a \in DOMAIN s /\ StartsValue(s[a]) /\ s[a].t # "]"
  BY <1>2, OpenStarts
<1>3. ASSUME NEW k, AtKey(s, fr, a, k)
      PROVE  a \in DOMAIN s /\ StartsValue(s[a]) /\ s[a].t # "]"
  <2>1. Led(s, "pairs", a, k, fr.pairs) /\ "pairs" \in Opens
    BY <1>3 DEF AtKey, Opens
  <2> QED
    BY <1>2, <2>1
<1>4. AfterColon(s, fr, a, b) => \E k : AtKey(s, fr, a, k)
  BY DEF AfterColon
<1>5. a \in DOMAIN s /\ StartsValue(s[a]) /\ s[a].t # "]"
  BY <1>1, <1>2, <1>3, <1>4 DEF Waiting, Heading, Opens
<1> QED
  BY <1>5 DEF Fits

\* So every frame of the stack, and what comes next, is wanted.
LEMMA StackWanted ==
    ASSUME NEW s, IsStack(s), NEW v, Spells(s, v), NEW st, NEW n \in Nat, NEW p,
           Below(s, st, n, p), n > 0 => Fits(s, st[n], p[n + 1])
    PROVE  Wanted(s, Kind(st, n), p[n + 1])
<1> DEFINE S == {k \in Nat : k <= n => Wanted(s, Kind(st, k), p[k + 1])}
<1>1. 0 \in S
  <2>1. Wanted(s, Kind(st, 0), 1)
    BY DEF Spells, Wanted, Suits, Kind
  <2>2. p[0 + 1] = 1
    BY DEF Below
  <2> QED
    BY <2>1, <2>2
<1>2. ASSUME NEW k \in Nat, k \in S
      PROVE  k + 1 \in S
  <2> SUFFICES ASSUME k + 1 <= n
               PROVE  Wanted(s, Kind(st, k + 1), p[(k + 1) + 1])
    OBVIOUS
  <2>1. k <= n /\ k + 1 \in 1..n /\ k + 1 # 0
    OBVIOUS
  <2>2. Wanted(s, Kind(st, k), p[k + 1])
    BY <1>2, <2>1
  <2>3. Waiting(s, st[k + 1], p[k + 1], p[(k + 1) + 1])
    BY <2>1 DEF Below
  <2>4. Fits(s, st[k + 1], p[(k + 1) + 1])
    <3>1. CASE k + 1 = n
      BY <3>1
    <3>2. CASE k + 1 # n
      <4> DEFINE i == (k + 1) + 1
      <4>1. i \in 1..n
        BY <3>2
      <4> HIDE DEF i
      <4>2. Waiting(s, st[i], p[i], p[i + 1])
        BY <4>1 DEF Below
      <4>3. Fits(s, st[k + 1], p[i])
        BY <4>2, FrameStarts
      <4> QED
        BY <4>3 DEF i
    <3> QED
      BY <3>1, <3>2
  <2>5. Wanted(s, st[k + 1].f, p[(k + 1) + 1])
    BY <2>2, <2>3, <2>4, WantedNext
  <2> QED
    BY <2>1, <2>5 DEF Kind
<1> HIDE DEF S
<1>3. n \in S
  BY <1>1, <1>2, Induct
<1> QED
  BY <1>3 DEF S

-----------------------------------------------------------------------------
(* A document is refused only when nothing that begins so spells a value. *)

\* What the parser has seen ahead: a frame that waits for a value has looked at its
\* first token; a bare word is returned only when no tag's argument comes after it.
Following ==
    /\ mode = "value" /\ stack # <<>> =>
        /\ Top.f = "tag" => StartsValue(ahead)
        /\ Top.f = "array" => ahead.t # "]"
    /\ mode = "return" /\ val.is \in BareParts => ~StartsValue(ahead)

LEMMA InitFollowing == Init => Following
BY DEF Init, Following

\* A value that is no bare word may be followed by anything.
LEMMA ReturnFollowing ==
    ASSUME NEW v, Return(v), v.is \notin BareParts
    PROVE  Following'
BY DEF Return, Following

\* Neither has anything been looked at yet in the other modes.
LEMMA GoFollowing ==
    ASSUME NEW m, NEW tagged, Go(m, tagged), m \notin {"value", "return"}
    PROVE  Following'
BY DEF Go, Following

\* An error changes nothing that was seen.
LEMMA FailFollowing ==
    ASSUME Following, NEW what, Fail(what)
    PROVE  Following'
BY DEF Fail, Stay, Following, Top

LEMMA NextFollowing == Parsing /\ Following /\ [Next]_vars => Following'
<1> SUFFICES ASSUME Parsing, Following, [Next]_vars PROVE Following'
  OBVIOUS
<1>1. CASE EmptyDocument \/ TrailingContent \/ TooDeep \/ NoValueHere \/ TagOverSymbol
  <2>1. Fail("error") \/ Fail("recursion")
    BY <1>1 DEF EmptyDocument, TrailingContent, TooDeep, NoValueHere, TagOverSymbol
  <2> QED
    BY <2>1, FailFollowing
<1>2. CASE Document
  <2>1. stack' = <<>> /\ mode' = "value"
    BY <1>2 DEF Document, Reading, Go, Parsing, Stacked
  <2> QED
    BY <2>1 DEF Following
<1>3. CASE Finish \/ Stopped \/ UNCHANGED vars
  BY <1>3 DEF Finish, Stopped, vars, Stay, Following, Top
<1>4. CASE Scalar
  <2>1. Return([is |-> ahead.t, s |-> ahead.s]) /\ ahead.t \notin BareParts
    BY <1>4 DEF Scalar, BareParts
  <2> QED
    BY <2>1, ReturnFollowing
<1>5. CASE Open \/ Identifier
  <2>1. Go("array", FALSE) \/ Go("object", FALSE) \/ Go("identifier", under)
    BY <1>5 DEF Open, Identifier
  <2> QED
    BY <2>1, GoFollowing
<1>6. CASE Tag
  <2>1. /\ mode' = "value" /\ stack' = stack /\ ahead' = ahead
        /\ StartsValue(ahead) /\ Top.f = "tag" /\ Top' = Top
    BY <1>6 DEF Tag, Reading, Go, Stay, Parsing, Stacked, Top
  <2> QED
    BY <2>1 DEF Following
<1>7. CASE Symbol
  <2>1. mode' = "return" /\ ahead' = ahead /\ ~StartsValue(ahead)
    BY <1>7 DEF Symbol, Return, Stay
  <2> QED
    BY <2>1 DEF Following
<1>8. CASE Tagged
  <2>1. Return([is |-> "tagged", tag |-> Top.name, of |-> val]) /\ "tagged" \notin BareParts
    BY <1>8 DEF Tagged, BareParts
  <2> QED
    BY <2>1, ReturnFollowing
<1>9. \A xs : [is |-> "array", items |-> xs].is \notin BareParts
              /\ [is |-> "object", pairs |-> xs].is \notin BareParts
  BY DEF BareParts
<1>10. CASE ArrayHead
  <2>1. CASE Fail("error")
    BY <2>1, FailFollowing
  <2>2. CASE Return([is |-> "array", items |-> Top.items])
    BY <1>9, <2>2, ReturnFollowing
  <2>3. CASE ahead.t # "]" /\ Go("value", FALSE) /\ Stay /\ UNCHANGED stack
    <3>1. /\ mode' = "value" /\ stack' = stack /\ ahead' = ahead
          /\ ahead.t # "]" /\ Top.f = "array" /\ Top' = Top
      BY <1>10, <2>3 DEF ArrayHead, Reading, Go, Stay, Parsing, Stacked, Top
    <3> QED
      BY <3>1 DEF Following
  <2> QED
    BY <1>10, <2>1, <2>2, <2>3 DEF ArrayHead
<1>11. CASE ArrayItem
  <2>1. \/ Fail("error") \/ Go("array", FALSE)
        \/ Return([is |-> "array", items |-> Append(Top.items, val)])
    BY <1>11 DEF ArrayItem
  <2> QED
    BY <1>9, <2>1, FailFollowing, GoFollowing, ReturnFollowing
<1>12. CASE ObjectHead
  <2>1. \/ Fail("error") \/ Go("colon", FALSE)
        \/ Return([is |-> "object", pairs |-> Top.pairs])
    BY <1>12 DEF ObjectHead
  <2> QED
    BY <1>9, <2>1, FailFollowing, GoFollowing, ReturnFollowing
<1>13. CASE Colon
  <2>1. Fail("error") \/ Go("member", FALSE)
    BY <1>13 DEF Colon
  <2> QED
    BY <2>1, FailFollowing, GoFollowing
<1>14. CASE Member
  <2>1. CASE Fail("error")
    BY <2>1, FailFollowing
  <2>2. CASE Go("value", FALSE) /\ UNCHANGED stack
    <3>1. mode' = "value" /\ Top.f = "object" /\ Top' = Top
      BY <1>14, <2>2 DEF Member, Reading, Go, Parsing, Stacked, Top
    <3> QED
      BY <3>1 DEF Following
  <2> QED
    BY <1>14, <2>1, <2>2 DEF Member
<1>15. CASE ObjectItem
  <2>1. \/ Fail("error") \/ Go("object", FALSE)
        \/ Return([is |-> "object", pairs |-> SetItem(Top.pairs, Top.key, val)])
    BY <1>15 DEF ObjectItem
  <2> QED
    BY <1>9, <2>1, FailFollowing, GoFollowing, ReturnFollowing
<1> QED
  BY <1>1, <1>2, <1>3, <1>4, <1>5, <1>6, <1>7, <1>8, <1>10, <1>11, <1>12, <1>13, <1>14,
     <1>15
     DEF Next

\* The token ahead, in a document that begins with what was scanned.
LEMMA AheadIn ==
    ASSUME Parsing, InText, NEW s \in Seq(Token), Continues(s)
    PROVE  /\ Begins(text, s) /\ IsStack(s) /\ Here \in Nat
           /\ ahead # Eof => Here \in DOMAIN s /\ s[Here] = ahead /\ Here # Len(s) + 1
           /\ ahead = Eof => Here \notin DOMAIN s
<1>1. IsStack(s)
  BY SeqIsStack
<1>2. /\ Len(text) \in Nat /\ DOMAIN text = 1..Len(text)
      /\ Len(s) \in Nat /\ DOMAIN s = 1..Len(s)
  BY LenProperties DEF Parsing, Lexed
<1>3. CASE ahead = Eof
  <2>1. s = text
    BY <1>3 DEF Continues
  <2> QED
    BY <1>1, <1>2, <1>3, <2>1 DEF Here, Begins
<1>4. CASE ahead # Eof
  <2>1. Here = Len(text) /\ Len(text) > 0 /\ text[Len(text)] = ahead
    BY <1>4 DEF Here, InText
  <2>2. Begins(text, s)
    BY <1>4 DEF Continues, Begins
  <2>3. Here \in DOMAIN text /\ Here \in Nat
    BY <1>2, <2>1
  <2>4. Here \in DOMAIN s /\ s[Here] = ahead
    BY <2>1, <2>2, <2>3 DEF Begins
  <2>5. Here # Len(s) + 1
    BY <1>2, <2>4
  <2> QED
    BY <1>1, <1>4, <2>2, <2>3, <2>4, <2>5
<1> QED
  BY <1>3, <1>4

\* What the places of a stack are in the text, they are in a longer one.
LEMMA BelowBegins ==
    ASSUME NEW s, NEW u, Begins(s, u), NEW st, NEW n \in Int, NEW p, Below(s, st, n, p)
    PROVE  Below(u, st, n, p)
<1>1. n <= n /\ \A i \in 1..n : st[i] = st[i]
  OBVIOUS
<1> QED
  BY <1>1, BelowOnwards

\* What the frame on top is at in the text, it is at in a longer one.
LEMMA HeadingOnwards ==
    ASSUME NEW s, NEW u, Begins(s, u), NEW m, NEW fr, NEW a, NEW h, Heading(s, m, fr, a, h)
    PROVE  Heading(u, m, fr, a, h)
<1>1. /\ \A k : AtKey(s, fr, a, k) => AtKey(u, fr, a, k)
      /\ AfterColon(s, fr, a, h) => AfterColon(u, fr, a, h)
      /\ AfterTag(s, fr, a, h) => AfterTag(u, fr, a, h)
      /\ \A part, w : Led(s, part, a, h, w) => Led(u, part, a, h, w)
  BY WaitingOnwards
<1>2. \A k \in DOMAIN s : k \in DOMAIN u
  BY DEF Begins
<1> QED
  BY <1>1, <1>2 DEF Heading

\* The value just returned is all there is of it where it is.
LEMMA ReturnedWhole ==
    ASSUME Parsing, InText, Following, mode = "return", NEW s \in Seq(Token), Continues(s)
    PROVE  Whole(s, Here, val)
<1>1. ahead # Eof => Here \in DOMAIN s /\ s[Here] = ahead
  BY AheadIn
<1>2. ahead = Eof => Here \notin DOMAIN s
  BY AheadIn
<1> QED
  BY <1>1, <1>2 DEF Following, Whole

\* The frame on top is one whose value the document has.
LEMMA TopWanted ==
    ASSUME Parsing, Spelled, stack # <<>>, mode \in Heads \cup {"return"},
           NEW s \in Seq(Token), Continues(s), NEW v, Spells(s, v)
    PROVE  \E a, b : /\ Wanted(s, Kind(stack, Len(stack) - 1), a)
                     /\ mode \in Heads => Heading(s, mode, Top, a, Here)
                     /\ mode = "return" => /\ Waiting(s, Top, a, b)
                                           /\ Led(s, "value", b, Here, val)
<1>1. PICK p \in [Nat -> Nat] : Starts(text, stack, mode, Here, val, p)
  BY DEF Spelled
<1> DEFINE n == Len(stack)
<1>2. n \in Nat /\ n > 0
  BY StackIndices DEF Parsing, Stacked
<1>3. Begins(text, s) /\ IsStack(s)
  BY AheadIn DEF Spelled
<1>4. /\ Below(text, stack, n - 1, p)
      /\ mode \in Heads => Heading(text, mode, Top, p[n], Here)
      /\ mode = "return" => /\ Waiting(text, Top, p[n], p[n + 1])
                            /\ Led(text, "value", p[n + 1], Here, val)
  BY <1>1, TopStarts
<1>5. /\ mode \in Heads => Heading(s, mode, Top, p[n], Here)
      /\ mode = "return" => /\ Waiting(s, Top, p[n], p[n + 1])
                            /\ Led(s, "value", p[n + 1], Here, val)
  BY <1>3, <1>4, HeadingOnwards, WaitingOnwards
<1>6. \A below : Fits(s, below, p[n])
  <2>1. Heading(s, mode, Top, p[n], Here) \/ Waiting(s, Top, p[n], p[n + 1])
    BY <1>5
  <2> QED
    BY <1>3, <2>1, FrameStarts
<1>7. Wanted(s, Kind(stack, n - 1), p[n])
  <2> DEFINE k == n - 1
  <2>1. k \in Nat /\ k \in Int /\ k + 1 = n
    BY <1>2
  <2>2. Below(text, stack, k, p)
    BY <1>4
  <2> HIDE DEF n, k
  <2>3. Below(s, stack, k, p)
    BY <1>3, <2>1, <2>2, BelowBegins
  <2>4. Wanted(s, Kind(stack, k), p[k + 1])
    BY <1>3, <1>6, <2>1, <2>3, StackWanted
  <2> QED
    BY <2>1, <2>4 DEF k
<1> QED
  BY <1>5, <1>7

\* The value a frame has read ends where the document's own value there does.
LEMMA ReadWanted ==
    ASSUME Parsing, Spelled, Following, stack # <<>>, mode = "return",
           NEW s \in Seq(Token), Continues(s), NEW v, Spells(s, v)
    PROVE  Suits(s, Top.f, Here, val)
<1>1. PICK a, b : /\ Wanted(s, Kind(stack, Len(stack) - 1), a)
                  /\ Waiting(s, Top, a, b) /\ Led(s, "value", b, Here, val)
  BY TopWanted
<1>2. InText /\ IsStack(s)
  BY AheadIn DEF Spelled
<1>3. b \in Nat /\ b \in DOMAIN s /\ StartsValue(s[b]) /\ s[b].t # "]"
  BY <1>1, <1>2, ValueStarts DEF After
<1>4. Fits(s, Top, b)
  BY <1>3 DEF Fits
<1>5. Wanted(s, Top.f, b)
  BY <1>1, <1>2, <1>4, WantedNext
<1>6. PICK m, w : Led(s, "value", b, m, w) /\ Suits(s, Top.f, m, w)
  BY <1>5 DEF Wanted
<1>7. Whole(s, m, w) /\ Whole(s, Here, val)
  BY <1>2, <1>6, SuitsWhole, ReturnedWhole
<1>8. OneValue(s, b)
  BY <1>2, <1>3, OneValueEverywhere
<1>9. Here = m /\ val = w
  BY <1>1, <1>6, <1>7, <1>8 DEF OneValue
<1> QED
  BY <1>6, <1>9

\* A value that is to be read is one the document has.
LEMMA ValueWanted ==
    ASSUME Parsing, Spelled, Following, mode = "value",
           NEW s \in Seq(Token), Continues(s), NEW v, Spells(s, v)
    PROVE  Wanted(s, Kind(stack, Len(stack)), Here)
<1>1. PICK p \in [Nat -> Nat] : Starts(text, stack, mode, Here, val, p)
  BY DEF Spelled
<1> DEFINE n == Len(stack)
<1>2. n \in Nat /\ (n > 0 => stack # <<>>)
  BY StackIndices DEF Parsing, Stacked
<1>3. /\ Begins(text, s) /\ IsStack(s)
      /\ Here \in DOMAIN s /\ s[Here] = ahead
  BY AheadIn DEF Spelled, Parsing, NeverPastEnd
<1>4. Below(text, stack, n, p) /\ p[n + 1] = Here
  BY <1>1 DEF Starts
<1>5. n > 0 => Fits(s, stack[n], p[n + 1])
  BY <1>2, <1>3, <1>4 DEF Following, Fits, Top
<1> HIDE DEF n
<1>6. n \in Int
  BY <1>2
<1>7. Below(s, stack, n, p)
  BY <1>3, <1>4, <1>6, BelowBegins
<1>8. Wanted(s, Kind(stack, n), p[n + 1])
  BY <1>2, <1>3, <1>5, <1>7, StackWanted
<1> QED
  BY <1>4, <1>8 DEF n

\* Each way to refuse a document, and that no document that begins so spells anything.
LEMMA DocumentRefused ==
    ASSUME Parsing, Spelled, Following, EmptyDocument \/ TrailingContent,
           NEW s \in Seq(Token), Continues(s), NEW v, Spells(s, v)
    PROVE  FALSE
<1>1. PICK p \in [Nat -> Nat] : Starts(text, stack, mode, Here, val, p)
  BY DEF Spelled
<1>2. InText /\ IsStack(s) /\ Begins(text, s) /\ Here \in Nat
  BY AheadIn DEF Spelled
<1>3. stack = <<>> /\ Len(stack) = 0 /\ Len(stack) + 1 = 1
  BY DEF EmptyDocument, TrailingContent, Reading, Parsing, Stacked
<1>4. CASE EmptyDocument
  <2>1. mode = "document" /\ ahead = Eof
    BY <1>4 DEF EmptyDocument, Reading
  <2>2. Here = 1
    BY <1>1, <1>3, <2>1 DEF Starts, Below
  <2>3. Here \notin DOMAIN s
    BY <2>1, AheadIn DEF Spelled
  <2>4. 1 \in DOMAIN s
    BY <1>2, ValueStarts DEF Spells
  <2> QED
    BY <2>2, <2>3, <2>4
<1>5. CASE TrailingContent
  <2>1. mode = "return" /\ ahead # Eof
    BY <1>5 DEF TrailingContent, Reading
  <2>2. Led(text, "value", 1, Here, val)
    <3>1. p[1] = 1
      BY <1>1, <2>1 DEF Starts, Below
    <3>2. Led(text, "value", p[Len(stack) + 1], Here, val)
      BY <1>1, <2>1 DEF Starts
    <3> QED
      BY <1>3, <3>1, <3>2
  <2>3. Led(s, "value", 1, Here, val)
    BY <1>2, <2>2, WaitingOnwards
  <2>4. Whole(s, Here, val)
    BY <1>2, <2>1, ReturnedWhole
  <2>5. Whole(s, Len(s) + 1, v)
    BY <1>2, SuitsWhole DEF Suits
  <2>6. OneValue(s, 1)
    BY <1>2, OneValueEverywhere
  <2>7. Here = Len(s) + 1
    BY <2>3, <2>4, <2>5, <2>6 DEF Spells, OneValue
  <2> QED
    BY <2>1, <2>7, AheadIn DEF Spelled
<1> QED
  BY <1>4, <1>5

LEMMA ValueRefused ==
    ASSUME Parsing, Spelled, Following, NoValueHere,
           NEW s \in Seq(Token), Continues(s), NEW v, Spells(s, v)
    PROVE  FALSE
<1>1. mode = "value" /\ (~StartsValue(ahead) \/ ahead.t = "broken")
  BY DEF NoValueHere, Entered, Reading
<1>2. IsStack(s) /\ s[Here] = ahead
  BY <1>1, AheadIn DEF Spelled, Parsing, NeverPastEnd
<1>3. Wanted(s, Kind(stack, Len(stack)), Here)
  BY <1>1, ValueWanted
<1> QED
  BY <1>1, <1>2, <1>3, WantedStarts

LEMMA TagRefused ==
    ASSUME Parsing, Spelled, TagOverSymbol,
           NEW s \in Seq(Token), Continues(s), NEW v, Spells(s, v)
    PROVE  FALSE
<1>1. mode = "identifier" /\ ~StartsValue(ahead) /\ under /\ stack # <<>>
  BY DEF TagOverSymbol, Reading, Parsing, Stacked
<1>2. PICK a : Wanted(s, Kind(stack, Len(stack) - 1), a) /\ Heading(s, mode, Top, a, Here)
  BY <1>1, TopWanted DEF Heads
<1>3. AfterTag(s, Top, a, Here)
  BY <1>1, <1>2 DEF Heading
<1>4. Kind(stack, Len(stack) - 1) = "tag"
  <2>1. Len(stack) > 1 /\ stack[Len(stack) - 1].f = "tag"
    BY <1>1 DEF Parsing, UnderTag
  <2>2. Len(stack) \in Nat
    BY StackIndices DEF Parsing, Stacked
  <2>3. \A n \in Nat : n > 1 => n - 1 # 0
    OBVIOUS
  <2> QED
    BY <2>1, <2>2, <2>3 DEF Kind
<1>5. IsStack(s) /\ (ahead = Eof => Here \notin DOMAIN s) /\ (ahead # Eof => s[Here] = ahead)
  BY AheadIn DEF Spelled
<1>6. Wanted(s, "tag", Here)
  BY <1>2, <1>3, <1>4, <1>5, WantedTag
<1>7. Here \in DOMAIN s /\ StartsValue(s[Here])
  BY <1>5, <1>6, WantedStarts
<1> QED
  BY <1>1, <1>5, <1>7

LEMMA ArrayRefused ==
    ASSUME Parsing, Spelled, Following, ArrayHead \/ ArrayItem, Fail("error"),
           NEW s \in Seq(Token), Continues(s), NEW v, Spells(s, v)
    PROVE  FALSE
<1>1. /\ IsStack(s) /\ Here \in Nat /\ (ahead = Eof => Here \notin DOMAIN s)
      /\ (ahead # Eof => s[Here] = ahead)
  BY AheadIn DEF Spelled
<1>2. CASE ArrayHead
  <2>1. mode = "array" /\ ahead = Eof /\ stack # <<>>
    BY <1>2 DEF ArrayHead, Reading, Return, Go, Fail, Parsing, Stacked
  <2>2. PICK a : Wanted(s, Kind(stack, Len(stack) - 1), a) /\ Heading(s, mode, Top, a, Here)
    BY <2>1, TopWanted DEF Heads
  <2>3. Led(s, "items", a, Here, Top.items)
    BY <2>1, <2>2 DEF Heading
  <2>4. Wanted(s, "array", Here)
    BY <1>1, <2>1, <2>2, <2>3, WantedArray
  <2> QED
    BY <1>1, <2>1, <2>4, WantedStarts
<1>3. CASE ArrayItem
  <2>1. mode = "return" /\ stack # <<>> /\ Top.f = "array" /\ ahead.t \notin {",", "]"}
    BY <1>3 DEF ArrayItem, Reading, Return, Go, Fail
  <2>2. Here \in DOMAIN s /\ s[Here].t \in {",", "]"}
    BY <2>1, ReadWanted DEF Suits, Closing
  <2> QED
    BY <1>1, <2>1, <2>2
<1> QED
  BY <1>2, <1>3

LEMMA ObjectRefused ==
    ASSUME Parsing, Spelled, Following, ObjectHead \/ Colon \/ Member \/ ObjectItem,
           Fail("error"), NEW s \in Seq(Token), Continues(s), NEW v, Spells(s, v)
    PROVE  FALSE
<1>1. /\ IsStack(s) /\ Here \in Nat /\ (ahead = Eof => Here \notin DOMAIN s)
      /\ (ahead # Eof => s[Here] = ahead)
  BY AheadIn DEF Spelled
<1>2. ASSUME mode \in {"object", "colon", "member"}
      PROVE  \E a : Wanted(s, Kind(stack, Len(stack) - 1), a) /\ Heading(s, mode, Top, a, Here)
  <2>1. stack # <<>> /\ mode \in Heads
    BY <1>2 DEF Parsing, Stacked, Heads
  <2> QED
    BY <2>1, TopWanted
<1>3. CASE ObjectHead
  <2>1. mode = "object" /\ ahead.t \notin {"}", "str", "id"}
    BY <1>3 DEF ObjectHead, Reading, Return, Go, Fail
  <2>2. PICK a : Wanted(s, Kind(stack, Len(stack) - 1), a) /\ Heading(s, mode, Top, a, Here)
    BY <1>2, <2>1
  <2>3. Led(s, "pairs", a, Here, Top.pairs)
    BY <2>1, <2>2 DEF Heading
  <2>4. ~(Here \in DOMAIN s /\ s[Here].t = "}")
    BY <1>1, <2>1
  <2>5. Here \in DOMAIN s /\ s[Here].t \in {"str", "id"}
    BY <1>1, <2>2, <2>3, <2>4, WantedKey
  <2> QED
    BY <1>1, <2>1, <2>5
<1>4. CASE Colon
  <2>1. mode = "colon" /\ ahead.t # ":"
    BY <1>4 DEF Colon, Reading, Go, Fail
  <2>2. PICK a : Wanted(s, Kind(stack, Len(stack) - 1), a) /\ Heading(s, mode, Top, a, Here)
    BY <1>2, <2>1
  <2>3. PICK k \in DOMAIN s : AtKey(s, Top, a, k) /\ Here = k + 1
    BY <2>1, <2>2 DEF Heading
  <2>4. Led(s, "pairs", a, k, Top.pairs) /\ ~(k \in DOMAIN s /\ s[k].t = "}")
    BY <2>3, KeyIsNoBrace
  <2>5. k + 1 \in DOMAIN s /\ s[k + 1].t = ":"
    BY <1>1, <2>2, <2>4, WantedKey
  <2> QED
    BY <1>1, <2>1, <2>3, <2>5
<1>5. CASE Member
  <2>1. mode = "member" /\ ahead = Eof
    BY <1>5 DEF Member, Reading, Go, Fail
  <2>2. PICK a : Wanted(s, Kind(stack, Len(stack) - 1), a) /\ Heading(s, mode, Top, a, Here)
    BY <1>2, <2>1
  <2>3. AfterColon(s, Top, a, Here)
    BY <2>1, <2>2 DEF Heading
  <2>4. Wanted(s, "object", Here)
    BY <1>1, <2>2, <2>3, WantedMember
  <2> QED
    BY <1>1, <2>1, <2>4, WantedStarts
<1>6. CASE ObjectItem
  <2>1. mode = "return" /\ stack # <<>> /\ Top.f = "object" /\ ahead.t \notin {",", "}"}
    BY <1>6 DEF ObjectItem, Reading, Return, Go, Fail
  <2>2. Here \in DOMAIN s /\ s[Here].t \in {",", "}"}
    BY <2>1, ReadWanted DEF Suits, Closing
  <2> QED
    BY <1>1, <2>1, <2>2
<1> QED
  BY <1>3, <1>4, <1>5, <1>6

LEMMA NextRefused ==
    Parsing /\ Spelled /\ Following /\ RefusedIsUnspelled /\ [Next]_vars => RefusedIsUnspelled'
<1> SUFFICES ASSUME Parsing, Spelled, Following, RefusedIsUnspelled, [Next]_vars,
                    outcome' = "error"
             PROVE  \A s \in Seq(Token) : Continues(s)' => \A v : ~Spells(s, v)
  BY DEF RefusedIsUnspelled
<1>1. CASE outcome = "error"
  <2>1. text' = text /\ ahead' = ahead
    BY <1>1 DEF Next, vars, Stopped, EmptyDocument, Document, TrailingContent, Finish,
                TooDeep, Scalar, Open, Identifier, NoValueHere, Tag, TagOverSymbol, Symbol,
                Tagged, ArrayHead, ArrayItem, ObjectHead, Colon, Member, ObjectItem,
                Entered, Reading
  <2> QED
    BY <1>1, <2>1 DEF RefusedIsUnspelled, Continues
<1>2. CASE outcome # "error"
  <2>1. /\ Fail("error")
        /\ \/ EmptyDocument \/ TrailingContent \/ NoValueHere \/ TagOverSymbol
           \/ ArrayHead \/ ArrayItem \/ ObjectHead \/ Colon \/ Member \/ ObjectItem
    BY <1>2 DEF Next, vars, Stopped, EmptyDocument, Document, TrailingContent, Finish,
                TooDeep, Scalar, Open, Identifier, NoValueHere, Tag, TagOverSymbol, Symbol,
                Tagged, ArrayHead, ArrayItem, ObjectHead, Colon, Member, ObjectItem,
                Return, Go, Fail
  <2>2. text' = text /\ ahead' = ahead
    BY <2>1 DEF Fail, Stay
  <2>3. ASSUME NEW s \in Seq(Token), Continues(s), NEW v, Spells(s, v)
        PROVE  FALSE
    BY <2>1, <2>3, DocumentRefused, ValueRefused, TagRefused, ArrayRefused, ObjectRefused
  <2> QED
    BY <2>2, <2>3 DEF Continues
<1> QED
  BY <1>1, <1>2

-----------------------------------------------------------------------------
\* The parser is where its code takes it to be: in every mode the frame on top is
\* of the kind the mode reads, for documents of every length and depth.
THEOREM TypeCorrect == Spec => []TypeOK
<1>1. Parsing => TypeOK
  BY DEF Parsing, Lexed, Stacked, Framed, TypeOK
<1> QED
  BY <1>1, InitParsing, NextParsing, PTL DEF Spec

\* parse_value is never entered at the end of the input.
THEOREM NeverReadsPastEnd == Spec => []NeverPastEnd
<1>1. Parsing => NeverPastEnd
  BY DEF Parsing
<1> QED
  BY <1>1, InitParsing, NextParsing, PTL DEF Spec

\* A tag is never applied to a bare word, whatever the chain it stands in.
THEOREM TagsTakeNoSymbol == Spec => []TagTakesNoSymbol
<1>1. Parsing => TagTakesNoSymbol
  BY DEF Parsing
<1> QED
  BY <1>1, InitParsing, NextParsing, PTL DEF Spec

\* No more frames wait than the interpreter's limit allows, and the error that
\* says so is raised only when they do.
THEOREM RecursionIsBounded == Spec => []Guarded
<1>1. Parsing => Guarded
  BY DEF Parsing
<1> QED
  BY <1>1, InitParsing, NextParsing, PTL DEF Spec

\* A document that is answered with a value spells it, for every document.
THEOREM AcceptedSpells == Spec => []AcceptedIsSpelled
<1>1. Parsing /\ Spelled => AcceptedIsSpelled
  <2> SUFFICES ASSUME Parsing, Spelled, outcome = "value" PROVE Spells(text, val)
    BY DEF AcceptedIsSpelled
  <2>1. mode = "return" /\ stack = <<>> /\ Here = Len(text) + 1
    BY DEF Spelled, Finished, Here
  <2>2. PICK p \in [Nat -> Nat] : Starts(text, stack, mode, Here, val, p)
    BY DEF Spelled
  <2>3. p[1] = 1 /\ Len(stack) + 1 = 1
    BY <2>1, <2>2 DEF Starts, Below
  <2>4. Led(text, "value", p[Len(stack) + 1], Here, val)
    BY <2>1, <2>2 DEF Starts
  <2> QED
    BY <2>1, <2>3, <2>4 DEF Spells
<1> QED
  BY <1>1, InitParsing, NextParsing, InitSpelled, NextSpelled, PTL DEF Spec

\* No text, of tokens or of anything else, spells two values.
THEOREM Unambiguous ==
    ASSUME NEW s, IsStack(s), NEW v, NEW w, Spells(s, v), Spells(s, w)
    PROVE  v = w
<1>1. Len(s) \in Nat /\ DOMAIN s = 1..Len(s)
  BY StackIndices
<1>2. Len(s) + 1 \notin DOMAIN s
  BY <1>1
<1>3. Whole(s, Len(s) + 1, v) /\ Whole(s, Len(s) + 1, w)
  BY <1>2 DEF Whole
<1>4. OneValue(s, 1)
  BY OneValueEverywhere
<1> QED
  BY <1>3, <1>4 DEF Spells, OneValue

\* So a document that is answered with a value says that value and no other.
THEOREM AnswersAreMeant == Spec => []AnswerIsTheMeaning
<1>1. Lexed /\ AcceptedIsSpelled => AnswerIsTheMeaning
  <2> SUFFICES ASSUME Lexed, Spells(text, val), NEW v
               PROVE  Spells(text, v) <=> v = val
    BY DEF AcceptedIsSpelled, AnswerIsTheMeaning
  <2>1. IsStack(text)
    BY SeqIsStack DEF Lexed
  <2> QED
    BY <2>1, Unambiguous
<1>2. Parsing => Lexed
  BY DEF Parsing
<1> QED
  BY <1>1, <1>2, InitParsing, NextParsing, AcceptedSpells, PTL DEF Spec

\* A document is refused only when nothing that begins with what was scanned of it
\* spells a value, for every document.
THEOREM RefusedSpellsNothing == Spec => []RefusedIsUnspelled
<1>1. Init => RefusedIsUnspelled
  BY DEF Init, RefusedIsUnspelled
<1> QED
  BY <1>1, InitParsing, NextParsing, InitSpelled, NextSpelled, InitFollowing, NextFollowing,
     NextRefused, PTL DEF Spec
=============================================================================
