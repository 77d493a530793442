--------------------------------- MODULE Lexis ---------------------------------
(***************************************************************************)
(* The reference Scanner is checked against: what the tokens of a text     *)
(* are, or where it fails to be tokens, from the whole of the text.        *)
(* Indices count from 1.                                                   *)
(***************************************************************************)
EXTENDS Places

(* Strings, as UTF-16 *)

\* The first index from i on of a kind, or one past the end.
Find(s, i, Of(_)) ==
    LET those == {k \in i..Len(s) : Of(s[k])}
    IN  IF those = {} THEN Len(s) + 1 ELSE CHOOSE k \in those : \A j \in those : k <= j

NoUnit(fails) == [w |-> 0, fails |-> fails, code |-> 0, u |-> FALSE]

\* What is at an index of a string: how many characters it takes and its code, a
\* code unit if it is a \u escape; or the index at which it fails.
Unit(s, i) ==
    LET given == {p \in Short : i < Len(s) /\ p[1] = s[i + 1]}
        odd == Find(s, i + 2, LAMBDA c : ~IsHexDigit(c))
    IN  IF s[i] # Backslash
          THEN IF s[i] < 32 THEN NoUnit(i) ELSE [w |-> 1, fails |-> 0, code |-> s[i], u |-> FALSE]
        ELSE IF i = Len(s) THEN NoUnit(i + 1)
        ELSE IF given # {} THEN [w |-> 2, fails |-> 0, code |-> (CHOOSE p \in given : TRUE)[2], u |-> FALSE]
        ELSE IF s[i + 1] # 117 THEN NoUnit(i + 2)
        ELSE IF odd < i + 6 THEN NoUnit(odd)
        ELSE [w |-> 6, fails |-> 0, u |-> TRUE,
              code |-> FoldLeft(LAMBDA n, c : 16 * n + HexValue(c), 0, SubSeq(s, i + 2, i + 5))]

\* The contents of the string whose inside begins at an index, up to its closing
\* quote. A pair of surrogates is one character, and one without the other none.
RECURSIVE Contents(_, _, _)
Contents(s, i, acc) ==
    LET one == Unit(s, i)
        next == Unit(s, i + one.w)
        follows == i + one.w <= Len(s) /\ s[i + one.w] = Backslash
                    /\ i + one.w < Len(s) /\ s[i + one.w + 1] = 117
    IN  IF i > Len(s) THEN [to |-> 0, fails |-> 0, s |-> acc]
        ELSE IF s[i] = Quote THEN [to |-> i + 1, fails |-> 0, s |-> acc]
        ELSE IF one.fails # 0 THEN [to |-> 0, fails |-> one.fails, s |-> acc]
        ELSE IF one.code \in High /\ one.u /\ follows /\ next.fails # 0
          THEN [to |-> 0, fails |-> next.fails, s |-> acc]
        ELSE IF one.code \in High /\ one.u /\ follows /\ next.code \in Low
          THEN Contents(s, i + 12, Append(acc, 65536 + (one.code % 1024) * 1024 + (next.code % 1024)))
        ELSE IF one.u /\ one.code \in High \cup Low THEN [to |-> 0, fails |-> i + one.w, s |-> acc]
        ELSE Contents(s, i + one.w, Append(acc, one.code))

-----------------------------------------------------------------------------
(* Numbers, as the longest text that begins one *)

AreDigits(s) == s # <<>> /\ \A i \in DOMAIN s : IsDigit(s[i])
Whole(s) == AreDigits(s) /\ (Len(s) = 1 \/ s[1] # 48)
Unsigned(s) == IF s # <<>> /\ s[1] \in {43, 45} THEN Tail(s) ELSE s

Mantissa(s) ==
    Whole(s) \/ \E i \in DOMAIN s : /\ s[i] = Point /\ Whole(SubSeq(s, 1, i - 1))
                                    /\ AreDigits(SubSeq(s, i + 1, Len(s)))

IsNumber(s) ==
    LET u == Unsigned(s)
    IN  Mantissa(u) \/ \E i \in DOMAIN u : /\ u[i] \in {101, 69} /\ Mantissa(SubSeq(u, 1, i - 1))
                                           /\ AreDigits(Unsigned(SubSeq(u, i + 1, Len(u))))

\* A number or what a digit makes one.
Begins(s) == IsNumber(s) \/ IsNumber(Append(s, 49))

\* The value of an integer of at most nine digits.
IntegerOf(s) ==
    LET n == FoldLeft(LAMBDA v, d : 10 * v + d - 48, 0, Unsigned(s))
    IN  IF s[1] = 45 THEN -n ELSE n

IsI64(s) == Whole(Unsigned(s)) /\ Len(s) < 10 /\ IntegerOf(s) \in -(I64Max + 1)..I64Max

-----------------------------------------------------------------------------
(* Tokens *)

\* The index where the blank that begins at one ends, or where it fails.
RECURSIVE Blank(_, _)
Blank(s, i) ==
    LET opens(c) == i < Len(s) /\ s[i] = 47 /\ s[i + 1] = c
        close == {k \in i + 2..Len(s) - 1 : s[k] = 42 /\ s[k + 1] = 47}
    IN  IF i > Len(s) THEN [to |-> i, fails |-> 0]
        ELSE IF IsWhitespace(s[i]) THEN Blank(s, i + 1)
        ELSE IF opens(47) THEN Blank(s, Find(s, i + 2, IsLineTerminator))
        ELSE IF ~opens(42) THEN [to |-> i, fails |-> 0]
        ELSE IF close = {} THEN [to |-> 0, fails |-> i]
        ELSE Blank(s, 2 + CHOOSE k \in close : \A j \in close : k <= j)

Token(t, v, to) == [t |-> t, s |-> v, to |-> to, fails |-> 0]
Fails(i) == [t |-> "none", s |-> 0, to |-> 0, fails |-> i]

\* Where the longest text from an index that begins a number ends.
NumberEnds(s, i) ==
    {j \in i..Len(s) + 1 : /\ \A k \in i + 1..j : Begins(SubSeq(s, i, k - 1))
                           /\ j = Len(s) + 1 \/ ~Begins(SubSeq(s, i, j))}

\* What such a text is. A digit after it means that it is 0 and not at its end.
NumberToken(num, to, digit) ==
    IF ~IsNumber(num) \/ digit THEN Fails(to)
    ELSE IF IsI64(num) THEN Token("int", IntegerOf(num), to)
    ELSE IF FloatOf(num).exp <= MaxExp THEN Token("float", FloatOf(num), to)
    ELSE Fails(to)

StringToken(str, i) ==
    IF str.to # 0 THEN Token("str", str.s, str.to) ELSE Fails(IF str.fails # 0 THEN str.fails ELSE i)

\* The token at an index, and the index after it; or the index where it fails.
TokenAt(s, i) ==
    LET idEnds == Find(s, i, LAMBDA c : ~IsIdPart(c))
        those == CASE s[i] \in Punctuation -> {Token("mark", s[i], i + 1)}
                   [] IsIdStart(s[i]) -> {Token("id", SubSeq(s, i, idEnds - 1), idEnds)}
                   [] s[i] = Quote -> {StringToken(str, i) : str \in {Contents(s, i + 1, <<>>)}}
                   [] IsDigit(s[i]) \/ s[i] \in {43, 45} ->
                        {NumberToken(SubSeq(s, i, j - 1), j, j <= Len(s) /\ IsDigit(s[j])) :
                            j \in NumberEnds(s, i)}
                   [] OTHER -> {Fails(i)}
    IN  CHOOSE t \in those : TRUE

\* One token more; as many turns as there are characters are enough.
Tokens(s) ==
    LET blank == [i \in 1..Len(s) + 1 |-> Blank(s, i)]
        token == [i \in DOMAIN s |-> TokenAt(s, i)]
        With(acc, t) ==
            IF t.fails # 0 THEN [acc EXCEPT !.fails = t.fails]
            ELSE [acc EXCEPT !.tokens = Append(@, [t |-> t.t, s |-> t.s]), !.to = t.to]
        Step(acc, b) ==
            IF b.fails # 0 THEN [acc EXCEPT !.fails = b.fails]
            ELSE IF b.to > Len(s) THEN [acc EXCEPT !.to = b.to]
            ELSE With(acc, token[b.to])
    IN  FoldLeft(LAMBDA acc, k : IF acc.fails # 0 \/ acc.to > Len(s) THEN acc
                                 ELSE Step(acc, blank[acc.to]),
                 [to |-> IF s # <<>> /\ s[1] = Bom THEN 2 ELSE 1, tokens |-> <<>>, fails |-> 0],
                 s)
=============================================================================
