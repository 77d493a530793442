-------------------------------- MODULE Scanner --------------------------------
(***************************************************************************)
(* The scanner below the parser of src/parse.rs: position, line and column *)
(* over white space, comments, identifiers, strings with their escapes and *)
(* numbers. It is driven token after token; which tokens may follow each   *)
(* other is the parser's (Reader).                                         *)
(*                                                                         *)
(* One step is one turn of one of the scanner's loops. The fast paths are  *)
(* kept apart from `bump`, because they advance the column without looking *)
(* at what a character is.                                                 *)
(***************************************************************************)
EXTENDS Lexical

CONSTANTS
    Inputs,   \* what is scanned: [text, wrote], wrote what the text was written from
    I64Max,   \* bound: the largest i64
    MaxExp    \* bound: the largest decimal exponent of a finite f64

\* What is scanned is a str: its characters are Unicode scalar values.
ASSUME InputsAreTexts ==
    \A i \in Inputs : i.text \in Seq(Nat) /\ \A k \in DOMAIN i.text : IsChar(i.text[k])

VARIABLES
    input,
    at,       \* the cursor: pos, line, col
    mode,     \* the loop the scanner is in
    local,    \* what the functions being run keep, see NoLocals
    tokens,   \* what has been scanned
    outcome   \* "scanning", "ended", or the error and its place

vars == <<input, at, mode, local, tokens, outcome>>

text == input.text
Eof == -1
Byte(n) == IF at.pos + n < Len(text) THEN text[at.pos + n + 1] ELSE Eof
Start == [pos |-> IF text # <<>> /\ text[1] = Bom THEN 1 ELSE 0, line |-> 1, col |-> 1]

Init ==
    /\ input \in Inputs
    /\ at = Start
    /\ mode = "between"
    /\ local = [from |-> Start,      \* where the token or comment began
                scratch |-> <<>>,    \* the parser's buffer for the contents of strings
                digits |-> 0,        \* hexadecimal digits of the escape read so far
                value |-> 0,         \* and their value
                high |-> 0,          \* the high surrogate before it, 0 if none
                saved |-> Start,     \* the cursor to roll back to
                exact |-> TRUE]      \* a number without point and exponent so far
    /\ tokens = <<>>
    /\ outcome = [is |-> "scanning"]

-----------------------------------------------------------------------------
(* The cursor *)

\* Mutated form: both characters of a CRLF count a line.
Bumped_Twice(p) ==
    IF IsLineTerminator(text[p.pos + 1])
      THEN [pos |-> p.pos + 1, line |-> p.line + 1, col |-> 1]
      ELSE [pos |-> p.pos + 1, line |-> p.line, col |-> p.col + 1]

\* bump: a CRLF counts once, on the LF.
Bumped(p) ==
    LET c == text[p.pos + 1]
        crlf == c = 13 /\ p.pos + 2 <= Len(text) /\ text[p.pos + 2] = 10
    IN  IF IsLineTerminator(c) /\ ~crlf
          THEN [pos |-> p.pos + 1, line |-> p.line + 1, col |-> 1]
          ELSE [pos |-> p.pos + 1, line |-> p.line, col |-> p.col + 1]

\* The fast paths.
Past(p, n) == [pos |-> p.pos + n, line |-> p.line, col |-> p.col + n]

\* How many characters of a kind there are from position n on.
Run(n, Of(_)) ==
    LET others == {k \in n + 1..Len(text) : ~Of(text[k])}
    IN  IF others = {} THEN Len(text) - n
        ELSE (CHOOSE k \in others : \A j \in others : k <= j) - n - 1

In(m) == outcome.is = "scanning" /\ mode = m

\* A turn of a loop that leaves the cursor at p and goes on in m.
Turn(m, p, l) == mode' = m /\ at' = p /\ local' = l /\ UNCHANGED <<input, tokens, outcome>>

Emit(p, t, s) ==
    /\ tokens' = Append(tokens, [t |-> t, s |-> s])
    /\ mode' = "between" /\ at' = p
    /\ UNCHANGED <<input, local, outcome>>

Err(p) ==
    /\ outcome' = [is |-> "error", line |-> p.line, col |-> p.col]
    /\ UNCHANGED <<input, at, mode, local, tokens>>

-----------------------------------------------------------------------------
(* skip_ws and what the parser looks at after it *)

Begun == [local EXCEPT !.from = at]

SkipSpace == In("between") /\ IsWhitespace(Byte(0)) /\ Turn("between", Bumped(at), local)

OpenComment ==
    /\ In("between") /\ Byte(0) = 47
    /\ \/ Byte(1) = 47 /\ Turn("line comment", Bumped(Bumped(at)), local)
       \/ Byte(1) = 42 /\ Turn("block comment", Bumped(Bumped(at)), Begun)

LineComment ==
    /\ In("line comment")
    /\ IF Byte(0) = Eof \/ IsLineTerminator(Byte(0)) THEN Turn("between", at, local)
                                                     ELSE Turn("line comment", Bumped(at), local)

BlockComment ==
    /\ In("block comment")
    /\ IF Byte(0) = Eof THEN Err(local.from)
       ELSE IF Byte(0) = 42 /\ Byte(1) = 47 THEN Turn("between", Bumped(Bumped(at)), local)
       ELSE Turn("block comment", Bumped(at), local)

\* parse_document ends, if there was a value.
End ==
    /\ In("between") /\ Byte(0) = Eof
    /\ outcome' = [is |-> "ended"]
    /\ UNCHANGED <<input, at, mode, local, tokens>>

Punctuation == {91, 93, 123, 125, 44, 58}   \* [ ] { } , :

Mark == In("between") /\ Byte(0) \in Punctuation /\ Emit(Bumped(at), "mark", Byte(0))

\* No value and no key starts here; of U+FEFF skip_ws says so itself.
Unexpected ==
    /\ In("between") /\ Byte(0) # Eof
    /\ ~IsWhitespace(Byte(0)) /\ ~IsIdStart(Byte(0)) /\ ~IsDigit(Byte(0))
    /\ Byte(0) \notin Punctuation \cup {Quote, 43, 45}
    /\ ~(Byte(0) = 47 /\ Byte(1) \in {42, 47})
    /\ Err(at)

(* read_identifier *)

Identifier == In("between") /\ IsIdStart(Byte(0)) /\ Turn("identifier", Bumped(at), Begun)

IdentifierPart ==
    /\ In("identifier")
    /\ IF Byte(0) # Eof /\ IsIdPart(Byte(0))
         THEN Turn("identifier", IF Byte(0) < 128 THEN Past(at, 1) ELSE Bumped(at), local)
         ELSE Emit(at, "id", SubSeq(text, local.from.pos + 1, at.pos))

-----------------------------------------------------------------------------
(* parse_string, read_escape, read_unicode_escape, read_hex4 *)

\* Mutated form: the buffer keeps what it held.
OpenString_NotCleared ==
    In("between") /\ Byte(0) = Quote /\ Turn("string", Bumped(at), [Begun EXCEPT !.value = 0])

OpenString ==
    In("between") /\ Byte(0) = Quote /\ Turn("string", Bumped(at), [Begun EXCEPT !.scratch = <<>>])

PlainAscii(c) == c \in 32..127 /\ c \notin {Quote, Backslash}

StringRun ==
    /\ In("string") /\ PlainAscii(Byte(0))
    /\ LET n == Run(at.pos, PlainAscii)
       IN  Turn("string", Past(at, n),
                [local EXCEPT !.scratch = @ \o SubSeq(text, at.pos + 1, at.pos + n)])

StringTurn ==
    /\ In("string") /\ ~PlainAscii(Byte(0))
    /\ IF Byte(0) = Eof THEN Err(local.from)
       ELSE IF Byte(0) = Quote THEN Emit(Bumped(at), "str", local.scratch)
       ELSE IF Byte(0) = Backslash THEN Turn("escape", Bumped(at), local)
       ELSE IF Byte(0) < 32 THEN Err(at)
       ELSE Turn("string", Bumped(at), [local EXCEPT !.scratch = Append(@, Byte(0))])

\* The letter after a backslash and what it stands for.
Short == {<<Quote, Quote>>, <<Backslash, Backslash>>, <<47, 47>>, <<98, 8>>, <<102, 12>>,
          <<110, 10>>, <<114, 13>>, <<116, 9>>}

Hex4(l, high) == [l EXCEPT !.digits = 0, !.value = 0, !.high = high]

ReadEscape ==
    /\ In("escape")
    /\ \/ \E s \in Short : s[1] = Byte(0)
            /\ Turn("string", Bumped(at), [local EXCEPT !.scratch = Append(@, s[2])])
       \/ Byte(0) = 117 /\ Turn("hex", Bumped(at), Hex4(local, 0))
       \/ Byte(0) = Eof /\ Err(at)
       \/ Byte(0) \notin {s[1] : s \in Short} \cup {117, Eof} /\ Err(Bumped(at))

HexValue(c) == IF IsDigit(c) THEN c - 48 ELSE IF c < 97 THEN c - 55 ELSE c - 87

ReadHex ==
    /\ In("hex") /\ local.digits < 4
    /\ IF Byte(0) # Eof /\ IsHexDigit(Byte(0))
         THEN Turn("hex", Past(at, 1), [local EXCEPT !.digits = @ + 1,
                                                     !.value = 16 * @ + HexValue(Byte(0))])
         ELSE Err(at)

\* Mutated form: the cursor is set back to before the first escape.
RollBack_TooFar ==
    Turn("string", [local.saved EXCEPT !.pos = @ - 6, !.col = @ - 6], local)

\* What follows a high surrogate is no low one: it is read again, for itself.
RollBack == Turn("unpaired", local.saved, [local EXCEPT !.value = local.high])

HexRead ==
    /\ In("hex") /\ local.digits = 4
    /\ IF local.high # 0
         THEN IF local.value \in Low
                THEN Turn("string", at, [local EXCEPT !.scratch =
                        Append(@, 65536 + (local.high - 55296) * 1024 + local.value - 56320)])
                ELSE RollBack
       ELSE IF local.value \in High /\ Byte(0) = Backslash /\ Byte(1) = 117
         THEN Turn("hex", Bumped(Bumped(at)),
                   [Hex4(local, local.value) EXCEPT !.saved = at])
       ELSE Turn("unpaired", at, local)

\* Mutated form: the number is taken for a character unlooked at.
HexDenotes_Unchecked ==
    /\ In("unpaired")
    /\ Turn("string", at, [local EXCEPT !.scratch = Append(@, local.value)])

\* char::from_u32: a surrogate that is no pair's is no character.
HexDenotes ==
    /\ In("unpaired")
    /\ IF local.value \in High \cup Low THEN Err(at)
       ELSE Turn("string", at, [local EXCEPT !.scratch = Append(@, local.value)])

-----------------------------------------------------------------------------
(* parse_number *)

Number ==
    /\ In("between") /\ (IsDigit(Byte(0)) \/ Byte(0) \in {43, 45})
    /\ Turn("integer", IF IsDigit(Byte(0)) THEN at ELSE Bumped(at), [Begun EXCEPT !.exact = TRUE])

Integer ==
    /\ In("integer")
    /\ IF ~IsDigit(Byte(0)) THEN Err(at)
       ELSE IF Byte(0) # 48 THEN Turn("fraction", Past(at, Run(at.pos, IsDigit)), local)
       ELSE IF IsDigit(Byte(1)) THEN Err(Bumped(at))
       ELSE Turn("fraction", Bumped(at), local)

\* Digits have to follow; there is one at p.
Digits(m, p) ==
    IF p.pos < Len(text) /\ IsDigit(text[p.pos + 1])
      THEN Turn(m, Past(p, Run(p.pos, IsDigit)), [local EXCEPT !.exact = FALSE])
      ELSE Err(p)

Fraction ==
    /\ In("fraction")
    /\ IF Byte(0) = Point THEN Digits("exponent", Bumped(at)) ELSE Turn("exponent", at, local)

Exponent ==
    /\ In("exponent")
    /\ IF Byte(0) \notin {101, 69} THEN Turn("number", at, local)
       ELSE Digits("number", IF Byte(1) \in {43, 45} THEN Bumped(Bumped(at)) ELSE Bumped(at))

\* The value of digits, as long as it fits; -1 when it does not.
Magnitude(ds) ==
    FoldLeft(LAMBDA n, d : IF n = -1 \/ 10 * n + d - 48 > I64Max + 1 THEN -1 ELSE 10 * n + d - 48,
             0, ds)

Signed(s) == s[1] \in {43, 45}

\* str::parse::<i64>, of a sign and digits.
FitsI64(s) ==
    LET n == Magnitude(IF Signed(s) THEN Tail(s) ELSE s)
    IN  n # -1 /\ (n <= I64Max \/ s[1] = 45)
IntOf(s) ==
    LET n == Magnitude(IF Signed(s) THEN Tail(s) ELSE s) IN IF s[1] = 45 THEN -n ELSE n

\* str::parse::<f64>, to the decimal that is then rounded: without the zeros that
\* say nothing.
FloatOf(s) ==
    LET es == {i \in DOMAIN s : s[i] \in {101, 69}}
        mantissa == IF es = {} THEN s ELSE SubSeq(s, 1, (CHOOSE i \in es : TRUE) - 1)
        power == IF es = {} THEN <<48>> ELSE SubSeq(s, (CHOOSE i \in es : TRUE) + 1, Len(s))
        points == {i \in DOMAIN mantissa : mantissa[i] = Point}
        digits == SelectSeq(mantissa, IsDigit)
        before == IF points = {} THEN Len(digits)
                  ELSE Len(SelectSeq(SubSeq(mantissa, 1, CHOOSE i \in points : TRUE), IsDigit))
        some == {i \in DOMAIN digits : digits[i] # 48}
        first == CHOOSE i \in some : \A j \in some : i <= j
        last == CHOOSE i \in some : \A j \in some : i >= j
        shift == FoldLeft(LAMBDA n, c : IF IsDigit(c) THEN 10 * n + c - 48 ELSE n, 0, power)
    IN  IF some = {} THEN [negative |-> s[1] = 45, digits |-> <<48>>, exp |-> 0]
        ELSE [negative |-> s[1] = 45, digits |-> SubSeq(digits, first, last),
              exp |-> before - first + (IF power[1] = 45 THEN -shift ELSE shift)]

NumberRead ==
    /\ In("number")
    /\ LET s == SubSeq(text, local.from.pos + 1, at.pos)
       IN  IF local.exact /\ FitsI64(s) THEN Emit(at, "int", IntOf(s))
           ELSE IF FloatOf(s).exp <= MaxExp THEN Emit(at, "float", FloatOf(s))
           ELSE Err(at)

-----------------------------------------------------------------------------

Stopped == outcome.is # "scanning" /\ UNCHANGED vars

Next ==
    \/ SkipSpace \/ OpenComment \/ LineComment \/ BlockComment \/ End \/ Mark \/ Unexpected
    \/ Identifier \/ IdentifierPart
    \/ OpenString \/ StringRun \/ StringTurn \/ ReadEscape \/ ReadHex \/ HexRead \/ HexDenotes
    \/ Number \/ Integer \/ Fraction \/ Exponent \/ NumberRead
    \/ Stopped

\* The scanner is a loop without waiting: it takes its next turn.
Spec == Init /\ [][Next]_vars /\ WF_vars(Next)

TypeOK ==
    /\ at.pos \in 0..Len(text) /\ at.line \in Nat \ {0} /\ at.col \in Nat \ {0}
    /\ local.from.pos <= at.pos /\ local.saved.pos <= at.pos
    /\ local.digits \in 0..4 /\ local.value \in Nat /\ local.value < 65536 /\ local.high \in High \cup {0}
    /\ \A i \in DOMAIN local.scratch : IsChar(local.scratch[i])
=============================================================================
