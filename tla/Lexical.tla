-------------------------------- MODULE Lexical --------------------------------
(***************************************************************************)
(* src/text.rs: the facts the reader and the writer share about            *)
(* characters, the spelling of strings and the spelling of floats.         *)
(*                                                                         *)
(* A character is its code point and a text a sequence of them. A float is *)
(* its sign, its shortest decimal digits and the decimal exponent of the   *)
(* first of them; the conversion to and from binary is Rust's.             *)
(***************************************************************************)
EXTENDS Naturals, Integers, Sequences, SequencesExt

CONSTANTS XidStart, XidContinue   \* unicode-ident's properties, beyond ASCII

\* The halves of a surrogate pair, and the characters, which no surrogate is.
High == 55296..56319   \* D800-DBFF
Low == 56320..57343    \* DC00-DFFF
IsChar(c) == c \in Nat /\ c <= 1114111 /\ c \notin High \cup Low

\* U+000B and U+000C are white space and end no line.
IsLineTerminator(c) == c \in {10, 13, 133, 8232, 8233}

\* Unicode's White_Space, U+FEFF not among it.
IsWhitespace(c) == c \in 9..13 \cup 8192..8202 \cup {32, 133, 160, 5760, 8232, 8233, 8239, 8287, 12288}

IsDigit(c) == c \in 48..57
IsHexDigit(c) == IsDigit(c) \/ c \in 65..70 \/ c \in 97..102

IsIdStart(c) ==
    IF c < 128 THEN c \in 65..90 \/ c \in 97..122 \/ c \in {95, 36} ELSE c \in XidStart

IsIdPart(c) ==
    IF c < 128 THEN IsIdStart(c) \/ IsDigit(c) ELSE c \in {8204, 8205} \/ c \in XidContinue

IsIdentifier(s) == s # <<>> /\ IsIdStart(s[1]) /\ \A i \in DOMAIN s : IsIdPart(s[i])

Quote == 34
Backslash == 92
Point == 46
Bom == 65279

-----------------------------------------------------------------------------
(* escape_string *)

HexDigitOf(n) == IF n < 10 THEN 48 + n ELSE 87 + n

\* Mutated form: only what ends a string or an escape is escaped.
Escape_QuotesOnly(c) == IF c \in {Quote, Backslash} THEN <<Backslash, c>> ELSE <<c>>

Escape(c) ==
    CASE c = Quote     -> <<Backslash, Quote>>
      [] c = Backslash -> <<Backslash, Backslash>>
      [] c = 10 -> <<Backslash, 110>>   [] c = 13 -> <<Backslash, 114>>
      [] c = 9  -> <<Backslash, 116>>   [] c = 8  -> <<Backslash, 98>>
      [] c = 12 -> <<Backslash, 102>>
      [] c < 32 /\ c \notin {8, 9, 10, 12, 13} ->
            <<Backslash, 117, 48, 48, HexDigitOf(c \div 16), HexDigitOf(c % 16)>>
      [] OTHER -> <<c>>

EscapeString(s) == <<Quote>> \o FlattenSeq([i \in DOMAIN s |-> Escape(s[i])]) \o <<Quote>>

\* An object key: bare where it can be.
WriteKey(s) == IF IsIdentifier(s) THEN s ELSE EscapeString(s)

-----------------------------------------------------------------------------
(* Numbers; write_f64 *)

Zeros(n) == [i \in 1..n |-> 48]
Sign(negative) == IF negative THEN <<45>> ELSE <<>>

Decimal[n \in Nat] == IF n < 10 THEN <<48 + n>> ELSE Decimal[n \div 10] \o <<48 + (n % 10)>>

WriteI64(n) == IF n < 0 THEN <<45>> \o Decimal[-n] ELSE Decimal[n]

\* `{f:e}`
Exponential(f) ==
    LET rest == Tail(f.digits)
    IN  <<Head(f.digits)>> \o (IF rest = <<>> THEN <<>> ELSE <<Point>> \o rest)
        \o <<101>> \o WriteI64(f.exp)

\* `{f}`, which never has an exponent and has a point only before other digits.
Plain(f) ==
    LET whole == f.exp + 1
    IN  IF f.exp < 0 THEN <<48, Point>> \o Zeros(-f.exp - 1) \o f.digits
        ELSE IF Len(f.digits) <= whole THEN f.digits \o Zeros(whole - Len(f.digits))
        ELSE SubSeq(f.digits, 1, whole) \o <<Point>> \o SubSeq(f.digits, whole + 1, Len(f.digits))

IsZero(f) == f.digits = <<48>>

\* Mutated form: the exponent is not needed to tell a float.
WriteF64_Plain(f) == Sign(f.negative) \o Plain(f)

\* The bounds are those of the magnitude: 1e-6 inclusive, 1e21 exclusive.
WriteF64(f) ==
    LET spelled == Plain(f)
        marked == \E i \in DOMAIN spelled : spelled[i] = Point
    IN  Sign(f.negative) \o
        IF ~IsZero(f) /\ f.exp \notin -6..20 THEN Exponential(f)
        ELSE IF marked THEN spelled ELSE spelled \o <<Point, 48>>
=============================================================================
