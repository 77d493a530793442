------------------------------- MODULE MCScanner -------------------------------
(***************************************************************************)
(* Scanner against Lexis, on texts put together from pieces that matter to *)
(* each other, and on what the writer spells.                              *)
(***************************************************************************)
EXTENDS Lexis, ReadBack

CONSTANTS MaxPieces   \* bound: pieces of a layout and of the inside of a string

\* The pieces are texts. Beyond ASCII: e acute, an identifier's; a line
\* terminator (NEL), white space (NBSP) and the BOM, which is neither.
Eacute == 233
Nel == 133
Nbsp == 160
XidLetters == {Eacute}

Texts(pieces, n) == {FlattenSeq(s) : s \in SeqOf(pieces, n)}

Layouts ==
    Texts({<<97>>, <<Eacute>>, <<32>>, <<10>>, <<13>>, <<Nel>>, <<Nbsp>>, <<Bom>>, <<44>>,
           <<47, 47>>, <<47, 42>>, <<42, 47>>, <<42>>}, MaxPieces)
    \cup Texts({<<10>>, <<13>>, <<47, 47>>, <<47, 42>>, <<42, 47>>}, MaxPieces + 2)

\* \u and four digits.
Escaped(a, b, c, d) == <<Backslash, 117, a, b, c, d>>

\* Two strings may come one after the other, and share the parser's buffer.
Strings ==
    {<<Quote>> \o s : s \in
        Texts({<<Quote>>, <<97>>, <<44>>, Escaped(48, 48, 52, 49)}, MaxPieces + 2) \cup
        Texts({<<Quote>>, <<97>>, <<Eacute>>, <<Nel>>, <<10>>, <<Backslash>>, <<Backslash, 110>>,
               Escaped(48, 48, 52, 49), Escaped(68, 56, 51, 68), Escaped(100, 101, 48, 48),
               <<Backslash, 117, 48, 48, 103>>}, MaxPieces)}

Numerals ==
    {s \in Texts({<<45>>, <<43>>, <<48>>, <<56>>, <<56, 55>>, <<Point>>, <<101>>, <<97>>, <<32>>}, MaxPieces)
            \cup Texts({<<45>>, <<48>>, <<56>>, <<Point>>, <<101>>}, MaxPieces + 2) :
        s # <<>> /\ (IsDigit(s[1]) \/ s[1] \in {43, 45})}
    \cup {<<49, 101>> \o Decimal[n] : n \in {MaxExp, MaxExp + 1}}
    \cup {<<45, 49>> \o Zeros(n) : n \in {MaxExp, MaxExp + 1}}

-----------------------------------------------------------------------------
(* What the writer spells *)

Wrote(kind, value) == [kind |-> kind, value |-> value]

\* Characters the writer escapes, those a reader gives a meaning, and others.
Tricky == {Quote, Backslash, 47, 10, 31, 1, 97, 49, 127, Nel, Bom, Eacute}

Floats ==
    [negative : BOOLEAN, digits : {<<49>>, <<49, 53>>, <<56, 48, 55>>},
     exp : {-8, -7, -6, -1, 0, 1, 2, 20, 21}]
    \cup [negative : BOOLEAN, digits : {<<48>>}, exp : {0}]

Writable ==
    {Wrote(kind, s) : kind \in {"str", "key"}, s \in SeqOf(Tricky, 2)}
    \cup {Wrote("int", n) : n \in {-(I64Max + 1), -1, 0, 10, I64Max}}
    \cup {Wrote("float", f) : f \in Floats}

Spelling(w) ==
    CASE w.kind = "str"   -> EscapeString(w.value)
      [] w.kind = "key"   -> WriteKey(w.value)
      [] w.kind = "int"   -> WriteI64(w.value)
      [] w.kind = "float" -> WriteF64(w.value)

\* Alone, and as members of an array, one after the other with a comma between.
Written ==
    {[text |-> Spelling(w), wrote |-> <<w>>] : w \in Writable}
    \cup {[text |-> Spelling(w) \o <<44>> \o Spelling(v), wrote |-> <<w, v>>] :
            w \in {v \in Writable : v.kind # "str"}, v \in {Wrote("str", <<Nel>>), Wrote("int", 10)}}

MCInputs ==
    {[text |-> t, wrote |-> <<>>] : t \in Layouts \cup Strings \cup Numerals} \cup Written

-----------------------------------------------------------------------------

\* The scanner finds the tokens the text has, in one pass and with one character
\* to look ahead, and when it fails it does so at the character to blame: the
\* first that no token goes on with, or where the comment or string without an
\* end begins.
ScansWhatIsWritten ==
    outcome.is # "scanning" =>
        LET meant == Tokens(text)
        IN  /\ tokens = meant.tokens
            /\ IF meant.fails = 0 THEN outcome.is = "ended"
               ELSE outcome.is = "error" /\
                    [line |-> outcome.line, col |-> outcome.col] = Place(text, meant.fails)

\* What the writer spells is read back as it was: no character of a string ends
\* it or changes, a key is one token, a float stays a float and an int an int,
\* next to whatever is written beside it.
ReadsAs(w) == IF w.kind # "key" THEN w.kind ELSE IF IsIdentifier(w.value) THEN "id" ELSE "str"
WrittenReadsBack ==
    outcome.is # "scanning" /\ input.wrote # <<>> =>
        /\ outcome.is = "ended"
        /\ LET values == SelectSeq(tokens, LAMBDA t : t.t # "mark")
           IN  /\ Len(values) = Len(input.wrote)
               /\ \A i \in DOMAIN values :
                     values[i].t = ReadsAs(input.wrote[i]) /\ values[i].s = input.wrote[i].value

\* Every text is scanned to its end or to an error, also where the cursor is set
\* back to before what was read.
ScanEnds == <>(outcome.is # "scanning")
=============================================================================
