---------------------------- MODULE ScannerProofs ------------------------------
(***************************************************************************)
(* What the scanner does with every text: for every set of inputs, every   *)
(* length, and whichever letters Unicode counts among identifiers.         *)
(***************************************************************************)
EXTENDS Places, ReadBack, Basics, FiniteSetTheorems

(* Places *)

\* The lines that end before an index.
Before(s, i) == {e \in Ends(s) : e < i}

LEMMA BeforeFinite ==
    ASSUME NEW s \in Seq(Nat), NEW i \in Nat
    PROVE  IsFiniteSet(Before(s, i)) /\ Cardinality(Before(s, i)) \in Nat
<1>1. Before(s, i) \in SUBSET Nat /\ \A e \in Before(s, i) : e <= i
  BY DEF Before, Ends
<1> QED
  BY <1>1, FS_BoundedSetOfNaturals, FS_CardinalityType

\* What the column is counted from.
LastEnd(ends, s) ==
    IF ends = {} THEN (IF s # <<>> /\ s[1] = Bom THEN 1 ELSE 0)
    ELSE CHOOSE e \in ends : \A f \in ends : e >= f

LEMMA PlaceIs ==
    ASSUME NEW s, NEW i \in Nat
    PROVE  /\ Place(s, i).line = 1 + Cardinality(Before(s, i))
           /\ Place(s, i).col = i - LastEnd(Before(s, i), s)
BY DEF Place, Before, LastEnd

LEMMA LastIs ==
    ASSUME NEW s \in Seq(Nat), NEW i \in Nat
    PROVE  /\ LastEnd(Before(s, i), s) \in Nat
           /\ Before(s, i) # {} => \A f \in Before(s, i) : LastEnd(Before(s, i), s) >= f
<1> DEFINE B == Before(s, i)
<1>1. CASE B = {}
  BY <1>1 DEF LastEnd
<1>2. CASE B # {}
  <2>1. B \subseteq Nat /\ \A e \in B : e <= i
    BY DEF Before, Ends
  <2>2. PICK m \in B : \A e \in B : e <= m
    <3> HIDE DEF B
    <3> QED
      BY <1>2, <2>1, Greatest
  <2>3. /\ (CHOOSE e \in B : \A f \in B : e >= f) \in B
        /\ \A f \in B : (CHOOSE e \in B : \A f_1 \in B : e >= f_1) >= f
    <3>1. \E e \in B : \A f \in B : e >= f
      <4> HIDE DEF B
      <4> QED
        BY <2>1, <2>2
    <3> HIDE DEF B
    <3> QED
      BY <3>1
  <2> HIDE DEF B
  <2>4. LastEnd(B, s) = CHOOSE e \in B : \A f \in B : e >= f
    BY <1>2 DEF LastEnd
  <2> QED
    BY <2>1, <2>3, <2>4 DEF B
<1> QED
  BY <1>1, <1>2

\* A line ends, or a column goes by.
LEMMA PlaceNext ==
    ASSUME NEW s \in Seq(Nat), NEW i \in DOMAIN s
    PROVE  /\ i \in Ends(s) => Place(s, i + 1).line = Place(s, i).line + 1 /\ Place(s, i + 1).col = 1
           /\ i \notin Ends(s) => /\ Place(s, i + 1).line = Place(s, i).line
                                  /\ Place(s, i + 1).col = Place(s, i).col + 1
<1> DEFINE B == Before(s, i)  C == Before(s, i + 1)
<1>1. i \in Nat
  OBVIOUS
<1>2. IsFiniteSet(B) /\ Cardinality(B) \in Nat /\ i \notin B
  BY <1>1, BeforeFinite DEF Before
<1>3. ASSUME i \in Ends(s)
      PROVE  Place(s, i + 1).line = Place(s, i).line + 1 /\ Place(s, i + 1).col = 1
  <2>1. C = B \cup {i}
    BY <1>1, <1>3 DEF Before, Ends
  <2>2. Cardinality(C) = Cardinality(B) + 1
    <3> HIDE DEF B, C
    <3> QED
      BY <1>2, <2>1, FS_AddElement
  <2>3. i \in C /\ \A f \in C : f \in Nat /\ i >= f
    BY <1>1, <2>1 DEF Before, Ends
  <2>4. LastEnd(C, s) = i
    <3> HIDE DEF C
    <3>1. \A e \in C : (\A f \in C : e >= f) => e = i
      BY <1>1, <2>3
    <3>2. (CHOOSE e \in C : \A f \in C : e >= f) = i
      BY <2>3, <3>1
    <3> QED
      BY <2>3, <3>2 DEF LastEnd
  <2>5. Place(s, i + 1).line = 1 + Cardinality(C) /\ Place(s, i + 1).col = 1
    <3>1. i + 1 \in Nat /\ LastEnd(C, s) \in Nat
      BY <1>1, <2>4
    <3>2. Place(s, i + 1).line = 1 + Cardinality(C) /\ Place(s, i + 1).col = i + 1 - LastEnd(C, s)
      BY <3>1, PlaceIs
    <3>3. i + 1 - LastEnd(C, s) = 1
      <4> HIDE DEF C
      <4> QED
        BY <1>1, <2>4
    <3> QED
      BY <3>2, <3>3
  <2>6. Place(s, i).line = 1 + Cardinality(B)
    BY <1>1, PlaceIs
  <2>7. Cardinality(B) + 1 = Cardinality(C) /\ Cardinality(B) \in Nat
    BY <1>2, <2>2
  <2> QED
    BY <2>5, <2>6, <2>7
<1>4. ASSUME i \notin Ends(s)
      PROVE  /\ Place(s, i + 1).line = Place(s, i).line
             /\ Place(s, i + 1).col = Place(s, i).col + 1
  <2>1. C = B
    BY <1>1, <1>4 DEF Before, Ends
  <2>2. LastEnd(B, s) \in Nat
    BY <1>1, LastIs
  <2> QED
    BY <1>1, <2>1, <2>2, PlaceIs
<1> QED
  BY <1>3, <1>4

\* Columns go by where no line ends.
LEMMA PlaceAlong ==
    ASSUME NEW s \in Seq(Nat), NEW i \in Nat, NEW n \in Nat,
           \A k \in Nat : i <= k /\ k < i + n => k \notin Ends(s)
    PROVE  /\ Place(s, i + n).line = Place(s, i).line
           /\ Place(s, i + n).col = Place(s, i).col + n
<1> DEFINE B == Before(s, i)  C == Before(s, i + n)
<1>1. C = B
  <2>1. \A e \in Ends(s) : e \in Nat
    BY DEF Ends
  <2> QED
    BY <2>1 DEF Before
<1>2. LastEnd(B, s) \in Nat
  BY LastIs
<1> QED
  BY <1>1, <1>2, PlaceIs

-----------------------------------------------------------------------------
(* The cursor *)

\* What is scanned is a str.
LEMMA TextIs ==
    ASSUME input \in Inputs
    PROVE  text \in Seq(Nat) /\ \A k \in DOMAIN text : IsChar(text[k])
BY InputsAreTexts DEF text

\* A cursor that keeps the line and the column of the character it is at.
Cursor == [pos : Nat, line : Nat \ {0}, col : Nat \ {0}]
AtPlace(s, p) ==
    /\ p \in Cursor /\ p.pos <= Len(s)
    /\ p.line = Place(s, p.pos + 1).line /\ p.col = Place(s, p.pos + 1).col

\* bump keeps it, whatever the character.
LEMMA BumpedPlace ==
    ASSUME text \in Seq(Nat), NEW p, AtPlace(text, p), p.pos < Len(text)
    PROVE  AtPlace(text, Bumped(p)) /\ Bumped(p).pos = p.pos + 1
<1> DEFINE i == p.pos + 1
<1>1. i \in DOMAIN text /\ i \in Nat /\ p \in Cursor /\ p.pos \in Nat /\ i + 1 = p.pos + 2
  BY DEF AtPlace, Cursor
<1>2. /\ i \in Ends(text) => Place(text, i + 1).line = Place(text, i).line + 1 /\ Place(text, i + 1).col = 1
      /\ i \notin Ends(text) => /\ Place(text, i + 1).line = Place(text, i).line
                                /\ Place(text, i + 1).col = Place(text, i).col + 1
  <2> HIDE DEF i
  <2> QED
    BY <1>1, PlaceNext
<1>3. i \in Ends(text) <=>
        IsLineTerminator(text[i]) /\ ~(text[i] = 13 /\ i + 1 <= Len(text) /\ text[i + 1] = 10)
  <2>1. i < Len(text) <=> i + 1 <= Len(text)
    BY <1>1
  <2> HIDE DEF i
  <2> QED
    BY <1>1, <2>1 DEF Ends
<1>4. CASE i \in Ends(text)
  <2>1. Bumped(p) = [pos |-> p.pos + 1, line |-> p.line + 1, col |-> 1]
    BY <1>1, <1>3, <1>4 DEF Bumped
  <2> QED
    BY <1>1, <1>2, <1>4, <2>1 DEF AtPlace, Cursor
<1>5. CASE i \notin Ends(text)
  <2>1. Bumped(p) = [pos |-> p.pos + 1, line |-> p.line, col |-> p.col + 1]
    BY <1>1, <1>3, <1>5 DEF Bumped
  <2> QED
    BY <1>1, <1>2, <1>5, <2>1 DEF AtPlace, Cursor
<1> QED
  BY <1>4, <1>5

\* A fast path keeps it where no line ends.
LEMMA PastPlace ==
    ASSUME text \in Seq(Nat), NEW p, AtPlace(text, p), NEW n \in Nat, p.pos + n <= Len(text),
           \A k \in p.pos + 1..p.pos + n : ~IsLineTerminator(text[k])
    PROVE  AtPlace(text, Past(p, n)) /\ Past(p, n).pos = p.pos + n
<1>1. p \in Cursor /\ p.pos \in Nat /\ p.pos + 1 \in Nat
  BY DEF AtPlace, Cursor
<1>2. \A k \in Nat : p.pos + 1 <= k /\ k < (p.pos + 1) + n => k \notin Ends(text)
  <2>1. \A k \in Nat : p.pos + 1 <= k /\ k < (p.pos + 1) + n => k \in p.pos + 1..p.pos + n
    BY <1>1
  <2>2. \A k \in Ends(text) : IsLineTerminator(text[k])
    BY DEF Ends
  <2> QED
    BY <2>1, <2>2
<1>3. /\ Place(text, (p.pos + 1) + n).line = Place(text, p.pos + 1).line
      /\ Place(text, (p.pos + 1) + n).col = Place(text, p.pos + 1).col + n
  BY <1>1, <1>2, PlaceAlong
<1>4. (p.pos + 1) + n = (p.pos + n) + 1
  BY <1>1
<1> QED
  BY <1>1, <1>3, <1>4 DEF AtPlace, Past, Cursor

\* The first of some numbers.
LEMMA FirstIs ==
    ASSUME NEW T, T \subseteq Nat, T # {}
    PROVE  LET first == CHOOSE k \in T : \A j \in T : k <= j IN first \in T /\ \A j \in T : first <= j
BY Least

\* How far a fast path goes: over characters of its kind, up to another or the end.
LEMMA DigitRun ==
    ASSUME text \in Seq(Nat), NEW n \in Nat, n <= Len(text)
    PROVE  /\ Run(n, IsDigit) \in Nat /\ n + Run(n, IsDigit) <= Len(text)
           /\ \A k \in n + 1..n + Run(n, IsDigit) : IsDigit(text[k])
           /\ n + Run(n, IsDigit) < Len(text) => ~IsDigit(text[n + Run(n, IsDigit) + 1])
<1> DEFINE others == {k \in n + 1..Len(text) : ~IsDigit(text[k])}
           first == CHOOSE k \in others : \A j \in others : k <= j
<1>1. CASE others = {}
  <2>1. Run(n, IsDigit) = Len(text) - n
    BY <1>1 DEF Run
  <2> QED
    BY <1>1, <2>1
<1>2. CASE others # {}
  <2>1. Run(n, IsDigit) = first - n - 1
    BY <1>2 DEF Run
  <2>2. others \subseteq Nat
    OBVIOUS
  <2>3. first \in others /\ \A j \in others : first <= j
    <3> HIDE DEF others
    <3> QED
      BY <1>2, <2>2, FirstIs
  <2> HIDE DEF first
  <2>4. first \in n + 1..Len(text) /\ ~IsDigit(text[first])
    BY <2>3
  <2>5. \A k \in n + 1..first - 1 : IsDigit(text[k])
    BY <2>3, <2>4
  <2> DEFINE r == Run(n, IsDigit)
  <2>6. n + r = first - 1 /\ r \in Nat /\ n + r + 1 = first
    BY <2>1, <2>4
  <2> HIDE DEF r, others
  <2>7. /\ n + r <= Len(text)
        /\ \A k \in n + 1..n + r : IsDigit(text[k])
        /\ n + r < Len(text) => ~IsDigit(text[n + r + 1])
    BY <2>4, <2>5, <2>6
  <2> QED
    BY <2>6, <2>7 DEF r
<1> QED
  BY <1>1, <1>2

LEMMA PlainRun ==
    ASSUME text \in Seq(Nat), NEW n \in Nat, n <= Len(text)
    PROVE  /\ Run(n, PlainAscii) \in Nat /\ n + Run(n, PlainAscii) <= Len(text)
           /\ \A k \in n + 1..n + Run(n, PlainAscii) : PlainAscii(text[k])
           /\ n + Run(n, PlainAscii) < Len(text) => ~PlainAscii(text[n + Run(n, PlainAscii) + 1])
<1> DEFINE others == {k \in n + 1..Len(text) : ~PlainAscii(text[k])}
           first == CHOOSE k \in others : \A j \in others : k <= j
<1>1. CASE others = {}
  <2>1. Run(n, PlainAscii) = Len(text) - n
    BY <1>1 DEF Run
  <2> QED
    BY <1>1, <2>1
<1>2. CASE others # {}
  <2>1. Run(n, PlainAscii) = first - n - 1
    BY <1>2 DEF Run
  <2>2. others \subseteq Nat
    OBVIOUS
  <2>3. first \in others /\ \A j \in others : first <= j
    <3> HIDE DEF others
    <3> QED
      BY <1>2, <2>2, FirstIs
  <2> HIDE DEF first
  <2>4. first \in n + 1..Len(text) /\ ~PlainAscii(text[first])
    BY <2>3
  <2>5. \A k \in n + 1..first - 1 : PlainAscii(text[k])
    BY <2>3, <2>4
  <2> DEFINE r == Run(n, PlainAscii)
  <2>6. n + r = first - 1 /\ r \in Nat /\ n + r + 1 = first
    BY <2>1, <2>4
  <2> HIDE DEF r, others
  <2>7. /\ n + r <= Len(text)
        /\ \A k \in n + 1..n + r : PlainAscii(text[k])
        /\ n + r < Len(text) => ~PlainAscii(text[n + r + 1])
    BY <2>4, <2>5, <2>6
  <2> QED
    BY <2>6, <2>7 DEF r
<1> QED
  BY <1>1, <1>2

-----------------------------------------------------------------------------
(* What every turn keeps *)

Chars == {s \in Seq(Nat) : \A i \in DOMAIN s : IsChar(s[i])}
Counts == 0..4
Units == {v \in Nat : v < 65536}
Halves == High \cup {0}

Local == [from : Cursor, scratch : Chars, digits : Counts, value : Units,
          high : Halves, saved : Cursor, exact : BOOLEAN]

\* The cursor, where the token began and where the scanner may go back to are
\* places of the text, and the cursor is behind neither.
Kept(s, p, l) ==
    /\ AtPlace(s, p)
    /\ l \in Local
    /\ AtPlace(s, l.from) /\ l.from.pos <= p.pos
    /\ AtPlace(s, l.saved) /\ l.saved.pos <= p.pos

\* The digits read bound their value; and it is to after where the token began
\* that a high surrogate's escape is gone back.
HexSoFar(l) ==
    /\ l.digits = 0 => l.value = 0
    /\ l.digits = 1 => l.value < 16
    /\ l.digits = 2 => l.value < 256
    /\ l.digits = 3 => l.value < 4096
    /\ l.high # 0 => l.from.pos <= l.saved.pos

\* An error is blamed on a place of the text.
Blamed ==
    outcome.is = "error" =>
        \E p \in Cursor : AtPlace(text, p) /\ outcome.line = p.line /\ outcome.col = p.col

Scanning ==
    /\ input \in Inputs
    /\ Kept(text, at, local)
    /\ mode = "hex" => HexSoFar(local)
    /\ Blamed

\* The cursor moves on.
LEMMA KeptOn ==
    ASSUME NEW s, NEW p, NEW l, NEW q, Kept(s, p, l), AtPlace(s, q), p.pos <= q.pos
    PROVE  Kept(s, q, l)
<1>1. p.pos \in Nat /\ q.pos \in Nat /\ l.from.pos \in Nat /\ l.saved.pos \in Nat
  BY DEF Kept, AtPlace, Cursor
<1>2. l.from.pos <= p.pos /\ l.saved.pos <= p.pos
  BY DEF Kept
<1>3. l.from.pos <= q.pos /\ l.saved.pos <= q.pos
  BY <1>1, <1>2
<1> QED
  BY <1>3 DEF Kept

\* What the parts of an invariant become in a step.
LEMMA TurnKeeps ==
    ASSUME Scanning, NEW m, NEW p, NEW l, In(mode), Turn(m, p, l), Kept(text, p, l),
           m = "hex" => HexSoFar(l)
    PROVE  Scanning'
<1>1. text' = text
  BY DEF Turn, text
<1> QED
  BY <1>1 DEF Scanning, Turn, In, Blamed

LEMMA EmitKeeps ==
    ASSUME Scanning, NEW p, NEW t, NEW s, In(mode), Emit(p, t, s), AtPlace(text, p), at.pos <= p.pos
    PROVE  Scanning'
<1>1. text' = text
  BY DEF Emit, text
<1>2. Kept(text, p, local)
  BY KeptOn DEF Scanning
<1> QED
  BY <1>1, <1>2 DEF Scanning, Emit, In, Blamed

LEMMA ErrKeeps ==
    ASSUME Scanning, NEW p, Err(p), AtPlace(text, p)
    PROVE  Scanning'
<1>1. text' = text
  BY DEF Err, text
<1>2. Blamed'
  BY <1>1 DEF Err, Blamed, AtPlace
<1> QED
  BY <1>1, <1>2 DEF Scanning, Err

\* The characters ahead are the text's, and they are known not to be the end of it.
LEMMA Ahead ==
    ASSUME Scanning
    PROVE  /\ text \in Seq(Nat) /\ at.pos \in Nat /\ at.pos <= Len(text) /\ Len(text) \in Nat
           /\ Byte(0) # Eof => at.pos < Len(text) /\ Byte(0) = text[at.pos + 1] /\ IsChar(Byte(0))
           /\ Byte(1) # Eof => at.pos + 1 < Len(text) /\ Byte(1) = text[at.pos + 2] /\ IsChar(Byte(1))
           /\ at.pos = Len(text) => Byte(0) = Eof
           /\ Byte(0) \in Int /\ Byte(1) \in Int
<1>1. text \in Seq(Nat) /\ \A k \in DOMAIN text : IsChar(text[k])
  BY TextIs DEF Scanning
<1>2. at.pos \in Nat /\ at.pos <= Len(text)
  BY DEF Scanning, Kept, AtPlace, Cursor
<1>3. Len(text) \in Nat /\ DOMAIN text = 1..Len(text)
  BY <1>1
<1>4. (at.pos + 0) + 1 = at.pos + 1 /\ at.pos + 0 = at.pos /\ (at.pos + 1) + 1 = at.pos + 2
  BY <1>2
<1> HIDE DEF text
<1>5. /\ at.pos < Len(text) => at.pos + 1 \in DOMAIN text
      /\ at.pos + 1 < Len(text) => at.pos + 2 \in DOMAIN text
  BY <1>2, <1>3
<1>6. /\ Byte(0) = IF at.pos < Len(text) THEN text[at.pos + 1] ELSE Eof
      /\ Byte(1) = IF at.pos + 1 < Len(text) THEN text[at.pos + 2] ELSE Eof
  BY <1>4 DEF Byte
<1>7. /\ Byte(0) # Eof => at.pos < Len(text) /\ Byte(0) = text[at.pos + 1]
      /\ Byte(1) # Eof => at.pos + 1 < Len(text) /\ Byte(1) = text[at.pos + 2]
  BY <1>6
<1>8. at.pos = Len(text) => Byte(0) = Eof
  BY <1>2, <1>6
<1>9. Byte(0) \in Int /\ Byte(1) \in Int
  <2>1. \A k \in DOMAIN text : text[k] \in Int
    BY <1>1
  <2>2. Eof \in Int
    BY SMT DEF Eof
  <2> QED
    BY <1>5, <1>6, <2>1, <2>2
<1> QED
  BY <1>1, <1>2, <1>3, <1>5, <1>7, <1>8, <1>9

LEMMA BumpedOnce ==
    ASSUME Scanning, Byte(0) # Eof
    PROVE  AtPlace(text, Bumped(at)) /\ Bumped(at).pos = at.pos + 1 /\ Kept(text, Bumped(at), local)
<1>1. AtPlace(text, Bumped(at)) /\ Bumped(at).pos = at.pos + 1
  BY Ahead, BumpedPlace DEF Scanning, Kept
<1>2. at.pos <= Bumped(at).pos
  BY <1>1, Ahead
<1> QED
  BY <1>1, <1>2, KeptOn DEF Scanning

LEMMA BumpedTwice ==
    ASSUME Scanning, Byte(0) # Eof, Byte(1) # Eof
    PROVE  /\ AtPlace(text, Bumped(Bumped(at))) /\ Bumped(Bumped(at)).pos = at.pos + 2
           /\ Kept(text, Bumped(Bumped(at)), local)
<1>1. AtPlace(text, Bumped(at)) /\ Bumped(at).pos = at.pos + 1
  BY BumpedOnce
<1>2. text \in Seq(Nat) /\ at.pos \in Nat /\ at.pos + 1 < Len(text)
  BY Ahead
<1>3. AtPlace(text, Bumped(Bumped(at))) /\ Bumped(Bumped(at)).pos = (at.pos + 1) + 1
  <2> DEFINE q == Bumped(at)
  <2> HIDE DEF q
  <2>1. AtPlace(text, q) /\ q.pos = at.pos + 1
    BY <1>1 DEF q
  <2>2. AtPlace(text, Bumped(q)) /\ Bumped(q).pos = q.pos + 1
    BY <1>2, <2>1, BumpedPlace
  <2> QED
    BY <2>1, <2>2 DEF q
<1>4. (at.pos + 1) + 1 = at.pos + 2
  BY <1>2
<1>5. at.pos <= Bumped(Bumped(at)).pos
  BY <1>2, <1>3, <1>4
<1> QED
  BY <1>2, <1>3, <1>4, <1>5, KeptOn DEF Scanning

\* One fast step.
LEMMA PastOne ==
    ASSUME Scanning, Byte(0) # Eof, ~IsLineTerminator(Byte(0))
    PROVE  Kept(text, Past(at, 1), local)
<1>1. \A k \in at.pos + 1..at.pos + 1 : ~IsLineTerminator(text[k])
  BY Ahead
<1>2. AtPlace(text, Past(at, 1)) /\ Past(at, 1).pos = at.pos + 1
  BY <1>1, Ahead, PastPlace DEF Scanning, Kept
<1>3. at.pos <= Past(at, 1).pos
  BY <1>2, Ahead
<1> QED
  BY <1>2, <1>3, KeptOn DEF Scanning

\* A token begins where the cursor is.
LEMMA BegunKept ==
    ASSUME Scanning, NEW p, Kept(text, p, local), at.pos <= p.pos
    PROVE  Kept(text, p, Begun)
<1>1. AtPlace(text, at) /\ at \in Cursor /\ local \in Local
  BY DEF Scanning, Kept, AtPlace
<1>2. Begun \in Local
  BY <1>1 DEF Begun, Local
<1>3. Begun.from = at /\ Begun.saved = local.saved
  BY <1>1 DEF Begun, Local
<1> QED
  BY <1>1, <1>2, <1>3 DEF Scanning, Kept

\* What says of a character that it is one.
LEMMA SomeAhead ==
    ASSUME NEW c \in Int
    PROVE  /\ c \in Punctuation \cup {Quote, Backslash, Point, 47, 42, 117, 43, 45} => c # Eof
           /\ IsWhitespace(c) \/ IsDigit(c) \/ IsHexDigit(c) \/ PlainAscii(c) => c # Eof
           /\ IsIdStart(c) => c # Eof
           /\ IsHexDigit(c) \/ IsDigit(c) \/ PlainAscii(c) \/ (c < 128 /\ IsIdPart(c)) => ~IsLineTerminator(c)
BY SMT DEF Eof, IsWhitespace, IsLineTerminator, IsIdPart, IsDigit, IsHexDigit, IsIdStart, PlainAscii, Punctuation, Quote, Backslash, Point

-----------------------------------------------------------------------------
(* Between tokens *)

LEMMA BlankScanning ==
    ASSUME Scanning, SkipSpace \/ OpenComment \/ LineComment \/ BlockComment
    PROVE  Scanning'
<1>1. /\ Kept(text, at, local) /\ AtPlace(text, at) /\ at.pos \in Nat
      /\ AtPlace(text, local.from)
  BY DEF Scanning, Kept, AtPlace, Cursor
<1>2. CASE SkipSpace
  <2>1. Byte(0) # Eof
    BY <1>2, Ahead, SomeAhead DEF SkipSpace
  <2> QED
    BY <1>2, <2>1, BumpedOnce, TurnKeeps DEF SkipSpace, In
<1>3. CASE OpenComment
  <2>1. Byte(0) # Eof /\ (Byte(1) \in {47, 42} => Byte(1) # Eof)
    BY <1>3, Ahead, SomeAhead DEF OpenComment
  <2>2. CASE Byte(1) = 47 /\ Turn("line comment", Bumped(Bumped(at)), local)
    BY <1>3, <2>1, <2>2, BumpedTwice, TurnKeeps DEF OpenComment, In
  <2>3. CASE Byte(1) = 42 /\ Turn("block comment", Bumped(Bumped(at)), Begun)
    <3>1. Kept(text, Bumped(Bumped(at)), local) /\ at.pos <= Bumped(Bumped(at)).pos
      <4>1. Byte(0) # Eof /\ Byte(1) # Eof
        BY <2>1, <2>3
      <4> QED
        BY <1>1, <4>1, BumpedTwice
    <3>2. Kept(text, Bumped(Bumped(at)), Begun)
      BY <3>1, BegunKept
    <3> QED
      BY <1>3, <2>3, <3>2, TurnKeeps DEF OpenComment, In
  <2> QED
    BY <1>3, <2>2, <2>3 DEF OpenComment
<1>4. CASE LineComment
  <2>1. CASE Byte(0) = Eof \/ IsLineTerminator(Byte(0))
    BY <1>1, <1>4, <2>1, TurnKeeps DEF LineComment, In
  <2>2. CASE ~(Byte(0) = Eof \/ IsLineTerminator(Byte(0)))
    BY <1>4, <2>2, BumpedOnce, TurnKeeps DEF LineComment, In
  <2> QED
    BY <2>1, <2>2
<1>5. CASE BlockComment
  <2>1. CASE Byte(0) = Eof
    BY <1>1, <1>5, <2>1, ErrKeeps DEF BlockComment
  <2>2. CASE Byte(0) # Eof /\ Byte(0) = 42 /\ Byte(1) = 47
    <3>1. Byte(1) # Eof
      BY <2>2, Ahead, SomeAhead
    <3> QED
      BY <1>5, <2>2, <3>1, BumpedTwice, TurnKeeps DEF BlockComment, In
  <2>3. CASE Byte(0) # Eof /\ ~(Byte(0) = 42 /\ Byte(1) = 47)
    BY <1>5, <2>3, BumpedOnce, TurnKeeps DEF BlockComment, In
  <2> QED
    BY <2>1, <2>2, <2>3
<1> QED
  BY <1>2, <1>3, <1>4, <1>5

LEMMA MarkScanning ==
    ASSUME Scanning, End \/ Mark \/ Unexpected
    PROVE  Scanning'
<1>1. AtPlace(text, at) /\ at.pos \in Nat
  BY DEF Scanning, Kept, AtPlace, Cursor
<1>2. CASE End
  <2>1. text' = text /\ Blamed'
    BY <1>2 DEF End, text, Blamed
  <2> QED
    BY <1>2, <2>1 DEF End, Scanning
<1>3. CASE Mark
  <2>1. Byte(0) # Eof
    BY <1>3, Ahead, SomeAhead DEF Mark
  <2>2. AtPlace(text, Bumped(at)) /\ at.pos <= Bumped(at).pos
    BY <1>1, <2>1, BumpedOnce
  <2> QED
    BY <1>3, <2>2, EmitKeeps DEF Mark, In
<1>4. CASE Unexpected
  BY <1>1, <1>4, ErrKeeps DEF Unexpected
<1> QED
  BY <1>2, <1>3, <1>4

LEMMA IdentifierScanning ==
    ASSUME Scanning, Identifier \/ IdentifierPart
    PROVE  Scanning'
<1>1. AtPlace(text, at) /\ at.pos \in Nat /\ Kept(text, at, local)
  BY DEF Scanning, Kept, AtPlace, Cursor
<1>2. CASE Identifier
  <2>1. Byte(0) # Eof
    BY <1>2, Ahead, SomeAhead DEF Identifier
  <2>2. Kept(text, Bumped(at), Begun)
    BY <1>1, <2>1, BumpedOnce, BegunKept
  <2> QED
    BY <1>2, <2>2, TurnKeeps DEF Identifier, In
<1>3. CASE IdentifierPart /\ Byte(0) # Eof /\ IsIdPart(Byte(0))
  <2>1. CASE Byte(0) < 128
    <3>1. ~IsLineTerminator(Byte(0))
      BY <1>3, <2>1, Ahead, SomeAhead
    <3> QED
      BY <1>3, <2>1, <3>1, PastOne, TurnKeeps DEF IdentifierPart, In
  <2>2. CASE ~(Byte(0) < 128)
    BY <1>3, <2>2, BumpedOnce, TurnKeeps DEF IdentifierPart, In
  <2> QED
    BY <2>1, <2>2
<1>4. CASE IdentifierPart /\ ~(Byte(0) # Eof /\ IsIdPart(Byte(0)))
  BY <1>1, <1>4, EmitKeeps DEF IdentifierPart, In
<1> QED
  BY <1>2, <1>3, <1>4

-----------------------------------------------------------------------------
(* Strings *)

LEMMA ScratchKept ==
    ASSUME NEW s, NEW p, NEW l, Kept(s, p, l), NEW x \in Chars
    PROVE  Kept(s, p, [l EXCEPT !.scratch = x])
<1> DEFINE m == [l EXCEPT !.scratch = x]
<1>1. m \in Local /\ m.from = l.from /\ m.saved = l.saved
  BY DEF Kept, Local
<1> QED
  BY <1>1 DEF Kept

\* Characters added to characters.
LEMMA MoreChars ==
    ASSUME NEW s \in Chars
    PROVE  /\ <<>> \in Chars
           /\ \A c : IsChar(c) => Append(s, c) \in Chars
           /\ \A x \in Chars : s \o x \in Chars
<1>1. <<>> \in Chars
  BY DEF Chars
<1>2. ASSUME NEW c, IsChar(c)
      PROVE  Append(s, c) \in Chars
  <2>1. s \in Seq(Nat) /\ c \in Nat
    <3>1. s \in Seq(Nat)
      BY DEF Chars
    <3>2. c \in Nat
      BY <1>2, SMT DEF IsChar
    <3> QED
      BY <3>1, <3>2
  <2>2. /\ Append(s, c) \in Seq(Nat) /\ Len(Append(s, c)) = Len(s) + 1
        /\ \A i \in 1..Len(s) : Append(s, c)[i] = s[i]
        /\ Append(s, c)[Len(s) + 1] = c
    BY <2>1, AppendProperties
  <2>3. \A i \in DOMAIN Append(s, c) : IsChar(Append(s, c)[i])
    <3> TAKE i \in DOMAIN Append(s, c)
    <3>1. i \in 1..Len(s) \/ i = Len(s) + 1
      BY <2>1, <2>2
    <3>2. \A k \in 1..Len(s) : IsChar(s[k])
      BY DEF Chars
    <3> QED
      BY <1>2, <2>2, <3>1, <3>2
  <2> QED
    BY <2>2, <2>3 DEF Chars
<1>3. ASSUME NEW x \in Chars
      PROVE  s \o x \in Chars
  <2>1. s \in Seq(Nat) /\ x \in Seq(Nat)
    BY DEF Chars
  <2>2. /\ s \o x \in Seq(Nat) /\ Len(s \o x) = Len(s) + Len(x)
        /\ \A i \in 1..Len(s) + Len(x) : (s \o x)[i] = IF i <= Len(s) THEN s[i] ELSE x[i - Len(s)]
    BY <2>1, ConcatProperties
  <2>3. \A i \in DOMAIN (s \o x) : IsChar((s \o x)[i])
    <3> TAKE i \in DOMAIN (s \o x)
    <3>1. i \in 1..Len(s) + Len(x) /\ Len(s) \in Nat /\ Len(x) \in Nat
      BY <2>1, <2>2
    <3>2. (\A k \in 1..Len(s) : IsChar(s[k])) /\ (\A k \in 1..Len(x) : IsChar(x[k]))
      BY DEF Chars
    <3>3. CASE i <= Len(s)
      BY <2>2, <3>1, <3>2, <3>3
    <3>4. CASE ~(i <= Len(s))
      <4>1. i - Len(s) \in 1..Len(x)
        BY <3>1, <3>4
      <4> QED
        BY <2>2, <3>1, <3>2, <3>4, <4>1
    <3> QED
      BY <3>3, <3>4
  <2> QED
    BY <2>2, <2>3 DEF Chars
<1> QED
  BY <1>1, <1>2, <1>3

\* A part of the text is characters.
LEMMA PartIsChars ==
    ASSUME Scanning, NEW i \in Nat, NEW j \in Nat, j <= Len(text)
    PROVE  SubSeq(text, i + 1, j) \in Chars
<1>1. text \in Seq(Nat) /\ \A k \in DOMAIN text : IsChar(text[k])
  BY TextIs DEF Scanning
<1> DEFINE x == SubSeq(text, i + 1, j)
<1>2. /\ x \in Seq(Nat)
      /\ Len(x) = IF i + 1 <= j THEN j - (i + 1) + 1 ELSE 0
      /\ \A k \in 1..Len(x) : x[k] = text[i + 1 + k - 1]
  BY <1>1, SubSeqProperties
<1>3. \A k \in DOMAIN x : IsChar(x[k])
  <2> TAKE k \in DOMAIN x
  <2>1. k \in 1..Len(x) /\ Len(text) \in Nat
    BY <1>1, <1>2
  <2>2. i + 1 + k - 1 \in 1..Len(text)
    BY <1>2, <2>1
  <2> QED
    BY <1>1, <1>2, <2>1, <2>2
<1> QED
  BY <1>2, <1>3 DEF Chars

\* Four digits are about to be read.
LEMMA Hex4Kept ==
    ASSUME NEW s, NEW p, Kept(s, p, local)
    PROVE  Kept(s, p, Hex4(local, 0)) /\ HexSoFar(Hex4(local, 0))
<1> DEFINE m == Hex4(local, 0)
<1>1. local \in Local
  BY DEF Kept
<1>2. 0 \in Counts /\ 0 \in Units /\ 0 \in Halves
  BY SMT DEF Counts, Units, Halves
<1>3. /\ m \in Local /\ m.from = local.from /\ m.saved = local.saved
      /\ m.digits = 0 /\ m.value = 0 /\ m.high = 0
  BY <1>1, <1>2 DEF Local, Hex4
<1> HIDE DEF m
<1>4. Kept(s, p, m) /\ HexSoFar(m)
  BY <1>3 DEF Kept, HexSoFar
<1> QED
  BY <1>4 DEF m

LEMMA StringScanning ==
    ASSUME Scanning, OpenString \/ StringRun \/ StringTurn
    PROVE  Scanning'
<1>1. /\ Kept(text, at, local) /\ AtPlace(text, at) /\ at.pos \in Nat
      /\ AtPlace(text, local.from) /\ local.scratch \in Chars
  BY DEF Scanning, Kept, AtPlace, Cursor, Local
<1>2. CASE OpenString
  <2>1. Byte(0) # Eof
    BY <1>2, Ahead, SomeAhead DEF OpenString
  <2>2. Kept(text, Bumped(at), Begun)
    BY <1>1, <2>1, BumpedOnce, BegunKept
  <2>3. Kept(text, Bumped(at), [Begun EXCEPT !.scratch = <<>>])
    BY <1>1, <2>2, ScratchKept, MoreChars
  <2> QED
    BY <1>2, <2>3, TurnKeeps DEF OpenString, In
<1>3. CASE StringRun
  <2> DEFINE n == Run(at.pos, PlainAscii)
             more == local.scratch \o SubSeq(text, at.pos + 1, at.pos + n)
  <2>1. /\ n \in Nat /\ at.pos + n <= Len(text)
        /\ \A k \in at.pos + 1..at.pos + n : PlainAscii(text[k])
    BY Ahead, PlainRun
  <2>2. \A k \in at.pos + 1..at.pos + n : ~IsLineTerminator(text[k])
    <3> TAKE k \in at.pos + 1..at.pos + n
    <3> HIDE DEF n
    <3>1. k \in 1..Len(text) /\ text \in Seq(Nat)
      BY <1>1, <2>1, Ahead
    <3>2. text[k] \in Int
      BY <3>1
    <3> QED
      BY <2>1, <3>2, SomeAhead
  <2>3. AtPlace(text, Past(at, n)) /\ Past(at, n).pos = at.pos + n
    BY <1>1, <2>1, <2>2, Ahead, PastPlace
  <2>4. Kept(text, Past(at, n), local)
    BY <1>1, <2>1, <2>3, KeptOn
  <2>5. more \in Chars
    BY <1>1, <2>1, PartIsChars, MoreChars
  <2>6. Kept(text, Past(at, n), [local EXCEPT !.scratch = more])
    BY <2>4, <2>5, ScratchKept
  <2>7. Turn("string", Past(at, n), [local EXCEPT !.scratch = more]) /\ In(mode)
    BY <1>3 DEF StringRun, In
  <2> HIDE DEF n, more
  <2> QED
    BY <2>6, <2>7, TurnKeeps
<1>4. CASE StringTurn
  <2>1. In(mode)
    BY <1>4 DEF StringTurn, In
  <2>2. CASE Byte(0) = Eof
    BY <1>1, <1>4, <2>2, ErrKeeps DEF StringTurn
  <2>3. CASE Byte(0) # Eof /\ Byte(0) = Quote
    <3>1. AtPlace(text, Bumped(at)) /\ at.pos <= Bumped(at).pos
      BY <1>1, <2>3, BumpedOnce
    <3> QED
      BY <1>4, <2>1, <2>3, <3>1, EmitKeeps DEF StringTurn
  <2>4. CASE Byte(0) # Eof /\ Byte(0) # Quote /\ Byte(0) = Backslash
    BY <1>4, <2>1, <2>4, BumpedOnce, TurnKeeps DEF StringTurn
  <2>5. CASE Byte(0) # Eof /\ Byte(0) # Quote /\ Byte(0) # Backslash /\ Byte(0) < 32
    BY <1>1, <1>4, <2>5, ErrKeeps DEF StringTurn
  <2>6. CASE Byte(0) # Eof /\ Byte(0) # Quote /\ Byte(0) # Backslash /\ ~(Byte(0) < 32)
    <3>1. Append(local.scratch, Byte(0)) \in Chars
      BY <1>1, <2>6, Ahead, MoreChars
    <3>2. Kept(text, Bumped(at), [local EXCEPT !.scratch = Append(local.scratch, Byte(0))])
      BY <2>6, <3>1, BumpedOnce, ScratchKept
    <3>3. Turn("string", Bumped(at), [local EXCEPT !.scratch = Append(local.scratch, Byte(0))])
      BY <1>4, <2>6 DEF StringTurn
    <3> QED
      BY <2>1, <3>2, <3>3, TurnKeeps
  <2> QED
    BY <2>2, <2>3, <2>4, <2>5, <2>6
<1> QED
  BY <1>2, <1>3, <1>4

\* No surrogate is as small.
LEMMA HalvesAreLarge == \A h \in High \cup Low : 55296 <= h
<1>1. \A h \in High : 55296 <= h
  BY SMT DEF High
<1>2. \A h \in Low : 55296 <= h
  BY SMT DEF Low
<1> QED
  BY <1>1, <1>2

LEMMA SmallChars ==
    ASSUME NEW c \in Nat, c < 55296
    PROVE  IsChar(c)
<1>1. ~(55296 <= c) /\ c <= 1114111
  BY SMT
<1> QED
  BY <1>1, HalvesAreLarge DEF IsChar

LEMMA EscapeScanning ==
    ASSUME Scanning, ReadEscape
    PROVE  Scanning'
<1>1. /\ Kept(text, at, local) /\ AtPlace(text, at) /\ local.scratch \in Chars /\ local \in Local
      /\ In(mode)
  BY DEF Scanning, Kept, Local, ReadEscape, In
<1>2. ASSUME NEW s \in Short, s[1] = Byte(0),
             Turn("string", Bumped(at), [local EXCEPT !.scratch = Append(@, s[2])])
      PROVE  Scanning'
  <2>1. Byte(0) # Eof
    BY <1>2, SMT DEF Short, Eof, Quote, Backslash
  <2>2. IsChar(s[2])
    <3>1. s[2] \in {34, 92, 47, 8, 12, 10, 13, 9}
      BY DEF Short, Quote, Backslash
    <3> QED
      BY <3>1, SmallChars
  <2>3. Kept(text, Bumped(at), [local EXCEPT !.scratch = Append(local.scratch, s[2])])
    BY <1>1, <2>1, <2>2, BumpedOnce, ScratchKept, MoreChars
  <2>4. Turn("string", Bumped(at), [local EXCEPT !.scratch = Append(local.scratch, s[2])])
    BY <1>2
  <2> QED
    BY <1>1, <2>3, <2>4, TurnKeeps
<1>3. CASE Byte(0) = 117 /\ Turn("hex", Bumped(at), Hex4(local, 0))
  <2>1. Byte(0) # Eof
    BY <1>3, Ahead, SomeAhead
  <2>2. Kept(text, Bumped(at), Hex4(local, 0)) /\ HexSoFar(Hex4(local, 0))
    BY <2>1, BumpedOnce, Hex4Kept
  <2> QED
    BY <1>1, <1>3, <2>2, TurnKeeps
<1>4. CASE Byte(0) = Eof /\ Err(at)
  BY <1>1, <1>4, ErrKeeps
<1>5. CASE Byte(0) \notin {s[1] : s \in Short} \cup {117, Eof} /\ Err(Bumped(at))
  <2>1. AtPlace(text, Bumped(at))
    BY <1>5, BumpedOnce
  <2> QED
    BY <1>5, <2>1, ErrKeeps
<1> QED
  BY <1>2, <1>3, <1>4, <1>5 DEF ReadEscape

LEMMA HexDigitIs ==
    ASSUME NEW c \in Nat, IsHexDigit(c)
    PROVE  HexValue(c) \in 0..15
BY SMT DEF HexValue, IsHexDigit, IsDigit

LEMMA HexScanning ==
    ASSUME Scanning, ReadHex
    PROVE  Scanning'
<1>1. /\ Kept(text, at, local) /\ AtPlace(text, at) /\ local \in Local /\ In(mode)
      /\ HexSoFar(local) /\ local.digits < 4 /\ local.digits \in Counts /\ local.value \in Units
  BY DEF Scanning, Kept, Local, ReadHex, In
<1>2. CASE Byte(0) # Eof /\ IsHexDigit(Byte(0))
  <2> DEFINE d == local.digits + 1
             v == 16 * local.value + HexValue(Byte(0))
             l == [local EXCEPT !.digits = d, !.value = v]
  <2>1. HexValue(Byte(0)) \in 0..15 /\ ~IsLineTerminator(Byte(0))
    <3>1. Byte(0) \in Nat
      BY <1>2, Ahead, SMT DEF IsHexDigit, IsDigit
    <3> QED
      BY <1>2, <3>1, SomeAhead, HexDigitIs
  <2>2. /\ d \in Counts /\ v \in Units /\ d # 0
        /\ (d = 1 => v < 16) /\ (d = 2 => v < 256) /\ (d = 3 => v < 4096)
    BY <1>1, <2>1, SMT DEF HexSoFar, Counts, Units
  <2>3. local \in Local
    BY <1>1
  <2> HIDE DEF d, v
  <2>4. /\ l \in Local /\ l.from = local.from /\ l.saved = local.saved /\ l.digits = d /\ l.value = v
        /\ l.high = local.high
    <3> DEFINE k == [local EXCEPT !.digits = d]
    <3>1. /\ k \in Local /\ k.from = local.from /\ k.saved = local.saved /\ k.digits = d
          /\ k.high = local.high
      BY <2>2, <2>3 DEF Local
    <3>2. l = [k EXCEPT !.value = v]
      OBVIOUS
    <3> HIDE DEF k, l
    <3>3. l \in Local
      BY <2>2, <3>1, <3>2 DEF Local
    <3>4. /\ l.from = k.from /\ l.saved = k.saved /\ l.digits = k.digits /\ l.value = v
          /\ l.high = k.high
      BY <3>1, <3>2 DEF Local
    <3> QED
      BY <3>1, <3>3, <3>4
  <2> HIDE DEF l
  <2>5. Kept(text, Past(at, 1), local)
    BY <1>2, <2>1, PastOne
  <2>6. Kept(text, Past(at, 1), l)
    BY <2>4, <2>5 DEF Kept
  <2>7. HexSoFar(l)
    BY <1>1, <2>2, <2>4, SMT DEF HexSoFar, Counts
  <2>8. Turn("hex", Past(at, 1), l)
    BY <1>2 DEF ReadHex, l, d, v
  <2> QED
    BY <1>1, <2>6, <2>7, <2>8, TurnKeeps
<1>3. CASE ~(Byte(0) # Eof /\ IsHexDigit(Byte(0)))
  BY <1>1, <1>3, ErrKeeps DEF ReadHex
<1> QED
  BY <1>2, <1>3

\* A surrogate is a code unit.
LEMMA HalfIs ==
    ASSUME NEW h \in High \cup Low
    PROVE  h \in Nat /\ h < 65536 /\ h \in Units
<1>1. h \in Nat /\ h < 65536
  BY SMT DEF High, Low
<1> QED
  BY <1>1 DEF Units

\* Two surrogates are a character beyond the plane that holds them.
LEMMA PairIsChar ==
    ASSUME NEW h \in High, NEW v \in Low
    PROVE  IsChar(65536 + (h - 55296) * 1024 + v - 56320)
<1> DEFINE a == h - 55296  b == v - 56320
<1>1. a \in Nat /\ a <= 1023 /\ b \in Nat /\ b <= 1023 /\ v = b + 56320
  BY SMT DEF High, Low
<1> HIDE DEF a, b
<1>2. a * 1024 \in Nat /\ a * 1024 <= 1047552
  BY <1>1, SMT
<1>3. 65536 + a * 1024 + v - 56320 = 65536 + a * 1024 + b
  BY <1>1, <1>2, SMT
<1>4. 65536 + a * 1024 + b \in Nat /\ 65536 + a * 1024 + b <= 1114111 /\ 65536 <= 65536 + a * 1024 + b
  BY <1>1, <1>2, SMT
<1>5. \A c \in High \cup Low : c < 65536
  BY HalfIs
<1>6. IsChar(65536 + a * 1024 + v - 56320)
  BY <1>3, <1>4, <1>5 DEF IsChar
<1> QED
  BY <1>6 DEF a

\* The number four digits make is read: a pair's character, the first of a pair,
\* or what is no pair's.
LEMMA DenotedScanning ==
    ASSUME Scanning, HexRead \/ HexDenotes
    PROVE  Scanning'
<1>1. /\ Kept(text, at, local) /\ AtPlace(text, at) /\ local.scratch \in Chars /\ local \in Local
      /\ local.high \in Halves /\ local.value \in Units /\ AtPlace(text, local.saved)
      /\ text \in Seq(Nat) /\ at.pos \in Nat
  BY Ahead DEF Scanning, Kept, Local
<1>2. CASE HexRead /\ local.high # 0 /\ local.value \in Low
  <2> DEFINE c == 65536 + (local.high - 55296) * 1024 + local.value - 56320
  <2>1. In(mode)
    BY <1>2 DEF HexRead, In
  <2>2. local.high \in High
    BY <1>1, <1>2 DEF Halves
  <2>3. IsChar(c)
    BY <1>2, <2>2, PairIsChar
  <2>4. Kept(text, at, [local EXCEPT !.scratch = Append(local.scratch, c)])
    <3> HIDE DEF c
    <3> QED
      BY <1>1, <2>3, ScratchKept, MoreChars
  <2>5. Turn("string", at, [local EXCEPT !.scratch = Append(local.scratch, c)])
    BY <1>2 DEF HexRead
  <2> HIDE DEF c
  <2> QED
    BY <2>1, <2>4, <2>5, TurnKeeps
<1>3. CASE HexRead /\ local.high # 0 /\ local.value \notin Low
  <2> DEFINE l == [local EXCEPT !.value = local.high]
  <2>1. In(mode) /\ Turn("unpaired", local.saved, l) /\ HexSoFar(local)
    BY <1>3 DEF HexRead, In, RollBack, Scanning
  <2>2. local.high \in Units
    BY <1>1, <1>3, HalfIs DEF Halves
  <2>3. /\ l \in Local /\ l.from = local.from /\ l.saved = local.saved
    BY <1>1, <2>2 DEF Local
  <2>4. local.from.pos <= local.saved.pos /\ local.saved.pos \in Nat
    BY <1>1, <1>3, <2>1 DEF HexSoFar, AtPlace, Cursor
  <2> HIDE DEF l
  <2>5. Kept(text, local.saved, l)
    BY <1>1, <2>3, <2>4 DEF Kept
  <2> QED
    BY <2>1, <2>5, TurnKeeps
<1>4. CASE /\ HexRead /\ local.high = 0
           /\ local.value \in High /\ Byte(0) = Backslash /\ Byte(1) = 117
  <2> DEFINE h == Hex4(local, local.value)
             l == [h EXCEPT !.saved = at]
             p == Bumped(Bumped(at))
  <2>1. In(mode) /\ Turn("hex", p, l)
    BY <1>4 DEF HexRead, In
  <2>2. Byte(0) # Eof /\ Byte(1) # Eof
    BY <1>4, Ahead, SomeAhead
  <2>3. AtPlace(text, p) /\ p.pos = at.pos + 2 /\ Kept(text, p, local)
    BY <2>2, BumpedTwice
  <2>4. 0 \in Counts /\ 0 \in Units /\ local.value \in Halves
    BY <1>4, SMT DEF Counts, Units, Halves
  <2>5. /\ h \in Local /\ h.from = local.from /\ h.digits = 0 /\ h.value = 0
    BY <1>1, <2>4 DEF Local, Hex4
  <2>6. at \in Cursor
    BY <1>1 DEF AtPlace
  <2> HIDE DEF h, p
  <2>7. l \in Local /\ l.from = local.from /\ l.digits = 0 /\ l.value = 0 /\ l.saved = at
    BY <2>5, <2>6 DEF Local
  <2> HIDE DEF l
  <2>8. at.pos <= p.pos
    BY <1>1, <2>3
  <2>9. Kept(text, p, l)
    BY <1>1, <2>3, <2>7, <2>8 DEF Kept
  <2>10. HexSoFar(l)
    BY <1>1, <2>7 DEF HexSoFar, Kept
  <2> QED
    BY <2>1, <2>9, <2>10, TurnKeeps
<1>5. CASE /\ HexRead /\ local.high = 0
           /\ ~(local.value \in High /\ Byte(0) = Backslash /\ Byte(1) = 117)
  BY <1>1, <1>5, TurnKeeps DEF HexRead, In
<1>6. CASE HexDenotes
  <2>1. In(mode)
    BY <1>6 DEF HexDenotes, In
  <2>2. CASE local.value \in High \cup Low
    BY <1>1, <1>6, <2>2, ErrKeeps DEF HexDenotes
  <2>3. CASE local.value \notin High \cup Low
    <3>1. IsChar(local.value)
      BY <1>1, <2>3 DEF Units, IsChar
    <3>2. Kept(text, at, [local EXCEPT !.scratch = Append(local.scratch, local.value)])
      BY <1>1, <3>1, ScratchKept, MoreChars
    <3>3. Turn("string", at, [local EXCEPT !.scratch = Append(local.scratch, local.value)])
      BY <1>6, <2>3 DEF HexDenotes
    <3> QED
      BY <2>1, <3>2, <3>3, TurnKeeps
  <2> QED
    BY <2>2, <2>3
<1> QED
  BY <1>2, <1>3, <1>4, <1>5, <1>6

-----------------------------------------------------------------------------
(* Numbers *)

\* A fast path over digits, from a place the cursor has come to.
LEMMA DigitsScanning ==
    ASSUME Scanning, NEW p, AtPlace(text, p), at.pos <= p.pos, NEW l, Kept(text, at, l)
    PROVE  Kept(text, Past(p, Run(p.pos, IsDigit)), l)
<1> DEFINE n == Run(p.pos, IsDigit)
<1>1. text \in Seq(Nat) /\ p.pos \in Nat /\ p.pos <= Len(text) /\ at.pos \in Nat
  BY Ahead DEF AtPlace, Cursor
<1>2. /\ n \in Nat /\ p.pos + n <= Len(text)
      /\ \A k \in p.pos + 1..p.pos + n : IsDigit(text[k])
  BY <1>1, DigitRun
<1> HIDE DEF n
<1>3. \A k \in p.pos + 1..p.pos + n : ~IsLineTerminator(text[k])
  <2> TAKE k \in p.pos + 1..p.pos + n
  <2>1. k \in 1..Len(text)
    BY <1>1, <1>2
  <2>2. text[k] \in Int
    BY <1>1, <2>1
  <2> QED
    BY <1>2, <2>2, SomeAhead
<1>4. AtPlace(text, Past(p, n)) /\ Past(p, n).pos = p.pos + n
  BY <1>1, <1>2, <1>3, PastPlace
<1>5. at.pos <= Past(p, n).pos
  BY <1>1, <1>2, <1>4
<1> QED
  BY <1>4, <1>5, KeptOn DEF n

LEMMA ExactKept ==
    ASSUME NEW s, NEW p, NEW l, Kept(s, p, l), NEW e \in BOOLEAN
    PROVE  Kept(s, p, [l EXCEPT !.exact = e])
<1> DEFINE m == [l EXCEPT !.exact = e]
<1>1. m \in Local /\ m.from = l.from /\ m.saved = l.saved
  BY DEF Kept, Local
<1> QED
  BY <1>1 DEF Kept

\* Digits that have to follow.
LEMMA MoreDigits ==
    ASSUME Scanning, NEW m, NEW p, AtPlace(text, p), at.pos <= p.pos, In(mode), Digits(m, p), m # "hex"
    PROVE  Scanning'
<1>1. CASE p.pos < Len(text) /\ IsDigit(text[p.pos + 1])
  <2> DEFINE l == [local EXCEPT !.exact = FALSE]  q == Past(p, Run(p.pos, IsDigit))
  <2>1. Kept(text, at, l)
    BY ExactKept DEF Scanning
  <2>2. Kept(text, q, l)
    BY <2>1, DigitsScanning
  <2>3. Turn(m, q, l)
    BY <1>1 DEF Digits
  <2> HIDE DEF l, q
  <2> QED
    BY <2>2, <2>3, TurnKeeps
<1>2. CASE ~(p.pos < Len(text) /\ IsDigit(text[p.pos + 1]))
  BY <1>2, ErrKeeps DEF Digits
<1> QED
  BY <1>1, <1>2

LEMMA NumberScanning ==
    ASSUME Scanning, Number \/ Integer \/ Fraction \/ Exponent \/ NumberRead
    PROVE  Scanning'
<1>1. /\ Kept(text, at, local) /\ AtPlace(text, at) /\ at.pos \in Nat /\ at.pos <= at.pos
  BY Ahead DEF Scanning, Kept
<1>2. CASE Number
  <2> DEFINE p == IF IsDigit(Byte(0)) THEN at ELSE Bumped(at)
  <2>1. Byte(0) # Eof
    BY <1>2, Ahead, SomeAhead DEF Number
  <2>2. Kept(text, p, local) /\ at.pos <= p.pos
    BY <1>1, <2>1, BumpedOnce
  <2>3. Turn("integer", p, [Begun EXCEPT !.exact = TRUE]) /\ In(mode)
    BY <1>2 DEF Number, In
  <2> HIDE DEF p
  <2>4. Kept(text, p, [Begun EXCEPT !.exact = TRUE])
    BY <2>2, BegunKept, ExactKept
  <2> QED
    BY <2>3, <2>4, TurnKeeps
<1>3. CASE Integer
  <2>1. In(mode)
    BY <1>3 DEF Integer, In
  <2>2. CASE ~IsDigit(Byte(0))
    BY <1>1, <1>3, <2>2, ErrKeeps DEF Integer
  <2>3. CASE IsDigit(Byte(0)) /\ Byte(0) # 48
    BY <1>1, <1>3, <2>1, <2>3, DigitsScanning, TurnKeeps DEF Integer
  <2>4. CASE IsDigit(Byte(0)) /\ Byte(0) = 48
    <3>1. Byte(0) # Eof
      BY <2>4, Ahead, SomeAhead
    <3>2. AtPlace(text, Bumped(at)) /\ Kept(text, Bumped(at), local)
      BY <3>1, BumpedOnce
    <3>3. CASE IsDigit(Byte(1))
      BY <1>3, <2>4, <3>2, <3>3, ErrKeeps DEF Integer
    <3>4. CASE ~IsDigit(Byte(1))
      BY <1>3, <2>1, <2>4, <3>2, <3>4, TurnKeeps DEF Integer
    <3> QED
      BY <3>3, <3>4
  <2> QED
    BY <2>2, <2>3, <2>4
<1>4. CASE Fraction
  <2>1. In(mode)
    BY <1>4 DEF Fraction, In
  <2>2. CASE Byte(0) = Point
    <3>1. Byte(0) # Eof
      BY <2>2, Ahead, SomeAhead
    <3>2. AtPlace(text, Bumped(at)) /\ at.pos <= Bumped(at).pos
      BY <1>1, <3>1, BumpedOnce
    <3> QED
      BY <1>4, <2>1, <2>2, <3>2, MoreDigits DEF Fraction
  <2>3. CASE Byte(0) # Point
    BY <1>1, <1>4, <2>1, <2>3, TurnKeeps DEF Fraction
  <2> QED
    BY <2>2, <2>3
<1>5. CASE Exponent
  <2>1. In(mode)
    BY <1>5 DEF Exponent, In
  <2>2. CASE Byte(0) \notin {101, 69}
    BY <1>1, <1>5, <2>1, <2>2, TurnKeeps DEF Exponent
  <2>3. CASE Byte(0) \in {101, 69}
    <3> DEFINE p == IF Byte(1) \in {43, 45} THEN Bumped(Bumped(at)) ELSE Bumped(at)
    <3>1. Byte(0) # Eof /\ (Byte(1) \in {43, 45} => Byte(1) # Eof)
      BY <2>3, SMT DEF Eof
    <3>2. AtPlace(text, p) /\ at.pos <= p.pos
      BY <1>1, <3>1, BumpedOnce, BumpedTwice
    <3>3. Digits("number", p)
      BY <1>5, <2>3 DEF Exponent
    <3> HIDE DEF p
    <3> QED
      BY <2>1, <3>2, <3>3, MoreDigits
  <2> QED
    BY <2>2, <2>3
<1>6. CASE NumberRead
  <2>1. In(mode)
    BY <1>6 DEF NumberRead, In
  <2>2. CASE \E t, s : Emit(at, t, s)
    BY <1>1, <2>1, <2>2, EmitKeeps
  <2>3. CASE Err(at)
    BY <1>1, <2>3, ErrKeeps
  <2> QED
    BY <1>6, <2>2, <2>3 DEF NumberRead
<1> QED
  BY <1>2, <1>3, <1>4, <1>5, <1>6

-----------------------------------------------------------------------------
(* Every turn *)

\* A leading BOM is no part of the first line.
LEMMA StartPlace ==
    ASSUME input \in Inputs
    PROVE  AtPlace(text, Start)
<1>1. text \in Seq(Nat) /\ Start.pos \in {0, 1} /\ Start.pos <= Len(text)
  BY TextIs DEF Start
<1>2. Before(text, Start.pos + 1) = {}
  <2>1. ASSUME NEW e \in Ends(text), e < Start.pos + 1
        PROVE  FALSE
    <3>1. e \in Nat /\ e >= 1 /\ IsLineTerminator(text[e])
      BY <1>1 DEF Ends
    <3>2. Start.pos = 1 /\ e = 1
      BY <1>1, <2>1, <3>1
    <3>3. text[1] = Bom
      BY <3>2 DEF Start
    <3> QED
      BY <3>1, <3>2, <3>3 DEF IsLineTerminator, Bom
  <2> QED
    BY <2>1 DEF Before
<1>3. LastEnd(Before(text, Start.pos + 1), text) = Start.pos
  BY <1>2 DEF LastEnd, Start
<1>4. Cardinality(Before(text, Start.pos + 1)) = 0
  BY <1>2, FS_EmptySet
<1>5. Start.pos + 1 \in Nat /\ Start.pos \in Nat
  BY <1>1
<1>6. Place(text, Start.pos + 1).line = 1 /\ Place(text, Start.pos + 1).col = 1
  <2>1. /\ Place(text, Start.pos + 1).line = 1 + Cardinality(Before(text, Start.pos + 1))
        /\ Place(text, Start.pos + 1).col = (Start.pos + 1) - LastEnd(Before(text, Start.pos + 1), text)
    BY <1>3, <1>5, PlaceIs
  <2> DEFINE q == Start.pos
  <2>2. (q + 1) - q = 1
    BY <1>5
  <2> QED
    BY <1>3, <1>4, <1>5, <2>1, <2>2
<1>7. Start = [pos |-> Start.pos, line |-> 1, col |-> 1]
  BY DEF Start
<1> QED
  BY <1>1, <1>5, <1>6, <1>7 DEF AtPlace, Cursor

LEMMA InitScanning == Init => Scanning
<1> SUFFICES ASSUME Init
             PROVE  Scanning
  OBVIOUS
<1>1. input \in Inputs /\ at = Start
  BY DEF Init
<1>2. AtPlace(text, Start) /\ Start \in Cursor /\ Start.pos \in Nat
  BY <1>1, StartPlace DEF AtPlace, Cursor
<1>3. <<>> \in Chars /\ 0 \in Counts /\ 0 \in Units /\ 0 \in Halves
  BY SMT DEF Chars, Counts, Units, Halves
<1>4. local \in Local /\ local.from = Start /\ local.saved = Start
  BY <1>2, <1>3 DEF Init, Local
<1>5. Kept(text, at, local)
  BY <1>1, <1>2, <1>4 DEF Kept
<1>6. mode # "hex" /\ outcome.is # "error"
  BY DEF Init
<1> QED
  BY <1>1, <1>5, <1>6 DEF Scanning, Blamed

LEMMA NextScanning == Scanning /\ [Next]_vars => Scanning'
<1> SUFFICES ASSUME Scanning, [Next]_vars
             PROVE  Scanning'
  OBVIOUS
<1>1. CASE SkipSpace \/ OpenComment \/ LineComment \/ BlockComment
  BY <1>1, BlankScanning
<1>2. CASE End \/ Mark \/ Unexpected
  BY <1>2, MarkScanning
<1>3. CASE Identifier \/ IdentifierPart
  BY <1>3, IdentifierScanning
<1>4. CASE OpenString \/ StringRun \/ StringTurn
  BY <1>4, StringScanning
<1>5. CASE ReadEscape
  BY <1>5, EscapeScanning
<1>6. CASE ReadHex
  BY <1>6, HexScanning
<1>7. CASE HexRead \/ HexDenotes
  BY <1>7, DenotedScanning
<1>8. CASE Number \/ Integer \/ Fraction \/ Exponent \/ NumberRead
  BY <1>8, NumberScanning
<1>9. CASE UNCHANGED vars
  <2>1. text' = text
    BY <1>9 DEF vars, text
  <2> QED
    BY <1>9, <2>1 DEF vars, Scanning, Blamed
<1> QED
  BY <1>1, <1>2, <1>3, <1>4, <1>5, <1>6, <1>7, <1>8, <1>9 DEF Next, Stopped

\* The cursor never leaves the text nor falls behind where the token began, the
\* four digits of an escape are a code unit, and what is put into a string is a
\* character: never half of a surrogate pair, and none beyond the last there is.
THEOREM TypeCorrect == Spec => []TypeOK
<1>1. Scanning => TypeOK
  <2> SUFFICES ASSUME Scanning
               PROVE  TypeOK
    OBVIOUS
  <2>1. at.pos \in Nat /\ at.pos <= Len(text) /\ Len(text) \in Nat
    BY Ahead
  <2>2. at \in Cursor /\ local \in Local /\ local.from.pos <= at.pos /\ local.saved.pos <= at.pos
    BY DEF Scanning, Kept, AtPlace
  <2>3. at.line \in Nat \ {0} /\ at.col \in Nat \ {0}
    BY <2>2 DEF Cursor
  <2>4. /\ local.digits \in 0..4 /\ local.value \in Nat /\ local.value < 65536
        /\ local.high \in High \cup {0}
        /\ \A i \in DOMAIN local.scratch : IsChar(local.scratch[i])
    BY <2>2 DEF Local, Counts, Units, Halves, Chars
  <2> QED
    BY <2>1, <2>2, <2>3, <2>4 DEF TypeOK
<1> QED
  BY <1>1, InitScanning, NextScanning, PTL DEF Spec

\* The line and the column kept are those of the character at the cursor: over
\* every text, through every fast path and after every roll back.
THEOREM PositionsCount == Spec => []PositionCounts
<1>1. Scanning => PositionCounts
  BY DEF Scanning, Kept, AtPlace, PositionCounts, Index
<1> QED
  BY <1>1, InitScanning, NextScanning, PTL DEF Spec

\* An error is blamed on a place of the text, its end among them.
THEOREM ErrorsArePlaces == Spec => []Blamed
<1>1. Scanning => Blamed
  BY DEF Scanning
<1> QED
  BY <1>1, InitScanning, NextScanning, PTL DEF Spec

-----------------------------------------------------------------------------
(* Spellings *)

\* The prefixes FlattenSeq puts a sequence of sequences together from.
LEMMA PrefixesExist ==
    ASSUME NEW q
    PROVE  \A n \in Nat : \E f : f = [i \in 1..n |-> IF i = 1 THEN q[i] ELSE f[i - 1] \o q[i]]
<1> DEFINE Fits(n, f) == f = [i \in 1..n |-> IF i = 1 THEN q[i] ELSE f[i - 1] \o q[i]]
           S == {n \in Nat : \E f : Fits(n, f)}
<1>1. 0 \in S
  <2>1. Fits(0, <<>>)
    OBVIOUS
  <2> QED
    BY <2>1
<1>2. ASSUME NEW n \in Nat, n \in S
      PROVE  n + 1 \in S
  <2>1. PICK f : Fits(n, f)
    BY <1>2
  <2> DEFINE g == [i \in 1..n + 1 |-> IF i = 1 THEN q[i] ELSE IF i <= n THEN f[i] ELSE f[n] \o q[i]]
  <2>2. ASSUME NEW i \in 1..n + 1
        PROVE  g[i] = IF i = 1 THEN q[i] ELSE g[i - 1] \o q[i]
    <3>1. CASE i = 1
      BY <3>1
    <3>2. CASE i # 1 /\ i <= n
      <4>1. i \in 1..n /\ i - 1 \in 1..n /\ i - 1 \in 1..n + 1
        BY <3>2
      <4>2. f[i] = f[i - 1] \o q[i]
        BY <2>1, <3>2, <4>1
      <4>3. g[i - 1] = f[i - 1]
        <5>1. i - 1 = 1 => f[1] = q[1]
          BY <2>1, <4>1
        <5> QED
          BY <4>1, <5>1
      <4> QED
        BY <3>2, <4>1, <4>2, <4>3
    <3>3. CASE i # 1 /\ ~(i <= n)
      <4>1. i = n + 1 /\ n \in 1..n /\ i - 1 = n /\ n \in 1..n + 1
        BY <3>3
      <4>2. g[n] = f[n]
        <5>1. CASE n = 1
          <6>1. f[1] = q[1]
            BY <2>1, <5>1
          <6> QED
            BY <5>1, <6>1
        <5>2. CASE n # 1
          BY <4>1, <5>2
        <5> QED
          BY <5>1, <5>2
      <4> QED
        BY <3>3, <4>1, <4>2
    <3> QED
      BY <3>1, <3>2, <3>3
  <2>3. Fits(n + 1, g)
    <3> DEFINE h == [i \in 1..n + 1 |-> IF i = 1 THEN q[i] ELSE g[i - 1] \o q[i]]
    <3>1. \A i \in 1..n + 1 : g[i] = h[i]
      <4> HIDE DEF g
      <4> QED
        BY <2>2
    <3>2. DOMAIN g = 1..n + 1 /\ g = [i \in DOMAIN g |-> g[i]]
      OBVIOUS
    <3> HIDE DEF g
    <3> QED
      BY <3>1, <3>2
  <2> HIDE DEF Fits, g
  <2> QED
    BY <2>3
<1> HIDE DEF S
<1>3. \A n \in Nat : n \in S
  BY <1>1, <1>2, Induct
<1> QED
  BY <1>3 DEF S

\* FlattenSeq puts the sequences one after the other.
LEMMA FlattenIs ==
    ASSUME NEW q \in Seq(Seq(Nat))
    PROVE  \E off \in [0..Len(q) -> Nat] :
              /\ off[0] = 0 /\ FlattenSeq(q) \in Seq(Nat) /\ Len(FlattenSeq(q)) = off[Len(q)]
              /\ \A k \in 1..Len(q) :
                    /\ off[k] = off[k - 1] + Len(q[k]) /\ off[k] <= off[Len(q)]
                    /\ \A j \in 1..Len(q[k]) : FlattenSeq(q)[off[k - 1] + j] = q[k][j]
<1>1. CASE Len(q) = 0
  <2>1. FlattenSeq(q) = <<>>
    BY <1>1 DEF FlattenSeq
  <2> DEFINE o == [i \in 0..Len(q) |-> 0]
  <2>2. o \in [0..Len(q) -> Nat] /\ o[0] = 0 /\ o[Len(q)] = 0
    BY <1>1
  <2>3. \A k \in 1..Len(q) : FALSE
    BY <1>1
  <2>4. FlattenSeq(q) \in Seq(Nat) /\ Len(FlattenSeq(q)) = 0
    BY <2>1
  <2> HIDE DEF o
  <2> QED
    BY <2>2, <2>3, <2>4
<1>2. CASE Len(q) # 0
  <2> DEFINE n == Len(q)
             f == CHOOSE f : f = [i \in 1..n |-> IF i = 1 THEN q[i] ELSE f[i - 1] \o q[i]]
             off == [i \in 0..n |-> IF i = 0 THEN 0 ELSE Len(f[i])]
  <2>1. n \in Nat \ {0} /\ \A k \in 1..n : q[k] \in Seq(Nat)
    BY <1>2
  <2>2. FlattenSeq(q) = f[n]
    BY <1>2 DEF FlattenSeq
  <2>3. f = [i \in 1..n |-> IF i = 1 THEN q[i] ELSE f[i - 1] \o q[i]]
    BY <2>1, PrefixesExist
  <2> HIDE DEF n, f
  <2>4. f[1] = q[1] /\ \A i \in 1..n : i # 1 => f[i] = f[i - 1] \o q[i]
    <3>1. 1 \in 1..n
      BY <2>1
    <3>2. ASSUME NEW i \in 1..n
          PROVE  f[i] = IF i = 1 THEN q[i] ELSE f[i - 1] \o q[i]
      BY <2>3
    <3> QED
      BY <3>1, <3>2
  <2> DEFINE Laid(m) ==
                /\ m \in 1..n => f[m] \in Seq(Nat)
                /\ m \in 1..n => \A k \in 1..m :
                      /\ off[k] = off[k - 1] + Len(q[k]) /\ off[k] \in Nat /\ off[k - 1] \in Nat
                      /\ off[k] <= off[m]
                      /\ \A j \in 1..Len(q[k]) : f[m][off[k - 1] + j] = q[k][j]
             S == {m \in Nat : Laid(m)}
  <2>5. off[0] = 0 /\ \A i \in 1..n : off[i] = Len(f[i])
    BY <2>1
  <2> HIDE DEF off
  <2>6. 0 \in S
    OBVIOUS
  <2>7. ASSUME NEW m \in Nat, m \in S
        PROVE  m + 1 \in S
    <3> SUFFICES Laid(m + 1)
      <4> HIDE DEF Laid
      <4> QED
        OBVIOUS
    <3>0. CASE m + 1 \notin 1..n
      BY <3>0
    <3>1. CASE m + 1 \in 1..n /\ m = 0
      <4>1. f[1] \in Seq(Nat) /\ off[1] = Len(q[1]) /\ off[0] = 0 /\ Len(q[1]) \in Nat
        BY <2>1, <2>4, <2>5
      <4>2. \A k \in 1..1 : k = 1 /\ k - 1 = 0
        OBVIOUS
      <4>3. \A j \in 1..Len(q[1]) : f[1][0 + j] = q[1][j]
        BY <2>4, <4>1
      <4> QED
        BY <3>1, <4>1, <4>2, <4>3
    <3>2. CASE m + 1 \in 1..n /\ m # 0
      <4>1. m \in 1..n /\ m + 1 \in 1..n /\ m + 1 # 1 /\ (m + 1) - 1 = m
        BY <2>1, <3>2
      <4>2. f[m] \in Seq(Nat) /\ q[m + 1] \in Seq(Nat) /\ f[m + 1] = f[m] \o q[m + 1]
        BY <2>1, <2>4, <2>7, <4>1
      <4>3. /\ f[m + 1] \in Seq(Nat) /\ Len(f[m + 1]) = Len(f[m]) + Len(q[m + 1])
            /\ \A i \in 1..Len(f[m]) + Len(q[m + 1]) :
                  f[m + 1][i] = IF i <= Len(f[m]) THEN f[m][i] ELSE q[m + 1][i - Len(f[m])]
        <5> DEFINE a == f[m]  b == q[m + 1]
        <5>1. a \in Seq(Nat) /\ b \in Seq(Nat) /\ f[m + 1] = a \o b
          BY <4>2
        <5> HIDE DEF a, b
        <5>2. /\ a \o b \in Seq(Nat) /\ Len(a \o b) = Len(a) + Len(b)
              /\ \A i \in 1..Len(a) + Len(b) :
                    (a \o b)[i] = IF i <= Len(a) THEN a[i] ELSE b[i - Len(a)]
          BY <5>1, ConcatProperties
        <5> QED
          BY <5>1, <5>2 DEF a, b
      <4>4. /\ off[m] = Len(f[m]) /\ off[m] \in Nat /\ Len(q[m + 1]) \in Nat
            /\ off[m + 1] = off[m] + Len(q[m + 1]) /\ off[m + 1] \in Nat
        <5>1. off[m] = Len(f[m]) /\ off[m + 1] = Len(f[m + 1])
          BY <2>5, <4>1
        <5>2. Len(f[m]) \in Nat /\ Len(q[m + 1]) \in Nat
          BY <4>2
        <5>3. Len(f[m + 1]) = Len(f[m]) + Len(q[m + 1])
          BY <4>3
        <5> DEFINE a == Len(f[m])  b == Len(q[m + 1])
        <5>4. a \in Nat /\ b \in Nat /\ off[m] = a /\ off[m + 1] = a + b
          BY <5>1, <5>2, <5>3
        <5> HIDE DEF a, b
        <5>5. off[m] \in Nat /\ off[m + 1] = off[m] + b /\ off[m + 1] \in Nat
          BY <5>4
        <5> QED
          BY <5>2, <5>4, <5>5 DEF a, b
      <4>5. ASSUME NEW k \in 1..m
            PROVE  /\ off[k] = off[k - 1] + Len(q[k]) /\ off[k] \in Nat /\ off[k - 1] \in Nat
                   /\ off[k] <= off[m + 1]
                   /\ \A j \in 1..Len(q[k]) : f[m + 1][off[k - 1] + j] = q[k][j]
        <5>1. /\ off[k] = off[k - 1] + Len(q[k]) /\ off[k] \in Nat /\ off[k - 1] \in Nat
              /\ off[k] <= off[m]
              /\ \A j \in 1..Len(q[k]) : f[m][off[k - 1] + j] = q[k][j]
          BY <2>7, <4>1
        <5>2. Len(q[k]) \in Nat
          BY <2>1, <4>1
        <5>3. ASSUME NEW j \in 1..Len(q[k])
              PROVE  f[m + 1][off[k - 1] + j] = q[k][j]
          <6> DEFINE a == off[k - 1]  b == Len(q[k])  c == off[m]  d == Len(q[m + 1])
          <6>0. a \in Nat /\ b \in Nat /\ c \in Nat /\ d \in Nat /\ j \in 1..b /\ a + b <= c
            BY <4>4, <5>1, <5>2
          <6> HIDE DEF a, b, c, d
          <6>2. a + j \in 1..c + d /\ a + j <= c
            BY <6>0
          <6>1. off[k - 1] + j \in 1..Len(f[m]) + Len(q[m + 1]) /\ off[k - 1] + j <= Len(f[m])
            BY <4>4, <6>2 DEF a, c, d
          <6> QED
            BY <4>3, <5>1, <6>1
        <5>4. off[k] <= off[m + 1]
          <6> DEFINE a == off[k]  b == off[m]  c == Len(q[m + 1])
          <6>1. a \in Nat /\ b \in Nat /\ c \in Nat /\ a <= b
            BY <4>4, <5>1
          <6> HIDE DEF a, b, c
          <6>2. a <= b + c
            BY <6>1
          <6> QED
            BY <4>4, <6>2 DEF a, b, c
        <5> QED
          BY <5>1, <5>3, <5>4
      <4>6. \A j \in 1..Len(q[m + 1]) : f[m + 1][off[m] + j] = q[m + 1][j]
        <5> TAKE j \in 1..Len(q[m + 1])
        <5> DEFINE a == off[m]  b == Len(q[m + 1])
        <5>0. a \in Nat /\ b \in Nat /\ j \in 1..b
          BY <4>4
        <5> HIDE DEF a, b
        <5>2. a + j \in 1..a + b /\ ~(a + j <= a) /\ (a + j) - a = j
          BY <5>0
        <5>1. off[m] + j \in 1..Len(f[m]) + Len(q[m + 1]) /\ ~(off[m] + j <= Len(f[m]))
              /\ (off[m] + j) - Len(f[m]) = j
          BY <4>4, <5>2 DEF a, b
        <5> QED
          BY <4>3, <5>1
      <4>7. ASSUME NEW k \in 1..m + 1
            PROVE  /\ off[k] = off[k - 1] + Len(q[k]) /\ off[k] \in Nat /\ off[k - 1] \in Nat
                   /\ off[k] <= off[m + 1]
                   /\ \A j \in 1..Len(q[k]) : f[m + 1][off[k - 1] + j] = q[k][j]
        <5>1. CASE k \in 1..m
          BY <4>5, <5>1
        <5>2. CASE k = m + 1
          <6>1. off[m + 1] = off[m] + Len(q[m + 1]) /\ off[m + 1] \in Nat /\ off[m] \in Nat
            BY <4>4
          <6>2. \A x \in Nat : x <= x
            OBVIOUS
          <6>3. k - 1 = m
            BY <4>1, <5>2
          <6> QED
            BY <4>6, <5>2, <6>1, <6>2, <6>3
        <5> QED
          BY <4>1, <5>1, <5>2
      <4> QED
        BY <4>3, <4>7
    <3> QED
      BY <3>0, <3>1, <3>2
  <2>8. n \in S
    <3> HIDE DEF S
    <3> QED
      BY <2>1, <2>6, <2>7, Induct
  <2>9. /\ f[n] \in Seq(Nat) /\ off[n] = Len(f[n])
        /\ \A k \in 1..n : /\ off[k] = off[k - 1] + Len(q[k]) /\ off[k] \in Nat /\ off[k] <= off[n]
                           /\ \A j \in 1..Len(q[k]) : f[n][off[k - 1] + j] = q[k][j]
    <3>1. Laid(n) /\ n \in 1..n
      BY <2>1, <2>8
    <3>2. off[n] = Len(f[n])
      BY <2>5, <3>1
    <3> QED
      BY <3>1, <3>2
  <2>10. off \in [0..n -> Nat]
    <3>1. \A i \in 0..n : i = 0 \/ i \in 1..n
      BY <2>1
    <3>2. off = [i \in 0..n |-> off[i]]
      BY DEF off
    <3> QED
      <4>1. \A i \in 0..n : off[i] \in Nat
        BY <2>5, <2>9, <3>1
      <4> HIDE DEF off
      <4> QED
        BY <3>2, <4>1
  <2> QED
    BY <2>2, <2>5, <2>9, <2>10 DEF n
<1> QED
  BY <1>1, <1>2

\* The letter that stands for a character after a backslash, if there is one.
IsShort(c) == c \in {8, 9, 10, 12, 13, Quote, Backslash}
IsControl(c) == c < 32 /\ ~IsShort(c)

\* How a character is spelled: for itself, with a letter, or with four digits.
LEMMA EscapeIs ==
    ASSUME NEW c \in Nat
    PROVE  /\ ~IsShort(c) /\ ~IsControl(c) => Escape(c) = <<c>>
           /\ IsShort(c) => \E x \in Nat : Escape(c) = <<Backslash, x>> /\ <<x, c>> \in Short
           /\ IsControl(c) => Escape(c) = <<Backslash, 117, 48, 48, HexDigitOf(c \div 16), HexDigitOf(c % 16)>>
<1>1. ASSUME IsShort(c)
      PROVE  \E x \in Nat : Escape(c) = <<Backslash, x>> /\ <<x, c>> \in Short
  <2>1. CASE c = Quote
    BY <2>1 DEF Escape, Quote, Backslash, Short
  <2>2. CASE c = Backslash
    BY <2>2 DEF Escape, Quote, Backslash, Short
  <2>3. CASE c = 10
    BY <2>3 DEF Escape, Quote, Backslash, Short
  <2>4. CASE c = 13
    BY <2>4 DEF Escape, Quote, Backslash, Short
  <2>5. CASE c = 9
    BY <2>5 DEF Escape, Quote, Backslash, Short
  <2>6. CASE c = 8
    BY <2>6 DEF Escape, Quote, Backslash, Short
  <2>7. CASE c = 12
    BY <2>7 DEF Escape, Quote, Backslash, Short
  <2> QED
    BY <1>1, <2>1, <2>2, <2>3, <2>4, <2>5, <2>6, <2>7 DEF IsShort
<1>2. ASSUME IsControl(c)
      PROVE  Escape(c) = <<Backslash, 117, 48, 48, HexDigitOf(c \div 16), HexDigitOf(c % 16)>>
  BY <1>2 DEF IsControl, IsShort, Escape, Quote, Backslash
<1>3. ASSUME ~IsShort(c), ~IsControl(c)
      PROVE  Escape(c) = <<c>>
  BY <1>3 DEF IsControl, IsShort, Escape, Quote, Backslash
<1> QED
  BY <1>1, <1>2, <1>3

\* What the spelling of a character begins with says which it is.
LEMMA EscapeHead ==
    ASSUME NEW c \in Nat
    PROVE  /\ Escape(c) \in Seq(Nat) /\ Len(Escape(c)) \in {1, 2, 6}
           /\ Len(Escape(c)) = 1 => Escape(c)[1] = c /\ c # Quote /\ c # Backslash /\ ~(c < 32)
           /\ Len(Escape(c)) # 1 => Escape(c)[1] = Backslash
           /\ Len(Escape(c)) = 2 => <<Escape(c)[2], c>> \in Short
           /\ Len(Escape(c)) = 6 => /\ IsControl(c) /\ Escape(c)[2] = 117
                                    /\ Escape(c)[3] = 48 /\ Escape(c)[4] = 48
                                    /\ Escape(c)[5] = HexDigitOf(c \div 16)
                                    /\ Escape(c)[6] = HexDigitOf(c % 16)
<1>1. CASE ~IsShort(c) /\ ~IsControl(c)
  <2>1. Escape(c) = <<c>>
    BY <1>1, EscapeIs
  <2>2. c # Quote /\ c # Backslash /\ ~(c < 32)
    BY <1>1 DEF IsShort, IsControl
  <2> QED
    BY <2>1, <2>2
<1>2. CASE IsShort(c)
  <2>1. PICK x \in Nat : Escape(c) = <<Backslash, x>> /\ <<x, c>> \in Short
    BY <1>2, EscapeIs
  <2>2. Backslash \in Nat
    BY DEF Backslash
  <2> QED
    BY <2>1, <2>2
<1>3. CASE IsControl(c)
  <2>1. Escape(c) = <<Backslash, 117, 48, 48, HexDigitOf(c \div 16), HexDigitOf(c % 16)>>
    BY <1>3, EscapeIs
  <2>2. HexDigitOf(c \div 16) \in Nat /\ HexDigitOf(c % 16) \in Nat /\ Backslash \in Nat
    BY SMT DEF HexDigitOf, Backslash
  <2> QED
    BY <1>3, <2>1, <2>2
<1> QED
  BY <1>1, <1>2, <1>3

\* Where in the spelling of a string the spelling of each character begins: `off`
\* counts the characters of the spelling, its first quote left out.
Layout(s, off) ==
    /\ off \in [0..Len(s) -> Nat] /\ off[0] = 0
    /\ EscapeString(s) \in Seq(Nat) /\ Len(EscapeString(s)) = off[Len(s)] + 2
    /\ EscapeString(s)[off[Len(s)] + 2] = Quote
    /\ \A k \in 1..Len(s) :
          /\ off[k] = off[k - 1] + Len(Escape(s[k])) /\ off[k] <= off[Len(s)]
          /\ \A j \in 1..Len(Escape(s[k])) : EscapeString(s)[1 + (off[k - 1] + j)] = Escape(s[k])[j]

LEMMA LayoutExists ==
    ASSUME NEW s \in Chars
    PROVE  \E off : Layout(s, off)
<1> DEFINE q == [i \in DOMAIN s |-> Escape(s[i])]
           flat == FlattenSeq(q)
           E == EscapeString(s)
<1>1. s \in Seq(Nat) /\ Len(s) \in Nat /\ DOMAIN s = 1..Len(s) /\ \A i \in 1..Len(s) : s[i] \in Nat
  BY DEF Chars
<1>2. q \in Seq(Seq(Nat)) /\ Len(q) = Len(s) /\ \A i \in 1..Len(s) : q[i] = Escape(s[i])
  <2>1. \A i \in 1..Len(s) : Escape(s[i]) \in Seq(Nat)
    BY <1>1, EscapeHead
  <2> QED
    BY <1>1, <2>1
<1>3. E = <<Quote>> \o flat \o <<Quote>>
  BY DEF EscapeString
<1> HIDE DEF q, flat, E
<1>4. PICK off \in [0..Len(q) -> Nat] :
        /\ off[0] = 0 /\ flat \in Seq(Nat) /\ Len(flat) = off[Len(q)]
        /\ \A k \in 1..Len(q) : /\ off[k] = off[k - 1] + Len(q[k]) /\ off[k] <= off[Len(q)]
                                /\ \A j \in 1..Len(q[k]) : flat[off[k - 1] + j] = q[k][j]
  BY <1>2, FlattenIs DEF flat
<1>5. Quote \in Nat /\ <<Quote>> \in Seq(Nat) /\ Len(<<Quote>>) = 1 /\ <<Quote>>[1] = Quote
  BY DEF Quote
<1> DEFINE n == Len(flat)
           H == <<Quote>> \o flat
<1>6. n \in Nat
  BY <1>4
<1>7. /\ H \in Seq(Nat) /\ Len(H) = 1 + n
      /\ \A i \in 1..1 + n : H[i] = IF i <= 1 THEN <<Quote>>[i] ELSE flat[i - 1]
  BY <1>4, <1>5, ConcatProperties
<1> HIDE DEF H
<1>8. /\ E \in Seq(Nat) /\ Len(E) = (1 + n) + 1
      /\ \A i \in 1..(1 + n) + 1 : E[i] = IF i <= 1 + n THEN H[i] ELSE <<Quote>>[i - (1 + n)]
  <2>1. E = H \o <<Quote>>
    BY <1>3 DEF H
  <2> DEFINE T == <<Quote>>
  <2>2. T \in Seq(Nat) /\ Len(T) = 1 /\ H \in Seq(Nat)
    BY <1>5, <1>7
  <2> HIDE DEF T
  <2>3. /\ H \o T \in Seq(Nat) /\ Len(H \o T) = Len(H) + Len(T)
        /\ \A i \in 1..Len(H) + Len(T) : (H \o T)[i] = IF i <= Len(H) THEN H[i] ELSE T[i - Len(H)]
    BY <2>2, ConcatProperties
  <2> QED
    BY <1>7, <2>1, <2>2, <2>3 DEF T
<1> HIDE DEF n
<1>9. E[n + 2] = Quote
  <2>1. n + 2 \in 1..(1 + n) + 1 /\ ~(n + 2 <= 1 + n) /\ (n + 2) - (1 + n) = 1
    BY <1>6
  <2> QED
    BY <1>5, <1>8, <2>1
<1>10. \A i \in 1..n : E[1 + i] = flat[i]
  <2> TAKE i \in 1..n
  <2>1. 1 + i \in 1..(1 + n) + 1 /\ 1 + i <= 1 + n /\ 1 + i \in 1..1 + n /\ ~(1 + i <= 1) /\ (1 + i) - 1 = i
    BY <1>6
  <2> QED
    BY <1>7, <1>8, <2>1
<1>11. n = off[Len(s)] /\ off \in [0..Len(s) -> Nat] /\ Len(E) = off[Len(s)] + 2
  BY <1>2, <1>4, <1>6, <1>8 DEF n
<1>12. ASSUME NEW k \in 1..Len(s)
       PROVE  /\ off[k] = off[k - 1] + Len(Escape(s[k])) /\ off[k] <= off[Len(s)]
              /\ \A j \in 1..Len(Escape(s[k])) : E[1 + (off[k - 1] + j)] = Escape(s[k])[j]
  <2>1. /\ off[k] = off[k - 1] + Len(q[k]) /\ off[k] <= off[Len(s)] /\ q[k] = Escape(s[k])
        /\ \A j \in 1..Len(q[k]) : flat[off[k - 1] + j] = q[k][j]
    BY <1>2, <1>4
  <2>2. ASSUME NEW j \in 1..Len(q[k])
        PROVE  off[k - 1] + j \in 1..n
    <3> DEFINE a == off[k - 1]  b == Len(q[k])
    <3>1. a \in Nat /\ b \in Nat /\ a + b <= n
      <4>1. k - 1 \in 0..Len(s) /\ q[k] \in Seq(Nat)
        BY <1>1, <1>2
      <4> QED
        BY <1>11, <2>1, <4>1
    <3> HIDE DEF a, b
    <3>2. \A i \in 1..b : a + i \in 1..n
      BY <1>6, <3>1
    <3> QED
      BY <3>2 DEF a, b
  <2> QED
    BY <1>10, <2>1, <2>2
<1>13. Layout(s, off)
  BY <1>4, <1>8, <1>9, <1>11, <1>12 DEF Layout, E
<1> QED
  BY <1>13

-----------------------------------------------------------------------------
(* Strings, read back *)

\* How much of a string has been read is what the buffer holds of it.
Prefix(s, x) == x \in Chars /\ Len(x) <= Len(s) /\ \A k \in 1..Len(x) : x[k] = s[k]

\* Where the scanner is in the spelling: before a character's, after the backslash
\* of it, among its four digits or after them.
Through(s, off, m, q, l) ==
    LET i == Len(l.scratch)
        p == l.from.pos + 1 + off[i]
        w == Len(Escape(s[i + 1]))
    IN  \/ m = "string" /\ q.pos = p
        \/ i < Len(s) /\ w # 1 /\ m = "escape" /\ q.pos = p + 1
        \/ /\ i < Len(s) /\ w = 6 /\ m = "hex" /\ l.high = 0
           /\ q.pos = p + 2 + l.digits
           /\ l.digits <= 2 => l.value = 0
           /\ l.digits = 3 => l.value = s[i + 1] \div 16
           /\ l.digits = 4 => l.value = s[i + 1]
        \/ i < Len(s) /\ w = 6 /\ m = "unpaired" /\ q.pos = p + 6 /\ l.value = s[i + 1]

Progress(s) ==
    \E off : Layout(s, off) /\ Prefix(s, local.scratch) /\ Through(s, off, mode, at, local)

\* The token goes on, or is what was spelled.
Reads(s) ==
    \/ Progress(s)' /\ UNCHANGED <<tokens, outcome>>
    \/ /\ tokens' = Append(tokens, [t |-> "str", s |-> s])
       /\ at'.pos = local.from.pos + Len(EscapeString(s))
       /\ mode' = "between" /\ outcome' = outcome

LEMMA TurnReads ==
    ASSUME NEW s, NEW off, Layout(s, off), NEW m, NEW q, NEW l, Turn(m, q, l),
           Prefix(s, l.scratch), Through(s, off, m, q, l)
    PROVE  Reads(s)
<1>1. Prefix(s, local.scratch)' /\ Through(s, off, mode, at, local)'
  BY DEF Turn, Prefix, Through
<1>2. Progress(s)'
  BY <1>1 DEF Progress
<1> QED
  BY <1>2 DEF Turn, Reads

\* What follows in the text where the spelling of a character begins, or where the
\* last of them has ended.
Follows(s, off, i, p) ==
    /\ p \in Nat /\ off[i] \in Nat
    /\ i = Len(s) => /\ p + 1 <= Len(text) /\ text[p + 1] = Quote
                     /\ p + 1 = local.from.pos + Len(EscapeString(s))
    /\ i < Len(s) => /\ off[i + 1] = off[i] + Len(Escape(s[i + 1]))
                     /\ \A j \in 1..Len(Escape(s[i + 1])) :
                           p + j <= Len(text) /\ text[p + j] = Escape(s[i + 1])[j]

LEMMA Spelled ==
    ASSUME Scanning, NEW s \in Chars, NEW off, Layout(s, off), Reading(EscapeString(s)),
           NEW i \in 0..Len(s), NEW p, p = local.from.pos + 1 + off[i]
    PROVE  Follows(s, off, i, p)
<1> DEFINE f == local.from.pos
           E == EscapeString(s)
           m == Len(E)
           a == off[i]
           b == off[Len(s)]
<1>1. f \in Nat /\ text \in Seq(Nat) /\ Len(text) \in Nat
  BY Ahead DEF Scanning, Kept, AtPlace, Cursor
<1>2. Len(s) \in Nat /\ a \in Nat /\ b \in Nat /\ E \in Seq(Nat) /\ m = b + 2 /\ E[b + 2] = Quote
  <2>1. s \in Seq(Nat) /\ off \in [0..Len(s) -> Nat] /\ E \in Seq(Nat) /\ m = off[Len(s)] + 2
        /\ E[off[Len(s)] + 2] = Quote
    BY DEF Layout, Chars
  <2> HIDE DEF E, m
  <2>2. Len(s) \in Nat /\ Len(s) \in 0..Len(s)
    BY <2>1
  <2> QED
    BY <2>1, <2>2
<1>3. f + m <= Len(text) /\ \A x \in 1..m : text[f + x] = E[x]
  <2>1. f + m <= Len(text) /\ SubSeq(text, f + 1, f + m) = E
    BY DEF Reading
  <2> HIDE DEF f, E
  <2>2. m \in Nat
    BY <1>2
  <2> HIDE DEF m
  <2>3. \A x \in 1..m : SubSeq(text, f + 1, f + m)[x] = text[f + x]
    <3>1. (f + m) - (f + 1) + 1 = m /\ \A x \in 1..m : x + (f + 1) - 1 = f + x
      BY <1>1, <2>2
    <3>2. SubSeq(text, f + 1, f + m) = [x \in 1..m |-> text[f + x]]
      BY <1>1, <2>2
    <3> QED
      BY <3>2
  <2> QED
    BY <2>1, <2>3
<1> HIDE DEF f, E, m
<1>4. p \in Nat /\ p = f + (1 + a)
  <2>1. p = f + 1 + a
    BY DEF f
  <2> HIDE DEF a, b
  <2> QED
    BY <1>1, <1>2, <2>1
<1>5. ASSUME i = Len(s)
      PROVE  p + 1 <= Len(text) /\ text[p + 1] = Quote /\ p + 1 = f + m
  <2>1. a = b
    BY <1>5
  <2> HIDE DEF a, b
  <2>2. b \in Nat /\ a = b /\ m = b + 2 /\ p = f + (1 + a) /\ f \in Nat
    BY <1>1, <1>2, <1>4, <2>1
  <2>3. p + 1 = f + m /\ m \in 1..m
    BY <2>2
  <2> QED
    BY <1>2, <1>3, <2>3
<1>6. ASSUME i < Len(s)
      PROVE  /\ off[i + 1] = off[i] + Len(Escape(s[i + 1]))
             /\ \A j \in 1..Len(Escape(s[i + 1])) :
                   p + j <= Len(text) /\ text[p + j] = Escape(s[i + 1])[j]
  <2>1. i + 1 \in 1..Len(s) /\ (i + 1) - 1 = i
    BY <1>2, <1>6
  <2>2. /\ off[i + 1] = off[i] + Len(Escape(s[i + 1])) /\ off[i + 1] <= off[Len(s)]
        /\ \A j \in 1..Len(Escape(s[i + 1])) : E[1 + (off[i] + j)] = Escape(s[i + 1])[j]
    BY <2>1 DEF Layout, E
  <2>3. Len(Escape(s[i + 1])) \in Nat
    BY <2>1, EscapeHead DEF Chars
  <2> DEFINE w == Len(Escape(s[i + 1]))
  <2>4. w \in Nat /\ a + w <= b
    BY <2>2, <2>3
  <2> HIDE DEF w, a, b
  <2>5. \A j \in 1..w : 1 + (a + j) \in 1..m /\ p + j = f + (1 + (a + j)) /\ p + j <= f + m
    <3>1. w \in Nat /\ a \in Nat /\ b \in Nat /\ f \in Nat /\ m = b + 2 /\ p = f + (1 + a) /\ a + w <= b
      BY <1>1, <1>2, <1>4, <2>4
    <3> HIDE <1>2, <1>3, <1>4, <1>5
    <3> QED
      BY <3>1
  <2>6. \A j \in 1..w : p + j <= Len(text) /\ text[p + j] = E[1 + (a + j)]
    <3> TAKE j \in 1..w
    <3> DEFINE x == 1 + (a + j)
    <3>1. x \in 1..m /\ p + j = f + x /\ p + j <= f + m /\ p + j \in Nat
      BY <2>5, <1>4
    <3> HIDE DEF x
    <3>2. text[f + x] = E[x]
      BY <1>3, <3>1
    <3>3. p + j <= Len(text)
      <4> DEFINE l == Len(text)
      <4>1. l \in Nat /\ f + m <= l /\ f + m \in Nat
        BY <1>1, <1>2, <1>3
      <4> HIDE DEF l
      <4>2. p + j <= l
        BY <3>1, <4>1
      <4> QED
        BY <4>2 DEF l
    <3> QED
      BY <3>1, <3>2, <3>3 DEF x
  <2> QED
    BY <2>2, <2>6 DEF a, w
<1> QED
  BY <1>2, <1>4, <1>5, <1>6 DEF f, E, m, Follows

LEMMA Here ==
    ASSUME Scanning, at.pos + 1 <= Len(text)
    PROVE  Byte(0) = text[at.pos + 1] /\ Byte(0) \in Nat
<1>1. text \in Seq(Nat) /\ at.pos \in Nat
  BY Ahead
<1>2. at.pos + 0 = at.pos /\ at.pos < Len(text) /\ at.pos + 1 \in 1..Len(text)
  BY <1>1
<1> HIDE DEF text
<1> QED
  BY <1>1, <1>2 DEF Byte

\* A fast path over the plain characters of a spelling stays within the string.
LEMMA RunSpelled ==
    ASSUME Scanning, NEW s \in Chars, NEW off, Layout(s, off), Reading(EscapeString(s)),
           NEW i \in 0..Len(s), at.pos = local.from.pos + 1 + off[i]
    PROVE  LET n == Run(at.pos, PlainAscii)
           IN  /\ i + n <= Len(s) /\ n \in Nat
               /\ at.pos + n = local.from.pos + 1 + off[i + n]
               /\ \A k \in 1..n : text[at.pos + k] = s[i + k]
<1> DEFINE n == Run(at.pos, PlainAscii)
           f == local.from.pos
<1>1. text \in Seq(Nat) /\ at.pos \in Nat /\ at.pos <= Len(text) /\ f \in Nat
  BY Ahead DEF Scanning, Kept, AtPlace, Cursor
<1>2. n \in Nat /\ \A k \in at.pos + 1..at.pos + n : PlainAscii(text[k])
  BY <1>1, PlainRun
<1>3. s \in Seq(Nat) /\ Len(s) \in Nat /\ i \in Nat /\ i <= Len(s) /\ \A k \in 0..Len(s) : off[k] \in Nat
  <2>1. s \in Seq(Nat) /\ off \in [0..Len(s) -> Nat]
    BY DEF Chars, Layout
  <2>2. Len(s) \in Nat /\ \A k \in 0..Len(s) : off[k] \in Nat
    BY <2>1
  <2> QED
    BY <2>1, <2>2
<1> HIDE DEF n, f
<1> DEFINE Plainly(k) ==
                k <= n => /\ i + k <= Len(s) /\ at.pos + k = f + 1 + off[i + k]
                          /\ \A j \in 1..k : text[at.pos + j] = s[i + j]
           S == {k \in Nat : Plainly(k)}
<1>4. 0 \in S
  <2>1. at.pos + 0 = at.pos /\ i + 0 = i /\ at.pos = f + 1 + off[i]
    BY <1>1, <1>3 DEF f
  <2> QED
    BY <1>3, <2>1
<1>5. ASSUME NEW k \in Nat, k \in S
      PROVE  k + 1 \in S
  <2> SUFFICES ASSUME k + 1 <= n
               PROVE  Plainly(k + 1)
    OBVIOUS
  <2>1. /\ k <= n /\ i + k <= Len(s) /\ at.pos + k = f + 1 + off[i + k]
        /\ \A j \in 1..k : text[at.pos + j] = s[i + j]
    BY <1>2, <1>5
  <2> DEFINE h == i + k
             p == at.pos + k
  <2>2. h \in 0..Len(s) /\ p = f + 1 + off[h] /\ p \in Nat /\ p + 1 \in at.pos + 1..at.pos + n
        /\ i + (k + 1) = h + 1 /\ at.pos + (k + 1) = p + 1
    <3>1. at.pos \in Nat /\ n \in Nat /\ k + 1 <= n /\ i \in Nat /\ Len(s) \in Nat /\ i + k <= Len(s)
      BY <1>1, <1>2, <1>3, <2>1
    <3>2. h \in 0..Len(s) /\ p \in Nat /\ i + (k + 1) = h + 1 /\ at.pos + (k + 1) = p + 1
      BY <3>1
    <3>3. p + 1 \in at.pos + 1..at.pos + n
      BY <3>1
    <3> QED
      BY <2>1, <3>2, <3>3
  <2>3. PlainAscii(text[p + 1])
    BY <1>2, <2>2
  <2> HIDE DEF h, p, Plainly, S
  <2>4. /\ h = Len(s) => text[p + 1] = Quote
        /\ h < Len(s) => /\ off[h + 1] = off[h] + Len(Escape(s[h + 1]))
                         /\ \A j \in 1..Len(Escape(s[h + 1])) : text[p + j] = Escape(s[h + 1])[j]
    <3>1. p = local.from.pos + 1 + off[h]
      BY <2>2 DEF f
    <3>2. Follows(s, off, h, p)
      BY <2>2, <3>1, Spelled
    <3> QED
      BY <3>2 DEF Follows
  <2>5. h < Len(s)
    <3>1. text[p + 1] # Quote
      BY <2>3 DEF PlainAscii
    <3> QED
      BY <1>3, <2>2, <2>4, <3>1
  <2>6. s[h + 1] \in Nat
    BY <1>3, <2>2, <2>5
  <2>7. text[p + 1] = s[h + 1] /\ off[h + 1] = off[h] + 1
    <3>1. Len(Escape(s[h + 1])) \in {1, 2, 6}
      BY <2>6, EscapeHead
    <3>2. text[p + 1] = Escape(s[h + 1])[1]
      BY <2>4, <2>5, <3>1
    <3>3. text[p + 1] # Backslash
      BY <2>3 DEF PlainAscii
    <3>4. Len(Escape(s[h + 1])) = 1
      BY <2>6, <3>2, <3>3, EscapeHead
    <3> QED
      BY <2>4, <2>5, <2>6, <3>2, <3>4, EscapeHead
  <2>8. p + 1 = f + 1 + off[h + 1] /\ h + 1 <= Len(s)
    <3>1. off[h] \in Nat /\ f \in Nat /\ p = f + 1 + off[h] /\ off[h + 1] = off[h] + 1
      BY <1>1, <1>3, <2>2, <2>7
    <3>2. p + 1 = f + 1 + off[h + 1]
      BY <3>1
    <3>3. h + 1 <= Len(s)
      BY <1>3, <2>2, <2>5
    <3> QED
      BY <3>2, <3>3
  <2>9. \A j \in 1..k + 1 : text[at.pos + j] = s[i + j]
    <3> TAKE j \in 1..k + 1
    <3>1. j \in 1..k \/ j = k + 1
      OBVIOUS
    <3> QED
      BY <2>1, <2>2, <2>7, <3>1
  <2> QED
    BY <2>2, <2>8, <2>9 DEF Plainly
<1> HIDE DEF S
<1>6. n \in S
  BY <1>2, <1>4, <1>5, Induct
<1>7. Plainly(n)
  BY <1>6 DEF S
<1>8. n <= n
  BY <1>2
<1> QED
  BY <1>2, <1>7, <1>8 DEF n, f

LEMMA PrefixIs ==
    ASSUME NEW s \in Chars, NEW x, Prefix(s, x)
    PROVE  /\ s \in Seq(Nat) /\ Len(s) \in Nat /\ Len(x) \in 0..Len(s) /\ x \in Seq(Nat)
           /\ Len(x) < Len(s) => Len(x) + 1 \in 1..Len(s) /\ s[Len(x) + 1] \in Nat
           /\ Len(x) = Len(s) => x = s
<1>1. /\ s \in Seq(Nat) /\ Len(s) \in Nat /\ x \in Seq(Nat) /\ Len(x) \in Nat /\ Len(x) <= Len(s)
      /\ \A k \in 1..Len(x) : x[k] = s[k]
  BY DEF Prefix, Chars
<1> QED
  BY <1>1

\* The buffer with a character more, or several.
LEMMA PrefixOne ==
    ASSUME NEW s \in Chars, NEW x, Prefix(s, x), Len(x) < Len(s)
    PROVE  LET y == Append(x, s[Len(x) + 1])
           IN  Prefix(s, y) /\ Len(y) = Len(x) + 1
<1> DEFINE c == s[Len(x) + 1]
           y == Append(x, c)
<1>1. /\ s \in Seq(Nat) /\ x \in Chars /\ x \in Seq(Nat) /\ Len(x) \in Nat /\ Len(x) + 1 \in 1..Len(s)
      /\ \A k \in 1..Len(x) : x[k] = s[k]
  BY PrefixIs DEF Prefix
<1>2. c \in Nat /\ IsChar(c)
  BY <1>1 DEF Chars
<1>3. y \in Chars
  BY <1>1, <1>2, MoreChars
<1>4. /\ Len(y) = Len(x) + 1 /\ y[Len(x) + 1] = c
      /\ \A k \in 1..Len(x) : y[k] = x[k]
  BY <1>1, <1>2, AppendProperties
<1>5. \A k \in 1..Len(y) : y[k] = s[k]
  <2> HIDE DEF y
  <2>1. \A k \in 1..Len(y) : k \in 1..Len(x) \/ k = Len(x) + 1
    BY <1>1, <1>4
  <2> QED
    BY <1>1, <1>4, <2>1
<1> QED
  BY <1>1, <1>3, <1>4, <1>5 DEF Prefix

LEMMA PrefixMore ==
    ASSUME NEW s \in Chars, NEW x, Prefix(s, x), NEW y \in Chars, Len(x) + Len(y) <= Len(s),
           \A k \in 1..Len(y) : y[k] = s[Len(x) + k]
    PROVE  Prefix(s, x \o y) /\ Len(x \o y) = Len(x) + Len(y)
<1>1. /\ x \in Chars /\ x \in Seq(Nat) /\ Len(x) \in Nat /\ \A k \in 1..Len(x) : x[k] = s[k]
  BY PrefixIs DEF Prefix
<1>2. y \in Seq(Nat) /\ Len(y) \in Nat
  BY DEF Chars
<1>3. x \o y \in Chars
  BY <1>1, MoreChars
<1> DEFINE z == x \o y
<1>4. /\ Len(z) = Len(x) + Len(y)
      /\ \A k \in 1..Len(x) + Len(y) : z[k] = IF k <= Len(x) THEN x[k] ELSE y[k - Len(x)]
  BY <1>1, <1>2, ConcatProperties
<1> HIDE DEF z
<1>5. ASSUME NEW k \in 1..Len(x) + Len(y)
      PROVE  z[k] = s[k]
  <2>1. CASE k <= Len(x)
    BY <1>1, <1>4, <2>1
  <2>2. CASE ~(k <= Len(x))
    <3>1. k - Len(x) \in 1..Len(y) /\ Len(x) + (k - Len(x)) = k
      BY <1>1, <1>2, <2>2
    <3>2. y[k - Len(x)] = s[Len(x) + (k - Len(x))]
      BY <3>1
    <3> QED
      BY <1>4, <2>2, <3>1, <3>2
  <2> QED
    BY <2>1, <2>2
<1> QED
  BY <1>3, <1>4, <1>5 DEF Prefix, z

\* The buffer replaced in what is kept.
LEMMA ScratchOf ==
    ASSUME NEW l \in Local, NEW x
    PROVE  LET m == [l EXCEPT !.scratch = x]
           IN  m.scratch = x /\ m.from = l.from
BY DEF Local

LEMMA RunReads ==
    ASSUME Scanning, NEW s \in Chars, Reading(EscapeString(s)), Progress(s), StringRun
    PROVE  Reads(s)
<1> DEFINE i == Len(local.scratch)
           n == Run(at.pos, PlainAscii)
           y == SubSeq(text, at.pos + 1, at.pos + n)
           x == local.scratch \o y
<1>1. mode = "string" /\ Turn("string", Past(at, n), [local EXCEPT !.scratch = x])
  BY DEF StringRun, In
<1>2. PICK off : Layout(s, off) /\ Prefix(s, local.scratch) /\ Through(s, off, mode, at, local)
  BY DEF Progress
<1>3. at.pos = local.from.pos + 1 + off[i] /\ i \in 0..Len(s)
  BY <1>1, <1>2, PrefixIs DEF Through
<1>4. /\ i + n <= Len(s) /\ n \in Nat /\ at.pos + n = local.from.pos + 1 + off[i + n]
      /\ \A k \in 1..n : text[at.pos + k] = s[i + k]
  BY <1>2, <1>3, RunSpelled
<1>5. text \in Seq(Nat) /\ at.pos \in Nat /\ at.pos + n <= Len(text) /\ local \in Local
  BY Ahead, PlainRun DEF Scanning, Kept
<1> HIDE DEF n, i
<1>6. y \in Chars /\ Len(y) = n /\ \A k \in 1..n : y[k] = s[i + k]
  <2>1. y \in Chars
    BY <1>4, <1>5, PartIsChars
  <2>2. Len(y) = n /\ \A k \in 1..n : y[k] = text[at.pos + k]
    <3> DEFINE a == at.pos
    <3>1. a \in Nat /\ n \in Nat /\ a + n <= Len(text) /\ text \in Seq(Nat)
      BY <1>4, <1>5
    <3> HIDE DEF a
    <3>2. y = [k \in 1..n |-> text[a + k]]
      <4>1. (a + n) - (a + 1) + 1 = n /\ \A k \in 1..n : k + (a + 1) - 1 = a + k
        BY <3>1
      <4>2. SubSeq(text, a + 1, a + n) = [k \in 1..n |-> text[a + k]]
        BY <3>1
      <4> QED
        BY <4>2 DEF a
    <3> HIDE DEF y
    <3> QED
      BY <3>1, <3>2 DEF a
  <2> QED
    BY <1>4, <2>1, <2>2
<1> HIDE DEF y
<1>7. Prefix(s, x) /\ Len(x) = i + n
  <2> DEFINE z == local.scratch
  <2>1. Prefix(s, z) /\ Len(z) = i
    BY <1>2 DEF i
  <2> HIDE DEF z
  <2>2. Len(z) + Len(y) <= Len(s) /\ \A k \in 1..Len(y) : y[k] = s[Len(z) + k]
    BY <1>4, <1>6, <2>1
  <2>3. Prefix(s, z \o y) /\ Len(z \o y) = Len(z) + Len(y)
    BY <1>6, <2>1, <2>2, PrefixMore
  <2> QED
    BY <1>6, <2>1, <2>3 DEF z
<1> HIDE DEF x
<1> DEFINE l == [local EXCEPT !.scratch = x]
           q == Past(at, n)
<1>8. l.scratch = x /\ l.from = local.from
  BY <1>5, ScratchOf
<1>9. q.pos = at.pos + n
  BY DEF Past
<1> HIDE DEF l, q
<1>10. Through(s, off, "string", q, l)
  BY <1>4, <1>7, <1>8, <1>9 DEF Through
<1> QED
  BY <1>1, <1>2, <1>7, <1>8, <1>10, TurnReads DEF l, q

\* The progress made, and what follows in the text.
LEMMA Reached ==
    ASSUME Scanning, NEW s \in Chars, Reading(EscapeString(s)), Progress(s)
    PROVE  LET i == Len(local.scratch)
           IN  \E off : /\ Layout(s, off) /\ Prefix(s, local.scratch) /\ Through(s, off, mode, at, local)
                        /\ Follows(s, off, i, local.from.pos + 1 + off[i])
<1> DEFINE i == Len(local.scratch)
<1>1. PICK off : Layout(s, off) /\ Prefix(s, local.scratch) /\ Through(s, off, mode, at, local)
  BY DEF Progress
<1>2. i \in 0..Len(s)
  BY <1>1, PrefixIs
<1> HIDE DEF i
<1>3. Follows(s, off, i, local.from.pos + 1 + off[i])
  BY <1>1, <1>2, Spelled
<1> QED
  BY <1>1, <1>3 DEF i

\* A character ahead that is a spelling's.
LEMMA Next1 ==
    ASSUME Scanning, NEW p \in Nat, NEW j \in Nat, at.pos + 1 = p + j, p + j <= Len(text)
    PROVE  Byte(0) = text[p + j] /\ Byte(0) \in Nat /\ Byte(0) # Eof /\ Bumped(at).pos = at.pos + 1
<1>1. Byte(0) = text[p + j] /\ Byte(0) \in Nat
  BY Here
<1>2. Byte(0) # Eof
  BY <1>1, SMT DEF Eof
<1> QED
  BY <1>1, <1>2, BumpedOnce

\* One character more in the buffer: the scanner is before the next one's spelling.
LEMMA CharReads ==
    ASSUME Scanning, NEW s \in Chars, NEW off, Layout(s, off), Prefix(s, local.scratch),
           Len(local.scratch) < Len(s),
           NEW q, q.pos = local.from.pos + 1 + off[Len(local.scratch) + 1],
           Turn("string", q, [local EXCEPT !.scratch = Append(local.scratch, s[Len(local.scratch) + 1])])
    PROVE  Reads(s)
<1> DEFINE x == Append(local.scratch, s[Len(local.scratch) + 1])
           l == [local EXCEPT !.scratch = x]
<1>1. Prefix(s, x) /\ Len(x) = Len(local.scratch) + 1
  BY PrefixOne
<1> HIDE DEF x
<1>2. l.scratch = x /\ l.from = local.from
  BY ScratchOf DEF Scanning, Kept
<1>3. Turn("string", q, l)
  BY DEF x
<1> HIDE DEF l
<1>4. Through(s, off, "string", q, l)
  BY <1>1, <1>2 DEF Through
<1> QED
  BY <1>1, <1>2, <1>3, <1>4, TurnReads

LEMMA StringReads ==
    ASSUME Scanning, NEW s \in Chars, Reading(EscapeString(s)), Progress(s), StringTurn
    PROVE  Reads(s)
<1> DEFINE i == Len(local.scratch)
           c == s[i + 1]
<1>1. PICK off : /\ Layout(s, off) /\ Prefix(s, local.scratch) /\ Through(s, off, mode, at, local)
                 /\ Follows(s, off, i, local.from.pos + 1 + off[i])
  BY Reached
<1> DEFINE p == local.from.pos + 1 + off[i]
<1>2. /\ mode = "string" /\ ~PlainAscii(Byte(0))
      /\ p = at.pos /\ i \in 0..Len(s) /\ Len(s) \in Nat
      /\ i < Len(s) => i + 1 \in 1..Len(s) /\ c \in Nat
      /\ i = Len(s) => local.scratch = s
  BY <1>1, PrefixIs DEF StringTurn, In, Through
<1>3. Follows(s, off, i, p)
  BY <1>1
<1> HIDE DEF p, i
<1>4. CASE i = Len(s)
  <2>1. /\ p \in Nat /\ p + 1 <= Len(text) /\ text[p + 1] = Quote
        /\ p + 1 = local.from.pos + Len(EscapeString(s))
    BY <1>3, <1>4 DEF Follows
  <2>2. Byte(0) = Quote /\ Byte(0) # Eof /\ Bumped(at).pos = at.pos + 1
    BY <1>2, <2>1, Next1
  <2>3. Emit(Bumped(at), "str", s)
    BY <1>2, <1>4, <2>2 DEF StringTurn
  <2> QED
    BY <1>2, <2>1, <2>2, <2>3 DEF Emit, Reads
<1>5. CASE i < Len(s)
  <2>1. /\ p \in Nat /\ off[i + 1] = off[i] + Len(Escape(c)) /\ off[i] \in Nat
        /\ \A j \in 1..Len(Escape(c)) : p + j <= Len(text) /\ text[p + j] = Escape(c)[j]
    BY <1>3, <1>5 DEF Follows
  <2>2. c \in Nat
    BY <1>2, <1>5
  <2> HIDE DEF c
  <2>3. Len(Escape(c)) \in {1, 2, 6}
    BY <2>2, EscapeHead
  <2>4. p + 1 <= Len(text) /\ text[p + 1] = Escape(c)[1]
    BY <2>1, <2>3
  <2>5. Byte(0) = Escape(c)[1] /\ Byte(0) # Eof /\ Bumped(at).pos = at.pos + 1
    BY <1>2, <2>1, <2>4, Next1
  <2>6. CASE Len(Escape(c)) = 1
    <3>1. Byte(0) = c /\ Byte(0) # Quote /\ Byte(0) # Backslash /\ ~(Byte(0) < 32)
      <4>1. Escape(c)[1] = c /\ c # Quote /\ c # Backslash /\ ~(c < 32)
        BY <2>2, <2>6, EscapeHead
      <4> QED
        BY <2>5, <4>1
    <3>2. Turn("string", Bumped(at), [local EXCEPT !.scratch = Append(local.scratch, c)])
      BY <1>2, <2>5, <3>1 DEF StringTurn
    <3>3. Bumped(at).pos = local.from.pos + 1 + off[i + 1]
      <4>1. local.from.pos \in Nat
        BY DEF Scanning, Kept, AtPlace, Cursor
      <4>2. off[i + 1] = off[i] + 1 /\ off[i] \in Nat
        BY <2>1, <2>6
      <4>3. at.pos = local.from.pos + 1 + off[i] /\ Bumped(at).pos = at.pos + 1
        BY <1>2, <2>5 DEF p
      <4> DEFINE f == local.from.pos  a == off[i]  b == off[i + 1]
      <4>4. f \in Nat /\ a \in Nat /\ b = a + 1 /\ Bumped(at).pos = f + 1 + a + 1
        BY <4>1, <4>2, <4>3
      <4> HIDE DEF f, a, b
      <4>5. Bumped(at).pos = f + 1 + b
        BY <4>4
      <4> QED
        BY <4>5 DEF f, b
    <3> QED
      BY <1>1, <1>5, <3>2, <3>3, CharReads DEF c, i
  <2>7. CASE Len(Escape(c)) # 1
    <3>1. Byte(0) = Backslash /\ Byte(0) # Quote
      <4>1. Escape(c)[1] = Backslash
        BY <2>2, <2>7, EscapeHead
      <4>2. Backslash # Quote
        BY DEF Backslash, Quote
      <4> QED
        BY <2>5, <4>1, <4>2
    <3>2. Turn("escape", Bumped(at), local)
      BY <1>2, <2>5, <3>1 DEF StringTurn
    <3>3. Through(s, off, "escape", Bumped(at), local)
      BY <1>2, <1>5, <2>5, <2>7 DEF Through, p, i, c
    <3> QED
      BY <1>1, <3>2, <3>3, TurnReads
  <2> QED
    BY <2>6, <2>7
<1> QED
  BY <1>2, <1>4, <1>5

\* No letter stands for two characters, and u for none.
LEMMA ShortIs ==
    /\ \A s, t \in Short : s[1] = t[1] => s[2] = t[2]
    /\ \A s \in Short : s[1] # 117
BY SMT DEF Short, Quote, Backslash

\* What is spelled with a backslash, among the characters of the string.
LEMMA Within ==
    ASSUME Scanning, NEW s \in Chars, Reading(EscapeString(s)), Progress(s),
           mode \in {"escape", "hex", "unpaired"}
    PROVE  LET i == Len(local.scratch)
               c == s[i + 1]
           IN  \E off : /\ Layout(s, off) /\ Prefix(s, local.scratch) /\ i < Len(s) /\ c \in Nat
                        /\ Through(s, off, mode, at, local)
                        /\ \E p \in Nat :
                              /\ p = local.from.pos + 1 + off[i]
                              /\ local.from.pos + 1 + off[i + 1] = p + Len(Escape(c))
                              /\ \A j \in 1..Len(Escape(c)) : p + j <= Len(text) /\ text[p + j] = Escape(c)[j]
<1> DEFINE i == Len(local.scratch)
           c == s[i + 1]
           f == local.from.pos
<1>1. PICK off : /\ Layout(s, off) /\ Prefix(s, local.scratch) /\ Through(s, off, mode, at, local)
                 /\ Follows(s, off, i, f + 1 + off[i])
  BY Reached
<1> DEFINE p == f + 1 + off[i]
<1>2. i < Len(s)
  BY <1>1 DEF Through
<1>3. c \in Nat
  BY <1>1, <1>2, PrefixIs
<1>4. Follows(s, off, i, p)
  BY <1>1
<1> HIDE DEF p, i
<1>5. /\ p \in Nat /\ off[i + 1] = off[i] + Len(Escape(c)) /\ off[i] \in Nat
      /\ \A j \in 1..Len(Escape(c)) : p + j <= Len(text) /\ text[p + j] = Escape(c)[j]
  BY <1>2, <1>4 DEF Follows, i
<1>6. f + 1 + off[i + 1] = p + Len(Escape(c))
  <2>1. f \in Nat
    BY DEF Scanning, Kept, AtPlace, Cursor
  <2>2. Len(Escape(c)) \in Nat
    BY <1>3, EscapeHead
  <2> DEFINE a == off[i]  b == off[i + 1]  w == Len(Escape(c))
  <2>3. f \in Nat /\ a \in Nat /\ w \in Nat /\ b = a + w /\ p = f + 1 + a
    BY <1>5, <2>1, <2>2 DEF p
  <2> HIDE DEF f, a, b, w
  <2>4. f + 1 + b = p + w
    BY <2>3
  <2> QED
    BY <2>4 DEF b, w
<1> QED
  BY <1>1, <1>2, <1>3, <1>5, <1>6 DEF p, i

LEMMA EscapeReads ==
    ASSUME Scanning, NEW s \in Chars, Reading(EscapeString(s)), Progress(s), ReadEscape
    PROVE  Reads(s)
<1> DEFINE i == Len(local.scratch)
           c == s[i + 1]
<1>0. mode = "escape"
  BY DEF ReadEscape, In
<1>1. PICK off : /\ Layout(s, off) /\ Prefix(s, local.scratch) /\ i < Len(s) /\ c \in Nat
                 /\ Through(s, off, mode, at, local)
                 /\ \E p \in Nat :
                       /\ p = local.from.pos + 1 + off[i]
                       /\ local.from.pos + 1 + off[i + 1] = p + Len(Escape(c))
                       /\ \A j \in 1..Len(Escape(c)) : p + j <= Len(text) /\ text[p + j] = Escape(c)[j]
  BY <1>0, Within
<1>2. PICK p \in Nat :
        /\ p = local.from.pos + 1 + off[i]
        /\ local.from.pos + 1 + off[i + 1] = p + Len(Escape(c))
        /\ \A j \in 1..Len(Escape(c)) : p + j <= Len(text) /\ text[p + j] = Escape(c)[j]
  BY <1>1
<1>3. Len(Escape(c)) \in {2, 6} /\ at.pos = p + 1
  BY <1>0, <1>1, <1>2, EscapeHead DEF Through
<1> HIDE DEF c, i
<1>4. /\ p + 2 <= Len(text) /\ text[p + 2] = Escape(c)[2] /\ at.pos + 1 = p + 2
  <2>1. at.pos + 1 = p + 2
    BY <1>3
  <2>2. \A w \in {2, 6} : 2 \in 1..w
    OBVIOUS
  <2>3. 2 \in 1..Len(Escape(c))
    BY <1>3, <2>2
  <2> QED
    BY <1>2, <2>1, <2>3
<1>5. Byte(0) = Escape(c)[2] /\ Byte(0) # Eof /\ Bumped(at).pos = at.pos + 1
  BY <1>2, <1>4, Next1
<1>6. CASE Len(Escape(c)) = 2
  <2>1. <<Escape(c)[2], c>> \in Short
    BY <1>1, <1>6, EscapeHead
  <2>2. \A t \in Short : t[1] = Byte(0) => t[2] = c
    BY <1>5, <2>1, ShortIs
  <2>3. Byte(0) # 117 /\ Byte(0) \in {t[1] : t \in Short}
    BY <1>5, <2>1, ShortIs
  <2>4. Turn("string", Bumped(at), [local EXCEPT !.scratch = Append(local.scratch, c)])
    BY <1>5, <2>2, <2>3 DEF ReadEscape
  <2>5. Bumped(at).pos = local.from.pos + 1 + off[i + 1]
    BY <1>2, <1>3, <1>5, <1>6
  <2> QED
    BY <1>1, <2>4, <2>5, CharReads DEF c, i
<1>7. CASE Len(Escape(c)) = 6
  <2>1. Byte(0) = 117
    <3>1. Escape(c)[2] = 117
      BY <1>1, <1>7, EscapeHead
    <3> QED
      BY <1>5, <3>1
  <2>2. Turn("hex", Bumped(at), Hex4(local, 0))
    BY <1>5, <2>1, ShortIs DEF ReadEscape
  <2> DEFINE l == Hex4(local, 0)
  <2>3. /\ l.scratch = local.scratch /\ l.from = local.from
        /\ l.digits = 0 /\ l.value = 0 /\ l.high = 0
    <3>1. local \in Local
      BY DEF Scanning, Kept
    <3> QED
      BY <3>1 DEF Hex4, Local
  <2> HIDE DEF l
  <2>4. Bumped(at).pos = p + 2 + 0
    BY <1>3, <1>5
  <2>5. Through(s, off, "hex", Bumped(at), l)
    BY <1>1, <1>2, <1>7, <2>3, <2>4, SMT DEF Through, c, i
  <2> QED
    BY <1>1, <2>2, <2>3, <2>5, TurnReads DEF l
<1> QED
  BY <1>3, <1>6, <1>7

LEMMA HexDigitOfIs ==
    ASSUME NEW n \in Nat, n < 16
    PROVE  IsHexDigit(HexDigitOf(n)) /\ HexValue(HexDigitOf(n)) = n /\ HexDigitOf(n) \in Nat
BY SMT DEF IsHexDigit, IsDigit, HexDigitOf, HexValue

\* A control character is its two hexadecimal digits.
LEMMA ControlIs ==
    ASSUME NEW c \in Nat, c < 32
    PROVE  /\ c \div 16 \in Nat /\ c \div 16 < 16 /\ c % 16 \in Nat /\ c % 16 < 16
           /\ 16 * (c \div 16) + (c % 16) = c
           /\ IsHexDigit(48) /\ HexValue(48) = 0
BY SMT DEF IsHexDigit, IsDigit, HexValue

LEMMA HexReads ==
    ASSUME Scanning, NEW s \in Chars, Reading(EscapeString(s)), Progress(s), ReadHex
    PROVE  Reads(s)
<1> DEFINE i == Len(local.scratch)
           c == s[i + 1]
           d == local.digits
<1>0. mode = "hex" /\ d < 4
  BY DEF ReadHex, In
<1>1. PICK off : /\ Layout(s, off) /\ Prefix(s, local.scratch) /\ i < Len(s) /\ c \in Nat
                 /\ Through(s, off, mode, at, local)
                 /\ \E p \in Nat :
                       /\ p = local.from.pos + 1 + off[i]
                       /\ local.from.pos + 1 + off[i + 1] = p + Len(Escape(c))
                       /\ \A j \in 1..Len(Escape(c)) : p + j <= Len(text) /\ text[p + j] = Escape(c)[j]
  BY <1>0, Within
<1>2. PICK p \in Nat :
        /\ p = local.from.pos + 1 + off[i]
        /\ local.from.pos + 1 + off[i + 1] = p + Len(Escape(c))
        /\ \A j \in 1..Len(Escape(c)) : p + j <= Len(text) /\ text[p + j] = Escape(c)[j]
  BY <1>1
<1>3. /\ Len(Escape(c)) = 6 /\ at.pos = p + 2 + d /\ local.high = 0
      /\ d <= 2 => local.value = 0
      /\ d = 3 => local.value = c \div 16
  BY <1>0, <1>1, <1>2 DEF Through
<1>4. local \in Local /\ d \in 0..3
  <2>1. local \in Local /\ d \in 0..4
    BY DEF Scanning, Kept, Local, Counts
  <2> QED
    BY <1>0, <2>1
<1>5. /\ IsControl(c) /\ c < 32 /\ Escape(c)[3] = 48 /\ Escape(c)[4] = 48
      /\ Escape(c)[5] = HexDigitOf(c \div 16) /\ Escape(c)[6] = HexDigitOf(c % 16)
  <2>1. /\ IsControl(c) /\ Escape(c)[3] = 48 /\ Escape(c)[4] = 48
        /\ Escape(c)[5] = HexDigitOf(c \div 16) /\ Escape(c)[6] = HexDigitOf(c % 16)
    BY <1>1, <1>3, EscapeHead
  <2> QED
    BY <2>1 DEF IsControl
<1> HIDE DEF c, i, d
<1>6. Byte(0) = Escape(c)[3 + d] /\ Byte(0) # Eof
  <2>1. 3 + d \in 1..Len(Escape(c)) /\ at.pos + 1 = p + (3 + d) /\ 3 + d \in Nat
    <3>1. at.pos + 1 = p + (3 + d) /\ 3 + d \in 1..6
      BY <1>3, <1>4
    <3> QED
      BY <1>3, <3>1
  <2>2. p + (3 + d) <= Len(text) /\ text[p + (3 + d)] = Escape(c)[3 + d]
    BY <1>2, <2>1
  <2> QED
    BY <1>2, <2>1, <2>2, Next1
<1> DEFINE h == HexValue(Byte(0))
           v == 16 * local.value + h
<1>7. /\ IsHexDigit(Byte(0))
      /\ d + 1 <= 2 => v = 0
      /\ d + 1 = 3 => v = c \div 16
      /\ d + 1 = 4 => v = c
  <2>1. /\ c \div 16 \in Nat /\ c \div 16 < 16 /\ c % 16 \in Nat /\ c % 16 < 16
        /\ 16 * (c \div 16) + (c % 16) = c /\ IsHexDigit(48) /\ HexValue(48) = 0
    BY <1>1, <1>5, ControlIs DEF c, i
  <2>2. CASE d \in 0..1
    <3>1. Byte(0) = 48
      <4>1. 3 + d = 3 \/ 3 + d = 4
        BY <2>2
      <4> QED
        BY <1>5, <1>6, <4>1
    <3>2. h = 0 /\ IsHexDigit(Byte(0)) /\ local.value = 0
      BY <1>3, <2>1, <2>2, <3>1
    <3> HIDE DEF h
    <3> QED
      BY <2>2, <3>2
  <2>3. CASE d = 2
    <3>1. Byte(0) = HexDigitOf(c \div 16)
      BY <1>5, <1>6, <2>3
    <3>2. h = c \div 16 /\ IsHexDigit(Byte(0)) /\ local.value = 0
      BY <1>3, <2>1, <2>3, <3>1, HexDigitOfIs
    <3> HIDE DEF h
    <3> QED
      BY <2>1, <2>3, <3>2
  <2>4. CASE d = 3
    <3>1. Byte(0) = HexDigitOf(c % 16)
      BY <1>5, <1>6, <2>4
    <3>2. h = c % 16 /\ IsHexDigit(Byte(0)) /\ local.value = c \div 16
      BY <1>3, <2>1, <2>4, <3>1, HexDigitOfIs
    <3> HIDE DEF h
    <3> QED
      BY <2>1, <2>4, <3>2
  <2> QED
    BY <1>4, <2>2, <2>3, <2>4
<1> DEFINE l == [local EXCEPT !.digits = @ + 1, !.value = 16 * @ + HexValue(Byte(0))]
           q == Past(at, 1)
<1>8. Turn("hex", q, l)
  BY <1>6, <1>7 DEF ReadHex
<1>9. /\ l.scratch = local.scratch /\ l.from = local.from /\ l.high = local.high
      /\ l.digits = d + 1 /\ l.value = v
  BY <1>4 DEF Local, d
<1>10. q.pos = p + 2 + (d + 1)
  <2>1. q.pos = at.pos + 1
    BY DEF Past
  <2> HIDE DEF q
  <2> QED
    BY <1>2, <1>3, <1>4, <2>1
<1> HIDE DEF l, q, v
<1>11. Through(s, off, "hex", q, l)
  <2> DEFINE e == l.digits
  <2>1. /\ e = d + 1 /\ l.value = v
        /\ q.pos = (l.from.pos + 1 + off[Len(l.scratch)]) + 2 + e
    BY <1>2, <1>9, <1>10 DEF i
  <2>2. /\ e <= 2 => l.value = 0
        /\ e = 3 => l.value = c \div 16
        /\ e = 4 => l.value = c
    BY <1>7, <2>1
  <2> HIDE DEF e
  <2> QED
    BY <1>1, <1>3, <1>9, <2>1, <2>2 DEF Through, c, i, e
<1> QED
  BY <1>1, <1>8, <1>9, <1>11, TurnReads

\* No surrogate is spelled with digits.
LEMMA ControlIsWhole ==
    ASSUME NEW c \in Nat, c < 32
    PROVE  c \notin High /\ c \notin High \cup Low
<1>1. ~(55296 <= c)
  OBVIOUS
<1> QED
  BY <1>1, HalvesAreLarge

LEMMA DenotedReads ==
    ASSUME Scanning, NEW s \in Chars, Reading(EscapeString(s)), Progress(s), HexRead \/ HexDenotes
    PROVE  Reads(s)
<1> DEFINE i == Len(local.scratch)
           c == s[i + 1]
<1>0. (mode = "hex" /\ local.digits = 4) \/ mode = "unpaired"
  BY DEF HexRead, HexDenotes, In
<1>1. PICK off : /\ Layout(s, off) /\ Prefix(s, local.scratch) /\ i < Len(s) /\ c \in Nat
                 /\ Through(s, off, mode, at, local)
                 /\ \E p \in Nat :
                       /\ p = local.from.pos + 1 + off[i]
                       /\ local.from.pos + 1 + off[i + 1] = p + Len(Escape(c))
                       /\ \A j \in 1..Len(Escape(c)) : p + j <= Len(text) /\ text[p + j] = Escape(c)[j]
  BY <1>0, Within
<1>2. PICK p \in Nat : /\ p = local.from.pos + 1 + off[i]
                       /\ local.from.pos + 1 + off[i + 1] = p + Len(Escape(c))
  BY <1>1
<1>3. Len(Escape(c)) = 6 /\ local.value = c
  BY <1>0, <1>1 DEF Through
<1>4. c < 32
  BY <1>1, <1>3, EscapeHead DEF IsControl
<1>5. c \notin High /\ c \notin High \cup Low
  BY <1>1, <1>4, ControlIsWhole
<1>6. CASE HexRead
  <2>1. mode = "hex" /\ local.digits = 4
    BY <1>6 DEF HexRead, In
  <2>2. local.high = 0 /\ at.pos = p + 2 + 4
    BY <1>1, <1>2, <2>1 DEF Through
  <2>3. at.pos = p + 6
    BY <2>2
  <2> HIDE DEF c, i
  <2>4. Turn("unpaired", at, local)
    BY <1>3, <1>5, <1>6, <2>2 DEF HexRead
  <2>5. Through(s, off, "unpaired", at, local)
    BY <1>1, <1>2, <1>3, <2>3 DEF Through, c, i
  <2> QED
    BY <1>1, <2>4, <2>5, TurnReads
<1>7. CASE HexDenotes
  <2>1. mode = "unpaired"
    BY <1>7 DEF HexDenotes, In
  <2>2. at.pos = p + 6
    BY <1>1, <1>2, <2>1 DEF Through
  <2> HIDE DEF c, i
  <2>3. Turn("string", at, [local EXCEPT !.scratch = Append(local.scratch, c)])
    BY <1>3, <1>5, <1>7 DEF HexDenotes
  <2>4. at.pos = local.from.pos + 1 + off[i + 1]
    BY <1>2, <1>3, <2>2
  <2> QED
    BY <1>1, <2>3, <2>4, CharReads DEF c, i
<1> QED
  BY <1>6, <1>7

\* What the spelling of a string is read as, one step after another.
ReadsOn(s) == InString /\ Reading(EscapeString(s)) => Progress(s)

\* What can be done between the quotes of a string.
LEMMA StringActions ==
    ASSUME InString, Next
    PROVE  StringRun \/ StringTurn \/ ReadEscape \/ ReadHex \/ HexRead \/ HexDenotes \/ Stopped
<1>1. mode # "between" /\ mode # "line comment" /\ mode # "block comment" /\ mode # "identifier"
      /\ mode # "integer" /\ mode # "fraction" /\ mode # "exponent" /\ mode # "number"
  BY DEF InString
<1>2. ~(SkipSpace \/ OpenComment \/ LineComment \/ BlockComment \/ End \/ Mark \/ Unexpected)
  BY <1>1 DEF SkipSpace, OpenComment, LineComment, BlockComment, End, Mark, Unexpected, In
<1>3. ~(Identifier \/ IdentifierPart \/ OpenString)
  BY <1>1 DEF Identifier, IdentifierPart, OpenString, In
<1>4. ~(Number \/ Integer \/ Fraction \/ Exponent \/ NumberRead)
  BY <1>1 DEF Number, Integer, Fraction, Exponent, NumberRead, In
<1> QED
  BY <1>2, <1>3, <1>4 DEF Next

\* A token stays the token it began as.
LEMMA SameToken ==
    ASSUME Scanning, InString, Next, InString'
    PROVE  input' = input /\ local'.from = local.from
<1>1. local \in Local
  BY DEF Scanning, Kept
<1>2. \A x : [local EXCEPT !.scratch = x].from = local.from
  BY <1>1, ScratchOf
<1>3. \A x : Hex4(local, x).from = local.from /\ [Hex4(local, x) EXCEPT !.saved = at].from = local.from
  BY <1>1 DEF Local, Hex4
<1>4. \A x, y : [local EXCEPT !.digits = x, !.value = y].from = local.from
  BY <1>1 DEF Local
<1>5. \A x : [local EXCEPT !.value = x].from = local.from
  BY <1>1 DEF Local
<1>6. CASE StringRun
  BY <1>2, <1>6 DEF StringRun, Turn
<1>7. CASE StringTurn
  BY <1>2, <1>7 DEF StringTurn, Turn, Emit, Err
<1>8. CASE ReadEscape
  <2>1. ASSUME NEW t \in Short, Turn("string", Bumped(at), [local EXCEPT !.scratch = Append(@, t[2])])
        PROVE  input' = input /\ local'.from = local.from
    BY <1>2, <2>1 DEF Turn
  <2>2. CASE Turn("hex", Bumped(at), Hex4(local, 0))
    BY <1>3, <2>2 DEF Turn
  <2>3. CASE Err(at) \/ Err(Bumped(at))
    BY <2>3 DEF Err
  <2> QED
    BY <1>8, <2>1, <2>2, <2>3 DEF ReadEscape
<1>9. CASE ReadHex
  BY <1>4, <1>9 DEF ReadHex, Turn, Err
<1>10. CASE HexRead
  <2>1. CASE local.high # 0 /\ local.value \in Low
    <3> DEFINE x == Append(local.scratch, 65536 + (local.high - 55296) * 1024 + local.value - 56320)
    <3>1. Turn("string", at, [local EXCEPT !.scratch = x])
      BY <1>10, <2>1 DEF HexRead
    <3> HIDE DEF x
    <3> QED
      BY <1>2, <3>1 DEF Turn
  <2>2. CASE RollBack \/ Turn("unpaired", at, local)
    BY <1>5, <2>2 DEF RollBack, Turn
  <2>3. CASE Turn("hex", Bumped(Bumped(at)), [Hex4(local, local.value) EXCEPT !.saved = at])
    BY <1>3, <2>3 DEF Turn
  <2> QED
    BY <1>10, <2>1, <2>2, <2>3 DEF HexRead
<1>11. CASE HexDenotes
  BY <1>2, <1>11 DEF HexDenotes, Turn, Err
<1>12. CASE Stopped
  BY <1>12 DEF Stopped, vars
<1> QED
  BY <1>6, <1>7, <1>8, <1>9, <1>10, <1>11, <1>12, StringActions

\* Between the quotes, a step reads on or has read the string.
LEMMA StepReads ==
    ASSUME Scanning, NEW s \in Chars, InString, Reading(EscapeString(s)), ReadsOn(s), Next
    PROVE  Reads(s) \/ UNCHANGED vars
<1>1. Progress(s)
  BY DEF ReadsOn
<1>2. CASE StringRun
  BY <1>1, <1>2, RunReads
<1>3. CASE StringTurn
  BY <1>1, <1>3, StringReads
<1>4. CASE ReadEscape
  BY <1>1, <1>4, EscapeReads
<1>5. CASE ReadHex
  BY <1>1, <1>5, HexReads
<1>6. CASE HexRead \/ HexDenotes
  BY <1>1, <1>6, DenotedReads
<1>7. CASE Stopped
  BY <1>7 DEF Stopped
<1> QED
  BY <1>2, <1>3, <1>4, <1>5, <1>6, <1>7, StringActions

\* A string begins after its first quote, with nothing in the buffer.
LEMMA OpenReads ==
    ASSUME Scanning, NEW s \in Chars, OpenString
    PROVE  Progress(s)'
<1> DEFINE l == [Begun EXCEPT !.scratch = <<>>]
           q == Bumped(at)
<1>1. Turn("string", q, l) /\ q.pos = at.pos + 1
  BY Ahead, SomeAhead, BumpedOnce DEF OpenString
<1>2. at \in Cursor /\ local \in Local /\ at.pos \in Nat
  BY DEF Scanning, Kept, AtPlace, Cursor
<1>3. l.scratch = <<>> /\ l.from = at
  BY <1>2 DEF Begun, Local
<1>4. PICK off : Layout(s, off)
  BY LayoutExists
<1>5. off[0] = 0 /\ Len(<<>>) = 0
  BY <1>4 DEF Layout
<1>6. Prefix(s, <<>>)
  <2>1. Len(s) \in Nat
    BY DEF Chars
  <2>2. <<>> \in Chars
    BY MoreChars
  <2> QED
    BY <1>5, <2>1, <2>2 DEF Prefix
<1> HIDE DEF l, q
<1>7. Through(s, off, "string", q, l)
  BY <1>1, <1>2, <1>3, <1>5 DEF Through
<1>8. Reads(s)
  BY <1>1, <1>3, <1>4, <1>6, <1>7, TurnReads
<1>9. tokens' = tokens
  BY <1>1 DEF Turn
<1>10. mode' = "string"
  BY <1>1 DEF Turn
<1> QED
  BY <1>8, <1>10 DEF Reads

LEMMA OnlyInString ==
    ASSUME StringRun \/ StringTurn \/ ReadEscape \/ ReadHex \/ HexRead \/ HexDenotes
    PROVE  InString /\ outcome.is = "scanning"
<1>1. (StringRun => In("string")) /\ (StringTurn => In("string"))
  BY DEF StringRun, StringTurn
<1>2. (ReadEscape => In("escape")) /\ (ReadHex => In("hex"))
  BY DEF ReadEscape, ReadHex
<1>3. (HexRead => In("hex")) /\ (HexDenotes => In("unpaired"))
  BY DEF HexRead, HexDenotes
<1> QED
  BY <1>1, <1>2, <1>3 DEF InString, In

LEMMA OnlyOpens ==
    ASSUME ~InString, Next, InString'
    PROVE  OpenString
<1>1. /\ mode' # "between" /\ mode' # "line comment" /\ mode' # "block comment" /\ mode' # "identifier"
      /\ mode' # "integer" /\ mode' # "fraction" /\ mode' # "exponent" /\ mode' # "number"
      /\ mode' # mode
  BY DEF InString
<1>2. \A p, l : /\ ~Turn("between", p, l) /\ ~Turn("line comment", p, l) /\ ~Turn("block comment", p, l)
                /\ ~Turn("identifier", p, l) /\ ~Turn("integer", p, l) /\ ~Turn("fraction", p, l)
                /\ ~Turn("exponent", p, l) /\ ~Turn("number", p, l)
  BY <1>1 DEF Turn
<1>3. (\A p : ~Err(p)) /\ (\A p, t, v : ~Emit(p, t, v))
  BY <1>1 DEF Err, Emit
<1>4. ~(SkipSpace \/ OpenComment \/ LineComment \/ BlockComment \/ Mark \/ Unexpected)
  BY <1>2, <1>3 DEF SkipSpace, OpenComment, LineComment, BlockComment, Mark, Unexpected
<1>5. ~(End \/ Stopped)
  BY <1>1 DEF End, Stopped, vars
<1>6. ~(Identifier \/ IdentifierPart)
  BY <1>2, <1>3 DEF Identifier, IdentifierPart
<1>7. ~(Number \/ Integer \/ Fraction \/ Exponent \/ NumberRead)
  <2>1. \A p : ~Digits("exponent", p) /\ ~Digits("number", p)
    BY <1>2, <1>3 DEF Digits
  <2>2. ~Number /\ ~Integer
    BY <1>2, <1>3 DEF Number, Integer
  <2>3. ~Fraction /\ ~Exponent
    BY <1>2, <2>1 DEF Fraction, Exponent
  <2>4. ~NumberRead
    BY <1>3 DEF NumberRead
  <2> QED
    BY <2>2, <2>3, <2>4
<1>8. ~(StringRun \/ StringTurn \/ ReadEscape \/ ReadHex \/ HexRead \/ HexDenotes)
  BY OnlyInString
<1> QED
  BY <1>4, <1>5, <1>6, <1>7, <1>8 DEF Next

\* What a step does with a string that is come to as it is spelled.
Returns(s) ==
    InString /\ Reading(EscapeString(s)) =>
        /\ outcome'.is # "error"
        /\ tokens' # tokens => /\ tokens' = Append(tokens, [t |-> "str", s |-> s])
                               /\ at'.pos = local.from.pos + Len(EscapeString(s))

LEMMA NextReadsOn ==
    ASSUME Scanning, NEW s \in Chars, ReadsOn(s), [Next]_vars
    PROVE  ReadsOn(s)' /\ (UNCHANGED vars \/ Returns(s))
<1>1. CASE UNCHANGED vars
  BY <1>1 DEF vars, ReadsOn, InString, Reading, Progress, Through, Prefix, text
<1>2. CASE Next /\ ~UNCHANGED vars
  <2>1. CASE ~InString
    <3>1. InString' => Progress(s)'
      BY <1>2, <2>1, OnlyOpens, OpenReads
    <3> QED
      BY <2>1, <3>1 DEF ReadsOn, Returns
  <2>2. CASE InString /\ ~Reading(EscapeString(s))
    <3>1. InString' => input' = input /\ local'.from = local.from
      BY <1>2, <2>2, SameToken
    <3>2. InString' => ~Reading(EscapeString(s))'
      BY <2>2, <3>1 DEF Reading, text
    <3> QED
      BY <2>2, <3>2 DEF ReadsOn, Returns
  <2>3. CASE InString /\ Reading(EscapeString(s))
    <3>1. Reads(s)
      BY <1>2, <2>3, StepReads
    <3>2. outcome.is = "scanning"
      BY <1>2, <2>3, StringActions, OnlyInString DEF Stopped
    <3>3. outcome'.is # "error"
      BY <3>1, <3>2 DEF Reads
    <3>4. Returns(s)
      BY <3>1, <3>3 DEF Reads, Returns
    <3>5. InString' => Progress(s)'
      BY <3>1 DEF Reads, InString
    <3> QED
      BY <3>4, <3>5 DEF ReadsOn
  <2> QED
    BY <2>1, <2>2, <2>3
<1> QED
  BY <1>1, <1>2

\* escape_string and parse_string are inverse to each other in every text: whatever
\* the string, and whatever stands before and after it.
THEOREM StringsComeBack == Spec => StringsReadBack
<1> DEFINE Inv == Scanning /\ \A s \in Chars : ReadsOn(s)
<1>1. Init => Inv
  BY InitScanning DEF Init, ReadsOn, InString
<1>2. Inv /\ [Next]_vars => Inv'
  BY NextScanning, NextReadsOn
<1>3. Inv => StringsWritten \subseteq Chars
  <2>1. ASSUME input \in Inputs
        PROVE  \A v \in Range(input.wrote) : v.kind \in {"str", "key"} => v.value \in Chars
    BY <2>1, WrittenAreTexts DEF Chars
  <2> QED
    BY <2>1 DEF StringsWritten, Scanning
<1>4. Inv /\ [Next]_vars => UNCHANGED vars \/ \A s \in StringsWritten : Returns(s)
  BY <1>3, NextReadsOn
<1>5. Inv /\ [Next]_vars =>
        [\A s \in StringsWritten : InString /\ Reading(EscapeString(s)) =>
            /\ outcome'.is # "error"
            /\ tokens' # tokens => /\ tokens' = Append(tokens, [t |-> "str", s |-> s])
                                   /\ at'.pos = local.from.pos + Len(EscapeString(s))]_vars
  BY <1>4 DEF Returns
<1> HIDE DEF Inv
<1> QED
  BY <1>1, <1>2, <1>5, PTL DEF Spec, StringsReadBack
=============================================================================
