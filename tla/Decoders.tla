------------------------------- MODULE Decoders -------------------------------
(***************************************************************************)
(* From a type form to the value read at it: decoder_for analyses the form *)
(* (Aliases) and builds the decoder of its shape, keeping a memo of what   *)
(* is being built; the decoder then reads documents.                       *)
(*                                                                         *)
(* A decoder is a record: what it does, the shape its closure refers to    *)
(* and the decoders inside it. A cell of the memo is a box, which holds    *)
(* the decoder that has landed in it; a box is never given up while the    *)
(* memo or a closure refers to it, so boxes are numbered and not reused.   *)
(* One compilation, alone: several, and threads, are Compile's.            *)
(***************************************************************************)
EXTENDS Aliases

CONSTANTS
    Documents,   \* the values read
    RecursionAt  \* bound: calls of decoders within each other, the interpreter's limit

VARIABLES
    stage,     \* "written", "refused", "compiled", "read"
    why,       \* why it was refused
    decoder,   \* the decoder of the shape asked for
    boxes,     \* what has landed
    document,  \* the value last read
    answer     \* what the decoder answered

vars == <<program, stage, why, decoder, boxes, document, answer>>

-----------------------------------------------------------------------------
(* build *)

\* Mutated form: a decoder refers to nothing but the decoders inside it.
Closure_Nothing(shape) == [form |-> "Dynamic"]

\* What a decoder's closure keeps alive: `_wrong(shape, value)` refers to the
\* shape.
Closure(shape) == shape

RECURSIVE Keeps(_)
Keeps(d) ==
    CASE d.does = "value" -> {}
      [] d.does = "forward" -> {}
      [] d.does = "array" \/ d.does = "set" \/ d.does = "mapping" \/ d.does = "tagged" ->
            CellsOf(d.shape) \cup Keeps(d.each)
      [] d.does = "union" -> CellsOf(d.shape) \cup UNION {Keeps(d.table[s]) : s \in DOMAIN d.table}
      [] d.does = "record" -> UNION {Keeps(d.plan[i].decode) : i \in DOMAIN d.plan}
      [] OTHER -> CellsOf(d.shape)

KeptByMemo(bs) == UNION {Keeps(bs[b][1]) : b \in {c \in DOMAIN bs : bs[c] # <<>>}}

\* Mutated form: a decoder lands in the box opened last.
Landed_OpenedLast(bs, b, d) == [bs EXCEPT ![Len(bs)] = <<d>>]

\* A decoder that has been built goes into the box opened for it.
Landed(bs, b, d) == [bs EXCEPT ![b] = <<d>>]

\* The name of a container's decoder.
DecoderOf(form) == CASE form = "ArrayOf" -> "array" [] form = "SetOf" -> "set"
                     [] form = "MappingOf" -> "mapping" [] form = "TaggedOf" -> "tagged"

\* `k` is what build works with: the memo by class and by a cell's identity, the
\* boxes, the cells and why it failed. `held` are the cells its callers refer to.
RECURSIVE Built(_, _, _)
Built(shape, held, k) ==
    LET Gives(d, kk) == [dec |-> d, k |-> kk]
        holding == held \cup CellsOf(shape)
        opened == Len(k.boxes) + 1
        Land(d, kk) == Gives(d, [kk EXCEPT !.boxes = Landed(@, opened, d)])
        Member(acc, s) ==
            IF acc.k.why # "" THEN acc
            ELSE LET one == Built(s, holding, acc.k)
                     claimed == ShapeClaims(s, one.k.cells)
                 IN  [k |-> one.k, table |-> [x \in claimed |-> one.dec] @@ acc.table]
        Field(acc, f) ==
            IF acc.k.why # "" THEN acc
            ELSE LET mine == holding \cup UNION {Keeps(acc.plan[i].decode) : i \in DOMAIN acc.plan}
                                     \cup KeptByMemo(acc.k.boxes)
                     denoted == Analysed(f.form, <<>>, mine, acc.k.cells)
                     one == Built(denoted.shape, mine, [acc.k EXCEPT !.cells = denoted.cells])
                 IN  IF denoted.why # "" THEN [acc EXCEPT !.k.why = denoted.why]
                     ELSE [k |-> one.k,
                           plan |-> Append(acc.plan, [key |-> f.key, required |-> f.required,
                                                      decode |-> one.dec])]
    IN
    CASE shape.form = "Dynamic" -> Gives([does |-> "value"], k)
      [] shape.form \in {"ArrayOf", "SetOf", "MappingOf", "TaggedOf"} ->
            LET each == Built(shape.item, holding, k)
            IN  Gives([does |-> DecoderOf(shape.form), shape |-> Closure(shape),
                       mutable |-> shape.mutable, each |-> each.dec], each.k)
      [] shape.form = "UnionOf" ->
            LET all == FoldLeft(Member, [k |-> k, table |-> <<>>], shape.members)
            IN  Gives([does |-> "union", shape |-> Closure(shape), table |-> all.table], all.k)
      [] shape.form = "Deferred" ->
            IF shape.cell \in DOMAIN k.byCell
              THEN Gives([does |-> "forward", box |-> k.byCell[shape.cell]], k)
              ELSE LET inner == Built(k.cells[shape.cell][1], holding,
                            [k EXCEPT !.boxes = Append(@, <<>>),
                                      !.byCell = (shape.cell :> opened) @@ @])
                   IN  Land(inner.dec, inner.k)
      [] shape.form = "Record" ->
            IF shape.class \in DOMAIN k.byClass
              THEN Gives([does |-> "forward", box |-> k.byClass[shape.class]], k)
              ELSE LET all == FoldLeft(Field,
                            [plan |-> <<>>, k |-> [k EXCEPT !.boxes = Append(@, <<>>),
                                                   !.byClass = (shape.class :> opened) @@ @]],
                            program.classes[shape.class].fields)
                   IN  Land([does |-> "record", class |-> shape.class, plan |-> all.plan], all.k)
      [] OTHER -> Gives([does |-> "atom", shape |-> Closure(shape), of |-> AsAtom(shape)], k)

-----------------------------------------------------------------------------
(* The decoders *)

Value(v) == [is |-> "value", of |-> v]
Wrong == [is |-> "wrong", path |-> <<>>]
Under(step, a) == IF a.is = "wrong" THEN [a EXCEPT !.path = <<step>> \o @] ELSE a

At(i) == [at |-> "index", i |-> i]
Key(k) == [at |-> "key", k |-> k]
Some == [at |-> "some"]

HeadOf(v) == [kind |-> v.is, name |-> IF v.is = "symbol" THEN v.s
                                      ELSE IF v.is = "tagged" THEN v.tag ELSE Whole]

\* Whether Python can hash a value that was read.
RECURSIVE Hashable(_)
Hashable(v) ==
    CASE v.is \in {"list", "dict", "set"} -> FALSE
      [] v.is = "array" -> \A i \in DOMAIN v.items : Hashable(v.items[i])
      [] v.is = "object" -> \A i \in DOMAIN v.pairs : Hashable(v.pairs[i].of)
      [] v.is = "tagged" -> Hashable(v.of)
      [] v.is = "instance" ->
            /\ program.classes[v.class].frozen
            /\ \A i \in DOMAIN v.fields : Hashable(v.fields[i].of)
      [] OTHER -> TRUE

\* The first of some answers that is none, if there is one.
FirstFailure(answers) ==
    LET failed == {i \in DOMAIN answers : answers[i].is # "value"}
    IN  IF failed = {} THEN <<>>
        ELSE <<answers[CHOOSE i \in failed : \A j \in failed : i <= j]>>

\* What an atom's decoder answers to a value it reads: a member of the enum, a
\* carried object if the string it stands over is one the class takes, else the
\* value itself.
AtomValue(shape, v) ==
    CASE shape.form = "EnumOf" -> Value([is |-> "member", s |-> v.s])
      [] shape.form = "CarrierOf" ->
            IF v.of.is # "str" \/ v.of.s \notin shape.takes THEN Wrong
            ELSE Value([is |-> "carried", tag |-> v.tag, s |-> v.of.s])
      [] OTHER -> Value(v)

\* The values of an object's body by key; a key comes once.
Lookup(body, key) == {body.pairs[i].of : i \in {j \in DOMAIN body.pairs : body.pairs[j].key = key}}

Kept(answers) == [i \in DOMAIN answers |-> answers[i].of]

\* What `d` answers to `v`; `deep` calls are still to be had.
RECURSIVE Decoded(_, _, _)
Decoded(d, v, deep) ==
    LET into(e, w) == Decoded(e, w, deep - 1)
        items == [i \in DOMAIN v.items |-> Under(At(i), into(d.each, v.items[i]))]
        elements == [i \in DOMAIN v.of.items |-> Under(Some, into(d.each, v.of.items[i]))]
        pairs == [i \in DOMAIN v.pairs |-> Under(Key(v.pairs[i].key), into(d.each, v.pairs[i].of))]
    IN
    IF deep = 0 THEN [is |-> "recursion"] ELSE
    CASE d.does = "value" -> Value(v)
      [] d.does = "forward" -> into(boxes[d.box][1], v)
      [] d.does = "atom" -> IF ~AtomReads(d.of, HeadOf(v)) THEN Wrong ELSE AtomValue(d.shape, v)
      [] d.does = "array" ->
            IF v.is # "array" THEN Wrong
            ELSE IF FirstFailure(items) # <<>> THEN FirstFailure(items)[1]
            ELSE Value([is |-> IF d.mutable THEN "list" ELSE "array", items |-> Kept(items)])
      [] d.does = "mapping" ->
            IF v.is # "object" THEN Wrong
            ELSE IF FirstFailure(pairs) # <<>> THEN FirstFailure(pairs)[1]
            ELSE Value([is |-> IF d.mutable THEN "dict" ELSE "object",
                        pairs |-> [i \in DOMAIN pairs |-> [key |-> v.pairs[i].key, of |-> pairs[i].of]]])
      [] d.does = "tagged" ->
            IF v.is # "tagged" THEN Wrong
            ELSE LET payload == into(d.each, v.of)
                 IN  IF payload.is # "value" THEN payload
                     ELSE Value([is |-> "tagged", tag |-> v.tag, of |-> payload.of])
      [] d.does = "set" ->
            IF HeadOf(v) # [kind |-> "tagged", name |-> SetTag] \/ v.of.is # "array" THEN Wrong
            ELSE IF FirstFailure(elements) # <<>> THEN FirstFailure(elements)[1]
            ELSE IF \E i \in DOMAIN elements : ~Hashable(elements[i].of) THEN Wrong
            ELSE Value([is |-> IF d.mutable THEN "set" ELSE "frozenset",
                        items |-> {elements[i].of : i \in DOMAIN elements}])
      [] d.does = "union" ->
            LET slot == [kind |-> HeadOf(v).kind, name |-> HeadOf(v).name]
                chosen == IF slot \in DOMAIN d.table THEN slot ELSE WholeKind(v.is)
            IN  IF chosen \in DOMAIN d.table THEN into(d.table[chosen], v) ELSE Wrong
      [] d.does = "record" ->
            IF HeadOf(v) # [kind |-> "tagged", name |-> d.class] \/ v.of.is # "object" THEN Wrong
            ELSE LET Present(f) == Lookup(v.of, f.key) # {}
                     read == [i \in DOMAIN d.plan |->
                        IF Present(d.plan[i])
                          THEN Under(Key(d.plan[i].key),
                                     into(d.plan[i].decode, CHOOSE w \in Lookup(v.of, d.plan[i].key) : TRUE))
                          ELSE IF d.plan[i].required THEN Wrong ELSE Value([is |-> "absent"])]
                     fields == [i \in DOMAIN d.plan |->
                                    [key |-> d.plan[i].key, of |-> read[i].of]]
                 IN  IF FirstFailure(read) # <<>> THEN FirstFailure(read)[1]
                     ELSE IF \E i \in DOMAIN fields : fields[i].of \in program.classes[d.class].refuses
                       THEN Wrong
                     ELSE Value([is |-> "instance", class |-> d.class, fields |-> fields])

-----------------------------------------------------------------------------
(* _encode.convert, all the way down: how dumps spells what was read.      *)

Tagging(name, v) == [is |-> "tagged", tag |-> name, of |-> v]

\* Mutated form: only the mutable set is told from an array.
ArrayTag_NoFrozen(kind) == IF kind = "set" THEN SetTag ELSE Whole

\* The tag a run of values is under; Whole stands for none.
ArrayTag(kind) == IF kind \in {"set", "frozenset"} THEN SetTag ELSE Whole

RECURSIVE Spelled(_)
Spelled(v) ==
    LET run == IF v.is \in {"set", "frozenset"} THEN SetToSeq(v.items) ELSE v.items
        array == [is |-> "array", items |-> [i \in DOMAIN run |-> Spelled(run[i])]]
        Object(pairs) == [is |-> "object",
            pairs |-> [i \in DOMAIN pairs |-> [key |-> pairs[i].key, of |-> Spelled(pairs[i].of)]]]
    IN
    CASE v.is = "member" -> [is |-> "symbol", s |-> v.s]
      [] v.is = "instance" -> Tagging(v.class, Object(v.fields))
      [] v.is = "carried" -> Tagging(v.tag, [is |-> "str", s |-> v.s])
      [] v.is \in {"dict", "object"} -> Object(v.pairs)
      [] v.is \in {"set", "frozenset", "list", "array"} ->
            IF ArrayTag(v.is) = Whole THEN array ELSE Tagging(ArrayTag(v.is), array)
      [] v.is = "tagged" -> Tagging(v.tag, Spelled(v.of))
      [] OTHER -> v

-----------------------------------------------------------------------------

Init ==
    /\ program \in Programs
    /\ stage = "written"
    /\ why = ""
    /\ decoder = [does |-> "value"]
    /\ boxes = <<>>
    /\ document = CHOOSE v \in Documents : TRUE
    /\ answer = [is |-> "none"]

\* decoder_for: what is refused here is refused before any document is looked at.
Compile ==
    /\ stage = "written"
    /\ LET denoted == Analysed(program.root, <<>>, {}, NoCells)
           built == Built(denoted.shape, {}, [byClass |-> <<>>, byCell |-> <<>>, boxes |-> <<>>,
                                              cells |-> denoted.cells, why |-> denoted.why])
       IN  IF built.k.why # ""
             THEN /\ stage' = "refused" /\ why' = built.k.why
                  /\ UNCHANGED <<decoder, boxes>>
             ELSE /\ stage' = "compiled" /\ decoder' = built.dec /\ boxes' = built.k.boxes
                  /\ UNCHANGED why
    /\ UNCHANGED <<program, document, answer>>

Read(v) ==
    /\ stage \in {"compiled", "read"}
    /\ document' = v
    /\ answer' = Decoded(decoder, v, RecursionAt)
    /\ stage' = "read"
    /\ UNCHANGED <<program, why, decoder, boxes>>

Next == Compile \/ \E v \in Documents : Read(v)

Spec == Init /\ [][Next]_vars
=============================================================================
