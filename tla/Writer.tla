-------------------------------- MODULE Writer --------------------------------
(***************************************************************************)
(* dumps: the traversal of src/write.rs with the `convert` hook of         *)
(* _encode.py called inside it, its call stack made explicit. A set gets   *)
(* its order from what its elements spell as, so its conversion runs a     *)
(* second writer (_spelling) on the stack of the first.                    *)
(*                                                                         *)
(* The object graph is arbitrary and may be cyclic through mutable         *)
(* objects. It is chosen as the walk reaches it: Reveal settles what an    *)
(* object is when it is first looked at, and the object is that from then  *)
(* on. Objects are numbered in the order the walk hears of them, so each   *)
(* graph is walked once. Text is tokens, the same ones the reader reads.   *)
(***************************************************************************)
EXTENDS Naturals, Sequences, SequencesExt, FiniteSets

CONSTANTS
    Objects,            \* bound: objects of the graph
    MaxReferences,      \* bound: references between them
    Heads,              \* what an object may be
    Ident,              \* the keys that are identifiers
    TextBefore(_, _),   \* the order of texts
    Limit,              \* the interpreter's recursion limit, in frames of emit
    HookFrames          \* the frames below it that a sort in the hook takes

ASSUME ConstantsAssumption == Objects \in Nat \ {0} /\ Limit \in Nat /\ HookFrames \in Nat

Node == 1..Objects
Root == 1  \* the object handed to dumps

\* The kinds the core classifies, each exactly; `null` stands for the bare
\* symbols, `str` for every scalar that has a spelling and `unspellable` for
\* those that have none (a lone surrogate, an int beyond i64, a nan); `overlong` is an
\* int of more digits than str() takes, which the refusal of it is worded with.
Core == {"null", "str", "unspellable", "overlong", "tagged", "array", "object"}
\* What the hook knows: the mutable counterparts, an enum member, a dataclass,
\* a privileged class, a named tuple or a subclass of a sequence.
Known == {"list", "dict", "set", "enum", "class", "carrier", "run"}
\* What it does not: a class with no spelling, and one whose conversion raises
\* anything else (an attribute does, or Symbol or Tagged refuses a name). `stray`
\* is what the core's may_convert is there for: a hook that answers with a value
\* the core cannot classify, which the SDK's own never does.
Unknown == {"alien", "crash", "stray"}
\* What cannot be changed once it is made. A run may be a subclass of list.
Frozen == {"tagged", "array", "object"}

\* A key the format has no spelling for: a lone surrogate, a subclass of str,
\* or no string at all.
BadKey == "bad key"

Ref(n) == [k |-> "ref", n |-> n]
Kids(h) == IF "kids" \in DOMAIN h THEN Range(h.kids) ELSE {}

\* What an object is made of: other objects, and the keys they are under.
Refs == {Ref(n) : n \in Node}
ASSUME HeadsAssumption == \A h \in Heads :
    /\ h.k \in Core \cup Known \cup Unknown
    /\ h.k \in {"tagged", "array", "object", "list", "dict", "set", "class", "run"} =>
          h.kids \in Seq(Refs)
    /\ h.k = "tagged" => Len(h.kids) = 1
    /\ h.k \in {"object", "dict", "class"} =>
          h.keys \in Seq(Range(h.keys)) /\ Len(h.keys) = Len(h.kids)

References(graph) ==
    UNION {{<<n, i>> : i \in DOMAIN graph[n].kids} : n \in {m \in DOMAIN graph : Kids(graph[m]) # {}}}

VARIABLES
    heap,     \* heap[n]: what object n is, for the objects looked at
    stack,    \* the frames of emit that are waiting
    mode,     \* "emit" cur; "next": a frame goes on; "shape": an error unwinds
    cur,      \* the value to be spelled
    under,    \* under_tag: it is a tag's payload
    may,      \* may_convert: it is not the hook's own answer
    out,      \* the tokens written, by the innermost of the writers
    path,     \* the segments collected, outermost first
    outcome,  \* "writing", "written", "refused", "raised" or "recursion"
    blank,    \* whether _spelling ever answered ""
    calls     \* calls[n]: how often the hook was called with n

vars == <<heap, stack, mode, cur, under, may, out, path, outcome, blank, calls>>

Init ==
    /\ heap = [n \in {} |-> Root]
    /\ stack = <<>> /\ mode = "emit"
    /\ cur = Ref(Root)
    /\ under = FALSE /\ may = TRUE
    /\ out = <<>> /\ path = <<>>
    /\ outcome = "writing"
    /\ blank = FALSE
    /\ calls = [n \in Node |-> 0]

-----------------------------------------------------------------------------
(* The object graph, and the depth the walk has come to. *)

Depth == Len(stack) + HookFrames * Cardinality({i \in DOMAIN stack : stack[i].f = "sort"})

Hidden == cur.k = "ref" /\ cur.n \notin DOMAIN heap
Obj == IF cur.k = "ref" THEN heap[cur.n] ELSE cur

\* A Tagged over a bare symbol cannot be made.
NoTaggedSymbol(graph) ==
    \A n \in DOMAIN graph : graph[n].k = "tagged" =>
        LET m == graph[n].kids[1].n IN m \in DOMAIN graph => graph[m].k # "null"

\* An immutable object refers to objects that were there before it, so no cycle
\* is made of immutable objects alone.
MadeInOrder(graph, n) ==
    LET frozen == {m \in DOMAIN graph : graph[m].k \in Frozen}
        below[i \in 0..Objects] ==
            IF i = 0 THEN Kids(graph[n])
            ELSE below[i - 1] \cup UNION {Kids(graph[m]) : m \in {l \in frozen : Ref(l) \in below[i - 1]}}
    IN  n \in frozen => Ref(n) \notin below[Objects]

Heard == {Root} \cup {kid.n : kid \in UNION {Kids(heap[n]) : n \in DOMAIN heap}}
NumberedAsHeard(h) ==
    Kids(h) # {} => \A i \in DOMAIN h.kids : \A m \in 1..(h.kids[i].n - 1) :
        m \in Heard \/ \E j \in 1..(i - 1) : h.kids[j].n = m

Reveal ==
    /\ outcome = "writing" /\ mode = "emit" /\ Hidden
    /\ Depth < Limit
    /\ \E h \in Heads :
        LET graph == [n \in DOMAIN heap \cup {cur.n} |-> IF n = cur.n THEN h ELSE heap[n]]
        IN  /\ NumberedAsHeard(h)
            /\ Cardinality(References(graph)) <= MaxReferences
            /\ NoTaggedSymbol(graph) /\ MadeInOrder(graph, cur.n)
            /\ heap' = graph
    /\ UNCHANGED <<stack, mode, cur, under, may, out, path, outcome, blank, calls>>

-----------------------------------------------------------------------------
(* The parts of a step. *)

Top == stack[Len(stack)]
Push(frame) == stack' = Append(stack, frame)
Pop == stack' = Front(stack)
Replace(frame) == stack' = [stack EXCEPT ![Len(stack)] = frame]

Id(s) == [t |-> "id", s |-> s]
Str(s) == [t |-> "str", s |-> s]
Mk(m) == [t |-> m, s |-> m]
Write(tokens) == out' = out \o tokens

\* emit(value, under_tag, may_convert), called from the frame just pushed.
Emit(value, tagged, convertible) ==
    /\ mode' = "emit" /\ cur' = value
    /\ under' = tagged /\ may' = convertible

GoOn == mode' = "next" /\ UNCHANGED <<cur, under, may>>

\* A Shape error made here: it names no place yet.
Refuse ==
    /\ mode' = "shape" /\ path' = <<>>
    /\ UNCHANGED <<stack, cur, under, may, out>>

\* Anything else leaves untouched through every frame, the hook's included.
Raise(what) ==
    /\ outcome' = what
    /\ UNCHANGED <<heap, stack, mode, cur, under, may, out, path, blank, calls>>

-----------------------------------------------------------------------------
(* Writer::emit: the guard, then the values the core classifies. *)

Emitting(kinds) ==
    /\ outcome = "writing" /\ mode = "emit"
    /\ Depth < Limit
    /\ ~Hidden /\ Obj.k \in kinds

Quiet == UNCHANGED <<heap, outcome, blank, calls>>

\* Mutated form: the hook's `except SopError` takes a RecursionError as well.
TooDeep_TakenBySpelling ==
    /\ outcome = "writing" /\ mode = "emit" /\ Depth >= Limit
    /\ IF \E i \in DOMAIN stack : stack[i].f = "sort"
         THEN /\ mode' = "shape" /\ path' = <<>>
              /\ UNCHANGED <<heap, stack, cur, under, may, out, outcome, blank, calls>>
         ELSE Raise("recursion")

TooDeep ==
    /\ outcome = "writing" /\ mode = "emit" /\ Depth >= Limit
    /\ Raise("recursion")

\* Mutated form: a bare symbol is spelled wherever it stands.
EmitBare_UnderTag ==
    /\ Emitting({"null"})
    /\ Write(<<Id(Obj.s)>>) /\ GoOn /\ UNCHANGED <<stack, path>>
    /\ Quiet

EmitBare ==
    /\ Emitting({"null"})
    /\ IF under THEN Refuse
                ELSE Write(<<Id(Obj.s)>>) /\ GoOn /\ UNCHANGED <<stack, path>>
    /\ Quiet

EmitScalar ==
    /\ Emitting({"str"})
    /\ Write(<<Str(Obj.s)>>) /\ GoOn
    /\ UNCHANGED <<stack, path>> /\ Quiet

EmitUnspellable == Emitting({"unspellable"}) /\ Refuse /\ Quiet

\* str() raises before there is a SopError to carry its words.
EmitOverlong == Emitting({"overlong"}) /\ Raise("raised")

\* Mutated form: a tag's payload is spelled in the tag's own frame.
EmitTagged_SameFrame ==
    /\ Emitting({"tagged"})
    /\ Write(<<Id(Obj.tag)>>)
    /\ Emit(Obj.kids[1], TRUE, TRUE)
    /\ UNCHANGED <<stack, path>> /\ Quiet

EmitTagged ==
    /\ Emitting({"tagged"})
    /\ Write(<<Id(Obj.tag)>>) /\ Push([f |-> "tag"])
    /\ Emit(Obj.kids[1], TRUE, TRUE)
    /\ UNCHANGED path /\ Quiet

EmitArray ==
    /\ Emitting({"array"})
    /\ Write(<<Mk("[")>>) /\ Push([f |-> "array", kids |-> Obj.kids, i |-> 0]) /\ GoOn
    /\ UNCHANGED path /\ Quiet

EmitObject ==
    /\ Emitting({"object"})
    /\ Write(<<Mk("{")>>)
    /\ Push([f |-> "object", keys |-> Obj.keys, kids |-> Obj.kids, i |-> 0]) /\ GoOn
    /\ UNCHANGED path /\ Quiet

-----------------------------------------------------------------------------
(* The hook (_encode.convert), for what the core cannot classify. *)

\* The member of a set that so many come up to, itself included.
Nth(S, upTo, r) == CHOOSE i \in S : Cardinality(upTo[i]) = r

\* The dict a dataclass's fields are gathered in: two fields of one key leave
\* the later one's value in the earlier one's place.
Body(h) ==
    LET first == {i \in DOMAIN h.keys : \A j \in 1..(i - 1) : h.keys[j] # h.keys[i]}
        upTo == [i \in first |-> {j \in first : j <= i}]
        places == 1..Cardinality(first)
        Latest(i) == CHOOSE j \in DOMAIN h.keys :
                        /\ h.keys[j] = h.keys[i]
                        /\ \A l \in (j + 1)..Len(h.keys) : h.keys[l] # h.keys[i]
    IN  [k |-> "object", keys |-> [r \in places |-> h.keys[Nth(first, upTo, r)]],
                         kids |-> [r \in places |-> h.kids[Latest(Nth(first, upTo, r))]]]

Tagged(tag, payload) == [k |-> "tagged", tag |-> tag, kids |-> <<payload>>]

\* The head of the object spelled, its children left as they were.
Spelled(h) ==
    CASE h.k = "list"    -> [k |-> "array", kids |-> h.kids]
      [] h.k = "run"     -> Tagged(h.name, [k |-> "array", kids |-> h.kids])
      [] h.k = "dict"    -> [k |-> "object", keys |-> h.keys, kids |-> h.kids]
      [] h.k = "class"   -> Tagged(h.name, Body(h))
      [] h.k = "enum"    -> [k |-> "null", s |-> h.s]
      [] h.k = "carrier" -> Tagged(h.name, [k |-> "str", s |-> h.s])
      [] h.k = "stray"   -> h

Called == calls' = [calls EXCEPT ![cur.n] = @ + 1]

Convert ==
    /\ Emitting((Known \ {"set"}) \cup {"stray"}) /\ may
    /\ Push([f |-> "convert"]) /\ Emit(Spelled(Obj), under, FALSE)
    /\ Called
    /\ UNCHANGED <<heap, out, path, outcome, blank>>

\* "not a sop value": the hook's answer is not offered to the hook.
StillUnknown == Emitting(Unknown) /\ ~may /\ Refuse /\ Quiet

\* The hook's own SopError takes its place from where the walk had come to.
CannotEncode ==
    /\ Emitting({"alien"}) /\ may
    /\ Refuse /\ Called /\ UNCHANGED <<heap, outcome, blank>>

HookRaises == Emitting({"crash"}) /\ may /\ Raise("raised")

\* sorted(obj, key=_spelling) begins.
Sort ==
    /\ Emitting({"set"}) /\ may
    /\ Push([f |-> "sort", name |-> Obj.name, kids |-> Obj.kids, keys |-> <<>>, i |-> 0,
             out |-> out, under |-> under])
    /\ GoOn /\ Called
    /\ UNCHANGED <<heap, out, path, outcome, blank>>

-----------------------------------------------------------------------------
(* A frame goes on once what it called has returned. *)

GoingOn(f) == outcome = "writing" /\ mode = "next" /\ stack # <<>> /\ Top.f = f

Comma == IF Top.i = 0 THEN <<>> ELSE <<Mk(",")>>

Leave ==
    /\ GoingOn("tag") \/ GoingOn("convert")
    /\ Pop /\ UNCHANGED <<mode, cur, under, may, out, path>> /\ Quiet

\* Mutated form: the element after the last is written too.
ArrayNext_OnePast ==
    /\ GoingOn("array")
    /\ IF Top.i > Len(Top.kids)
         THEN Pop /\ Write(<<Mk("]")>>) /\ GoOn
         ELSE /\ Write(Comma) /\ Replace([Top EXCEPT !.i = @ + 1])
              /\ IF Top.i < Len(Top.kids) THEN Emit(Top.kids[Top.i + 1], FALSE, TRUE) ELSE GoOn
    /\ UNCHANGED path /\ Quiet

ArrayNext ==
    /\ GoingOn("array")
    /\ IF Top.i = Len(Top.kids)
         THEN Pop /\ Write(<<Mk("]")>>) /\ GoOn
         ELSE /\ Write(Comma) /\ Replace([Top EXCEPT !.i = @ + 1])
              /\ Emit(Top.kids[Top.i + 1], FALSE, TRUE)
    /\ UNCHANGED path /\ Quiet

\* A key with no spelling is refused in the object's own name.
ObjectNext ==
    /\ GoingOn("object")
    /\ IF Top.i = Len(Top.kids)
         THEN Pop /\ Write(<<Mk("}")>>) /\ GoOn /\ UNCHANGED path
         ELSE LET key == Top.keys[Top.i + 1]
              IN  IF key = BadKey
                    THEN Pop /\ mode' = "shape" /\ path' = <<>>
                         /\ UNCHANGED <<cur, under, may, out>>
                    ELSE /\ Write(Comma \o <<IF key \in Ident THEN Id(key) ELSE Str(key), Mk(":")>>)
                         /\ Replace([Top EXCEPT !.i = @ + 1])
                         /\ Emit(Top.kids[Top.i + 1], FALSE, TRUE)
                         /\ UNCHANGED path
    /\ Quiet

\* Mutated form: a set is written as it is iterated.
SortedBy_AsIterated(kids, keys) == kids

\* Mutated form: an element that has no spelling is left out.
SortedBy_LeftOut(kids, keys) ==
    LET spelled == SelectSeq([i \in DOMAIN kids |-> i], LAMBDA i : keys[i] # <<>>)
    IN  [r \in DOMAIN spelled |-> kids[spelled[r]]]

\* sorted is stable: elements that spell alike stay as they were.
SortedBy(kids, keys) ==
    LET upTo == [i \in DOMAIN kids |-> {j \in DOMAIN kids :
                    TextBefore(keys[j], keys[i]) \/ (keys[j] = keys[i] /\ j <= i)}]
    IN  [r \in DOMAIN kids |-> kids[Nth(DOMAIN kids, upTo, r)]]

\* _spelling has answered for an element, or the sort has just begun; the next
\* element is spelled by a writer of its own, or all have been and the hook
\* answers with them in order.
SortNext ==
    /\ GoingOn("sort")
    /\ LET keys == IF Top.i > Len(Top.keys) THEN Append(Top.keys, out) ELSE Top.keys
       IN  IF Top.i < Len(Top.kids)
             THEN /\ Replace([Top EXCEPT !.keys = keys, !.i = @ + 1])
                  /\ Emit(Top.kids[Top.i + 1], FALSE, TRUE)
                  /\ out' = <<>>
             ELSE /\ Replace([f |-> "convert"])
                  /\ Emit(Tagged(Top.name, [k |-> "array", kids |-> SortedBy(Top.kids, keys)]),
                          Top.under, FALSE)
                  /\ out' = Top.out
    /\ UNCHANGED path /\ Quiet

Finish ==
    /\ outcome = "writing" /\ mode = "next" /\ stack = <<>>
    /\ outcome' = "written"
    /\ UNCHANGED <<heap, stack, mode, cur, under, may, out, path, blank, calls>>

-----------------------------------------------------------------------------
(* A Shape error on its way out. *)

Unwinding == outcome = "writing" /\ mode = "shape"

\* Mutated form: an element is named by the one after it.
Unwind_OffByOne ==
    /\ Unwinding /\ stack # <<>> /\ Top.f # "sort"
    /\ Pop
    /\ path' = CASE Top.f = "array"  -> <<[index |-> Top.i]>> \o path
                 [] Top.f = "object" -> <<[key |-> Top.keys[Top.i]]>> \o path
                 [] OTHER            -> path
    /\ UNCHANGED <<mode, cur, under, may, out>> /\ Quiet

\* Error::at: a container names the step that failed; a tag and a conversion
\* are not steps of the path. Indices count from 0.
Unwind ==
    /\ Unwinding /\ stack # <<>> /\ Top.f # "sort"
    /\ Pop
    /\ path' = CASE Top.f = "array"  -> <<[index |-> Top.i - 1]>> \o path
                 [] Top.f = "object" -> <<[key |-> Top.keys[Top.i]]>> \o path
                 [] OTHER            -> path
    /\ UNCHANGED <<mode, cur, under, may, out>> /\ Quiet

\* Mutated form: _spelling lets the SopError of its own writer out, and the
\* outer writer carries it untouched.
SpellingTakes_LetsOut ==
    /\ Unwinding /\ stack # <<>> /\ Top.f = "sort"
    /\ outcome' = "refused"
    /\ UNCHANGED <<heap, stack, mode, cur, under, may, out, path, blank, calls>>

\* _spelling takes the SopError of its own writer: no spelling at all.
SpellingTakes ==
    /\ Unwinding /\ stack # <<>> /\ Top.f = "sort"
    /\ Replace([Top EXCEPT !.keys = Append(@, <<>>)])
    /\ mode' = "next" /\ blank' = TRUE /\ path' = <<>>
    /\ UNCHANGED <<heap, cur, under, may, out, outcome, calls>>

Refused ==
    /\ Unwinding /\ stack = <<>>
    /\ outcome' = "refused"
    /\ UNCHANGED <<heap, stack, mode, cur, under, may, out, path, blank, calls>>

\* dumps has returned or raised.
Stopped == outcome # "writing" /\ UNCHANGED vars

Next ==
    \/ Reveal
    \/ TooDeep \/ EmitBare \/ EmitScalar \/ EmitUnspellable \/ EmitOverlong
    \/ EmitTagged \/ EmitArray \/ EmitObject
    \/ Convert \/ StillUnknown \/ CannotEncode \/ HookRaises \/ Sort
    \/ Leave \/ ArrayNext \/ ObjectNext \/ SortNext \/ Finish
    \/ Unwind \/ SpellingTakes \/ Refused \/ Stopped

Spec == Init /\ [][Next]_vars

-----------------------------------------------------------------------------
(* Properties. *)

TypeOK ==
    /\ DOMAIN heap \subseteq Node
    /\ \A n \in DOMAIN heap : heap[n] \in Heads
    /\ mode \in {"emit", "next", "shape"}
    /\ under \in BOOLEAN /\ may \in BOOLEAN /\ blank \in BOOLEAN
    /\ outcome \in {"writing", "written", "refused", "raised", "recursion"}
    /\ Len(stack) <= Limit
    /\ \A i \in DOMAIN stack :
        /\ stack[i].f \in {"tag", "convert", "array", "object", "sort"}
        /\ stack[i].f \in {"array", "object", "sort"} => stack[i].i \in 0..Len(stack[i].kids)
    /\ calls \in [Node -> Nat]

\* "The traversal is about to fail on this element anyway" (_encode.py,
\* _spelling): an element that had no spelling when its set was put in order
\* never ends up in a text that is handed over.
NoBlankWritten == outcome = "written" => ~blank

ReferencesTo(n) == {r \in References(heap) : heap[r[1]].kids[r[2]] = Ref(n)}

\* "`convert` is called once per object the writer cannot classify" (lib.rs:310),
\* "so the graph is walked exactly once" (write.rs:10): at most once, that is,
\* when nothing in the graph is referred to twice.
ConvertedOnce ==
    (ReferencesTo(Root) = {} /\ \A n \in DOMAIN heap : Cardinality(ReferencesTo(n)) <= 1)
        => \A n \in Node : calls[n] <= 1
=============================================================================
