# sop, specified

A verification development for `sop`, an implementation of the sop interchange
format: a Rust extension module that reads and writes text (`src/`), and a
Python layer that compiles type annotations into decoders (`python/sop/`). It
consists of TLA+ modules translated from that code, TLC configurations that
check them on small instances, and TLAPS proofs of what matters most for every
instance.

## The system

`loads[Shape](text)` parses `text` in one pass into immutable values, and hands
them to the decoder of `Shape`. `dumps(value)` walks an object graph in one pass
and writes text, calling a Python hook for every object it does not know.

| component | where | state it keeps | operations | what is hard | what makes it correct |
|---|---|---|---|---|---|
| decoder compilation | `_decode.py` `build`, `_build_record`, `decoder_for`; `__init__.py` `_Loads` | the decoder each handle holds (`_read`); the decoder kept on each dataclass (`_SLOT`); per compilation, a memo of cells not yet filled | compile on first read, keep, forward, read | cycles of classes; threads; annotations that name nothing yet; a compilation that fails half way | every read is answered from the class and the document alone; every cell that can be called is filled |
| unions | `_analyse.py` `_union`, `_ir.py` `claims` and `meeting`, `_decode.py` `_build_union` | the dispatch table | analyse, compare claims, fill, dispatch | claims and decoders are two readings of one shape; nested unions; names within kinds | a document goes to the one member that reads it, whatever the order of the members |
| reader | `parse.rs`, `lib.rs` `Recursion` | position, scratch buffer, key memo, the call stack | one value, array, object, tag | one token of lookahead, trailing commas, repeated keys, nesting to the interpreter's limit, the end of the input anywhere | the value is the grammar's, and refusals are of nonsense only |
| writer and hook | `write.rs`, `_encode.py` | the text so far, the call stack, the path of an error; `_fields` kept per class | emit, convert, put a set in order | cyclic and shared graphs, a writer nested in the hook of another, errors on their way out through both | what is handed over denotes the graph; an error leads to its cause |
| scanner | `parse.rs` `bump`, `skip_ws`, `parse_string`; `text.rs` | position, line, column | white space, comments, escapes | CRLF, BOM, surrogate pairs rolled back | positions agree with the text; what is escaped reads back |
| numbers | `parse.rs` `parse_number`, `write.rs`, `text.rs` `write_f64` | none | scan, spell | i64 and f64 boundaries, kind by spelling | what is written reads back equal and of the same kind |
| shape analysis, aliases | `_analyse.py` `analyse`, `_ir.py` | the aliases being read, each with a cell | analyse | aliases that contain themselves | an alias is refused only when reading it would not progress |
| structural decoders | `_decode.py` `build` | none | read an array, mapping, set, carrier, record | error paths, hashing a set's elements | what is read is what the shape says |
| values | `lib.rs` `Symbol`, `Tagged`, the exceptions | none (immutable) | construct, compare, hash, pickle | none that is stateful | a `Tagged` never holds a bare symbol |

How they interact: `_Loads.__call__` compiles (analysis, unions, decoders), then
calls the reader, then the decoder. Threads share the classes a compilation
writes to and the handles. `dumps` calls the writer, the writer calls `convert`,
and `convert` calls `dumps` again for each element of a set. Reader and writer
share the lexical facts of `text.rs` (`Lexical`) and the format; both are held to one
grammar here (`Grammar`).

The hazards of the code, each at its line and with the properties that cover it,
are listed in `PROJECT.json`.

## Modules

| module | models | checked by |
|---|---|---|
| `Compile` | compilation and the class cache, by any number of threads | `MCCompile`, `CompileProofs`, `PlanProofs`, `ContractProofs` |
| `ReadContract` | abstract: what `loads[Shape](text)` promises its caller | refined by `Compile` (`KeepsContract`): `MCCompile`, `ContractProofs` |
| `Claims` | what a shape claims, when claims meet, and what each decoder asks of a head | part of `Unions` and `Aliases` |
| `Unions` | the comparison of a union's members and the dispatch table, step by step | `MCUnions`, `UnionProofs` |
| `Aliases` | `analyse` over aliases that contain themselves: cells, `Deferred`, the refusal of an alias among its own members | part of `Decoders` |
| `Decoders` | `build` with its memo, every decoder it answers, and how the hook spells what they read | `MCDecoders` |
| `Meaning` | reference: what a type form means of a value, with no shapes, cells, memo or tables in it | used by `MCDecoders` |
| `Reader` | the recursive-descent parser over tokens | `MCReader`, `ReaderProofs` |
| `Writer` | the traversal of `dumps` with the hook and the nested writers | `MCWriter`, `WriterProofs` |
| `Grammar` | reference: what a sequence of tokens denotes, with no parser and no writer in it | used by `MCReader`, `MCWriter` |
| `Rules` | reference: the grammar once more, as rules from shorter stretches of a text to longer ones, without recursion | compared with `Grammar` in `MCReader`, used by `ReaderProofs` |
| `Spellable` | reference: what of an object graph has a spelling, with no traversal in it | used by `MCWriter`, `WriterProofs` |
| `Basics` | lemmas: sequences used as stacks, least numbers, induction over numbers | used by `ReaderProofs`, `WriterProofs`, `ScannerProofs` |
| `Lexical` | `text.rs`: classes of characters, the spelling of strings, keys and numbers | part of `Scanner` |
| `Scanner` | the loops below the parser's tokens, with position, line and column | `MCScanner`, `ScannerProofs` |
| `Places` | reference: where a place in a text is, by counting | used by `Lexis`, `ScannerProofs` |
| `Lexis` | reference: what the tokens of a text are | used by `MCScanner` |
| `ReadBack` | what becomes of a string the writer has spelled, wherever it stands in a text | used by `MCScanner`, `ScannerProofs` |

### Compile

A *node* is one compilation of one class: its memo cell, its plan and the decoder
closure over that plan. `memo[cls]` of compilation `b` is the node `[build |-> b,
class |-> cls]` in `cells`; `cell.append(record)` puts it in `landed`; `slot` is
`_SLOT` in the class's `__dict__`; `read` is `_Loads._read`; `plan` is the tuple
under construction; the Python call stack of `_build_record` is `stack`. A decoder
and a forwarder to it (`lambda value: pending[0](value)`) are the same reference,
because they differ only while the cell is empty, which is when calling the
forwarder is an `IndexError`.

A step is the part of `_build_record` between two points where another thread can
be scheduled that matters: the check of memo and slot with the entry of the cell,
the resolution of annotations, one field, the landing, the publication. Python may
switch threads inside what is one step here, between `memo.get` and
`cls.__dict__.get` for instance; the memo is a thread's own, so the only read of
shared state in each step is of one slot, and one step with one such access loses
no interleaving. `CallCompiled` and `CallCompile` each look at `_read` once.

The document is abstracted to which fields it nests and how deep: a read follows
one path of nested records down, since what a decoder finds in one field does not
depend on the others and a cell that is filled stays filled. A field is
`Leaf`, `Bad` or the class it reaches; a shape that reaches several classes is
several fields.

### Unions

A document is abstracted to its head (kind, and name for a symbol or tag), which is
all `_slot_of` and the decoders' first tests look at. `Claims` is translated from
`_ir.claims`, `Reads` from the decoders; that they agree is what is checked and
proved, not assumed. Unions are written member by member, then compared pair by pair in the order of `itertools.combinations`, then filled in, then
read with any head.

### Aliases and Decoders

`Analysed` and `Built` are functions, one call of `analyse` and of `build`: a
compilation alone has no state between its steps that anything else sees, and what
threads do to it is `Compile`'s. Three things about them are stateful and are kept:
the cells of aliases, the memo, and which cell an identity belongs to. `build` keys its
memo by `id(cell)`, which means something only while the list lives. So a cell here is
its identity, `Fresh` hands out the least identity nothing refers to, and `Keeps` says
what each decoder's closure refers to: the shape, for its error message. That the
memo is sound rests on exactly this; with `Closure_Nothing` it is not.

A type form is what `typing` shows `analyse` (`w`: an atom, a container of an item, a
union, an alias, a class, or `bad`, which stands for everything that is refused
outright). Values are structural: what is read, what a decoder answers (a list is
not a tuple, a `carried` object not a tagged string), and what `Spelled` makes of it
again. A class's `__post_init__` is the set `refuses` of field values it rejects, and a
carried class the set `takes` of strings its constructor takes. The path of a failure
is the sequence of its steps.

`Takes` in `Meaning` uses the head tests of `Claims` for atoms, which `Unions` is about;
everything above atoms is written anew.

### Reader

The parser's Rust call stack is `stack`, one frame for each `parse_value` that is
waiting; `mode` is where the innermost one is. Each `Bump` chooses the next token,
so the behaviours are all documents up to `MaxTokens` tokens at once and each is
scanned only as far as the parser scans it. The recursion guard counts the frames.

### Scanner

`at` is the cursor, `mode` the loop that is running and `local` what the functions keep
in their locals, `scratch` among it because it is the parser's and outlives a string.
One step is one turn of a loop; a fast path over a run is one step, which moves the
column by the length of the run and looks at no character in it, as the code does. A
character is its code point; that UTF-8 takes more than one byte for some is invisible,
since positions are only compared and sliced at boundaries. The scanner is
driven token after token, so it scans more texts than the parser would let it, and
`Unexpected` is where no value or key begins.

A float is a sign, digits and an exponent. `FloatOf` reads a decimal exactly and
`WriteF64` writes one; the rounding to 64 bits and the shortest digits in between are
Rust's. `I64Max` and `MaxExp` stand for the largest i64 and the largest exponent of a
finite f64.

### Writer

`stack` is the stack of `emit`; a `convert` frame is `emit` calling itself with the
hook's answer, a `sort` frame the hook calling `_dumps` on the elements of a set, with
the text of the outer writer put aside. The object graph is chosen as it is
reached (`Reveal`), may share and may be cyclic through mutable objects; immutable
objects alone make no cycle (`MadeInOrder`), because they can only refer to what was
there before them. A `run` is not counted among those, since it may be a subclass of `list`.
The graph stays as it is during a call.

The limit counts frames of the recursion guard, with `HookFrames` for the Python
frames of a sort. The interpreter may measure stack instead, where a frame of
`emit` need not weigh what one of `parse_value` does: `WrittenIsReadable` compares
the numbers of frames.

An int beyond i64 is refused (`unspellable`), unless it has more digits than Python's `str()`
takes: the message is worded with it (`write.rs:276`), so the `ValueError` of `str()` leaves
instead (`overlong`). Where two fields of a dataclass have one wire key, the later one's value
is written and the other is lost without an error (`_encode.py:143`); `Image` takes the code's
side here, since the repository does not say what should happen, so no property
objects to it.

`stray`, a hook that answers with what the core cannot classify, is not something
the SDK's `convert` does; it is in the model because `may_convert` exists for it.

## Runs

| run | question | bounds, and why they are enough |
|---|---|---|
| `compile_one` | does one thread get what the class deserves, in any order of calls? | four classes (a cycle of two with a self reference, one waiting for a name, one refused), four compilations so each can be first, again or fail, documents two deep so a forwarder's forwarder is called |
| `compile_threads` | what holds of the cache whatever two threads do? | a cycle, a failing class on it, three compilations: both threads in the cycle at once and one after a failure, so a class could be compiled a third time |
| `compile_poisoned` | can a failed compilation spoil a class? | finding: `IndexError` |
| `compile_race` | can a compilation still going spoil a read? | finding: `IndexError` |
| `unions` | is dispatch exact, and is every refusal due? | every form of shape, enums that overlap or not, a class named like the set's tag, nested unions; three members, so a pair that is not with the first exists |
| `decoders` | is a value read as the annotation says, whatever contains itself, and does it come back when written? | two aliases of 15 bodies each, a class of two fields, read from either, from a set or from a union; values three deep, so each kind of step is under another; six identities, of which no program needs more at once; 30 nested calls, which no productive program reaches |
| `aliases_refused` | is only an alias refused that has nothing to read before itself? | finding: others are |
| `scanner` | are tokens, positions and errors those of the text, and is what is written read back? | texts of three pieces out of all, of five out of those that make lines and comments, two strings in a row, or numbers; `i64` ends at 87 and `f64` at 1e22, so that both sides of each are among the numerals, and the exponents where `write_f64` changes notation are all there |
| `reader` | is every document read as the grammar says? | nine tokens, nesting to four frames: an object with a tagged value and a trailing comma fits, as do repeated keys and arrays in arrays; the limit is met by brackets, objects and tags alike |
| `writer` | does a text denote the graph, and an error lead to its cause? | four objects, four references: cycles, shared objects, conversions under tags (a frozendict is the dict's own conversion and is met as such); a limit of six frames ends a cycle and lets the acyclic graphs through, and a few not |
| `writer_sets` | the same with writers nested in the hook | sets in sets, in runs and in classes; the hook takes four frames, so a sort can meet the limit where the traversal after it would not |
| `writer_walks` | is an object converted once? | finding: under a set it is not |

The runs of `Compile`, of `Unions` and of `Decoders` say `CHECK_DEADLOCK FALSE`:
a program may make no more calls once its compilations are used up (`MaxBuilds`),
and a refused union or form is the end of it. `Reader`, `Scanner` and `Writer` check
deadlock, with an explicit `Stopped` step once `loads` or `dumps` has returned or
raised: they never stop anywhere else.

`StringsReadBack` is an action property because it speaks of a string within a text: as long
as what stands from where the string began is its spelling, no step between the quotes may
refuse it or emit anything but the string. A character that was left out, or taken for the
end, breaks it at the step that does so.

`ReadsWhatIsWritten` demands the first fault and its path, not just a refusal, and
`ScansWhatIsWritten` the place an error is reported at. Both references are written from
the whole of the form or text and not in the order the code goes. `ComesBack` leaves out
instances with a field left to its default, which is the program's value and need
not be of the field's own form, and the documents of `decoders` put no `true` beside a
`1` in a set, which Python would merge.

The programs whose aliases are not productive (`type T = T`, or two that are each
other) are in `decoders` too: what `AcceptedIsSound` says of unions holds of them, the
rest supposes `Productive`.

`ReadsTheGrammar` and `WritesTheValue` refer to the same `Denoted`: a text that
`dumps` hands over denotes the value the graph stands for, and the reader answers a
text with what it denotes, so the two give the round trip; `WrittenIsReadable` adds
that reading it takes no more frames of the recursion guard than writing did.

`RulesAreGrammar` is no property of the parser but an assumption of `MCReader`, which TLC
evaluates before the run: it compares the two references of the reader, so that what is
proved of `Rules` is about `Denoted`. On every text of four pieces, a piece being a token, a
member or an array, the facts the rules lead to are closed under them and the values
among them are those of `Denoted`, or none. `AnswersAsSpellable`, checked in `writer_sets`, where
there are sets, is `Verdict` of `Spellable`, which the proof of `Writer` ends in, with the least set of what has a spelling
computed where `Verdict` quantifies over rankings; it says when `dumps` answers with a
text and when with a refusal, `WritesTheValue` which text.

The abstract contract says what the code does, and in one point this is not what the
repository says. `ReadContract` has `name_error` among the answers of a read: a class with an
annotation that names nothing answers `loads` with Python's own `NameError`. `README.md:116-118`
says of `SopError` that "one `except` catches everything", and `tests/test_soundness.py:12-14`
that anything else leaving `loads` fails. The contract takes the code's side there: that a
`NameError` should be a `SopError` is not among what `KeepsContract` shows, and no run refutes
it. `Compile` instantiates `ReadContract` with the class cache, the
plans and the stacks hidden, and `KeepsContract` says `Compile` implements it for one
thread over classes none of which is on a cycle with a class that fails. The findings
show both conditions are needed.

Fairness is weak fairness of each thread's `Step`: a thread that is inside a call is
scheduled again in the end, and Python code that can go on does. Calling is not fair,
nor is defining a missing name: a program need not do either. `CallReturns` and
`CellsSettle` rest on it. The scanner is a loop that waits for nothing, so it takes its
next turn (`ScanEnds`); what could keep it from ending is the cursor being set back.

## What was found

* `_decode.py:416`: a decoder kept on a class may forward to a cell that its
  compilation never fills, because it failed after the class was published
  (`compile_poisoned`), or that another thread has not filled yet
  (`compile_race`). Reading through it raises `IndexError`, which is not a
  `SopError` (`tests/test_soundness.py:12-14`), and in the first case does so for
  the life of the class.
* `_analyse.py:236` refuses every alias that is a union member while it is being
  read, so `type B = dict[str, int | B]` is "one of its own union members" although
  a container is read first; `README.md:272-274` says only those are refused that have
  nothing to read before reading themselves (`aliases_refused`). Of
  `type T = int | list[U]` and `type U = T | str`, `loads[T]` is refused and `loads[U]`
  is not.
* `lib.rs:310`, `write.rs:10` and `_encode.py:123` say the hook is called once per
  object and the graph walked exactly once; the elements of a set are walked twice,
  and again for every set around them (`writer_walks`).

Met while reading, without a run of their own: `_ir.py:118` says an integer-spelled
number reads as a float, and the decoder (`_decode.py:184-193`) and `claims`
(`_ir.py:306-309`) say it does not; `type T = T` is accepted and reads to a
`RecursionError`, and as a member of a union it reaches the `Deferred` case of `claims`
that `_ir.py:327` calls unreachable, and recurs there; `_ir.py:208` calls `UnionOf`
flattened, and `_analyse.py:227` leaves a nested union whole.

## What is proved

The proofs are for every value of the constants under the assumptions of the modules.
`ConstantsAssumption` and `NoneAssumption` say the constants have the types their comments
say and the marks differ from what they mark; `HeadsAssumption` of `Writer` says what
an object of each kind is made of. TLC evaluates them in the runs. What a theorem supposes
beyond them stands in its `ASSUME`.

`CompileProofs`, for any number of threads:

* `TypeCorrect`: `[]TypeOK`. The inductive invariant adds to the types that
  a thread that is compiling has a compilation number and, past the root, a stack that
  is not empty (`StageShape`), without which `Top` would be no node.
* `SlotsComplete`, `ReferencesAnswered`: `[]PublishedLanded` and
  `[]ReferencesAccounted`. The invariant `Accounted` says every reference in a plan
  leads to a cell, and every cell is landed, open on some thread's stack, or of a
  compilation that failed; popping a stack is where it could break, and there the
  record that is popped has landed.
* `AloneNoIndexError`: with one thread and classes none of which fails, `[]NoIndexError`:
  `Accounted` leaves an open cell as the only one that is not filled, and a thread that
  is reading has no open cell.

`PlanProofs`, for any number of threads:

* `PlansFollowFields`: `[]PlanFollowsFields`. A plan is only ever extended at the end, so it
matches the fields if each reference that is appended suits the next one; that is known
where the record returns into the one below it, which `Waiting` says was waiting for exactly
that field. A finished plan would be extended if its record stood on another stack, or on
one twice, which `Owners` (a compilation has one thread) and `StackDistinct` exclude. All of
it together is `Ordered`.
* `CompiledByEachThreadOnce`: `[]CompiledOncePerThread`, for finitely many threads. `Counted`
  is the invariant: once a decoder is kept on a class, its finished decoders go one to one
  with threads that have none of that class still to finish (`Underway`), and before that each
  finished one has just landed and is on top of some thread's stack. Landing gives its thread
  to the decoder that landed (`LandCounted`); failing only takes threads out of `Underway`; and
  no thread enters the class again, since it would find the decoder kept.

`ContractProofs`, for one thread (`Alone`):

* `CompiledToTheEndOnce`: `[]CompiledOnce`, from `Kept`: a class whose decoder is not
  kept has no finished one but the record that has just landed. With two threads it is
  false, and what holds is `CompiledOncePerThread`.
* `ReadsKeepContract`: `Compile` implements `ReadContract`, if no class on a cycle can fail
  (`FailuresOffCycles`). `InitContract` maps the initial states and `StepContract` each
  step to a step or a stutter. `Traced` keeps what the answer depends on: each record on
  the stack is reached from the one that was asked for, and no finished decoder is of
  a class that waits for a name. `Settled` is what makes the cache invisible: a finished decoder
  forwards only to finished ones or into the stack of the compilation going on, and
  into that only from within a cycle. So when an exception drops a stack,
  which by hypothesis happens only off the cycles, no decoder is left that leads into it.
  The classes of `compile_one` satisfy the hypothesis, with failing classes among them;
  those of `compile_poisoned` do not, and there the conclusion fails.

`ScannerProofs`, for every set of texts. `InputsAreTexts` and `WrittenAreTexts` say that a
text, and a string it was written from, is made of characters, that is of code points no
surrogate is, which `&str` guarantees:

* `TypeCorrect`: `[]TypeOK`, and with it that the four digits of an escape stay below
  65536 and a pair of surrogates denotes a character, so that `char::from_u32` never gets
  a number that is none but a lone low surrogate, which is refused. The bound is not
  inductive: `HexSoFar` says what so many digits amount to at most.
* `PositionsCount`: `[]PositionCounts`. The cursor, where the token began and the place
  a high surrogate may be gone back to are each at a place of the text whose line and
  column are the counted ones, none of them ahead of the cursor (`Kept`); without the
  saved place, going back to it would break the invariant. What the fast paths need is
  that no line ends within the run they pass over (`PlainRun`, `DigitRun`).
* `ErrorsArePlaces`: `[]Blamed`, an error names a place of the text and its counted line
  and column.
* `StringsComeBack`: `StringsReadBack`. `Layout` says where in the spelling of a string
  the spelling of each of its characters stands. `ReadsOn` is the invariant of the loops: the
  cursor is in the spelling of some character (`Spelled`), the scratch buffer holds those
  before it (`Prefix`), and in an escape of four digits the digits read so far are
  those of the character. Plain characters run up to the next one that is escaped
  (`RunSpelled`), and no escape that the writer makes opens a pair of surrogates.

Together: `escape_string` and `parse_string` are inverse on every string, in whatever text.

The invariant of all four is `Scanning`. Lines and the layout of a spelling are counted, so
the proofs need induction. The library's induction theorems take an operator and cannot be
used; `Least` and `Greatest` (a set of naturals that has a member has a least one, and below
a bound a greatest) and `Induct` are proved for sets instead, and are applied to the set of
numbers the statement holds of.

`UnionProofs`, for every set of names and shapes and every number of members:

* `ClaimsAreReads` (lemma): a shape's decoder accepts a head exactly when the head
  fills one of the shape's claims.
* `DispatchExact`: `[]DispatchesToReader`. The invariant `Settled` says the pairs
  compared so far do not meet, in the order of `NextPair`, and the table holds
  exactly the claims of the members it was filled from.
* `NoCollision`: `FillNeverCollides`, from the same invariant.
* `RefusedForAmbiguity`: `[]RefusedIsAmbiguous`. The analysis stopped at two members whose
  claims meet (`RefusedPair`); that claims which meet share a head, and a head in a
  claim is read, are lemmas about `Meet` and `ClaimsAreReads`.
* `TypeCorrect`: `[]TypeOK`.

`ReaderProofs`, for every document and every recursion limit:

* `TypeCorrect`, `NeverReadsPastEnd`, `TagsTakeNoSymbol`, `RecursionIsBounded`: from
  `Parsing`. `TagTakesNoSymbol` is not inductive, because what stops a symbol is the
  local `under`, the argument of a call long since entered; `UnderTag` ties it
  to the frame that is on top of the stack, or below the top.
* `AcceptedSpells`: a document that is answered with a value spells it by `Rules`.
  The invariant `Spelled` gives every waiting frame the place of the text it began at, and
  says the tokens from there up to where the next began are what the frame holds:
  elements with their commas, members with theirs and the key, or the tag. A value
  that is returned spells what was scanned since its call.
* `Unambiguous`: no text spells two values. `Spells` is "in every set of facts closed under
  the rules", since a recursive operator cannot be proved about here, so what a fact follows
  from has to be proved: the rules applied round after round from nothing find a
  set (`Facts`) that is closed and in every other (`FactsAre`), and each fact in it follows from
  others in it (`OpenFrom`, `ValueFrom`). From there the argument goes from the end of the text to
  its beginning (`OneValueEverywhere`): what is open up to one place and up to a later one
  has a comma and a whole member between them (`PassedUpTo`), so two readings of an array or
  object part nowhere. A bare word is the exception that needs care, because as a tag
  it is also the beginning of something longer: `Whole` says it is not.
* `AnswersAreMeant`: so the value a document is answered with is the only one it spells.
* `RefusedSpellsNothing`: a document is refused only if no document that begins with what
  was scanned of it spells anything. A document that spells a value, and begins so, has a
  value at each place where a frame waits for one, and that value ends where the frame
  can use it (`StackWanted`); `Unambiguous` makes what the parser has read the same
  value. Each way to fail contradicts that at the token ahead. `Following`
  is the invariant this adds: what the parser saw ahead when it decided that a word is a
  tag, or is none, or that an array goes on.

  Together they say of every document that does not meet the recursion limit what
  `ReadsTheGrammar` and `RefusesOnlyNonsense` check of those of nine tokens, with `Rules` in
  place of `Grammar`; `RulesAreGrammar` compares the two.

`WriterProofs`, for every set of objects of whatever kinds and references, cyclic or not, and
every recursion limit, where `TextBefore` orders texts as Python orders strings
(`TextsOrdered`; `EarlierIsAnOrder` checks the order the runs use on short texts):

* `TypeCorrect`: `[]TypeOK`, from `Formed`. Sorting needs the order: that the positions
  of a set's elements by rank are all taken, each once, is `NthInOrder`, and
  `SortedElements` what follows from it about `SortedBy`.
* `AnswersRightly`: `[]Verdict`. Where a text is handed over, there is a ranking of
  values such that the root is in it and each value is spelled from lower ones. So nothing
  without a spelling is anywhere in it, no tag over a bare symbol, no bad key, no element
  of a set that `_spelling` could not spell, and no cycle. Where `dumps` refuses, the root has
  no spelling, whatever the objects not looked at are.
* `NoBlankNeverWritten`: `[]NoBlankWritten`, from the same invariant.

  The invariant is `Followed`. `Tracked` gives each frame the value it spells (`walk`),
  without whose spelling the root has none either, and a ranking of what has been
  spelled so far; a frame's earlier children are in it. `Judged` says that while an error is on
  its way out, and from the moment `_spelling` took one and answered with the empty text,
  the root has no spelling. That last part is why "the traversal is about to fail on this
  element anyway" (`_encode.py:176`) is right: a text for the root would contradict it.
  `RecursionError`, an exception of the program's own and the `ValueError` of `str()` are
  outcomes of their own and `Verdict` says nothing of them.

Only model-checked:

* liveness (`CallReturns`, `CellsSettle`, `ScanEnds`): out of the prover's reach;
* what refers to a recursive reference: `ReadsTheGrammar` and `RefusesOnlyNonsense` in so
  far as they speak of `Denoted` and not of `Rules`,
  `TooDeepIsDeep` as far as it speaks of the height of a value (the rest is `Guarded`),
  `WritesTheValue`, `WrittenIsReadable`, `PathLeadsToFault`, all of `Decoders`, and
  `ScansWhatIsWritten` and `WrittenReadsBack` of `Scanner`. So which text is written, as
  opposed to whether one is, is checked on small graphs only.

## Not modelled, and the plan

Not modelled at all: hashing, equality and pickling of `Symbol` and `Tagged`
(delegated to Python's tuples), the wording of errors, the conversion between decimal
and binary (Rust's) and with it underflow, what `typing` makes of an annotation
(`_origin`, `_args`), typing stubs and corpus, packaging.

Left out of what is modelled: an object graph that changes while `dumps` walks it (the
core walks the immutable copies the hook answers with); threads that compile aliases
(a memo belongs to one call, and classes, which are shared, are `Compile`'s); two members
of an enum with one spelling; the caches of `_fields` and of keys, in which two
computations store equal answers.

The order of work:

1. `Compile`, `ReadContract`, `Unions`, `Reader`, `Writer` with their runs, and the
   proofs above. Done.
2. `Claims`, `Aliases`, `Decoders` and `Meaning`: analysis and decoders over aliases that
   contain themselves, error paths, and writing back what was read. Done.
3. `Lexical`, `Scanner` and `Lexis`: positions, comments, escapes and numbers. Done.
4. `PlanProofs`, `ContractProofs`, `ReaderProofs`, `WriterProofs` and the rest of
   `UnionProofs`. Done.
5. `ScannerProofs` and `StringsReadBack`; that no text has two meanings, and that none with
   one is refused. Done.
6. Numbers read back by proof, as strings are; the text `dumps` hands over as one that
   `Rules` lead to, which would join `AnswersRightly` and `AcceptedSpells`.
