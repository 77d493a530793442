------------------------------- MODULE Compile -------------------------------
(***************************************************************************)
(* How the Python side compiles the decoder of a dataclass, keeps it, and  *)
(* reads documents through it (python/sop/_decode.py and __init__.py).     *)
(*                                                                         *)
(* `loads[Shape]` is a handle. Its first read compiles the shape; the      *)
(* decoder of every dataclass met on the way is kept on the class, in its  *)
(* slot. A class that is reached again while it is still being compiled    *)
(* is answered by a forwarder to its memo cell, which lands later.         *)
(*                                                                         *)
(* A node is one compilation of one class: its memo cell, its plan and the *)
(* decoder closure over that plan. A decoder and a forwarder to it are     *)
(* both references to the node: they differ only while the cell is empty,  *)
(* and that is when calling the forwarder raises IndexError.               *)
(*                                                                         *)
(* Abstracted: a field is Leaf when its shape reaches no dataclass, Bad    *)
(* when `analyse` refuses it, and otherwise the one class it reaches; a    *)
(* field whose shape reaches several is several fields.                    *)
(***************************************************************************)
EXTENDS Naturals, Sequences, FiniteSets

CONSTANTS
    Thread,       \* the threads that call loads
    Handle,       \* the loads[Shape] objects
    Class,        \* the dataclasses of the program
    Leaf, Bad,    \* a field that reaches no dataclass; a field analyse refuses
    None,         \* an absent decoder
    Asks,         \* Asks[h]: the class a handle reads at
    Fields,       \* Fields[c]: what each init field of c reaches, in order
    Unresolved,   \* classes with an annotation that names nothing yet
    MaxBuilds,    \* bound: compilations started in a behaviour
    MaxDepth      \* bound: how deep a document nests dataclasses

ASSUME ConstantsAssumption ==
    /\ Leaf \notin Class /\ Bad \notin Class /\ Leaf # Bad
    /\ Asks \in [Handle -> Class]
    /\ Fields \in [Class -> Seq(Class \cup {Leaf, Bad})]
    /\ Unresolved \subseteq Class
    /\ MaxBuilds \in Nat /\ MaxDepth \in Nat

Build == 1..MaxBuilds
Node == [build: Build, class: Class]

ASSUME NoneAssumption == None \notin Node \cup Class /\ Leaf \notin Node

VARIABLES
    unresolved,   \* classes get_type_hints still fails on
    slot,         \* slot[c]: the node kept on class c, or None
    read,         \* read[h]: the compiled decoder a handle holds on to, or None
    cells,        \* the nodes whose memo cell exists
    landed,       \* the nodes whose cell has been filled
    plan,         \* plan[n]: the field decoders resolved so far
    builds,       \* compilations started so far
    failed,       \* compilations an exception has unwound
    pc,           \* what each thread is doing
    handle,       \* the handle each thread last called
    build,        \* each thread's current or last compilation, 0 before any
    stack,        \* the nodes a thread has under construction, outermost first
    at,           \* the node a thread is reading with
    left,         \* levels of dataclass the document still nests
    outcome       \* how each thread's last call ended

classVars == <<slot, cells, landed, plan>>
callVars == <<handle, at, left>>
vars == <<unresolved, slot, read, cells, landed, plan, builds, failed, pc,
          handle, build, stack, at, left, outcome>>

Stage == {"idle", "root", "hints", "fields", "landed", "reading"}
Outcome == {"none", "value", "mismatch", "shape_error", "name_error", "index_error"}
Compiling == {"root", "hints", "fields", "landed"}

TypeOK ==
    /\ unresolved \in SUBSET Class
    /\ slot \in [Class -> Node \cup {None}]
    /\ read \in [Handle -> Node \cup {None}]
    /\ cells \in SUBSET Node
    /\ landed \in SUBSET Node
    /\ plan \in [Node -> Seq(Node \cup {Leaf})]
    /\ builds \in 0..MaxBuilds
    /\ failed \in SUBSET Build
    /\ pc \in [Thread -> Stage]
    /\ handle \in [Thread -> Handle \cup {None}]
    /\ build \in [Thread -> 0..MaxBuilds]
    /\ stack \in [Thread -> Seq(Node)]
    /\ at \in [Thread -> Node \cup {None}]
    /\ left \in [Thread -> 0..MaxDepth]
    /\ outcome \in [Thread -> Outcome]

Init ==
    /\ unresolved = Unresolved
    /\ slot = [c \in Class |-> None]
    /\ read = [h \in Handle |-> None]
    /\ cells = {} /\ landed = {}
    /\ plan = [n \in Node |-> <<>>]
    /\ builds = 0 /\ failed = {}
    /\ pc = [t \in Thread |-> "idle"]
    /\ handle = [t \in Thread |-> None]
    /\ build = [t \in Thread |-> 0]
    /\ stack = [t \in Thread |-> <<>>]
    /\ at = [t \in Thread |-> None]
    /\ left = [t \in Thread |-> 0]
    /\ outcome = [t \in Thread |-> "none"]

-----------------------------------------------------------------------------
(* What a thread has in hand. *)

Top(t) == stack[t][Len(stack[t])]
NodeOf(t, c) == [build |-> build[t], class |-> c]
Open(t) == {stack[t][i] : i \in DOMAIN stack[t]}

\* The field the innermost record under construction is at.
AtField(t) ==
    /\ pc[t] = "fields"
    /\ Len(plan[Top(t)]) < Len(Fields[Top(t).class])
Field(t) == Fields[Top(t).class][Len(plan[Top(t)]) + 1]
Resolve(t, ref) == plan' = [plan EXCEPT ![Top(t)] = Append(@, ref)]

-----------------------------------------------------------------------------
(* Calling a handle. *)

\* The handle was compiled before: the read starts at once.
CallCompiled(t, h, depth) ==
    /\ pc[t] = "idle"
    /\ read[h] # None
    /\ pc' = [pc EXCEPT ![t] = "reading"]
    /\ handle' = [handle EXCEPT ![t] = h]
    /\ at' = [at EXCEPT ![t] = read[h]]
    /\ left' = [left EXCEPT ![t] = depth]
    /\ UNCHANGED <<unresolved, read, builds, failed, build, stack, outcome, classVars>>

\* The first read of a handle compiles, with a fresh memo.
CallCompile(t, h, depth) ==
    /\ pc[t] = "idle"
    /\ read[h] = None
    /\ builds < MaxBuilds
    /\ builds' = builds + 1
    /\ build' = [build EXCEPT ![t] = builds + 1]
    /\ pc' = [pc EXCEPT ![t] = "root"]
    /\ handle' = [handle EXCEPT ![t] = h]
    /\ left' = [left EXCEPT ![t] = depth]
    /\ UNCHANGED <<unresolved, read, failed, stack, at, outcome, classVars>>

\* A compiled decoder goes to the handle, and the document is read with it.
Hold(t, n) ==
    /\ read' = [read EXCEPT ![handle[t]] = n]
    /\ at' = [at EXCEPT ![t] = n]
    /\ pc' = [pc EXCEPT ![t] = "reading"]

\* An exception leaves the call: every record under construction is dropped,
\* and nothing that was already published is taken back.
Raise(t, what) ==
    /\ pc' = [pc EXCEPT ![t] = "idle"]
    /\ stack' = [stack EXCEPT ![t] = <<>>]
    /\ outcome' = [outcome EXCEPT ![t] = what]

-----------------------------------------------------------------------------
(* Compiling. *)

\* The root class already carries a decoder.
RootCached(t) ==
    /\ pc[t] = "root"
    /\ slot[Asks[handle[t]]] # None
    /\ Hold(t, slot[Asks[handle[t]]])
    /\ UNCHANGED <<unresolved, builds, failed, build, stack, handle, left, outcome, classVars>>

\* Mutated form: the class's slot is set as soon as the record is entered.
Enter_PublishesEarly(t, c) ==
    /\ cells' = cells \cup {NodeOf(t, c)}
    /\ slot' = [slot EXCEPT ![c] = NodeOf(t, c)]
    /\ stack' = [stack EXCEPT ![t] = Append(@, NodeOf(t, c))]
    /\ pc' = [pc EXCEPT ![t] = "hints"]
    /\ UNCHANGED <<unresolved, read, landed, plan, builds, failed, build,
                   callVars, outcome>>

\* A record is entered: its cell goes into the memo before anything is resolved.
Enter(t, c) ==
    /\ cells' = cells \cup {NodeOf(t, c)}
    /\ stack' = [stack EXCEPT ![t] = Append(@, NodeOf(t, c))]
    /\ pc' = [pc EXCEPT ![t] = "hints"]
    /\ UNCHANGED <<unresolved, slot, read, landed, plan, builds, failed, build,
                   callVars, outcome>>

RootFresh(t) ==
    /\ pc[t] = "root"
    /\ slot[Asks[handle[t]]] = None
    /\ Enter(t, Asks[handle[t]])

\* get_type_hints resolves every annotation of the class at once.
HintsResolved(t) ==
    /\ pc[t] = "hints"
    /\ Top(t).class \notin unresolved
    /\ pc' = [pc EXCEPT ![t] = "fields"]
    /\ UNCHANGED <<unresolved, read, builds, failed, build, stack, callVars, outcome, classVars>>

\* Mutated form: NameError is swallowed and the field left with a forwarder.
HintsUnresolved_Swallowed(t) ==
    /\ pc[t] = "hints"
    /\ Top(t).class \in unresolved
    /\ Len(stack[t]) > 1
    /\ stack' = [stack EXCEPT ![t] = SubSeq(@, 1, Len(@) - 1)]
    /\ plan' = [plan EXCEPT ![stack[t][Len(stack[t]) - 1]] = Append(@, Top(t))]
    /\ pc' = [pc EXCEPT ![t] = "fields"]
    /\ UNCHANGED <<unresolved, slot, read, cells, landed, builds, failed, build, callVars, outcome>>

\* ... or raises NameError for one that names nothing yet.
HintsUnresolved(t) ==
    /\ pc[t] = "hints"
    /\ Top(t).class \in unresolved
    /\ failed' = failed \cup {build[t]}
    /\ Raise(t, "name_error")
    /\ UNCHANGED <<unresolved, read, builds, build, callVars, classVars>>

FieldLeaf(t) ==
    /\ AtField(t)
    /\ Field(t) = Leaf
    /\ Resolve(t, Leaf)
    /\ UNCHANGED <<unresolved, slot, read, cells, landed, builds, failed, pc,
                   build, stack, callVars, outcome>>

\* Mutated form: a field that cannot be analysed is read as anything.
FieldBad_ReadAsAny(t) ==
    /\ AtField(t)
    /\ Field(t) = Bad
    /\ Resolve(t, Leaf)
    /\ UNCHANGED <<unresolved, slot, read, cells, landed, builds, failed, pc,
                   build, stack, callVars, outcome>>

\* analyse refuses the field's shape, or a shape inside it.
FieldBad(t) ==
    /\ AtField(t)
    /\ Field(t) = Bad
    /\ failed' = failed \cup {build[t]}
    /\ Raise(t, "shape_error")
    /\ UNCHANGED <<unresolved, read, builds, build, callVars, classVars>>

\* Mutated form: the memo is not consulted, and the class is compiled again.
FieldPending_Recompiles(t) ==
    /\ AtField(t)
    /\ Field(t) \in Class
    /\ NodeOf(t, Field(t)) \in cells
    /\ Len(stack[t]) < 2 * Cardinality(Class)
    /\ Enter(t, Field(t))

\* Mutated form: the field forwards to the record it is a field of.
FieldPending_Innermost(t) ==
    /\ AtField(t)
    /\ Field(t) \in Class
    /\ NodeOf(t, Field(t)) \in cells
    /\ Resolve(t, Top(t))
    /\ UNCHANGED <<unresolved, slot, read, cells, landed, builds, failed, pc,
                   build, stack, callVars, outcome>>

\* The class is in the memo: the field forwards to its cell.
FieldPending(t) ==
    /\ AtField(t)
    /\ Field(t) \in Class
    /\ NodeOf(t, Field(t)) \in cells
    /\ Resolve(t, NodeOf(t, Field(t)))
    /\ UNCHANGED <<unresolved, slot, read, cells, landed, builds, failed, pc,
                   build, stack, callVars, outcome>>

\* Mutated form: the slot is taken as it is, decoder or not.
FieldCached_Unchecked(t) ==
    /\ AtField(t)
    /\ Field(t) \in Class
    /\ NodeOf(t, Field(t)) \notin cells
    /\ Resolve(t, slot[Field(t)])
    /\ UNCHANGED <<unresolved, slot, read, cells, landed, builds, failed, pc,
                   build, stack, callVars, outcome>>

\* The class carries a decoder, whoever compiled it.
FieldCached(t) ==
    /\ AtField(t)
    /\ Field(t) \in Class
    /\ NodeOf(t, Field(t)) \notin cells
    /\ slot[Field(t)] # None
    /\ Resolve(t, slot[Field(t)])
    /\ UNCHANGED <<unresolved, slot, read, cells, landed, builds, failed, pc,
                   build, stack, callVars, outcome>>

FieldFresh(t) ==
    /\ AtField(t)
    /\ Field(t) \in Class
    /\ NodeOf(t, Field(t)) \notin cells
    /\ slot[Field(t)] = None
    /\ Enter(t, Field(t))

\* Mutated form: the decoder is never put into its cell.
Land_CellLeftEmpty(t) ==
    /\ pc[t] = "fields"
    /\ Len(plan[Top(t)]) = Len(Fields[Top(t).class])
    /\ pc' = [pc EXCEPT ![t] = "landed"]
    /\ UNCHANGED <<unresolved, slot, read, cells, landed, plan, builds, failed,
                   build, stack, callVars, outcome>>

\* Every field is resolved: the decoder lands in its cell ...
Land(t) ==
    /\ pc[t] = "fields"
    /\ Len(plan[Top(t)]) = Len(Fields[Top(t).class])
    /\ landed' = landed \cup {Top(t)}
    /\ pc' = [pc EXCEPT ![t] = "landed"]
    /\ UNCHANGED <<unresolved, slot, read, cells, plan, builds, failed, build,
                   stack, callVars, outcome>>

\* Mutated form: the decoder is not kept on the class.
Publish_NotKept(t) ==
    /\ pc[t] = "landed"
    /\ stack' = [stack EXCEPT ![t] = SubSeq(@, 1, Len(@) - 1)]
    /\ IF Len(stack[t]) = 1
         THEN Hold(t, Top(t)) /\ UNCHANGED plan
         ELSE /\ plan' = [plan EXCEPT ![stack[t][Len(stack[t]) - 1]] = Append(@, Top(t))]
              /\ pc' = [pc EXCEPT ![t] = "fields"]
              /\ UNCHANGED <<read, at>>
    /\ UNCHANGED <<unresolved, slot, cells, landed, builds, failed, build, handle, left, outcome>>

\* Mutated form: the first record to be finished ends the compilation.
Publish_EndsEarly(t) ==
    /\ pc[t] = "landed"
    /\ slot' = [slot EXCEPT ![Top(t).class] = Top(t)]
    /\ stack' = [stack EXCEPT ![t] = <<>>]
    /\ Hold(t, Top(t))
    /\ UNCHANGED <<unresolved, plan, cells, landed, builds, failed, build, handle, left, outcome>>

\* Mutated form: only the record asked for is kept on its class, once all is done.
Publish_RootOnly(t) ==
    /\ pc[t] = "landed"
    /\ slot' = IF Len(stack[t]) = 1 THEN [slot EXCEPT ![Top(t).class] = Top(t)] ELSE slot
    /\ stack' = [stack EXCEPT ![t] = SubSeq(@, 1, Len(@) - 1)]
    /\ IF Len(stack[t]) = 1
         THEN Hold(t, Top(t)) /\ UNCHANGED plan
         ELSE /\ plan' = [plan EXCEPT ![stack[t][Len(stack[t]) - 1]] = Append(@, Top(t))]
              /\ pc' = [pc EXCEPT ![t] = "fields"]
              /\ UNCHANGED <<read, at>>
    /\ UNCHANGED <<unresolved, cells, landed, builds, failed, build, handle, left, outcome>>

\* ... and is then kept on the class, and returned to the field that wanted it
\* or, for the root, to the handle.
Publish(t) ==
    /\ pc[t] = "landed"
    /\ slot' = [slot EXCEPT ![Top(t).class] = Top(t)]
    /\ stack' = [stack EXCEPT ![t] = SubSeq(@, 1, Len(@) - 1)]
    /\ IF Len(stack[t]) = 1
         THEN Hold(t, Top(t)) /\ UNCHANGED plan
         ELSE /\ plan' = [plan EXCEPT ![stack[t][Len(stack[t]) - 1]] = Append(@, Top(t))]
              /\ pc' = [pc EXCEPT ![t] = "fields"]
              /\ UNCHANGED <<read, at>>
    /\ UNCHANGED <<unresolved, cells, landed, builds, failed, build, handle, left, outcome>>

-----------------------------------------------------------------------------
(* Reading one document with a compiled decoder. *)

\* The document nests another dataclass under one of the record's fields.
ReadNested(t) ==
    /\ pc[t] = "reading" /\ left[t] > 0
    /\ \E i \in DOMAIN plan[at[t]] :
         /\ plan[at[t]][i] # Leaf
         /\ IF plan[at[t]][i] \in landed
              THEN /\ at' = [at EXCEPT ![t] = plan[at[t]][i]]
                   /\ left' = [left EXCEPT ![t] = @ - 1]
                   /\ UNCHANGED <<pc, stack, outcome>>
              ELSE Raise(t, "index_error") /\ UNCHANGED <<at, left>>
    /\ UNCHANGED <<unresolved, read, builds, failed, build, handle, classVars>>

\* The document nests no further and fits, or misses the shape where it is; a text
\* that does not parse ends the read in the same way, before it begins.
ReadEnds(t, what) ==
    /\ pc[t] = "reading"
    /\ Raise(t, what)
    /\ UNCHANGED <<unresolved, read, builds, failed, build, callVars, classVars>>

-----------------------------------------------------------------------------

\* The program defines the name an annotation was waiting for.
Define(c) ==
    /\ c \in unresolved
    /\ unresolved' = unresolved \ {c}
    /\ UNCHANGED <<read, builds, failed, pc, build, stack, callVars, outcome, classVars>>

Call(t) == \E h \in Handle, depth \in 0..MaxDepth :
               CallCompiled(t, h, depth) \/ CallCompile(t, h, depth)

\* What a thread inside a call does next.
Step(t) ==
    \/ RootCached(t) \/ RootFresh(t)
    \/ HintsResolved(t) \/ HintsUnresolved(t)
    \/ FieldLeaf(t) \/ FieldBad(t)
    \/ FieldPending(t) \/ FieldCached(t) \/ FieldFresh(t)
    \/ Land(t) \/ Publish(t)
    \/ ReadNested(t)
    \/ \E what \in {"value", "mismatch"} : ReadEnds(t, what)

Next ==
    \/ \E t \in Thread : Call(t) \/ Step(t)
    \/ \E c \in Class : Define(c)

Spec == Init /\ [][Next]_vars
FairSpec == Spec /\ \A t \in Thread : WF_vars(Step(t))

-----------------------------------------------------------------------------
(* Properties. *)

\* A decoder found on a class is that class's own, and its cell has landed: the
\* slot is never a way to a decoder that is still under construction, and never
\* to that of another class (_SLOT, read out of the class's own __dict__).
PublishedLanded ==
    \A c \in Class : slot[c] # None => slot[c] \in landed /\ slot[c].class = c

\* Whatever a plan refers to can be called now, or is still being compiled by
\* some thread, or belongs to a compilation that an exception unwound. The last
\* two are the only ways a published decoder can forward to an empty cell.
ReferencesAccounted ==
    \A n \in Node : \A i \in DOMAIN plan[n] :
        \/ plan[n][i] = Leaf
        \/ plan[n][i] \in landed
        \/ \E t \in Thread : plan[n][i] \in Open(t)
        \/ plan[n][i].build \in failed

\* A decoder others can reach reads exactly the fields its class declares, each
\* with a decoder of the class that field names, however the memo, the slots and
\* the other threads supplied it.
PlanFollowsFields ==
    \A n \in landed :
        /\ Len(plan[n]) = Len(Fields[n.class])
        /\ \A i \in DOMAIN plan[n] :
             IF plan[n][i] = Leaf THEN Fields[n.class][i] = Leaf
                                  ELSE plan[n][i].class = Fields[n.class][i]

\* Threads that race through a cycle, and compilations that fail and are tried again,
\* repeat no more than they must: a class is compiled to the end at most as often as
\* there are threads, since each that was not under way already takes the decoder kept
\* on it ("the expensive part [...] is kept on the class", README.md:336).
CompiledOncePerThread ==
    \A c \in Class : Cardinality({n \in landed : n.class = c}) <= Cardinality(Thread)

\* No read of a document ends in IndexError, which is not a SopError
\* (tests/test_soundness.py: "Anything other than a SopError leaving `loads` ...").
NoIndexError == \A t \in Thread : outcome[t] # "index_error"

\* A class is compiled to the end at most once in the life of the process: the
\* expensive part is kept on the class, however many handles lead to it.
CompiledOnce == \A m, n \in landed : m.class = n.class => m = n

\* Every call comes back: cycles among the classes do not keep a compilation
\* going, nor a document of finite depth a read.
CallReturns == \A t \in Thread : pc[t] # "idle" ~> pc[t] = "idle"

\* Every memo cell of a compilation is filled in the end unless it fails, so a
\* forwarder that finds one empty meanwhile found it empty for a while only.
CellsSettle ==
    \A b \in Build :
        (\E n \in cells : n.build = b)
            ~> (b \in failed \/ \A n \in cells : n.build = b => n \in landed)

\* The compiled decoders, the memo and the stack are invisible to a caller.
Contract == INSTANCE ReadContract WITH
    missing <- unresolved,
    asked <- [t \in Thread |-> IF pc[t] = "idle" THEN None ELSE Asks[handle[t]]]

\* One thread over classes none of which is on a cycle with a class that fails:
\* every call is answered as the contract says, from the class and the document
\* alone ("Decoding has no state to carry between calls",
\* tests/test_soundness.py:419).
KeepsContract == Contract!Spec
=============================================================================
