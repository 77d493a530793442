------------------------------ MODULE MCCompile ------------------------------
(***************************************************************************)
(* Class graphs for Compile. `ping` and `pong` name each other, the cycle  *)
(* that needs the memo; the other classes lead into it.                    *)
(***************************************************************************)
EXTENDS Compile

CONSTANTS ping, pong, late, odd

\* One clean cycle, with a self reference in it; `late` has an annotation that
\* is defined later and `odd` a field analyse refuses, and neither is named by
\* a class it names.
SoundCycle ==
    [c \in Class |-> CASE c = ping -> <<pong, ping>>
                       [] c = pong -> <<Leaf, ping>>
                       [] c = late -> <<ping, Leaf>>
                       [] c = odd  -> <<pong, Bad>>]

\* A cycle one member of which also names a class with an annotation that is
\* defined later, after its reference to the other member has been resolved.
LateCycle ==
    [c \in Class |-> CASE c = ping -> <<pong, late>>
                       [] c = pong -> <<ping>>
                       [] c = late -> <<Leaf>>]

\* A clean cycle and nothing else.
PlainCycle ==
    [c \in Class |-> CASE c = ping -> <<pong, Leaf>>
                       [] c = pong -> <<ping>>]

\* Every class has a handle of its own.
OwnHandle == [h \in Handle |-> h]
=============================================================================
