------------------------------ MODULE Spellable ------------------------------
(***************************************************************************)
(* What of an object graph has a spelling, with nothing said of how it is  *)
(* found: no traversal, stack, hook call or order. It is what the answers  *)
(* of dumps are measured against, over all graphs in WriterProofs and over *)
(* small ones in MCWriter.                                                 *)
(***************************************************************************)
EXTENDS Writer

\* A value is spelled at a place: under a tag or not, and offered to the hook or not.
\* A graph knows what the values are that have been looked at.
Seen(graph, v) == v.k = "ref" => v.n \in DOMAIN graph
At(graph, v) == IF v.k = "ref" THEN graph[v.n] ELSE v
Elements(o) == {<<o.kids[j], FALSE, TRUE>> : j \in 1..Len(o.kids)}

\* A value has a spelling at a place once some others have theirs.
Fine(graph, done, x) ==
    LET o == At(graph, x[1])
    IN  /\ Seen(graph, x[1])
        /\ \/ o.k = "null" /\ ~x[2]
           \/ o.k = "str"
           \/ o.k = "tagged" /\ <<o.kids[1], TRUE, TRUE>> \in done
           \/ o.k = "array" /\ Elements(o) \subseteq done
           \/ /\ o.k = "object" /\ Elements(o) \subseteq done
              /\ \A j \in 1..Len(o.kids) : o.keys[j] # BadKey
           \/ x[3] /\ o.k = "set" /\ Elements(o) \subseteq done
           \/ /\ x[3] /\ o.k \in (Known \ {"set"}) \cup {"stray"}
              /\ <<Spelled(o), x[2], FALSE>> \in done

\* The values a graph spells, each after those it is made of: none is made of itself.
Sound(graph, rank, n) ==
    /\ n \in Nat
    /\ \A x \in DOMAIN rank :
          /\ rank[x] \in Nat /\ rank[x] < n
          /\ Fine(graph, {y \in DOMAIN rank : rank[y] < rank[x]}, x)

\* A graph of which more is known, and what has no spelling however much is.
Grown(graph, later) ==
    DOMAIN graph \subseteq DOMAIN later /\ \A n \in DOMAIN graph : later[n] = graph[n]
Bad(graph, x) ==
    \A later, rank, n : Grown(graph, later) /\ Sound(later, rank, n) => x \notin DOMAIN rank

\* The value dumps is called with.
Whole == <<Ref(Root), FALSE, TRUE>>

\* Where a text is handed over, the whole value and everything it is made of has been
\* spelled, each after what it is made of: nothing that has no spelling is in it, and
\* no cycle. Where dumps refuses, the whole has no spelling, whatever the objects are
\* that were not looked at.
Verdict ==
    /\ outcome = "written" => \E rank, n : Sound(heap, rank, n) /\ Whole \in DOMAIN rank
    /\ outcome = "refused" => Bad(heap, Whole)
==============================================================================
