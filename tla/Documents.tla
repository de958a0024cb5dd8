------------------------------ MODULE Documents -------------------------------
(***************************************************************************)
(* YAML and JSON documents, which the programs of docker-transfer read and *)
(* write.  A document is a function from the paths of its nodes to the     *)
(* nodes; the path of a node is a sequence of keys, and an item of a list  *)
(* has a key like an entry of a map.                                       *)
(***************************************************************************)
EXTENDS Integers, Sequences, SequencesExt

Path == Seq(STRING)

\* In the place of a document, or of a default, that is not there.
Nothing == <<>>

\* Every node but the root hangs on another one.
IsTree(t) ==
    /\ DOMAIN t \subseteq Path
    /\ \A p \in DOMAIN t : \A n \in 0..Len(p) : SubSeq(p, 1, n) \in DOMAIN t

\* The keys below a node, and the part of a document below it.
Keys(t, p) == {Last(x) : x \in {y \in DOMAIN t : Len(y) = Len(p) + 1 /\ IsPrefix(p, y)}}
Part(t, p) ==
    [q \in {SubSeq(x, Len(p) + 1, Len(x)) : x \in {y \in DOMAIN t : IsPrefix(p, y)}} |-> t[p \o q]]

\* One of them is on the way to the other.
Overlap(p, q) == IsPrefix(p, q) \/ IsPrefix(q, p)

==============================================================================
