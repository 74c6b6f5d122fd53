-------------------------- MODULE MCResourceStore --------------------------
(* Small instances of ResourceStore for TLC. *)
EXTENDS ResourceStore

CONSTANTS c1, c2, f1, f2, v1, v2

Record(n, d) == [id |-> n, data |-> d]
Plain == [f \in Fields |-> v1]

\* nothing; entities 1 and 2, the second of them first; the largest id and 1
MCSeeds == {<<>>, <<Record(2, Plain), Record(1, Plain)>>,
            <<Record(TopId, Plain), Record(1, Plain)>>}

Symmetry == Permutations(Clients) \cup Permutations(Fields)
=============================================================================
