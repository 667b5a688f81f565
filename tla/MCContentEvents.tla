-------------------------- MODULE MCContentEvents --------------------------
(***************************************************************************)
(* ContentEvents for TLC: the contents are of one of the APIs.             *)
(***************************************************************************)
EXTENDS ContentEvents, TLC

CONSTANTS c1, c2, a1, a2

MCApiOf == [c \in Content |-> a1]

Symmetry == Permutations(Content)

=============================================================================
