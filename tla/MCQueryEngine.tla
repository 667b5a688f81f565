--------------------------- MODULE MCQueryEngine ---------------------------
(***************************************************************************)
(* QueryEngine for TLC: three queries on two connections and two threads,  *)
(* a listing of two pages with one event on each, and one restart.         *)
(***************************************************************************)
EXTENDS QueryEngine, TLC

CONSTANTS q1, q2, q3, r1, r2

MCPageOf == r1 :> 1 @@ r2 :> 2

MCOnePage == r1 :> 1

Symmetry == Permutations(Query)

=============================================================================
