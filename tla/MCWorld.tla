------------------------------- MODULE MCWorld -------------------------------
(* Small instances of World.  *)
EXTENDS World, TLC

(* States after a torn call are not followed: what the code promises of them  *)
(* is nothing.                                                                *)
NothingTorn == ~torn

(* Bound: runners at once.  *)
FewRunners == Cardinality(users) <= 3

Interchangeable == Permutations(Guests) \cup Permutations(Accounts)

=============================================================================
