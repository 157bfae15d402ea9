----------------------------- MODULE MCArtifacts -----------------------------
(* Small instances of Artifacts.  Guests, accounts and artifacts are         *)
(* interchangeable; the safety runs without a refinement use that.           *)
EXTENDS Artifacts, TLC

(* After an out-of-date row has been loaded the invariant asks nothing more. *)
NothingStale == ~staleRead

Symmetry == Permutations(Guests) \cup Permutations(Accounts)

=============================================================================
