----------------------------- MODULE ArtifactPool -----------------------------
(***************************************************************************)
(* What players are promised about the named artifacts: there is one of    *)
(* each, it is in the drop pool or with one runner, and it moves from the  *)
(* pool to a runner, from runner to runner and back to the pool.  The      *)
(* specification the engine and its database implement (Artifacts).        *)
(***************************************************************************)

CONSTANTS Keys, Relics

VARIABLES
    keeper,   \* the runners whose equipment shows each artifact
    free      \* the artifacts in the drop pool

Init ==
    /\ keeper = [r \in Relics |-> {}]
    /\ free = Relics

Stays(r) ==
    /\ keeper'[r] = keeper[r]
    /\ r \in free' <=> r \in free

(* A drop finds the artifact in the pool. *)
Drops(r) ==
    /\ r \in free /\ keeper[r] = {}
    /\ r \notin free' /\ \E k \in Keys : keeper'[r] = {k}

(* Burnt out, or its keeper was offline too long. *)
Returns(r) ==
    /\ r \notin free /\ \E k \in Keys : keeper[r] = {k}
    /\ r \in free' /\ keeper'[r] = {}

(* Stolen, or its keeper took another identity. *)
Passes(r) ==
    /\ r \notin free /\ \E k \in Keys : keeper[r] = {k}
    /\ r \notin free' /\ \E k \in Keys : keeper'[r] = {k}

(* Gone from the game: nobody has it and the pool does not either. *)
Vanishes(r) ==
    /\ r \notin free /\ \E k \in Keys : keeper[r] = {k}
    /\ r \notin free' /\ keeper'[r] = {}

Moves(r) == Stays(r) \/ Drops(r) \/ Returns(r) \/ Passes(r)

(* Several artifacts may move at once: a migration hands over all of them. *)
Circulate == \A r \in Relics : Moves(r)
Leak      == \A r \in Relics : Moves(r) \/ Vanishes(r)

Spec      == Init /\ [][Circulate]_<<keeper, free>>
LeakySpec == Init /\ [][Leak]_<<keeper, free>>

=============================================================================
