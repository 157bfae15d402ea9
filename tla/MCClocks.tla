------------------------------ MODULE MCClocks -------------------------------
(* Small instances of Clocks.  *)
EXTENDS Clocks, TLC

CONSTANTS command, notice

Requests  == {{command}}
Cooldowns == (command :> 1) @@ (notice :> 2)

(* Bound: how often a runner is linked, and with how much on the wire; less   *)
(* happens to a ghost, and to one with a faction or a cooldown, which say     *)
(* nothing to its clocks.                                                     *)
FewLinks ==
    /\ links + Len(wire) <= IF ghost THEN 2 ELSE 3
    /\ chosen \/ started # Zero \/ Known # {}
          => links <= 1 /\ Len(wire) <= 1 /\ ~Exists("guest") /\ ~ghost /\ bot = "in"

=============================================================================
