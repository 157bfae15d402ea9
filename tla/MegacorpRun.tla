----------------------------- MODULE MegacorpRun -----------------------------
(***************************************************************************)
(* What runners are promised about a Megacorp Run: a team is recruited,    *)
(* keeps its places under whatever names, and is paid once for each place, *)
(* if nobody dropped on the way; there is one run at a time.  A fault in   *)
(* the middle of a write ends the promise.  The specification that the     *)
(* engine and its database implement (World).                              *)
(***************************************************************************)
EXTENDS Naturals

CONSTANT Runners

VARIABLES
    phase,     \* "none", "running", "won" or "lost" and being settled, or "unknown"
    places,    \* how many places of the team each runner has
    unpaid,    \* those that have yet to be settled
    dropped,   \* somebody in the team has dropped
    wages      \* how many places each runner has been paid for, in this run and all before it

vars == <<phase, places, unpaid, dropped, wages>>

Nobody == [k \in Runners |-> 0]

Init ==
    /\ phase = "none" /\ places = Nobody /\ unpaid = Nobody
    /\ dropped = FALSE /\ wages = Nobody

Recruit ==
    /\ phase = "none" /\ phase' = "running"
    /\ \E team \in (SUBSET Runners) \ {{}} : places' = [k \in Runners |-> IF k \in team THEN 1 ELSE 0]
    /\ UNCHANGED <<unpaid, dropped, wages>>

(* A runner goes on under another name, or as another runner of the same      *)
(* person, who may have a place too.  What it was paid is not forgotten; of   *)
(* what the other was paid, the row may not have everything.                  *)
Become(j, k) ==
    /\ phase \in {"none", "running"} /\ j # k
    /\ places' = [places EXCEPT ![j] = 0, ![k] = places[j] + places[k]]
    /\ wages' \in [Runners -> Nat]
    /\ wages'[j] = 0 /\ wages[j] <= wages'[k] /\ wages'[k] <= wages[j] + wages[k]
    /\ \A i \in Runners \ {j, k} : wages'[i] = wages[i]
    /\ UNCHANGED <<phase, unpaid, dropped>>

Drop(k) ==
    /\ phase = "running" /\ places[k] > 0
    /\ dropped' = TRUE
    /\ UNCHANGED <<phase, places, unpaid, wages>>

(* A runner who has no place is gone for good.                                *)
Retire(gone) ==
    /\ phase \in {"none", "running"} /\ \A k \in gone : places[k] = 0
    /\ wages' = [k \in Runners |-> IF k \in gone THEN 0 ELSE wages[k]]
    /\ UNCHANGED <<phase, places, unpaid, dropped>>

(* The run ends: it is lost when somebody dropped, or is not there.           *)
Win ==
    /\ phase = "running" /\ ~dropped
    /\ phase' = "won" /\ unpaid' = places
    /\ UNCHANGED <<places, dropped, wages>>

Lose ==
    /\ phase = "running"
    /\ phase' = "lost" /\ unpaid' = places
    /\ UNCHANGED <<places, dropped, wages>>

Settle(k) ==
    /\ unpaid[k] > 0
    /\ unpaid' = [unpaid EXCEPT ![k] = @ - 1]
    /\ \/ phase = "won" /\ wages' = [wages EXCEPT ![k] = @ + 1]
       \/ phase \in {"won", "lost"} /\ UNCHANGED wages
    /\ UNCHANGED <<phase, places, dropped>>

(* A restart before any place is settled: the run goes on.                    *)
Resume ==
    /\ phase \in {"won", "lost"} /\ unpaid = places
    /\ phase' = "running" /\ unpaid' = Nobody
    /\ UNCHANGED <<places, dropped, wages>>

Close ==
    /\ phase \in {"won", "lost"} /\ unpaid = Nobody
    /\ phase' = "none" /\ places' = Nobody /\ dropped' = FALSE
    /\ UNCHANGED <<unpaid, wages>>

Fault ==
    /\ phase' = "unknown"
    /\ places' = Nobody /\ unpaid' = Nobody /\ dropped' = FALSE /\ wages' = Nobody

Next ==
    \/ \E gone \in SUBSET Runners : Retire(gone)
    \/ \E k \in Runners : Drop(k) \/ Settle(k) \/ \E j \in Runners : Become(j, k)
    \/ Recruit \/ Win \/ Lose \/ Resume \/ Close \/ Fault

Spec == Init /\ [][Next]_vars

=============================================================================
