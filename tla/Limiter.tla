------------------------------- MODULE Limiter -------------------------------
(***************************************************************************)
(* The cooldowns on what the bot answers (internal/irc/ratelimit.go): a    *)
(* table of when each key was last let through, which forgets old keys     *)
(* once it has grown large.  A key stands for a person (any command, a     *)
(* reply of many lines, a penalty notice) or for a command in a channel; a *)
(* request names the keys it needs and is given all of them or none.       *)
(*                                                                         *)
(* Clocks puts it in front of the engine's commands.                       *)
(***************************************************************************)
EXTENDS Naturals, FiniteSets

CONSTANTS
    Slots,       \* the keys
    Cooldown,    \* of each of them
    Roomy,       \* how many keys the table holds before it forgets any
    Forget       \* how old a key may be without being forgotten

ASSUME CooldownAssumption == Cooldown \in [Slots -> Nat] /\ \A k \in Slots : Cooldown[k] <= Forget
ASSUME ForgetAssumption == Roomy \in Nat /\ Forget \in Nat

VARIABLES
    now,      \* the local clock, which does not go back
    last,     \* when each key of the table was last let through
    granted,  \* history: when each key was last let through, in the table or not
    early     \* history: one was let through again within its cooldown

table   == <<last, granted, early>>
Known   == DOMAIN last
Never   == 0
Moments == Nat \ {Never}

LimiterInit ==
    /\ now = 1
    /\ last = [k \in {} |-> now]
    /\ granted = [k \in Slots |-> Never]
    /\ early = FALSE

Ready(k) == k \in Known => now - last[k] >= Cooldown[k]

(* Mistake: whatever is not of this moment is stale.  Not part of any action. *)
StaleAtOnce == {k \in Known : now > last[k]}

Stale == {k \in Known : now - last[k] > Forget}

Kept == IF Cardinality(Known) > Roomy THEN Known \ Stale ELSE Known

(* allowAll.  *)
Allowed(keys) ==
    /\ \A k \in keys : Ready(k)
    /\ last' = [k \in Kept \cup keys |-> IF k \in keys THEN now ELSE last[k]]
    /\ granted' = [k \in Slots |-> IF k \in keys THEN now ELSE granted[k]]
    /\ early' = (early \/ \E k \in keys : granted[k] # Never /\ now - granted[k] < Cooldown[k])

Denied(keys) ==
    /\ \E k \in keys : ~Ready(k)
    /\ UNCHANGED table

Ask  == (\E keys \in SUBSET Slots : Allowed(keys) \/ Denied(keys)) /\ UNCHANGED now
Pass == now' = now + 1 /\ UNCHANGED table

LimiterSpec == LimiterInit /\ [][Ask \/ Pass]_<<now, table>>

-----------------------------------------------------------------------------
(* No key is let through twice within its cooldown, whatever the table has    *)
(* forgotten in between (allowAll).                                           *)
Spaced == ~early

=============================================================================
