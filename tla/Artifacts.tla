------------------------------ MODULE Artifacts ------------------------------
(***************************************************************************)
(* The named artifacts of NEONGRID and the two copies of every runner.     *)
(*                                                                         *)
(* The engine (internal/game) keeps each runner in memory and writes it    *)
(* through to SQLite (internal/storage) with Save; which artifacts are     *)
(* taken is known only to the table rare_items.  One engine call holds the *)
(* mutex throughout, but it reaches the database several times, and the    *)
(* process may stop, or a write may fail, between any two of those writes. *)
(* So a step here is the part of a call that ends with one write, and      *)
(* `call' says what the call that holds the mutex still has to do.         *)
(*                                                                         *)
(* Every artifact has an equipment slot of its own (rareItems), so a       *)
(* runner's equipment is a function from artifacts to what the artifact's  *)
(* slot holds.  Levels, Heat and odds are abstracted: which runner drops,  *)
(* loses or wears out an artifact is nondeterministic.                     *)
(***************************************************************************)

CONSTANTS
    Guests,            \* identity keys of guest runners, "guest:<nick>"
    Accounts,          \* identity keys of account runners, "acct:<name>"
    Relics,            \* the named artifacts, one per equipment slot
    Decks,             \* the artifacts a data leak renames (the deck slot)
    Faults,            \* what may go wrong: "crash", "error" (a failed write)
    OrderedDeadlines,  \* an offline guest passes artifact_offline_days, and a
                       \* Tick sees it, before guest_retention_days passes
    ArtifactsOutrate   \* when a guest and an account merge, an artifact rates
                       \* above the Mk gear it competes with

ASSUME KeysAssumption == Guests \cap Accounts = {}
ASSUME DecksAssumption == Decks \subseteq Relics
ASSUME FaultsAssumption == Faults \subseteq {"crash", "error"}
ASSUME DeadlinesAssumption == OrderedDeadlines \in BOOLEAN
ASSUME RatingsAssumption == ArtifactsOutrate \in BOOLEAN

Keys == Guests \cup Accounts

(* What a slot holds: Mk gear, the artifact under the name rare_items knows, *)
(* or the artifact under the name a data leak gave it.                       *)
Fits == {"standard", "artifact", "leaked"}

Equipment == [Relics -> Fits]

Bare == [r \in Relics |-> "standard"]

VARIABLES
    users,    \* memory: the runners the engine knows
    linked,   \* memory: those with Connected set
    gear,     \* memory: their equipment (Bare for a key not in users)
    stored,   \* database: the runners with a row in players
    rows,     \* database: their equipment (Bare for a key not in stored)
    claims,   \* database: the names in rare_items
    call,     \* what the call that holds the mutex has left to do
    staleRead \* history: a row older than the runner in memory was loaded

memory   == <<users, linked, gear>>
database == <<stored, rows, claims>>
vars     == <<users, linked, gear, stored, rows, claims, call, staleRead>>

(* Where the call is: `left' are the runners its loop has not reached, `dirty' *)
(* the one it has changed and not yet saved, `slots' the equipment slots its   *)
(* inner loop has left, `spent' the artifact a salvage roll may not return.    *)
Ops   == {"idle", "leak", "tick", "burn", "salvage", "abandon", "save"}
Calls == [op: Ops, left: SUBSET Keys, dirty: SUBSET Keys,
          slots: SUBSET Relics, spent: SUBSET Relics]

Call(op, left, dirty, slots, spent) ==
    [op |-> op, left |-> left, dirty |-> dirty, slots |-> slots, spent |-> spent]

Idle           == Call("idle", {}, {}, {}, {})
Ticking(left)  == Call("tick", left, {}, {}, {})
Saving(k)      == Call("save", {}, {k}, {}, {})

Held(k) == {r \in Relics : gear[k][r] # "standard"}

Init ==
    /\ users = {} /\ linked = {} /\ gear = [k \in Keys |-> Bare]
    /\ stored = {} /\ rows = [k \in Keys |-> Bare] /\ claims = {}
    /\ call = Idle /\ staleRead = FALSE

-----------------------------------------------------------------------------
(* ClaimsAnything, ReleasedNot, RetireKeepsItem, VisitOfflineGuest,          *)
(* PruneLinkedToo, TheftCopies, TheftDestroys and SkipFinishSave are not part *)
(* of Next: they are mistakes the definition after each could contain, and   *)
(* serve to show that a property notices.                                    *)

(* Writes.  A call changes the runner in memory and then saves it; when the  *)
(* save fails the call returns, and memory stays ahead of the row.           *)

Saved(k, next) ==
    /\ stored' = stored \cup {k}
    /\ rows' = [rows EXCEPT ![k] = gear'[k]]
    /\ call' = next

SaveFailed ==
    /\ "error" \in Faults
    /\ call' = Idle
    /\ UNCHANGED <<stored, rows>>

Save(k, next) == Saved(k, next) \/ SaveFailed

-----------------------------------------------------------------------------
(* Calls of the IRC side: one runner links, acts or leaves.                  *)

(* Join and Bind without a guest to migrate: a new runner has no equipment.  *)
Join(k) ==
    /\ call = Idle
    /\ users' = users \cup {k}
    /\ linked' = linked \cup {k}
    /\ gear' = [gear EXCEPT ![k] = IF k \in users THEN @ ELSE Bare]
    /\ Save(k, Idle)
    /\ UNCHANGED <<claims, staleRead>>

(* Disconnect, and what DisconnectAll and Reconcile do to one runner.        *)
Leave(k) ==
    /\ call = Idle
    /\ k \in linked
    /\ linked' = linked \ {k}
    /\ UNCHANGED <<users, gear, claims, staleRead>>
    /\ Save(k, Idle)

(* Activity and the commands that save the runner they act on.               *)
Act(k) ==
    /\ call = Idle
    /\ k \in users
    /\ UNCHANGED <<memory, claims, staleRead>>
    /\ Saved(k, Idle)

(* Rename onto a free guest key: the old row is deleted, then the new one is *)
(* saved.  The runner has left the user map under its old key by then, so    *)
(* when the delete fails it is under no key at all.                          *)
Rename(old, new) ==
    /\ call = Idle
    /\ old \in Guests \cap linked /\ new \in Guests \ users
    /\ \/ /\ users' = (users \ {old}) \cup {new}
          /\ linked' = (linked \ {old}) \cup {new}
          /\ gear' = [gear EXCEPT ![old] = Bare, ![new] = gear[old]]
          /\ stored' = stored \ {old}
          /\ rows' = [rows EXCEPT ![old] = Bare]
          /\ call' = Saving(new)
       \/ /\ "error" \in Faults
          /\ users' = users \ {old}
          /\ linked' = linked \ {old}
          /\ gear' = [gear EXCEPT ![old] = Bare]
          /\ UNCHANGED <<stored, rows, call>>
    /\ UNCHANGED <<claims, staleRead>>

(* A guest becomes part of an account: the guest is saved, MigrateGuest      *)
(* merges its row into the account's row, slot by slot the higher rating,    *)
(* and the result replaces both in memory.                                   *)
Merged(fits, g, a) ==
    /\ \A r \in Relics : fits[r] \in {gear[g][r], rows[a][r]}
    /\ a \notin stored => fits = gear[g]
    /\ ArtifactsOutrate =>
          \A r \in Relics : fits[r] = "standard" =>
              gear[g][r] = "standard" /\ rows[a][r] = "standard"

Migrate(g, a) ==
    /\ call = Idle
    /\ g \in Guests \cap users /\ a \in Accounts
    /\ \E fits \in Equipment :
          /\ Merged(fits, g, a)
          /\ gear' = [gear EXCEPT ![g] = Bare, ![a] = fits]
          /\ rows' = [rows EXCEPT ![g] = Bare, ![a] = fits]
    /\ users' = (users \ {g}) \cup {a}
    /\ linked' = (linked \ {g}) \cup {a}
    /\ stored' = (stored \ {g}) \cup {a}
    /\ call' = Saving(a)
    /\ staleRead' = (staleRead \/ rows[a] # gear[a])
    /\ UNCHANGED claims

(* Mistake: the second runner is not saved. *)
SkipFinishSave(k) ==
    /\ call.op = "save" /\ k \in call.dirty
    /\ call' = Idle
    /\ UNCHANGED <<memory, database, staleRead>>

(* The last write of Rename, of a migration and of a collision.              *)
FinishSave(k) ==
    /\ call.op = "save" /\ k \in call.dirty
    /\ UNCHANGED <<memory, claims, staleRead>>
    /\ Saved(k, Idle)

-----------------------------------------------------------------------------
(* Tick: perhaps a city event, then every runner in turn, then a collision.  *)

BeginTick ==
    /\ call = Idle
    /\ \/ call' = Call("leak", linked, {}, {}, {})
       \/ call' = Ticking(users)
    /\ UNCHANGED <<memory, database, staleRead>>

(* A data leak overclocks the deck of a linked runner and says so in its     *)
(* name, whatever deck it is.                                                *)
Overclocked(fits) ==
    [r \in Relics |-> IF r \in Decks /\ fits[r] = "artifact" THEN "leaked" ELSE fits[r]]

LeakRunner(k) ==
    /\ call.op = "leak" /\ k \in call.left
    /\ gear' = [gear EXCEPT ![k] = Overclocked(@)]
    /\ Save(k, [call EXCEPT !.left = @ \ {k}])
    /\ UNCHANGED <<users, linked, claims, staleRead>>

EndLeak ==
    /\ call.op = "leak" /\ call.left = {}
    /\ call' = Ticking(users)
    /\ UNCHANGED <<memory, database, staleRead>>

(* Mistake: a claim succeeds for a name that is taken. *)
ClaimsAnything == Relics

(* ClaimRareItem inserts a name into rare_items unless it is there.          *)
Claimable == Relics \ claims

(* A linked runner's turn: an encounter may win an unclaimed artifact, and   *)
(* some of those it held before may have reached their burn-out level.       *)
VisitLinked(k) ==
    /\ call.op = "tick" /\ k \in call.left \cap linked
    /\ \E drop \in SUBSET Claimable :
          /\ \A r, s \in drop : r = s
          /\ claims' = claims \cup drop
          /\ gear' = [gear EXCEPT ![k] =
                        [r \in Relics |-> IF r \in drop THEN "artifact" ELSE @[r]]]
          /\ \E worn \in SUBSET (Held(k) \ drop) :
                call' = Call("burn", call.left \ {k}, {k}, worn, {})
    /\ UNCHANGED <<users, linked, stored, rows, staleRead>>

(* Mistake: the name stays in rare_items. *)
ReleasedNot(k, r) == claims

(* ReleaseRareItem deletes the row of the name the item has now.             *)
Released(k, r) == IF gear[k][r] = "artifact" THEN claims \ {r} ELSE claims

(* Mistake: the slot is not refitted. *)
RetireKeepsItem(k, r) == claims' = Released(k, r) /\ UNCHANGED gear

(* The artifact is released, and Mk gear takes its place. *)
Retire(k, r) ==
    /\ claims' = Released(k, r)
    /\ gear' = [gear EXCEPT ![k][r] = "standard"]

(* A worn-out artifact is retired, then the drop table is rolled again. *)
BurnOut(k, r) ==
    /\ call.op = "burn" /\ k \in call.dirty /\ r \in call.slots
    /\ Retire(k, r)
    /\ call' = [call EXCEPT !.op = "salvage", !.slots = @ \ {r},
                            !.spent = IF gear[k][r] = "artifact" THEN {r} ELSE {}]
    /\ UNCHANGED <<users, linked, stored, rows, staleRead>>

Salvage(k) ==
    /\ call.op = "salvage" /\ k \in call.dirty
    /\ \E drop \in SUBSET (Claimable \ call.spent) :
          /\ \A r, s \in drop : r = s
          /\ claims' = claims \cup drop
          /\ gear' = [gear EXCEPT ![k] =
                        [r \in Relics |-> IF r \in drop THEN "artifact" ELSE @[r]]]
          /\ call' = [call EXCEPT !.op = "burn", !.slots = @ \ drop, !.spent = {}]
    /\ UNCHANGED <<users, linked, stored, rows, staleRead>>

EndVisit(k) ==
    /\ call.op \in {"burn", "abandon"} /\ call.slots = {} /\ k \in call.dirty
    /\ UNCHANGED <<memory, claims, staleRead>>
    /\ Saved(k, Ticking(call.left))

(* Mistake: only guests are visited when offline. *)
VisitOfflineGuest(k) ==
    /\ call.op = "tick" /\ k \in call.left \ linked
    /\ \/ call' = Ticking(call.left \ {k})
       \/ k \in Guests /\ Held(k) # {}
          /\ call' = Call("abandon", call.left \ {k}, {k}, Held(k), {})
    /\ UNCHANGED <<memory, database, staleRead>>

(* An offline runner's turn: nothing is due, or it has been away longer than *)
(* artifact_offline_days and its artifacts are released one by one, or, a    *)
(* guest away longer than guest_retention_days, it is deleted.               *)
VisitOffline(k) ==
    /\ call.op = "tick" /\ k \in call.left \ linked
    /\ \/ call' = Ticking(call.left \ {k})
       \/ Held(k) # {} /\ call' = Call("abandon", call.left \ {k}, {k}, Held(k), {})
    /\ UNCHANGED <<memory, database, staleRead>>

Abandon(k, r) ==
    /\ call.op = "abandon" /\ k \in call.dirty /\ r \in call.slots
    /\ Retire(k, r)
    /\ call' = [call EXCEPT !.slots = @ \ {r}]
    /\ UNCHANGED <<users, linked, stored, rows, staleRead>>

Delete(k) ==
    /\ users' = users \ {k}
    /\ gear' = [gear EXCEPT ![k] = Bare]
    /\ stored' = stored \ {k}
    /\ rows' = [rows EXCEPT ![k] = Bare]
    /\ call' = Ticking(call.left \ {k})
    /\ UNCHANGED <<linked, claims, staleRead>>

(* Mistake: presence is not asked about. *)
PruneLinkedToo(k) == call.op = "tick" /\ k \in call.left \cap Guests /\ Delete(k)

Prune(k) ==
    /\ call.op = "tick" /\ k \in (call.left \cap Guests) \ linked
    /\ OrderedDeadlines => Held(k) = {}
    /\ Delete(k)

(* Mistake: the loser keeps the artifact. *)
TheftCopies(winner, loser, loot) ==
    [gear EXCEPT ![winner] = [r \in Relics |-> IF r \in loot THEN gear[loser][r] ELSE @[r]]]

(* Mistake: the winner does not get it. *)
TheftDestroys(winner, loser, loot) ==
    [gear EXCEPT ![loser] = [r \in Relics |-> IF r \in loot THEN "standard" ELSE @[r]]]

(* A collision: the winner may walk off with one of the loser's artifacts;   *)
(* TransferRareItem changes no name, and the winner is saved first.          *)
Theft(winner, loser, loot) ==
    [gear EXCEPT
        ![winner] = [r \in Relics |-> IF r \in loot THEN gear[loser][r] ELSE @[r]],
        ![loser]  = [r \in Relics |-> IF r \in loot THEN "standard" ELSE @[r]]]

Collide(winner, loser) ==
    /\ call.op = "tick" /\ call.left = {}
    /\ {winner, loser} \subseteq linked /\ winner # loser
    /\ \E loot \in SUBSET Held(loser) :
          /\ \A r, s \in loot : r = s
          /\ gear' = Theft(winner, loser, loot)
    /\ Save(winner, Saving(loser))
    /\ UNCHANGED <<users, linked, claims, staleRead>>

EndTick ==
    /\ call.op = "tick" /\ call.left = {}
    /\ call' = Idle
    /\ UNCHANGED <<memory, database, staleRead>>

-----------------------------------------------------------------------------
(* Faults.  A failed write ends the call: what it changed in memory stays,   *)
(* what it still had to do is dropped.  (A failed claim, release, delete or  *)
(* migration has changed nothing yet.)  A crash loses memory; New loads the  *)
(* rows, every runner offline.                                               *)

Abort ==
    /\ "error" \in Faults
    /\ call # Idle
    /\ call' = Idle
    /\ UNCHANGED <<memory, database, staleRead>>

CrashRestart ==
    /\ "crash" \in Faults
    /\ users' = stored
    /\ linked' = {}
    /\ gear' = rows
    /\ call' = Idle
    /\ staleRead' = (staleRead \/ rows # gear)
    /\ UNCHANGED database

-----------------------------------------------------------------------------
Runner ==
    \/ \E k \in Keys : Join(k) \/ Leave(k) \/ Act(k)
    \/ \E j, k \in Keys : Rename(j, k) \/ Migrate(j, k)

TickStep ==
    \/ EndLeak \/ EndTick
    \/ \E k \in Keys : \/ FinishSave(k) \/ LeakRunner(k) \/ VisitLinked(k)
                       \/ Salvage(k) \/ EndVisit(k) \/ VisitOffline(k) \/ Prune(k)
    \/ \E k \in Keys, r \in Relics : BurnOut(k, r) \/ Abandon(k, r)
    \/ \E j, k \in Keys : Collide(j, k)

Next == Runner \/ BeginTick \/ TickStep \/ Abort \/ CrashRestart

Spec == Init /\ [][Next]_vars

(* The scheduler starts a Tick every tick_seconds, a Go mutex lets every     *)
(* waiter in, and a call that has it finishes.  Fairness of the abandonment  *)
(* says that time passes: the LastSeenAt of a runner that sends nothing does *)
(* not move, so in the end a Tick finds artifact_offline_days exceeded.      *)
Fairness ==
    /\ SF_vars(BeginTick)
    /\ WF_vars(TickStep)
    /\ \A k \in Keys : SF_vars(VisitOffline(k) /\ call'.op = "abandon")

FairSpec == Spec /\ Fairness

-----------------------------------------------------------------------------
TypeOK ==
    /\ users \subseteq Keys /\ linked \subseteq users
    /\ gear \in [Keys -> Equipment]
    /\ stored \subseteq Keys
    /\ rows \in [Keys -> Equipment]
    /\ claims \subseteq Relics
    /\ call \in Calls
    /\ staleRead \in BOOLEAN

(* "Only one of each artifact exists on the Grid at a time": no two runners  *)
(* have the same artifact equipped, whatever drops, thefts, renames,         *)
(* migrations, burn-outs and releases are in progress.                       *)
OneHolder == \A r \in Relics : \A j, k \in Keys : r \in Held(j) \cap Held(k) => j = k

(* An artifact somebody has is never in the drop pool: rare_items and the    *)
(* equipment in memory, kept by different writes, agree.                     *)
HeldIsClaimed == \A k \in Keys : Held(k) \subseteq claims

(* Whatever crashes and failed writes there are, nothing but loading an      *)
(* out-of-date row duplicates an artifact or offers one that is taken.       *)
OnlyStaleRowsDuplicate == staleRead \/ (OneHolder /\ HeldIsClaimed)

(* Between calls the database holds exactly what memory holds, and during a  *)
(* call it lags only for the runner the call has changed: what a restart     *)
(* loads, and what a migration reads, is the game everybody saw.             *)
Behind == IF call.op \in {"burn", "salvage", "abandon", "save"} THEN call.dirty ELSE {}

WriteThrough ==
    /\ \A k \in Keys \ Behind : rows[k] = gear[k]
    /\ stored \ Behind = users \ Behind

(* No artifact is lost: one that is not in the pool is with a runner.        *)
NothingLost == \A r \in claims : \E k \in Keys : r \in Held(k)

(* "It burns out 4-8 levels later: it returns to the drop pool".             *)
BurnOutReturns ==
    [][\A k \in Keys, r \in Relics : BurnOut(k, r) => r \notin claims']_vars

(* "If a runner stays offline for longer than artifact_offline_days, their   *)
(* artifacts return to the drop pool": an artifact an offline runner has     *)
(* gets back into the pool, or to a runner that is linked.                   *)
AbandonedReturns ==
    \A k \in Keys, r \in Relics :
        (k \notin linked /\ r \in Held(k))
            ~> (r \notin claims \/ \E j \in linked : r \in Held(j))

(* The engine and its database implement the promise of ArtifactPool: with   *)
(* losses (Leaks), or without any (Circulates).                              *)
Keepers(r) == {k \in Keys : r \in Held(k)}

Pool == INSTANCE ArtifactPool WITH
            keeper <- [r \in Relics |-> Keepers(r)],
            free <- Relics \ claims

Leaks      == Pool!LeakySpec
Circulates == Pool!Spec

=============================================================================
