--------------------------- MODULE ArtifactsProofs ---------------------------
(***************************************************************************)
(* What TLAPS proves of Artifacts, for every set of runners, artifacts and *)
(* faults.                                                                 *)
(***************************************************************************)
EXTENDS Artifacts, TLAPS

-----------------------------------------------------------------------------
(* Type correctness. *)

LEMMA BareType == Bare \in Equipment
  BY DEF Bare, Equipment, Fits

LEMMA CallTypes ==
  ASSUME NEW op \in Ops, NEW left \in SUBSET Keys, NEW dirty \in SUBSET Keys,
         NEW slots \in SUBSET Relics, NEW spent \in SUBSET Relics
  PROVE  Call(op, left, dirty, slots, spent) \in Calls
  BY DEF Call, Calls

LEMMA IdleType == Idle \in Calls
  BY CallTypes DEF Idle, Ops

LEMMA TickingType ==
  ASSUME TypeOK, NEW left \in SUBSET Keys PROVE Ticking(left) \in Calls /\ call.left \in SUBSET Keys
  BY CallTypes DEF Ticking, Ops, TypeOK, Calls

(* The variables a Save writes keep their types, whether it fails or not. *)
LEMMA SaveType ==
  ASSUME TypeOK, NEW k \in Keys, NEW next \in Calls,
         gear' \in [Keys -> Equipment], Save(k, next)
  PROVE  stored' \subseteq Keys /\ rows' \in [Keys -> Equipment] /\ call' \in Calls
  <1>1. CASE Saved(k, next)
    BY <1>1 DEF TypeOK, Saved
  <1>2. CASE SaveFailed
    BY <1>2, IdleType DEF TypeOK, SaveFailed
  <1> QED BY <1>1, <1>2 DEF Save

LEMMA TypeInit == Init => TypeOK
  BY BareType, IdleType DEF Init, TypeOK

LEMMA TypeJoin == ASSUME TypeOK, NEW k \in Keys, Join(k) PROVE TypeOK'
  <1>1. gear' \in [Keys -> Equipment]
    BY BareType DEF Join, TypeOK
  <1>2. Save(k, Idle)
    BY DEF Join
  <1> QED BY <1>1, <1>2, SaveType, IdleType DEF Join, TypeOK

LEMMA TypeLeave == ASSUME TypeOK, NEW k \in Keys, Leave(k) PROVE TypeOK'
  <1>1. Save(k, Idle) /\ gear' \in [Keys -> Equipment]
    BY DEF Leave, TypeOK
  <1> QED BY <1>1, SaveType, IdleType DEF Leave, TypeOK

LEMMA TypeSaved ==
  ASSUME TypeOK, NEW k \in Keys, Act(k) \/ FinishSave(k) \/ EndVisit(k)
  PROVE  TypeOK'
  <1>1. call' \in {Idle, Ticking(call.left)}
    BY DEF Act, FinishSave, EndVisit, Saved
  <1>3. call' \in Calls
    BY <1>1, IdleType, TickingType DEF TypeOK, Calls
  <1>2. stored' = stored \cup {k} /\ rows' = [rows EXCEPT ![k] = gear[k]] /\ UNCHANGED <<users, linked, gear, claims, staleRead>>
    BY DEF Act, FinishSave, EndVisit, Saved, memory
  <1> QED BY <1>2, <1>3 DEF TypeOK

LEMMA TypeRename ==
  ASSUME TypeOK, NEW old \in Keys, NEW new \in Keys, Rename(old, new) PROVE TypeOK'
  <1>1. gear' \in [Keys -> Equipment] /\ rows' \in [Keys -> Equipment]
    BY BareType DEF Rename, TypeOK
  <1>2. call' \in Calls
    BY IdleType, CallTypes DEF Rename, Saving, TypeOK, Ops
  <1> QED BY <1>1, <1>2 DEF Rename, TypeOK

LEMMA TypeMigrate ==
  ASSUME TypeOK, NEW g \in Keys, NEW a \in Keys, Migrate(g, a) PROVE TypeOK'
  <1>1. gear' \in [Keys -> Equipment] /\ rows' \in [Keys -> Equipment]
    BY BareType DEF Migrate, TypeOK
  <1>2. call' \in Calls
    BY CallTypes DEF Migrate, Saving, Ops
  <1> QED BY <1>1, <1>2 DEF Migrate, TypeOK

LEMMA TypeTickControl ==
  ASSUME TypeOK, BeginTick \/ EndLeak \/ EndTick \/ Abort PROVE TypeOK'
  <1>1. call' \in Calls
    BY IdleType, CallTypes
    DEF BeginTick, EndLeak, EndTick, Abort, Ticking, TypeOK, Ops
  <1> QED BY <1>1 DEF BeginTick, EndLeak, EndTick, Abort, memory, database, TypeOK

LEMMA TypeLeakRunner == ASSUME TypeOK, NEW k \in Keys, LeakRunner(k) PROVE TypeOK'
  <1>1. gear' \in [Keys -> Equipment]
    BY DEF LeakRunner, Overclocked, TypeOK, Equipment, Fits
  <1>2. [call EXCEPT !.left = @ \ {k}] \in Calls
    BY DEF TypeOK, Calls
  <1>3. Save(k, [call EXCEPT !.left = @ \ {k}])
    BY DEF LeakRunner
  <1> QED BY <1>1, <1>2, <1>3, SaveType DEF LeakRunner, TypeOK

LEMMA TypeDrop ==
  ASSUME TypeOK, NEW k \in Keys, VisitLinked(k) \/ Salvage(k) PROVE TypeOK'
  <1>1. gear' \in [Keys -> Equipment]
    <2>1. PICK drop : gear' = [gear EXCEPT ![k] =
                        [r \in Relics |-> IF r \in drop THEN "artifact" ELSE gear[k][r]]]
      BY DEF VisitLinked, Salvage
    <2>2. [r \in Relics |-> IF r \in drop THEN "artifact" ELSE gear[k][r]] \in Equipment
      BY DEF TypeOK, Equipment, Fits
    <2> QED BY <2>1, <2>2 DEF TypeOK
  <1>2. call' \in Calls
    <2>1. CASE VisitLinked(k)
      <3>1. PICK worn \in SUBSET Held(k) : call' = Call("burn", call.left \ {k}, {k}, worn, {})
        BY <2>1 DEF VisitLinked
      <3>2. worn \in SUBSET Relics
        BY DEF Held
      <3> QED BY <3>1, <3>2, TickingType, CallTypes DEF Ops
    <2>2. CASE Salvage(k)
      <3>1. PICK drop : call' = [call EXCEPT !.op = "burn", !.slots = @ \ drop, !.spent = {}]
        BY <2>2 DEF Salvage
      <3> QED BY <3>1 DEF TypeOK, Calls, Ops
    <2> QED BY <2>1, <2>2
  <1>3. claims' \subseteq Relics
    BY DEF VisitLinked, Salvage, Claimable, TypeOK
  <1> QED BY <1>1, <1>2, <1>3 DEF VisitLinked, Salvage, TypeOK

LEMMA TypeRetire ==
  ASSUME TypeOK, NEW k \in Keys, NEW r \in Relics, BurnOut(k, r) \/ Abandon(k, r) PROVE TypeOK'
  <1>1. Retire(k, r)
    BY DEF BurnOut, Abandon
  <1>2. gear' \in [Keys -> Equipment] /\ claims' \subseteq Relics
    <2>1. [gear[k] EXCEPT ![r] = "standard"] \in Equipment
      BY DEF TypeOK, Equipment, Fits
    <2> QED BY <1>1, <2>1 DEF Retire, Released, TypeOK
  <1>3. call' \in Calls
    <2>1. CASE BurnOut(k, r)
      <3>1. PICK s \in {{r}, {}} : call' = [call EXCEPT !.op = "salvage", !.slots = @ \ {r}, !.spent = s]
        BY <2>1 DEF BurnOut
      <3> QED BY <3>1 DEF TypeOK, Calls, Ops
    <2>2. CASE Abandon(k, r)
      BY <2>2 DEF Abandon, TypeOK, Calls
    <2> QED BY <2>1, <2>2
  <1> QED BY <1>2, <1>3 DEF BurnOut, Abandon, TypeOK

LEMMA TypeVisitOffline == ASSUME TypeOK, NEW k \in Keys, VisitOffline(k) PROVE TypeOK'
  <1>1. call' \in Calls
    BY DEF VisitOffline, Ticking, Call, TypeOK, Calls, Ops, Held
  <1> QED BY <1>1 DEF VisitOffline, memory, database, TypeOK

LEMMA TypePrune == ASSUME TypeOK, NEW k \in Keys, Prune(k) PROVE TypeOK'
  <1>1. call' \in Calls
    BY DEF Prune, Delete, Ticking, Call, TypeOK, Calls, Ops
  <1>2. gear' \in [Keys -> Equipment] /\ rows' \in [Keys -> Equipment]
    BY BareType DEF Prune, Delete, TypeOK
  <1> QED BY <1>1, <1>2 DEF Prune, Delete, TypeOK

LEMMA TypeCollide ==
  ASSUME TypeOK, NEW j \in Keys, NEW k \in Keys, Collide(j, k) PROVE TypeOK'
  <1>1. gear' \in [Keys -> Equipment]
    BY DEF Collide, Theft, TypeOK, Equipment, Fits
  <1>2. Saving(k) \in Calls
    BY CallTypes DEF Saving, Ops
  <1>3. Save(j, Saving(k))
    BY DEF Collide
  <1> QED BY <1>1, <1>2, <1>3, SaveType DEF Collide, TypeOK

LEMMA TypeCrash == ASSUME TypeOK, CrashRestart PROVE TypeOK'
  BY IdleType DEF CrashRestart, database, TypeOK

(* Equipment, rows, claims and the state of the call always have their types, *)
(* and no runner is linked that the engine does not know.                     *)
THEOREM TypeCorrect == Spec => []TypeOK
  <1>1. TypeOK /\ [Next]_vars => TypeOK'
    <2> SUFFICES ASSUME TypeOK, [Next]_vars PROVE TypeOK'
      OBVIOUS
    <2>1. CASE Runner
      BY <2>1, TypeJoin, TypeLeave, TypeSaved, TypeRename, TypeMigrate DEF Runner
    <2>2. CASE BeginTick \/ Abort
      BY <2>2, TypeTickControl
    <2>3. CASE TickStep
      BY <2>3, TypeTickControl, TypeSaved, TypeLeakRunner, TypeDrop, TypeRetire,
         TypeVisitOffline, TypePrune, TypeCollide DEF TickStep
    <2>4. CASE CrashRestart
      BY <2>4, TypeCrash
    <2>5. CASE UNCHANGED vars
      BY <2>5 DEF vars, TypeOK
    <2> QED BY <2>1, <2>2, <2>3, <2>4, <2>5 DEF Next
  <1> QED BY TypeInit, <1>1, PTL DEF Spec

-----------------------------------------------------------------------------
(* One holder per artifact, and no held artifact in the pool.  Each lemma is  *)
(* about one way a step changes equipment and claims.                         *)

Safe == OneHolder /\ HeldIsClaimed

LEMMA SafeSame == ASSUME Safe, UNCHANGED <<gear, claims>> PROVE Safe'
  BY DEF Safe, OneHolder, HeldIsClaimed, Held

(* A runner loses its equipment with its place in memory. *)
LEMMA SafeClear ==
  ASSUME TypeOK, Safe, NEW k \in Keys,
         gear' = [gear EXCEPT ![k] = Bare], UNCHANGED claims
  PROVE  Safe'
  <1>1. \A j \in Keys : Held(j)' \subseteq Held(j)
    BY DEF TypeOK, Held, Bare
  <1> QED BY <1>1 DEF Safe, OneHolder, HeldIsClaimed

LEMMA SafeJoin == ASSUME TypeOK, Safe, NEW k \in Keys, Join(k) PROVE Safe'
  <1>1. CASE k \in users
    <2>1. gear' = gear
      BY <1>1 DEF Join, TypeOK
    <2> QED BY <2>1, SafeSame DEF Join
  <1>2. CASE k \notin users
    BY <1>2, SafeClear DEF Join
  <1> QED BY <1>1, <1>2

LEMMA SafeRename ==
  ASSUME TypeOK, Safe, NEW old \in Keys, NEW new \in Keys, Rename(old, new) PROVE Safe'
  <1>1. CASE gear' = [gear EXCEPT ![old] = Bare]
    BY <1>1, SafeClear DEF Rename
  <1>2. CASE gear' = [gear EXCEPT ![old] = Bare, ![new] = gear[old]]
    <2>1. old # new
      BY DEF Rename, TypeOK
    <2>2. /\ Held(new)' = Held(old) /\ Held(old)' = {}
          /\ \A j \in Keys \ {old, new} : Held(j)' = Held(j)
      BY <1>2, <2>1 DEF TypeOK, Held, Bare
    <2>3. claims' = claims
      BY DEF Rename
    <2> QED BY <2>2, <2>3 DEF Safe, OneHolder, HeldIsClaimed
  <1> QED BY <1>1, <1>2 DEF Rename

(* A migration that reads the row the account runner has in memory. *)
LEMMA HeldMigrate ==
  ASSUME TypeOK, NEW g \in Keys, NEW a \in Keys, Migrate(g, a), rows[a] = gear[a]
  PROVE  /\ g # a
         /\ Held(g)' = {} /\ Held(a)' \subseteq Held(g) \cup Held(a)
         /\ \A j \in Keys \ {g, a} : Held(j)' = Held(j)
  <1>1. g # a
    BY KeysAssumption DEF Migrate
  <1>2. PICK fits \in Equipment :
          Merged(fits, g, a) /\ gear' = [gear EXCEPT ![g] = Bare, ![a] = fits]
    BY DEF Migrate
  <1>3. gear'[g] = Bare /\ gear'[a] = fits /\ \A j \in Keys \ {g, a} : gear'[j] = gear[j]
    BY <1>1, <1>2 DEF TypeOK
  <1>4. \A r \in Relics : fits[r] \in {gear[g][r], gear[a][r]}
    BY <1>2 DEF Merged
  <1> QED BY <1>1, <1>3, <1>4 DEF Held, Bare

LEMMA SafeMigrate ==
  ASSUME TypeOK, Safe, NEW g \in Keys, NEW a \in Keys, Migrate(g, a), rows[a] = gear[a]
  PROVE  Safe'
  <1>1. claims' = claims
    BY DEF Migrate
  <1> QED BY <1>1, HeldMigrate DEF Safe, OneHolder, HeldIsClaimed

(* A data leak changes the name of a deck, not who has it. *)
LEMMA HeldLeakRunner ==
  ASSUME TypeOK, NEW k \in Keys, LeakRunner(k)
  PROVE  claims' = claims /\ \A j \in Keys : Held(j)' = Held(j)
  BY DEF LeakRunner, Overclocked, TypeOK, Held

LEMMA SafeLeakRunner == ASSUME TypeOK, Safe, NEW k \in Keys, LeakRunner(k) PROVE Safe'
  BY HeldLeakRunner DEF Safe, OneHolder, HeldIsClaimed

(* At most one artifact leaves the pool, for the runner whose turn it is. *)
LEMMA HeldDrop ==
  ASSUME TypeOK, NEW k \in Keys, VisitLinked(k) \/ Salvage(k)
  PROVE  \E drop \in SUBSET (Relics \ claims) :
            /\ claims' = claims \cup drop
            /\ Held(k)' = Held(k) \cup drop
            /\ \A j \in Keys \ {k} : Held(j)' = Held(j)
  <1>1. PICK drop \in SUBSET (Relics \ claims) :
           /\ claims' = claims \cup drop
           /\ gear' = [gear EXCEPT ![k] =
                        [r \in Relics |-> IF r \in drop THEN "artifact" ELSE gear[k][r]]]
    BY DEF VisitLinked, Salvage, Claimable
  <1>2. Held(k)' = Held(k) \cup drop
    BY <1>1 DEF TypeOK, Held
  <1>3. \A j \in Keys \ {k} : Held(j)' = Held(j)
    BY <1>1 DEF TypeOK, Held
  <1> QED BY <1>1, <1>2, <1>3

LEMMA SafeDrop ==
  ASSUME TypeOK, Safe, NEW k \in Keys, VisitLinked(k) \/ Salvage(k) PROVE Safe'
  BY HeldDrop DEF Safe, OneHolder, HeldIsClaimed

(* A retired artifact leaves its holder, and no other artifact moves. *)
LEMMA HeldRetire ==
  ASSUME TypeOK, NEW k \in Keys, NEW r \in Relics, Retire(k, r)
  PROVE  /\ Held(k)' = Held(k) \ {r} /\ claims \ {r} \subseteq claims' /\ claims' \subseteq claims
         /\ \A j \in Keys \ {k} : Held(j)' = Held(j)
         /\ r \notin Held(k) => claims' = claims
  BY DEF Retire, Released, TypeOK, Held, Equipment

LEMMA SafeRetire ==
  ASSUME TypeOK, Safe, NEW k \in Keys, NEW r \in Relics, Retire(k, r) PROVE Safe'
  <1>1. CASE r \in Held(k)
    BY <1>1, HeldRetire DEF Safe, OneHolder, HeldIsClaimed
  <1>2. CASE r \notin Held(k)
    BY <1>2, HeldRetire DEF Safe, OneHolder, HeldIsClaimed
  <1> QED BY <1>1, <1>2

(* A theft hands over what the loser no longer has. *)
LEMMA HeldCollide ==
  ASSUME TypeOK, NEW j \in Keys, NEW k \in Keys, Collide(j, k)
  PROVE  \E loot \in SUBSET Held(k) :
            /\ j # k /\ claims' = claims
            /\ Held(j)' = Held(j) \cup loot /\ Held(k)' = Held(k) \ loot
            /\ \A i \in Keys \ {j, k} : Held(i)' = Held(i)
  <1>1. PICK loot \in SUBSET Held(k) : gear' = Theft(j, k, loot)
    BY DEF Collide
  <1>2. j # k /\ claims' = claims
    BY DEF Collide
  <1>3. /\ gear'[j] = [r \in Relics |-> IF r \in loot THEN gear[k][r] ELSE gear[j][r]]
        /\ gear'[k] = [r \in Relics |-> IF r \in loot THEN "standard" ELSE gear[k][r]]
        /\ \A i \in Keys \ {j, k} : gear'[i] = gear[i]
    BY <1>1, <1>2 DEF Theft, TypeOK
  <1>4. Held(j)' = Held(j) \cup loot
    BY <1>3 DEF Held
  <1>5. Held(k)' = Held(k) \ loot
    BY <1>3 DEF Held
  <1>6. \A i \in Keys \ {j, k} : Held(i)' = Held(i)
    BY <1>3 DEF Held
  <1> QED BY <1>2, <1>4, <1>5, <1>6

LEMMA SafeCollide ==
  ASSUME TypeOK, Safe, NEW j \in Keys, NEW k \in Keys, Collide(j, k) PROVE Safe'
  BY HeldCollide DEF Safe, OneHolder, HeldIsClaimed

LEMMA SafeStep ==
  ASSUME TypeOK, OnlyStaleRowsDuplicate, [Next]_vars PROVE OnlyStaleRowsDuplicate'
  <1> SUFFICES ASSUME ~staleRead' PROVE Safe'
    BY DEF OnlyStaleRowsDuplicate, Safe
  <1>1. Safe /\ ~staleRead
    <2>1. staleRead => staleRead'
      BY DEF Next, Runner, TickStep, Join, Leave, Act, Rename, Migrate, BeginTick, EndLeak,
             EndTick, FinishSave, LeakRunner, VisitLinked, Salvage, EndVisit, VisitOffline,
             Prune, Delete, BurnOut, Abandon, Collide, Abort, CrashRestart, vars
    <2> QED BY <2>1 DEF OnlyStaleRowsDuplicate, Safe
  <1>2. ASSUME NEW k \in Keys, Join(k) PROVE Safe'
    BY <1>1, <1>2, SafeJoin
  <1>3. ASSUME NEW k \in Keys, Leave(k) \/ Act(k) \/ FinishSave(k) \/ EndVisit(k) \/ VisitOffline(k)
        PROVE  Safe'
    BY <1>1, <1>3, SafeSame DEF Leave, Act, FinishSave, EndVisit, VisitOffline, memory, database
  <1>4. ASSUME NEW j \in Keys, NEW k \in Keys, Rename(j, k) PROVE Safe'
    BY <1>1, <1>4, SafeRename
  <1>5. ASSUME NEW g \in Keys, NEW a \in Keys, Migrate(g, a) PROVE Safe'
    <2>1. rows[a] = gear[a]
      BY <1>5 DEF Migrate
    <2> QED BY <1>1, <1>5, <2>1, SafeMigrate
  <1>6. CASE BeginTick \/ EndLeak \/ EndTick \/ Abort \/ UNCHANGED vars
    BY <1>1, <1>6, SafeSame DEF BeginTick, EndLeak, EndTick, Abort, memory, database, vars
  <1>7. ASSUME NEW k \in Keys, LeakRunner(k) PROVE Safe'
    BY <1>1, <1>7, SafeLeakRunner
  <1>8. ASSUME NEW k \in Keys, VisitLinked(k) \/ Salvage(k) PROVE Safe'
    BY <1>1, <1>8, SafeDrop
  <1>9. ASSUME NEW k \in Keys, NEW r \in Relics, BurnOut(k, r) \/ Abandon(k, r) PROVE Safe'
    BY <1>1, <1>9, SafeRetire DEF BurnOut, Abandon
  <1>10. ASSUME NEW k \in Keys, Prune(k) PROVE Safe'
    BY <1>1, <1>10, SafeClear DEF Prune, Delete
  <1>11. ASSUME NEW j \in Keys, NEW k \in Keys, Collide(j, k) PROVE Safe'
    BY <1>1, <1>11, SafeCollide
  <1>12. CASE CrashRestart
    <2>1. UNCHANGED <<gear, claims>>
      BY <1>12 DEF CrashRestart, database
    <2> QED BY <1>1, <2>1, SafeSame
  <1> QED BY <1>2, <1>3, <1>4, <1>5, <1>6, <1>7, <1>8, <1>9, <1>10, <1>11, <1>12
          DEF Next, Runner, TickStep

(* Whatever crashes and failed writes there are, two runners have the same    *)
(* artifact, or one has an artifact the pool offers, only after a restart or  *)
(* a migration has loaded a row that was older than the runner in memory.     *)
THEOREM StaleRowsOnly == Spec => []OnlyStaleRowsDuplicate
  <1>1. Init => OnlyStaleRowsDuplicate
    BY DEF Init, OnlyStaleRowsDuplicate, OneHolder, HeldIsClaimed, Held, Bare
  <1> QED BY <1>1, SafeStep, TypeCorrect, PTL DEF Spec

-----------------------------------------------------------------------------
(* When no write fails, the database is behind for the runner of the current *)
(* call only.  Of a call, the invariant needs which runner it may still      *)
(* have to save, and that this is one the engine knows.                      *)

CallOK ==
    /\ call.left \subseteq users /\ call.dirty \subseteq users
    /\ \A j, k \in call.dirty : j = k

WInv == TypeOK /\ CallOK /\ WriteThrough

LEMMA IdleFields == Idle.op = "idle" /\ Idle.left = {} /\ Idle.dirty = {}
  BY DEF Idle, Call

LEMMA CallOKControl ==
  ASSUME WInv, BeginTick \/ EndLeak \/ EndTick
  PROVE  CallOK' /\ WriteThrough'
  <1>1. UNCHANGED <<users, linked, gear, stored, rows>>
    BY DEF BeginTick, EndLeak, EndTick, memory, database
  <1>2. call'.dirty = {} /\ call'.left \subseteq users /\ call'.op \in {"idle", "tick", "leak"}
    BY IdleFields DEF BeginTick, EndLeak, EndTick, WInv, TypeOK, CallOK, Call, Ticking
  <1>3. Behind = {} /\ Behind' = {}
    BY <1>2, IdleFields DEF Behind, BeginTick, EndLeak, EndTick
  <1> QED BY <1>1, <1>2, <1>3 DEF WInv, CallOK, WriteThrough

(* A step that ends with the only unsaved runner's Save. *)
LEMMA WriteSaved ==
  ASSUME WInv, NEW k \in Keys, Act(k) \/ FinishSave(k) \/ EndVisit(k)
  PROVE  CallOK' /\ WriteThrough'
  <1>1. /\ users' = users /\ gear' = gear /\ stored' = stored \cup {k}
        /\ rows' = [rows EXCEPT ![k] = gear[k]]
        /\ call' \in {Idle, Ticking(call.left)}
    BY DEF Act, FinishSave, EndVisit, Saved, memory
  <1>2. call'.dirty = {} /\ call'.left \subseteq users /\ call'.op \in {"idle", "tick"}
    BY <1>1, IdleFields DEF WInv, CallOK, Ticking, Call
  <1>3. k \in users /\ Behind \subseteq {k} /\ Behind' = {}
    BY <1>2, IdleFields DEF Act, FinishSave, EndVisit, WInv, CallOK, Behind
  <1> QED BY <1>1, <1>2, <1>3 DEF WInv, TypeOK, CallOK, WriteThrough

(* Join, Leave, LeakRunner and the winner's half of a collision change and    *)
(* save one runner in one step.                                               *)
LEMMA WriteOne ==
  ASSUME WInv, Behind = {}, NEW k \in Keys, NEW next, Saved(k, next),
         users' = users \cup {k}, NEW D \in SUBSET Keys, gear' \in [Keys -> Equipment],
         \A j \in Keys \ (D \cup {k}) : gear'[j] = gear[j],
         next.op = "save" => next.dirty = D,
         D = {} \/ next.op = "save",
         next.op \in {"idle", "tick", "leak", "save"}
  PROVE  WriteThrough'
  <1>1. Behind' = D \/ (D = {} /\ Behind' = {})
    BY DEF Behind, Saved
  <1>2. \A j \in Keys \ D : rows'[j] = gear'[j]
    BY DEF Saved, WInv, TypeOK, WriteThrough
  <1>3. stored' = users'
    BY DEF Saved, WInv, WriteThrough
  <1> QED BY <1>1, <1>2, <1>3 DEF WriteThrough

LEMMA WriteJoin ==
  ASSUME WInv, "error" \notin Faults, NEW k \in Keys, Join(k) \/ Leave(k)
  PROVE  CallOK' /\ WriteThrough'
  <1>1. Behind = {}
    BY IdleFields DEF Join, Leave, Behind
  <1>2. Saved(k, Idle) /\ users' = users \cup {k} /\ gear' \in [Keys -> Equipment]
        /\ \A j \in Keys \ {k} : gear'[j] = gear[j]
    BY BareType DEF Join, Leave, Save, SaveFailed, WInv, TypeOK
  <1>3. WriteThrough'
    BY <1>1, <1>2, WriteOne, IdleFields
  <1>4. CallOK'
    BY <1>2, IdleFields DEF CallOK, Saved
  <1> QED BY <1>3, <1>4

LEMMA WriteLeakRunner ==
  ASSUME WInv, "error" \notin Faults, NEW k \in Keys, LeakRunner(k)
  PROVE  CallOK' /\ WriteThrough'
  <1> DEFINE next == [call EXCEPT !.left = @ \ {k}]
  <1>1. Behind = {} /\ k \in users
    BY DEF LeakRunner, Behind, WInv, CallOK
  <1>2. next.op = "leak" /\ next.left = call.left \ {k} /\ next.dirty = call.dirty
    BY DEF LeakRunner, WInv, TypeOK, Calls
  <1>3. Saved(k, next) /\ users' = users
    BY DEF LeakRunner, Save, SaveFailed
  <1>4. gear' \in [Keys -> Equipment] /\ \A j \in Keys \ ({} \cup {k}) : gear'[j] = gear[j]
    BY DEF LeakRunner, Overclocked, WInv, TypeOK, Equipment, Fits
  <1>5. WriteThrough'
    <2>1. users' = users \cup {k} /\ {} \in SUBSET Keys /\ next.op # "save"
      BY <1>1, <1>2, <1>3
    <2> HIDE DEF next
    <2> QED BY <1>1, <1>2, <1>3, <1>4, <2>1, WriteOne
  <1>6. CallOK'
    BY <1>2, <1>3 DEF WInv, CallOK, Saved
  <1> QED BY <1>5, <1>6

LEMMA WriteCollide ==
  ASSUME WInv, "error" \notin Faults, NEW j \in Keys, NEW k \in Keys, Collide(j, k)
  PROVE  CallOK' /\ WriteThrough'
  <1>1. Behind = {} /\ j \in users /\ k \in users
    BY DEF Collide, Behind, WInv, TypeOK
  <1>2. Saving(k).op = "save" /\ Saving(k).left = {} /\ Saving(k).dirty = {k}
    BY DEF Saving, Call
  <1>3. Saved(j, Saving(k)) /\ users' = users
    BY DEF Collide, Save, SaveFailed
  <1>4. gear' \in [Keys -> Equipment] /\ \A i \in Keys \ ({k} \cup {j}) : gear'[i] = gear[i]
    <2>1. PICK loot : gear' = Theft(j, k, loot)
      BY DEF Collide
    <2>2. /\ [r \in Relics |-> IF r \in loot THEN gear[k][r] ELSE gear[j][r]] \in Equipment
          /\ [r \in Relics |-> IF r \in loot THEN "standard" ELSE gear[k][r]] \in Equipment
      BY DEF WInv, TypeOK, Equipment, Fits
    <2> QED BY <2>1, <2>2 DEF Theft, WInv, TypeOK
  <1>5. WriteThrough'
    <2> DEFINE next == Saving(k)
               D == {k}
    <2>1. users' = users \cup {j} /\ D \in SUBSET Keys
      BY <1>1, <1>3
    <2>2. next.op = "save" /\ next.dirty = D /\ Saved(j, next)
      BY <1>2, <1>3
    <2>3. \A i \in Keys \ (D \cup {j}) : gear'[i] = gear[i]
      BY <1>4
    <2> HIDE DEF next, D
    <2> QED BY <1>1, <1>4, <2>1, <2>2, <2>3, WriteOne
  <1>6. CallOK'
    BY <1>1, <1>2, <1>3 DEF CallOK, Saved
  <1> QED BY <1>5, <1>6

LEMMA WriteRename ==
  ASSUME WInv, "error" \notin Faults, NEW old \in Keys, NEW new \in Keys, Rename(old, new)
  PROVE  CallOK' /\ WriteThrough'
  <1>1. Behind = {} /\ old \in users /\ new \notin users /\ old # new
    BY IdleFields DEF Rename, Behind, WInv, TypeOK
  <1>2. /\ users' = (users \ {old}) \cup {new} /\ stored' = stored \ {old}
        /\ gear' = [gear EXCEPT ![old] = Bare, ![new] = gear[old]]
        /\ rows' = [rows EXCEPT ![old] = Bare] /\ call' = Saving(new)
    BY DEF Rename
  <1>3. call'.op = "save" /\ call'.left = {} /\ call'.dirty = {new}
    BY <1>2 DEF Saving, Call
  <1>4. Behind' = {new}
    BY <1>3 DEF Behind
  <1>5. \A j \in Keys \ {new} : rows'[j] = gear'[j]
    BY <1>1, <1>2 DEF WInv, TypeOK, WriteThrough
  <1>6. stored' \ {new} = users' \ {new}
    BY <1>1, <1>2 DEF WInv, WriteThrough
  <1> QED BY <1>2, <1>3, <1>4, <1>5, <1>6 DEF CallOK, WriteThrough

LEMMA WriteMigrate ==
  ASSUME WInv, NEW g \in Keys, NEW a \in Keys, Migrate(g, a)
  PROVE  CallOK' /\ WriteThrough' /\ rows[a] = gear[a]
  <1>1. Behind = {} /\ g # a
    BY IdleFields, KeysAssumption DEF Migrate, Behind
  <1>2. PICK fits \in Equipment :
          /\ gear' = [gear EXCEPT ![g] = Bare, ![a] = fits]
          /\ rows' = [rows EXCEPT ![g] = Bare, ![a] = fits]
    BY DEF Migrate
  <1>3. /\ users' = (users \ {g}) \cup {a} /\ stored' = (stored \ {g}) \cup {a}
        /\ call'.left = {} /\ call'.dirty = {a}
    BY DEF Migrate, Saving, Call
  <1>4. \A j \in Keys : rows'[j] = gear'[j]
    BY <1>1, <1>2 DEF WInv, TypeOK, WriteThrough
  <1>5. stored' = users'
    BY <1>1, <1>3 DEF WInv, WriteThrough
  <1>6. rows[a] = gear[a]
    BY <1>1 DEF WInv, WriteThrough
  <1> QED BY <1>3, <1>4, <1>5, <1>6 DEF CallOK, WriteThrough

(* The steps of one runner's turn change that runner only. *)
LEMMA WriteTurn ==
  ASSUME WInv, NEW k \in Keys,
         \/ VisitLinked(k) \/ Salvage(k) \/ VisitOffline(k)
         \/ \E r \in Relics : BurnOut(k, r) \/ Abandon(k, r)
  PROVE  CallOK' /\ WriteThrough'
  <1>1. UNCHANGED <<users, stored, rows>> /\ \A j \in Keys \ {k} : gear'[j] = gear[j]
    BY DEF VisitLinked, Salvage, VisitOffline, BurnOut, Abandon, Retire, memory, database, WInv, TypeOK
  <1>2. CASE call.op = "tick" /\ call' = Ticking(call.left \ {k}) /\ gear' = gear
    <2>1. call'.op = "tick" /\ call'.left = call.left \ {k} /\ call'.dirty = {}
      BY <1>2 DEF Ticking, Call
    <2>2. Behind = {} /\ Behind' = {}
      BY <1>2, <2>1 DEF Behind
    <2> QED BY <1>1, <1>2, <2>1, <2>2 DEF WInv, CallOK, WriteThrough
  <1>3. CASE /\ k \in users /\ Behind \subseteq {k} /\ call'.left \subseteq call.left
             /\ call'.dirty = {k} /\ call'.op \in {"burn", "salvage", "abandon"}
    <2>1. Behind' = {k}
      BY <1>3 DEF Behind
    <2> QED BY <1>1, <1>3, <2>1 DEF WInv, CallOK, WriteThrough
  <1>4. CASE VisitLinked(k)
    <2>1. PICK worn : call' = Call("burn", call.left \ {k}, {k}, worn, {})
      BY <1>4 DEF VisitLinked
    <2>2. k \in users /\ Behind = {}
      BY <1>4 DEF VisitLinked, WInv, CallOK, Behind
    <2> QED BY <1>3, <2>1, <2>2 DEF Call
  <1>5. CASE VisitOffline(k)
    <2>1. k \in users /\ Behind = {} /\ call.op = "tick" /\ gear' = gear
      BY <1>5 DEF VisitOffline, WInv, CallOK, Behind, memory
    <2>2. CASE call' = Call("abandon", call.left \ {k}, {k}, Held(k), {})
      BY <1>3, <2>1, <2>2 DEF Call
    <2> QED BY <1>2, <1>5, <2>1, <2>2 DEF VisitOffline
  <1>6. ASSUME k \in call.dirty, call.op \in {"burn", "salvage", "abandon"},
               call'.left = call.left, call'.dirty = call.dirty,
               call'.op \in {"burn", "salvage", "abandon"}
        PROVE  CallOK' /\ WriteThrough'
    <2>1. call.dirty = {k} /\ k \in users
      BY <1>6 DEF WInv, CallOK
    <2>2. Behind \subseteq {k}
      BY <2>1 DEF Behind
    <2> QED BY <1>3, <1>6, <2>1, <2>2
  <1>7. CASE Salvage(k)
    <2>1. PICK drop : call' = [call EXCEPT !.op = "burn", !.slots = @ \ drop, !.spent = {}]
      BY <1>7 DEF Salvage
    <2>2. call'.left = call.left /\ call'.dirty = call.dirty /\ call'.op = "burn"
      BY <2>1 DEF WInv, TypeOK, Calls
    <2> QED BY <1>6, <1>7, <2>2 DEF Salvage
  <1>8. ASSUME NEW r \in Relics, BurnOut(k, r) PROVE CallOK' /\ WriteThrough'
    <2>1. call'.left = call.left /\ call'.dirty = call.dirty /\ call'.op = "salvage"
      BY <1>8 DEF BurnOut, WInv, TypeOK, Calls
    <2> QED BY <1>6, <1>8, <2>1 DEF BurnOut
  <1>9. ASSUME NEW r \in Relics, Abandon(k, r) PROVE CallOK' /\ WriteThrough'
    <2>1. call'.left = call.left /\ call'.dirty = call.dirty /\ call'.op = "abandon"
      BY <1>9 DEF Abandon, WInv, TypeOK, Calls
    <2> QED BY <1>6, <1>9, <2>1 DEF Abandon
  <1> QED BY <1>4, <1>5, <1>7, <1>8, <1>9

LEMMA WritePrune ==
  ASSUME WInv, NEW k \in Keys, Prune(k) PROVE CallOK' /\ WriteThrough'
  <1>1. Behind = {}
    BY DEF Prune, Behind
  <1>2. /\ users' = users \ {k} /\ stored' = stored \ {k}
        /\ gear' = [gear EXCEPT ![k] = Bare] /\ rows' = [rows EXCEPT ![k] = Bare]
        /\ call'.op = "tick" /\ call'.left = call.left \ {k} /\ call'.dirty = {}
    BY DEF Prune, Delete, Ticking, Call
  <1>3. Behind' = {}
    BY <1>2 DEF Behind
  <1>4. \A j \in Keys : rows'[j] = gear'[j]
    BY <1>1, <1>2 DEF WInv, TypeOK, WriteThrough
  <1> QED BY <1>1, <1>2, <1>3, <1>4 DEF WInv, CallOK, WriteThrough

LEMMA WInvInit == Init => WInv
  BY TypeInit, IdleFields DEF Init, WInv, CallOK, WriteThrough, Behind

LEMMA WInvStep == ASSUME "error" \notin Faults, TypeOK', WInv, [Next]_vars PROVE WInv'
  <1> SUFFICES CallOK' /\ WriteThrough'
    BY DEF WInv
  <1>1. CASE Runner
    BY <1>1, WriteJoin, WriteSaved, WriteRename, WriteMigrate DEF Runner
  <1>2. CASE BeginTick
    BY <1>2, CallOKControl
  <1>3. CASE TickStep
    BY <1>3, CallOKControl, WriteSaved, WriteLeakRunner, WriteTurn, WritePrune, WriteCollide
       DEF TickStep
  <1>4. CASE CrashRestart
    BY <1>4, IdleFields DEF CrashRestart, database, CallOK, WriteThrough, Behind
  <1>5. CASE UNCHANGED vars
    BY <1>5 DEF vars, WInv, CallOK, WriteThrough, Behind
  <1> QED BY <1>1, <1>2, <1>3, <1>4, <1>5 DEF Next, Abort

(* As long as no write fails, wherever the process may have crashed before,   *)
(* the database and memory differ for the runner of the current call only:    *)
(* a crash between calls loses nothing and a migration reads what was played. *)
THEOREM WritesThrough == ASSUME "error" \notin Faults PROVE Spec => []WriteThrough
  <1>1. TypeOK' /\ WInv /\ [Next]_vars => WInv'
    BY WInvStep
  <1>2. WInv => WriteThrough
    BY DEF WInv
  <1> QED BY <1>1, <1>2, WInvInit, TypeCorrect, PTL DEF Spec

-----------------------------------------------------------------------------
(* Without faults no stale row is ever loaded, so there is one holder. *)

LEMMA NeverStaleStep ==
  ASSUME Faults = {}, WInv, staleRead = FALSE, [Next]_vars PROVE staleRead' = FALSE
  <1>1. ASSUME NEW g \in Keys, NEW a \in Keys, Migrate(g, a) PROVE staleRead' = FALSE
    BY <1>1, WriteMigrate DEF Migrate
  <1>2. ASSUME NEW j \in Keys, NEW k \in Keys, Rename(j, k) \/ Collide(j, k) PROVE staleRead' = FALSE
    BY <1>2 DEF Rename, Collide
  <1>3. ASSUME NEW k \in Keys, Join(k) \/ Leave(k) \/ Act(k) \/ FinishSave(k) \/ LeakRunner(k)
                 \/ VisitLinked(k) \/ Salvage(k) \/ EndVisit(k) \/ VisitOffline(k) \/ Prune(k)
        PROVE  staleRead' = FALSE
    BY <1>3 DEF Join, Leave, Act, FinishSave, LeakRunner, VisitLinked, Salvage, EndVisit,
                VisitOffline, Prune, Delete
  <1>4. ASSUME NEW k \in Keys, NEW r \in Relics, BurnOut(k, r) \/ Abandon(k, r) PROVE staleRead' = FALSE
    BY <1>4 DEF BurnOut, Abandon
  <1>5. CASE BeginTick \/ EndLeak \/ EndTick \/ UNCHANGED vars
    BY <1>5 DEF BeginTick, EndLeak, EndTick, vars
  <1> QED BY <1>1, <1>2, <1>3, <1>4, <1>5 DEF Next, Runner, TickStep, Abort, CrashRestart

FaultFree == WInv /\ staleRead = FALSE /\ Safe

LEMMA FaultFreeAlways == ASSUME Faults = {} PROVE Spec => []FaultFree
  <1>1. Init => staleRead = FALSE
    BY DEF Init
  <1>2. WInv /\ staleRead = FALSE /\ [Next]_vars => (staleRead = FALSE)'
    BY NeverStaleStep
  <1>3. TypeOK' /\ WInv /\ [Next]_vars => WInv'
    BY WInvStep
  <1>4. WInv /\ staleRead = FALSE /\ OnlyStaleRowsDuplicate => FaultFree
    BY DEF FaultFree, OnlyStaleRowsDuplicate, Safe
  <1> QED BY <1>1, <1>2, <1>3, <1>4, WInvInit, TypeCorrect, StaleRowsOnly, PTL DEF Spec

(* "Only one of each artifact exists on the Grid at a time", when the process *)
(* does not crash and no write fails.                                         *)
THEOREM OneOfEach == ASSUME Faults = {} PROVE Spec => []OneHolder
  <1>1. FaultFree => OneHolder
    BY DEF FaultFree, Safe
  <1> QED BY <1>1, FaultFreeAlways, PTL

-----------------------------------------------------------------------------
(* Refinement of ArtifactPool.  What a step may do to one artifact: *)

Someone(r) == \E k \in Keys : r \in Held(k)

Legal(r) ==
    /\ r \notin claims /\ r \in claims' => Someone(r)'
    /\ r \in claims /\ r \notin claims' => Someone(r)
    /\ r \in claims /\ r \in claims' /\ ~Someone(r) => ~Someone(r)'

Kept(r) == r \in claims /\ r \in claims' /\ Someone(r) => Someone(r)'

LEMMA KeepersSingle ==
  ASSUME Safe, NEW r \in Relics
  PROVE  /\ Someone(r) => \E k \in Keys : Keepers(r) = {k}
         /\ ~Someone(r) => Keepers(r) = {}
         /\ r \notin claims => ~Someone(r)
  <1>1. ASSUME NEW k \in Keys, r \in Held(k) PROVE Keepers(r) = {k}
    BY <1>1 DEF Keepers, Safe, OneHolder
  <1> QED BY <1>1 DEF Someone, Keepers, Safe, HeldIsClaimed

LEMMA KeepersSingleNext ==
  ASSUME Safe', NEW r \in Relics
  PROVE  /\ Someone(r)' => \E k \in Keys : Keepers(r)' = {k}
         /\ ~Someone(r)' => Keepers(r)' = {}
         /\ r \notin claims' => ~Someone(r)'
  <1>1. ASSUME NEW k \in Keys, r \in Held(k)' PROVE Keepers(r)' = {k}
    BY <1>1 DEF Keepers, Safe, OneHolder
  <1> QED BY <1>1 DEF Someone, Keepers, Safe, HeldIsClaimed

LEMMA PoolMove ==
  ASSUME TypeOK, TypeOK', Safe, Safe', NEW r \in Relics, Legal(r)
  PROVE  Pool!Moves(r) \/ (Pool!Vanishes(r) /\ ~Kept(r))
  <1> DEFINE kp == [q \in Relics |-> Keepers(q)]
  <1>1. kp[r] = Keepers(r) /\ (kp')[r] = Keepers(r)'
    OBVIOUS
  <1>2. (r \in Relics \ claims <=> r \notin claims) /\ (r \in (Relics \ claims)' <=> r \notin claims')
    OBVIOUS
  <1>3. CASE r \notin claims /\ r \notin claims'
    BY <1>1, <1>2, <1>3, KeepersSingle, KeepersSingleNext DEF Pool!Moves, Pool!Stays
  <1>4. CASE r \notin claims /\ r \in claims'
    BY <1>1, <1>2, <1>4, KeepersSingle, KeepersSingleNext DEF Pool!Moves, Pool!Drops, Legal
  <1>5. CASE r \in claims /\ r \notin claims'
    BY <1>1, <1>2, <1>5, KeepersSingle, KeepersSingleNext DEF Pool!Moves, Pool!Returns, Legal
  <1>6. CASE r \in claims /\ r \in claims'
    <2>1. CASE Someone(r) /\ Someone(r)'
      BY <1>1, <1>2, <1>6, <2>1, KeepersSingle, KeepersSingleNext DEF Pool!Moves, Pool!Passes
    <2>2. CASE Someone(r) /\ ~Someone(r)'
      BY <1>1, <1>2, <1>6, <2>2, KeepersSingle, KeepersSingleNext DEF Pool!Vanishes, Kept
    <2>3. CASE ~Someone(r)
      BY <1>1, <1>2, <1>6, <2>3, KeepersSingle, KeepersSingleNext DEF Pool!Moves, Pool!Stays, Legal
    <2> QED BY <2>1, <2>2, <2>3
  <1> QED BY <1>3, <1>4, <1>5, <1>6

(* What makes a step lose nothing: a runner the engine does not know has no   *)
(* equipment, and no artifact was renamed.                                    *)
BareUnknown == \A k \in Keys \ users : Held(k) = {}
NoneRenamed == \A k \in Keys, r \in Relics : gear[k][r] # "leaked"

Lossless == Decks = {} /\ OrderedDeadlines /\ ArtifactsOutrate

LInv == BareUnknown /\ (Lossless => NoneRenamed)

LEMMA MoveSame == ASSUME UNCHANGED <<gear, claims>>, NEW r \in Relics PROVE Legal(r) /\ Kept(r)
  BY DEF Legal, Kept, Someone, Held

LEMMA MoveClear ==
  ASSUME TypeOK, Safe, NEW k \in Keys, NEW r \in Relics,
         gear' = [gear EXCEPT ![k] = Bare], UNCHANGED claims
  PROVE  Legal(r) /\ (Held(k) = {} => Kept(r))
  <1>1. Held(k)' = {} /\ \A j \in Keys \ {k} : Held(j)' = Held(j)
    BY DEF TypeOK, Held, Bare
  <1> QED BY <1>1 DEF Legal, Kept, Someone

LEMMA MoveJoin ==
  ASSUME TypeOK, Safe, LInv, NEW k \in Keys, Join(k), NEW r \in Relics PROVE Legal(r) /\ Kept(r)
  <1>1. CASE k \in users
    <2>1. gear' = gear /\ claims' = claims
      BY <1>1 DEF Join, TypeOK
    <2> QED BY <2>1, MoveSame
  <1>2. CASE k \notin users
    <2>1. gear' = [gear EXCEPT ![k] = Bare] /\ claims' = claims /\ Held(k) = {}
      BY <1>2 DEF Join, LInv, BareUnknown
    <2> QED BY <2>1, MoveClear
  <1> QED BY <1>1, <1>2

LEMMA MoveRename ==
  ASSUME TypeOK, Safe, LInv, Faults = {}, NEW old \in Keys, NEW new \in Keys, Rename(old, new),
         NEW r \in Relics
  PROVE  Legal(r) /\ Kept(r)
  <1>1. /\ gear' = [gear EXCEPT ![old] = Bare, ![new] = gear[old]] /\ claims' = claims
        /\ old # new /\ Held(new) = {}
    BY DEF Rename, TypeOK, LInv, BareUnknown
  <1>2. /\ Held(new)' = Held(old) /\ Held(old)' = {}
        /\ \A j \in Keys \ {old, new} : Held(j)' = Held(j)
    BY <1>1 DEF TypeOK, Held, Bare
  <1> QED BY <1>1, <1>2 DEF Legal, Kept, Someone

LEMMA MoveMigrate ==
  ASSUME FaultFree, LInv, NEW g \in Keys, NEW a \in Keys, Migrate(g, a), NEW r \in Relics
  PROVE  Legal(r) /\ (Lossless => Kept(r))
  <1>1. TypeOK /\ Safe /\ rows[a] = gear[a] /\ claims' = claims /\ stored = users
    <2>1. Behind = {}
      BY IdleFields DEF Migrate, Behind
    <2> QED BY <2>1, WriteMigrate DEF FaultFree, WInv, WriteThrough, Migrate
  <1>2. Legal(r)
    BY <1>1, HeldMigrate DEF Legal, Someone
  <1>3. ASSUME Lossless PROVE Held(g) \cup Held(a) \subseteq Held(a)'
    <2>1. PICK fits \in Equipment : Merged(fits, g, a) /\ gear' = [gear EXCEPT ![g] = Bare, ![a] = fits]
      BY DEF Migrate
    <2>2. gear'[a] = fits
      BY <1>1, <2>1 DEF TypeOK
    <2>3. \A q \in Relics : fits[q] = "standard" => gear[g][q] = "standard" /\ gear[a][q] = "standard"
      BY <1>1, <1>3, <2>1 DEF Merged, Lossless
    <2> QED BY <2>2, <2>3 DEF Held
  <1>4. Lossless => Kept(r)
    BY <1>1, <1>3, HeldMigrate DEF Kept, Someone
  <1> QED BY <1>2, <1>4

LEMMA MoveLeakRunner ==
  ASSUME TypeOK, NEW k \in Keys, LeakRunner(k), NEW r \in Relics PROVE Legal(r) /\ Kept(r)
  BY HeldLeakRunner DEF Legal, Kept, Someone

LEMMA MoveDrop ==
  ASSUME TypeOK, NEW k \in Keys, VisitLinked(k) \/ Salvage(k), NEW r \in Relics
  PROVE  Legal(r) /\ Kept(r)
  BY HeldDrop DEF Legal, Kept, Someone

LEMMA MoveRetire ==
  ASSUME TypeOK, Safe, LInv, NEW k \in Keys, NEW q \in Relics, Retire(k, q), NEW r \in Relics
  PROVE  Legal(r) /\ (Lossless => Kept(r))
  <1>1. Legal(r)
    BY HeldRetire DEF Legal, Someone
  <1>2. Lossless => (q \in Held(k) => q \notin claims')
    BY DEF Retire, Released, LInv, NoneRenamed, TypeOK, Equipment, Fits, Held
  <1>3. Lossless => Kept(r)
    BY <1>2, HeldRetire DEF Kept, Someone
  <1> QED BY <1>1, <1>3

LEMMA MovePrune ==
  ASSUME TypeOK, Safe, NEW k \in Keys, Prune(k), NEW r \in Relics
  PROVE  Legal(r) /\ (Lossless => Kept(r))
  BY MoveClear DEF Prune, Delete, Lossless

LEMMA MoveCollide ==
  ASSUME TypeOK, NEW j \in Keys, NEW k \in Keys, Collide(j, k), NEW r \in Relics
  PROVE  Legal(r) /\ Kept(r)
  BY HeldCollide DEF Legal, Kept, Someone

LEMMA StepMoves ==
  ASSUME Faults = {}, FaultFree, LInv, [Next]_vars, NEW r \in Relics
  PROVE  Legal(r) /\ (Lossless => Kept(r))
  <1>0. TypeOK /\ Safe
    BY DEF FaultFree, WInv
  <1>1. CASE Runner
    <2>1. ASSUME NEW k \in Keys, Leave(k) \/ Act(k) PROVE Legal(r) /\ Kept(r)
      BY <2>1, MoveSame DEF Leave, Act, memory
    <2> QED BY <1>0, <1>1, <2>1, MoveJoin, MoveRename, MoveMigrate DEF Runner
  <1>2. CASE BeginTick \/ UNCHANGED vars
    BY <1>2, MoveSame DEF BeginTick, memory, database, vars
  <1>3. CASE TickStep
    <2>1. ASSUME NEW k \in Keys, FinishSave(k) \/ EndVisit(k) \/ VisitOffline(k) PROVE Legal(r) /\ Kept(r)
      BY <2>1, MoveSame DEF FinishSave, EndVisit, VisitOffline, memory, database
    <2>2. CASE EndLeak \/ EndTick
      BY <2>2, MoveSame DEF EndLeak, EndTick, memory, database
    <2>3. ASSUME NEW k \in Keys, NEW q \in Relics, BurnOut(k, q) \/ Abandon(k, q)
          PROVE  Legal(r) /\ (Lossless => Kept(r))
      BY <1>0, <2>3, MoveRetire DEF BurnOut, Abandon
    <2> QED BY <1>0, <1>3, <2>1, <2>2, <2>3, MoveLeakRunner, MoveDrop, MovePrune, MoveCollide
            DEF TickStep
  <1> QED BY <1>1, <1>2, <1>3 DEF Next, Abort, CrashRestart

LEMMA LInvInit == Init => LInv
  BY DEF Init, LInv, BareUnknown, NoneRenamed, Held, Bare

LEMMA BareStep ==
  ASSUME Faults = {}, FaultFree, BareUnknown, [Next]_vars PROVE BareUnknown'
  <1>0. TypeOK /\ CallOK /\ WriteThrough
    BY DEF FaultFree, WInv
  <1>1. ASSUME UNCHANGED users, NEW K \in SUBSET users,
               \A i \in Keys \ K : Held(i)' \subseteq Held(i)
        PROVE  BareUnknown'
    BY <1>1 DEF BareUnknown
  <1>2. ASSUME UNCHANGED <<users, gear>> PROVE BareUnknown'
    BY <1>2 DEF BareUnknown, Held
  <1>3. ASSUME NEW k \in Keys, Join(k) PROVE BareUnknown'
    BY <1>0, <1>3 DEF Join, BareUnknown, Held, TypeOK
  <1>4. ASSUME NEW old \in Keys, NEW new \in Keys, Rename(old, new) PROVE BareUnknown'
    BY <1>0, <1>4 DEF Rename, BareUnknown, Held, TypeOK, Bare
  <1>5. ASSUME NEW g \in Keys, NEW a \in Keys, Migrate(g, a) PROVE BareUnknown'
    <2>1. rows[a] = gear[a]
      BY <1>5, WriteMigrate DEF FaultFree
    <2> QED BY <1>0, <1>5, <2>1, HeldMigrate DEF BareUnknown, Migrate
  <1>6. ASSUME NEW k \in Keys, Leave(k) \/ Act(k) \/ FinishSave(k) \/ EndVisit(k) \/ VisitOffline(k)
        PROVE  BareUnknown'
    BY <1>2, <1>6 DEF Leave, Act, FinishSave, EndVisit, VisitOffline, memory, database
  <1>7. CASE BeginTick \/ EndLeak \/ EndTick \/ UNCHANGED vars
    BY <1>2, <1>7 DEF BeginTick, EndLeak, EndTick, memory, database, vars
  <1>8. ASSUME NEW k \in Keys, LeakRunner(k) PROVE BareUnknown'
    <2>1. UNCHANGED users
      BY <1>8 DEF LeakRunner
    <2> QED BY <1>0, <1>8, <2>1, HeldLeakRunner DEF BareUnknown
  <1>9. ASSUME NEW k \in Keys, VisitLinked(k) \/ Salvage(k) PROVE BareUnknown'
    <2>1. UNCHANGED users /\ k \in users
      BY <1>0, <1>9 DEF VisitLinked, Salvage, TypeOK, CallOK
    <2> QED BY <1>0, <1>9, <2>1, HeldDrop DEF BareUnknown
  <1>10. ASSUME NEW k \in Keys, NEW r \in Relics, BurnOut(k, r) \/ Abandon(k, r) PROVE BareUnknown'
    <2>1. UNCHANGED users /\ Retire(k, r)
      BY <1>10 DEF BurnOut, Abandon
    <2> QED BY <1>0, <2>1, HeldRetire DEF BareUnknown
  <1>11. ASSUME NEW k \in Keys, Prune(k) PROVE BareUnknown'
    BY <1>0, <1>11 DEF Prune, Delete, BareUnknown, Held, TypeOK, Bare
  <1>12. ASSUME NEW j \in Keys, NEW k \in Keys, Collide(j, k) PROVE BareUnknown'
    <2>1. UNCHANGED users /\ j \in users /\ k \in users
      BY <1>0, <1>12 DEF Collide, TypeOK
    <2> QED BY <1>0, <1>12, <2>1, HeldCollide DEF BareUnknown
  <1> QED BY <1>3, <1>4, <1>5, <1>6, <1>7, <1>8, <1>9, <1>10, <1>11, <1>12
          DEF Next, Runner, TickStep, Abort, CrashRestart

LEMMA NoneRenamedStep ==
  ASSUME Faults = {}, Lossless, FaultFree, NoneRenamed, [Next]_vars PROVE NoneRenamed'
  <1>0. TypeOK /\ Decks = {}
    BY DEF FaultFree, WInv, Lossless
  <1>1. ASSUME UNCHANGED gear PROVE NoneRenamed'
    BY <1>1 DEF NoneRenamed
  <1>3. ASSUME NEW k \in Keys, Join(k) PROVE NoneRenamed'
    BY <1>0, <1>3 DEF Join, NoneRenamed, TypeOK, Bare
  <1>4. ASSUME NEW old \in Keys, NEW new \in Keys, Rename(old, new) PROVE NoneRenamed'
    <2>1. gear' = [gear EXCEPT ![old] = Bare, ![new] = gear[old]]
      BY <1>4 DEF Rename
    <2> QED BY <1>0, <2>1 DEF NoneRenamed, TypeOK, Bare
  <1>5. ASSUME NEW g \in Keys, NEW a \in Keys, Migrate(g, a) PROVE NoneRenamed'
    <2>1. PICK fits \in Equipment : Merged(fits, g, a) /\ gear' = [gear EXCEPT ![g] = Bare, ![a] = fits]
      BY <1>5 DEF Migrate
    <2>2. \A r \in Relics : fits[r] # "leaked"
      BY <1>5, <2>1, WriteMigrate DEF FaultFree, Merged, NoneRenamed
    <2> QED BY <1>0, <2>1, <2>2 DEF NoneRenamed, TypeOK, Bare
  <1>6. ASSUME NEW k \in Keys, Leave(k) \/ Act(k) \/ FinishSave(k) \/ EndVisit(k) \/ VisitOffline(k)
        PROVE  NoneRenamed'
    BY <1>1, <1>6 DEF Leave, Act, FinishSave, EndVisit, VisitOffline, memory, database
  <1>7. CASE BeginTick \/ EndLeak \/ EndTick \/ UNCHANGED vars
    BY <1>1, <1>7 DEF BeginTick, EndLeak, EndTick, memory, database, vars
  <1>8. ASSUME NEW k \in Keys, LeakRunner(k) PROVE NoneRenamed'
    BY <1>0, <1>8 DEF LeakRunner, Overclocked, NoneRenamed, TypeOK, Equipment
  <1>9. ASSUME NEW k \in Keys, VisitLinked(k) \/ Salvage(k) PROVE NoneRenamed'
    <2>1. PICK drop : gear' = [gear EXCEPT ![k] =
                        [r \in Relics |-> IF r \in drop THEN "artifact" ELSE gear[k][r]]]
      BY <1>9 DEF VisitLinked, Salvage
    <2> QED BY <1>0, <2>1 DEF NoneRenamed, TypeOK
  <1>10. ASSUME NEW k \in Keys, NEW r \in Relics, BurnOut(k, r) \/ Abandon(k, r) PROVE NoneRenamed'
    <2>1. Retire(k, r)
      BY <1>10 DEF BurnOut, Abandon
    <2> QED BY <1>0, <2>1 DEF Retire, NoneRenamed, TypeOK, Equipment
  <1>11. ASSUME NEW k \in Keys, Prune(k) PROVE NoneRenamed'
    BY <1>0, <1>11 DEF Prune, Delete, NoneRenamed, TypeOK, Bare
  <1>12. ASSUME NEW j \in Keys, NEW k \in Keys, Collide(j, k) PROVE NoneRenamed'
    <2>1. PICK loot \in SUBSET Held(k) : gear' = Theft(j, k, loot)
      BY <1>12 DEF Collide
    <2> QED BY <1>0, <2>1 DEF Theft, NoneRenamed, TypeOK
  <1> QED BY <1>3, <1>4, <1>5, <1>6, <1>7, <1>8, <1>9, <1>10, <1>11, <1>12
          DEF Next, Runner, TickStep, Abort, CrashRestart

LEMMA LInvAlways == ASSUME Faults = {} PROVE Spec => []LInv
  <1>1. FaultFree /\ LInv /\ [Next]_vars => LInv'
    <2> SUFFICES ASSUME FaultFree, LInv, [Next]_vars PROVE LInv'
      OBVIOUS
    <2>1. BareUnknown'
      BY BareStep DEF LInv
    <2>2. CASE Lossless
      BY <2>1, <2>2, NoneRenamedStep DEF LInv
    <2>3. CASE ~Lossless
      BY <2>1, <2>3 DEF LInv, Lossless
    <2> QED BY <2>2, <2>3
  <1> QED BY <1>1, LInvInit, FaultFreeAlways, PTL DEF Spec

LEMMA PoolInit == Init => Pool!Init
  BY DEF Init, Pool!Init, Keepers, Held, Bare

LEMMA LeakStep ==
  ASSUME Faults = {}, FaultFree, FaultFree', LInv, [Next]_vars
  PROVE  Pool!Leak /\ (Lossless => Pool!Circulate)
  <1>1. TypeOK /\ Safe /\ TypeOK' /\ Safe'
    BY DEF FaultFree, WInv
  <1>2. ASSUME NEW r \in Relics
        PROVE  (Pool!Moves(r) \/ Pool!Vanishes(r)) /\ (Lossless => Pool!Moves(r))
    BY <1>1, StepMoves, PoolMove
  <1> QED BY <1>2 DEF Pool!Leak, Pool!Circulate

(* Without faults the engine and its database implement ArtifactPool, losses  *)
(* included: an artifact that is gone never comes back, and none is ever with *)
(* two runners, or with a runner and in the pool.                             *)
THEOREM ImplementsLeakyPool == ASSUME Faults = {} PROVE Spec => Leaks
  <1>1. FaultFree /\ FaultFree' /\ LInv /\ [Next]_vars => Pool!Leak
    BY LeakStep
  <1> QED BY <1>1, PoolInit, FaultFreeAlways, LInvAlways, PTL DEF Spec, Leaks, Pool!LeakySpec

(* And no artifact is ever lost, if data leaks leave artifacts their names,   *)
(* a Tick releases what an offline guest has before another deletes it, and   *)
(* an artifact outrates the gear it meets in a merge.                         *)
THEOREM ImplementsPool ==
  ASSUME Faults = {}, Decks = {}, OrderedDeadlines, ArtifactsOutrate PROVE Spec => Circulates
  <1>0. Lossless
    BY DEF Lossless
  <1>1. FaultFree /\ FaultFree' /\ LInv /\ [Next]_vars => Pool!Circulate
    BY <1>0, LeakStep
  <1> QED BY <1>1, PoolInit, FaultFreeAlways, LInvAlways, PTL DEF Spec, Circulates, Pool!Spec

(* Under the same conditions every artifact is in the pool or with a runner.  *)
THEOREM NothingIsLost ==
  ASSUME Faults = {}, Decks = {}, OrderedDeadlines, ArtifactsOutrate PROVE Spec => []NothingLost
  <1>0. Lossless
    BY DEF Lossless
  <1>1. Init => NothingLost
    BY DEF Init, NothingLost
  <1>2. FaultFree /\ FaultFree' /\ LInv /\ NothingLost /\ [Next]_vars => NothingLost'
    <2> SUFFICES ASSUME FaultFree, FaultFree', LInv, NothingLost, [Next]_vars,
                        NEW r \in claims'
                 PROVE  Someone(r)'
      BY DEF NothingLost, Someone
    <2>1. r \in Relics
      BY DEF FaultFree, WInv, TypeOK
    <2>2. Legal(r) /\ Kept(r)
      BY <1>0, <2>1, StepMoves
    <2> QED BY <2>2 DEF Legal, Kept, NothingLost, Someone
  <1> QED BY <1>1, <1>2, FaultFreeAlways, LInvAlways, PTL DEF Spec

=============================================================================
