----------------------------- MODULE WorldProofs ------------------------------
(***************************************************************************)
(* What TLAPS proves of World, for every set of runners, size of team,     *)
(* number of events, crashes and failing writes.                           *)
(***************************************************************************)
EXTENDS World, FiniteSetTheorems, TLAPS

-----------------------------------------------------------------------------
(* Types.                                                                     *)

Payments == [Keys -> [Kinds -> Nat]]

NetTyped ==
    /\ there \subseteq Keys /\ names \subseteq Keys
    /\ bot \in {"in", "out", "knocking", "off"}
    /\ fresh \in BOOLEAN /\ wasReady \in BOOLEAN /\ todo \in BOOLEAN /\ (todo => wasReady)
    /\ overtaken \in BOOLEAN /\ torn \in BOOLEAN /\ broken \in BOOLEAN

EngineTyped ==
    /\ users \subseteq Keys /\ linked \subseteq users /\ IsFiniteSet(linked)
    /\ world \in Worlds /\ due \subseteq Pending
    /\ paid \in Payments
    /\ recruits \subseteq Keys /\ purse \in [Kinds -> Nat] /\ events \in 0..MaxEvents

DataTyped ==
    /\ stored \subseteq Keys /\ rows \in Payments /\ worldRow \in Worlds
    /\ unsaved \in 0..MaxErrors

CallTyped ==
    /\ call \in Calls
    /\ call.op \in {"reconcile", "hit"} => call.left \subseteq linked
    /\ call.op = "save" => \E k \in Keys : call.left = {k}

Types == NetTyped /\ EngineTyped /\ DataTyped /\ CallTyped

LEMMA NoTeamType == NoTeam \in [Keys -> Nat]
  BY DEF NoTeam

LEMMA CallFields ==
  ASSUME NEW op \in Ops, NEW left \in SUBSET Keys, NEW tell \in BOOLEAN
  PROVE  /\ Call(op, left, tell) \in Calls
         /\ Call(op, left, tell).op = op /\ Call(op, left, tell).left = left
         /\ Call(op, left, tell).tell = tell /\ Call(op, left, tell).won = FALSE
         /\ Call(op, left, tell).places = NoTeam
  BY NoTeamType DEF Call, Calls

LEMMA IdleFields == Idle \in Calls /\ Idle.op = "idle" /\ Idle.left = {} /\ Idle.tell = FALSE
  <1>1. "idle" \in Ops /\ {} \in SUBSET Keys /\ FALSE \in BOOLEAN
    BY DEF Ops
  <1> QED BY <1>1, CallFields DEF Idle

LEMMA StepFields ==
  ASSUME NEW op \in Ops, NEW tell \in BOOLEAN
  PROVE  Step(op, tell) \in Calls /\ Step(op, tell).op = op /\ Step(op, tell).tell = tell
  BY CallFields DEF Step

LEMMA ThenWorldFields ==
  ASSUME NEW changed \in BOOLEAN
  PROVE  /\ ThenWorld(changed) \in Calls /\ ThenWorld(changed).op \in {"idle", "world"}
         /\ ThenWorld(changed).tell = changed
  <1>1. CASE changed
    <2>1. "world" \in Ops /\ {} \in SUBSET Keys /\ TRUE \in BOOLEAN
      BY DEF Ops
    <2> QED BY <1>1, <2>1, CallFields DEF ThenWorld
  <1>2. CASE ~changed
    BY <1>2, IdleFields DEF ThenWorld
  <1> QED BY <1>1, <1>2

LEMMA WorldFields ==
  ASSUME NEW w \in Worlds
  PROVE  /\ w.team \in [Keys -> Nat]
         /\ w.failed \in BOOLEAN /\ w.raid \in BOOLEAN /\ w.drop \in BOOLEAN
  BY DEF Worlds

LEMMA CallOf ==
  ASSUME NEW c \in Calls
  PROVE  /\ c.op \in Ops /\ c.left \in SUBSET Keys /\ c.places \in [Keys -> Nat]
         /\ c.tell \in BOOLEAN /\ c.won \in BOOLEAN
  BY DEF Calls

LEMMA MarkedFields ==
  ASSUME world \in Worlds, NEW k \in Keys
  PROVE  /\ Marked(k) \in Worlds /\ Marked(k).team = world.team
         /\ Marked(k).failed = (world.failed \/ k \in Team)
         /\ Marked(k).raid = world.raid /\ Marked(k).drop = world.drop
  <1>1. (world.failed \/ k \in Team) \in BOOLEAN
    OBVIOUS
  <1> QED BY <1>1 DEF Marked, Worlds

LEMMA RekeyedFields ==
  ASSUME world \in Worlds, NEW j \in Keys, NEW k \in Keys, j # k
  PROVE  /\ Rekeyed(j, k) \in Worlds
         /\ Rekeyed(j, k).team = [i \in Keys |-> IF i = j THEN 0
                                                 ELSE IF i = k THEN world.team[k] + world.team[j]
                                                 ELSE world.team[i]]
         /\ Rekeyed(j, k).failed = world.failed
         /\ Rekeyed(j, k).raid = world.raid /\ Rekeyed(j, k).drop = world.drop
  <1> DEFINE team == [world.team EXCEPT ![j] = 0, ![k] = world.team[k] + world.team[j]]
  <1>1. world.team \in [Keys -> Nat]
    BY WorldFields
  <1>2. team = [i \in Keys |-> IF i = j THEN 0
                               ELSE IF i = k THEN world.team[k] + world.team[j]
                               ELSE world.team[i]]
    BY <1>1
  <1>3. team \in [Keys -> Nat]
    BY <1>1, <1>2
  <1>4. Rekeyed(j, k) = [world EXCEPT !.team = team]
    BY DEF Rekeyed
  <1> HIDE DEF team
  <1> QED BY <1>2, <1>3, <1>4 DEF Worlds

LEMMA DecayedFields ==
  ASSUME world \in Worlds
  PROVE  /\ Decayed \in Worlds /\ Decayed.team = world.team /\ Decayed.failed = world.failed
         /\ Decayed.raid = world.raid /\ Decayed.drop = (world.drop /\ "drop" \notin due)
  <1>1. (world.drop /\ "drop" \notin due) \in BOOLEAN
    OBVIOUS
  <1> QED BY <1>1 DEF Decayed, Worlds

(* What is pending stays so.                                                  *)
LEMMA StillPending ==
  ASSUME due \subseteq Pending, world' \in Worlds, due' \subseteq due,
         "contract" \in due' /\ Contract => Contract',
         "raid" \in due' /\ world.raid => world'.raid,
         "drop" \in due' /\ world.drop => world'.drop
  PROVE  due' \subseteq Pending'
  BY DEF Pending

LEMMA FailsTyped == ASSUME DataTyped, FailsOnce PROVE unsaved' \in 0..MaxErrors
  BY WorldFaultsAssumption DEF DataTyped, FailsOnce

LEMMA SaveTyped ==
  ASSUME DataTyped, NEW k \in Keys, NEW next, paid' \in Payments, Save(k, next)
  PROVE  DataTyped' /\ call' \in {next, Idle}
  <1>1. CASE Saved(k, next)
    <2>1. paid'[k] \in [Kinds -> Nat]
      BY DEF Payments
    <2> QED BY <1>1, <2>1 DEF Saved, DataTyped, Payments
  <1>2. CASE Fails
    BY <1>2, FailsTyped DEF Fails, database, DataTyped
  <1> QED BY <1>1, <1>2 DEF Save

LEMMA SaveWorldTyped ==
  ASSUME DataTyped, NEW next, world' \in Worlds, SaveWorld(next)
  PROVE  DataTyped' /\ call' \in {next, Idle}
  <1>1. CASE WorldSaved(next)
    BY <1>1 DEF WorldSaved, DataTyped
  <1>2. CASE Fails
    BY <1>2, FailsTyped DEF Fails, database, DataTyped
  <1> QED BY <1>1, <1>2 DEF SaveWorld

(* A call with no more to do than a world row, a message or nothing.          *)
LEMMA PlainCall ==
  ASSUME call' \in Calls, call'.op \notin {"reconcile", "hit", "save"} PROVE CallTyped'
  BY DEF CallTyped

LEMMA IdleCall == ASSUME call' = Idle PROVE CallTyped'
  BY IdleFields, PlainCall

LEMMA SaveCall ==
  ASSUME NEW k \in Keys, NEW tell \in BOOLEAN, call' = Call("save", {k}, tell)
  PROVE  CallTyped' /\ call'.op = "save" /\ call'.left = {k} /\ call'.tell = tell
  <1>1. call' \in Calls /\ call'.op = "save" /\ call'.left = {k} /\ call'.tell = tell
    BY NoTeamType DEF Call, Calls, Ops
  <1> QED BY <1>1 DEF CallTyped

LEMMA TypesInit == Init => Types
  <1> SUFFICES ASSUME Init PROVE Types
    OBVIOUS
  <1>1. NetTyped
    BY DEF Init, NetTyped
  <1>2. Nothing \in [Kinds -> Nat] /\ world \in Worlds
    BY NoTeamType DEF Init, Nothing, Worlds
  <1>3. EngineTyped
    BY <1>2, FS_EmptySet, WorldRulesAssumption DEF Init, EngineTyped, Payments
  <1>4. DataTyped
    BY <1>2, WorldFaultsAssumption DEF Init, DataTyped, Payments
  <1>5. CallTyped
    BY IdleFields DEF Init, CallTyped
  <1> QED BY <1>1, <1>3, <1>4, <1>5 DEF Types

(* Whoever NAMES tells of is linked, an account's owner as a guest.           *)
LEMMA RestoreLinks ==
  ASSUME NetTyped, NEW k \in Keys, Restore(k)
  PROVE  /\ call = Idle /\ k \in names /\ names' = names \ {k}
         /\ \E j \in Keys : Link(j) /\ there' = Moved(there, k, j)
  <1>1. CASE k \in Guests /\ UNCHANGED there /\ Link(k)
    <2>1. there = Moved(there, k, k)
      BY DEF Moved
    <2> QED BY <1>1, <2>1 DEF Restore
  <1>2. CASE \E g \in Guests \ there : there' = Moved(there, k, g) /\ Link(g)
    BY <1>2 DEF Restore, Keys
  <1> QED BY <1>1, <1>2 DEF Restore

LEMMA TypesLink ==
  ASSUME Types, NEW k \in Keys, Enter(k) \/ Restore(k) PROVE Types'
  <1> USE DEF Types
  <1>1. there' \subseteq Keys /\ names' \subseteq Keys
    <2>1. CASE Enter(k)
      BY <2>1 DEF Enter, NetTyped
    <2>2. CASE Restore(k)
      BY <2>2, RestoreLinks DEF NetTyped, Moved
    <2> QED BY <2>1, <2>2
  <1>0. PICK j \in Keys : Link(j)
    BY RestoreLinks DEF Enter
  <1>2. /\ users' = users \cup {j} /\ linked' = linked \cup {j} /\ Save(j, Idle)
        /\ UNCHANGED <<bot, fresh, due, events, wasReady, todo, world, paid, torn, recruits, broken, purse, overtaken>>
    BY <1>0 DEF Link, history
  <1>3. EngineTyped'
    BY <1>2, FS_AddElement DEF EngineTyped, Pending, Contract
  <1>4. DataTyped' /\ call' = Idle
    BY <1>2, SaveTyped DEF EngineTyped
  <1>5. NetTyped'
    BY <1>1, <1>2 DEF NetTyped
  <1> QED BY <1>3, <1>4, <1>5, IdleCall

LEMMA TypesQuit == ASSUME Types, NEW k \in Keys, Quit(k) \/ Split(k) PROVE Types'
  <1> USE DEF Types
  <1>1. /\ there' = there \ {k} /\ linked' = linked \ {k}
        /\ UNCHANGED <<bot, names, fresh, due, events, wasReady, todo, users, paid, recruits, purse, overtaken, torn>>
    BY DEF Quit, Split, history
  <1>2. world' \in Worlds /\ UNCHANGED Pending /\ broken' \in BOOLEAN
    <2>1. CASE Quit(k)
      BY <2>1, MarkedFields DEF Quit, Breaks, EngineTyped, Pending, Contract
    <2>2. CASE Split(k)
      BY <2>2 DEF Split, history, EngineTyped, NetTyped, Pending, Contract
    <2> QED BY <2>1, <2>2
  <1>3. PICK changed \in BOOLEAN : Save(k, ThenWorld(changed)) \/ Save(k, Idle)
    <2>1. Fatal(k) \in BOOLEAN
      BY DEF Fatal
    <2> QED BY <2>1 DEF Quit, Split
  <1>4. IsFiniteSet(linked')
    BY <1>1, FS_RemoveElement DEF EngineTyped
  <1>5. EngineTyped'
    BY <1>1, <1>2, <1>4 DEF EngineTyped
  <1>6. DataTyped' /\ call' \in {ThenWorld(changed), Idle}
    BY <1>1, <1>3, SaveTyped DEF EngineTyped
  <1>7. CallTyped'
    BY <1>6, ThenWorldFields, IdleFields, PlainCall
  <1>8. NetTyped'
    BY <1>1, <1>2 DEF NetTyped
  <1> QED BY <1>5, <1>6, <1>7, <1>8

LEMMA TypesUnseen == ASSUME Types, NEW k \in Keys, Unseen(k) PROVE Types'
  <1> USE DEF Types
  <1>1. /\ there' \subseteq Keys
        /\ UNCHANGED <<bot, names, fresh, due, events, wasReady, todo, users, linked, world, paid,
                       stored, rows, worldRow, call, recruits, broken, purse, overtaken, unsaved, torn>>
    BY DEF Unseen, memory, database, history, NetTyped
  <1> QED BY <1>1 DEF NetTyped, EngineTyped, DataTyped, CallTyped, Pending, Contract

LEMMA MovedTyped ==
  ASSUME NEW S \in SUBSET Keys, NEW j \in Keys, NEW k \in Keys PROVE Moved(S, j, k) \in SUBSET Keys
  BY DEF Moved

(* Following a change of key, what was pending is.                            *)
LEMMA RekeyedPending ==
  ASSUME world \in Worlds, due \subseteq Pending, NEW j \in Keys, NEW k \in Keys, j # k,
         world' = Rekeyed(j, k), UNCHANGED due
  PROVE  world' \in Worlds /\ due' \subseteq Pending'
  <1>1. world.team \in [Keys -> Nat]
    BY WorldFields
  <1>2. ASSUME Contract PROVE Contract'
    <2>1. PICK i \in Keys : world.team[i] # 0
      BY <1>1, <1>2 DEF Contract, NoTeam
    <2> DEFINE l == IF i = j THEN k ELSE i
    <2>2. world'.team[l] = IF i = j \/ i = k THEN world.team[k] + world.team[j] ELSE world.team[i]
      <3>1. world'.team = [m \in Keys |-> IF m = j THEN 0
                                           ELSE IF m = k THEN world.team[k] + world.team[j]
                                           ELSE world.team[m]]
        BY RekeyedFields
      <3> QED BY <3>1
    <2>3. world.team[k] \in Nat /\ world.team[j] \in Nat /\ world.team[i] \in Nat
      BY <1>1
    <2>4. l \in Keys /\ world'.team[l] # 0
      BY <2>1, <2>2, <2>3
    <2> QED BY <2>4 DEF Contract, NoTeam
  <1> QED BY <1>2, RekeyedFields, StillPending

LEMMA TypesRename ==
  ASSUME Types, NEW g \in Guests, NEW h \in Guests, Rename(g, h) PROVE Types'
  <1> USE DEF Types
  <1>1. /\ there' = Moved(there, g, h) /\ users' = users \ {g} /\ linked' = linked \ {g}
        /\ paid' = [paid EXCEPT ![g] = Nothing, ![h] = paid[g]]
        /\ world' = Rekeyed(g, h) /\ recruits' = Moved(recruits, g, h)
        /\ g # h /\ g \in Keys /\ h \in Keys
        /\ UNCHANGED <<bot, names, fresh, due, events, wasReady, todo, broken, purse, overtaken>>
    BY DEF Rename, Keys, EngineTyped
  <1>2. world' \in Worlds /\ due' \subseteq Pending'
    BY <1>1, RekeyedPending DEF EngineTyped
  <1>3. paid' \in Payments
    BY <1>1 DEF EngineTyped, Payments, Nothing
  <1>4. EngineTyped'
    BY <1>1, <1>2, <1>3, MovedTyped, FS_RemoveElement DEF EngineTyped
  <1>5. CASE call' = Call("save", {h}, g \in Team) /\ UNCHANGED <<worldRow, unsaved, torn>>
             /\ stored' = stored \ {g} /\ rows' = [rows EXCEPT ![g] = Nothing]
    <2>1. (g \in Team) \in BOOLEAN
      OBVIOUS
    <2>2. CallTyped'
      BY <1>1, <1>5, <2>1, SaveCall
    <2>3. DataTyped'
      BY <1>5 DEF DataTyped, Payments, Nothing
    <2>4. NetTyped'
      BY <1>1, <1>5, MovedTyped DEF NetTyped
    <2> QED BY <1>4, <2>2, <2>3, <2>4
  <1>6. CASE Fails /\ torn' = TRUE
    <2>1. DataTyped' /\ call' = Idle
      BY <1>6, FailsTyped DEF Fails, database, DataTyped
    <2>2. NetTyped'
      BY <1>1, <1>6, MovedTyped DEF NetTyped
    <2> QED BY <1>4, <2>1, <2>2, IdleCall
  <1> QED BY <1>5, <1>6 DEF Rename

LEMMA TypesMigrate ==
  ASSUME Types, NEW g \in Guests, NEW a \in Accounts, Migrate(g, a) PROVE Types'
  <1> USE DEF Types
  <1>1. /\ there' = (there \ {g}) \cup {a} /\ users' = (users \ {g}) \cup {a} /\ linked' = (linked \ {g}) \cup {a}
        /\ paid' = [paid EXCEPT ![g] = Nothing, ![a] = [e \in Kinds |-> paid[g][e] + rows[a][e]]]
        /\ world' = Rekeyed(g, a) /\ recruits' = Moved(recruits, g, a)
        /\ stored' = (stored \ {g}) \cup {a}
        /\ rows' = [rows EXCEPT ![g] = Nothing, ![a] = paid'[a]]
        /\ call' = Call("save", {a}, g \in Team)
        /\ UNCHANGED <<bot, names, fresh, due, events, wasReady, todo, broken, purse, overtaken, worldRow, unsaved, torn>>
    BY DEF Migrate
  <1>2. g # a /\ g \in Keys /\ a \in Keys
    BY WorldKeysAssumption DEF Keys
  <1>3. world' \in Worlds /\ due' \subseteq Pending'
    BY <1>1, <1>2, RekeyedPending DEF EngineTyped
  <1>4. paid' \in Payments /\ paid'[a] \in [Kinds -> Nat]
    <2>1. [e \in Kinds |-> paid[g][e] + rows[a][e]] \in [Kinds -> Nat]
      BY <1>2 DEF EngineTyped, DataTyped, Payments
    <2> QED BY <1>1, <1>2, <2>1 DEF EngineTyped, Payments, Nothing
  <1>5. IsFiniteSet(linked')
    BY <1>1, FS_RemoveElement, FS_AddElement DEF EngineTyped
  <1>6. EngineTyped'
    <2>1. linked' \subseteq users'
      BY <1>1 DEF EngineTyped
    <2>2. users' \subseteq Keys /\ recruits' \subseteq Keys
      BY <1>1, <1>2, MovedTyped DEF EngineTyped
    <2> QED BY <1>1, <1>3, <1>4, <1>5, <2>1, <2>2 DEF EngineTyped
  <1>7. (g \in Team) \in BOOLEAN
    OBVIOUS
  <1>8. CallTyped'
    BY <1>1, <1>2, <1>7, SaveCall
  <1>9. DataTyped'
    BY <1>1, <1>2, <1>4 DEF DataTyped, Payments, Nothing
  <1>10. NetTyped'
    BY <1>1, <1>2 DEF NetTyped
  <1> QED BY <1>6, <1>8, <1>9, <1>10

LEMMA TypesSwitch ==
  ASSUME Types, NEW a \in Accounts, NEW b \in Accounts, Switch(a, b) PROVE Types'
  <1> USE DEF Types
  <1>1. /\ there' = Moved(there, a, b) /\ linked' = linked \ {a} /\ world' = Marked(a) /\ Breaks(a)
        /\ a \in Keys /\ b \in Keys
        /\ Save(a, Call("save", {b}, Fatal(a))) /\ torn' = (torn \/ call' = Idle)
        /\ UNCHANGED <<bot, names, fresh, due, events, wasReady, todo, users, paid, recruits, purse, overtaken>>
    BY DEF Switch, Keys
  <1>2. world' \in Worlds /\ UNCHANGED Pending /\ broken' \in BOOLEAN /\ torn' \in BOOLEAN
    BY <1>1, MarkedFields DEF Breaks, EngineTyped, Pending, Contract
  <1>3. EngineTyped'
    BY <1>1, <1>2, FS_RemoveElement DEF EngineTyped
  <1>4. DataTyped' /\ call' \in {Call("save", {b}, Fatal(a)), Idle}
    BY <1>1, SaveTyped DEF EngineTyped
  <1>5. ASSUME call' = Call("save", {b}, Fatal(a)) PROVE CallTyped'
    <2> DEFINE fatal == Fatal(a)
    <2>1. fatal \in BOOLEAN /\ call' = Call("save", {b}, fatal)
      BY <1>5 DEF Fatal
    <2> HIDE DEF fatal
    <2> QED BY <1>1, <2>1, SaveCall
  <1>6. NetTyped'
    BY <1>1, <1>2, MovedTyped DEF NetTyped
  <1> QED BY <1>3, <1>4, <1>5, <1>6, IdleCall

LEMMA TypesFinishSave == ASSUME Types, NEW k \in Keys, FinishSave(k) PROVE Types'
  <1> USE DEF Types
  <1>1. /\ users' = users \cup {k} /\ linked' = linked \cup {k} /\ Save(k, ThenWorld(call.tell))
        /\ UNCHANGED <<there, bot, names, fresh, due, events, wasReady, todo, world, paid, recruits, broken, purse, overtaken, torn>>
    BY DEF FinishSave, channel, history
  <1>2. EngineTyped'
    BY <1>1, FS_AddElement DEF EngineTyped, Pending, Contract
  <1>3. DataTyped' /\ call' \in {ThenWorld(call.tell), Idle}
    BY <1>1, SaveTyped DEF EngineTyped
  <1>4. CallTyped'
    BY <1>3, CallOf, ThenWorldFields, IdleFields, PlainCall DEF CallTyped
  <1>5. NetTyped'
    BY <1>1 DEF NetTyped
  <1> QED BY <1>2, <1>3, <1>4, <1>5

LEMMA TypesWorldRow ==
  ASSUME Types, FinishWorld \/ FinishCity PROVE Types'
  <1> USE DEF Types
  <1>1. PICK next \in {Idle, Step("visit", TRUE)} : SaveWorld(next)
    BY DEF FinishWorld, FinishCity
  <1>2. UNCHANGED <<there, bot, names, fresh, due, events, wasReady, todo, users, linked, world, paid, recruits, broken, purse, overtaken, torn>>
    BY DEF FinishWorld, FinishCity, channel, memory, history
  <1>3. DataTyped' /\ call' \in {next, Idle}
    BY <1>1, <1>2, SaveWorldTyped DEF EngineTyped
  <1>4. CallTyped'
    <2>1. Step("visit", TRUE) \in Calls /\ Step("visit", TRUE).op = "visit"
      BY StepFields DEF Ops
    <2> QED BY <1>3, <2>1, IdleFields, PlainCall
  <1>5. NetTyped' /\ EngineTyped'
    BY <1>2 DEF NetTyped, EngineTyped, Pending, Contract
  <1> QED BY <1>3, <1>4, <1>5

LEMMA TypesClaimDrop == ASSUME Types, NEW k \in Keys, ClaimDrop(k) PROVE Types'
  <1> USE DEF Types
  <1>1. /\ paid' = [paid EXCEPT ![k].drop = @ + 1] /\ world' = [world EXCEPT !.drop = FALSE]
        /\ "drop" \notin due /\ Save(k, ThenWorld(TRUE))
        /\ UNCHANGED <<there, bot, names, fresh, due, events, wasReady, todo, users, linked, recruits, broken, purse, overtaken, torn>>
    BY DEF ClaimDrop, channel, history
  <1>2. paid' \in Payments
    BY <1>1 DEF EngineTyped, Payments, Kinds
  <1>3. world' \in Worlds /\ world'.team = world.team /\ world'.raid = world.raid
    BY <1>1 DEF EngineTyped, Worlds
  <1>4. EngineTyped'
    BY <1>1, <1>2, <1>3, StillPending DEF EngineTyped, Contract
  <1>5. DataTyped' /\ call' \in {ThenWorld(TRUE), Idle}
    BY <1>1, <1>2, SaveTyped
  <1>6. CallTyped'
    BY <1>5, ThenWorldFields, IdleFields, PlainCall
  <1>7. NetTyped'
    BY <1>1 DEF NetTyped
  <1> QED BY <1>4, <1>5, <1>6, <1>7

LEMMA OpenedTyped ==
  ASSUME EngineTyped, events < MaxEvents, OpensDrop, UNCHANGED <<users, linked, paid, recruits>>
  PROVE  EngineTyped'
  <1>1. /\ world' = [world EXCEPT !.drop = TRUE] /\ due' = due \ {"drop"}
        /\ purse' = [purse EXCEPT !.drop = @ + 1] /\ events' = events + 1
    BY DEF OpensDrop
  <1>2. world' \in Worlds /\ world'.team = world.team /\ world'.raid = world.raid /\ world'.drop
    BY <1>1 DEF EngineTyped, Worlds
  <1>3. purse' \in [Kinds -> Nat]
    BY <1>1 DEF EngineTyped, Kinds
  <1>4. events' \in 0..MaxEvents
    BY <1>1, WorldRulesAssumption DEF EngineTyped
  <1>5. due' \subseteq Pending'
    BY <1>1, <1>2, StillPending DEF EngineTyped, Contract
  <1> QED BY <1>2, <1>3, <1>4, <1>5 DEF EngineTyped

LEMMA TypesForcePirate == ASSUME Types, ForcePirate PROVE Types'
  <1> USE DEF Types
  <1>1. /\ OpensDrop /\ events < MaxEvents /\ SaveWorld(Idle)
        /\ UNCHANGED <<there, bot, names, fresh, wasReady, todo, users, linked, paid, recruits, broken, overtaken, torn>>
    BY DEF ForcePirate, channel
  <1>2. EngineTyped'
    BY <1>1, OpenedTyped
  <1>3. DataTyped' /\ call' = Idle
    BY <1>1, <1>2, SaveWorldTyped DEF EngineTyped
  <1>4. NetTyped'
    BY <1>1 DEF NetTyped
  <1> QED BY <1>2, <1>3, <1>4, IdleCall

LEMMA TypesOutside == ASSUME Types, Return \/ \E e \in Kinds : Deadline(e) PROVE Types'
  <1> USE DEF Types
  <1>1. /\ due' \subseteq Pending
        /\ UNCHANGED <<events, wasReady, todo, users, linked, world, paid, stored, rows, worldRow,
                       call, recruits, broken, purse, overtaken, unsaved, torn>>
    BY DEF Return, Deadline, channel, memory, database, history, EngineTyped
  <1>2. /\ there' \subseteq Keys /\ names' \subseteq Keys /\ fresh' \in BOOLEAN
        /\ bot' \in {"in", "out", "knocking", "off"}
    BY DEF Return, Deadline, channel, NetTyped
  <1> QED BY <1>1, <1>2 DEF NetTyped, EngineTyped, DataTyped, CallTyped, Pending, Contract

LEMMA TypesOutage == ASSUME Types, NEW where \in {"out", "off"}, Outage(where) PROVE Types'
  <1> USE DEF Types
  <1>1. /\ bot' = where /\ names' = {} /\ overtaken' = (overtaken \/ todo)
        /\ UNCHANGED <<there, fresh, due, events, wasReady, todo, call, recruits, broken, purse, torn>>
        /\ call = Idle
    BY DEF Outage
  <1>2. PICK done \in SUBSET linked, off \in SUBSET linked : DisconnectAll(done, off)
    <2>1. CASE DisconnectAll(linked, linked)
      BY <2>1
    <2>2. CASE \E k \in linked : \E done \in SUBSET (linked \ {k}) : DisconnectAll(done, done \cup {k})
      <3>0. PICK k \in linked : \E done \in SUBSET (linked \ {k}) : DisconnectAll(done, done \cup {k})
        BY <2>2
      <3>1. PICK done \in SUBSET (linked \ {k}) : DisconnectAll(done, done \cup {k})
        BY <3>0
      <3>2. done \in SUBSET linked /\ done \cup {k} \in SUBSET linked
        OBVIOUS
      <3> QED BY <3>1, <3>2
    <2> QED BY <2>1, <2>2 DEF Outage
  <1>3. unsaved' \in 0..MaxErrors
    BY FailsTyped DEF Outage, DataTyped
  <1>4. /\ linked' = linked \ off /\ stored' = stored \cup done
        /\ rows' = [k \in Keys |-> IF k \in done THEN paid[k] ELSE rows[k]]
        /\ UNCHANGED <<users, world, paid, worldRow>>
    BY <1>2 DEF DisconnectAll
  <1>5. EngineTyped'
    BY <1>1, <1>4, FS_Subset DEF EngineTyped, Pending, Contract
  <1>6. DataTyped'
    BY <1>3, <1>4 DEF DataTyped, EngineTyped, Payments
  <1>7. NetTyped'
    BY <1>1 DEF NetTyped
  <1> QED BY <1>1, <1>5, <1>6, <1>7, IdleCall

LEMMA TypesCrash == ASSUME Types, CrashRestart PROVE Types'
  <1> USE DEF Types
  <1>1. /\ users' = stored /\ linked' = {} /\ world' = worldRow /\ paid' = rows
        /\ call' = Idle /\ unsaved' = 0 /\ torn' = (torn \/ Unwritten)
        /\ bot' = "off" /\ names' = {} /\ wasReady' = FALSE /\ todo' = FALSE /\ due' = due \cap Pending'
        /\ UNCHANGED <<there, fresh, events, stored, rows, worldRow, recruits, broken, purse, overtaken>>
    BY DEF CrashRestart, database, history
  <1>2. EngineTyped'
    BY <1>1, FS_EmptySet DEF EngineTyped, DataTyped
  <1>3. DataTyped'
    BY <1>1, WorldFaultsAssumption DEF DataTyped
  <1>4. NetTyped'
    BY <1>1 DEF NetTyped
  <1> QED BY <1>1, <1>2, <1>3, <1>4, IdleCall

LEMMA TypesRound == ASSUME Types, Round PROVE Types'
  <1> USE DEF Types
  <1>1. UNCHANGED <<there, names, due, events, users, linked, world, paid, stored, rows, worldRow,
                    recruits, broken, purse, unsaved, torn>>
    BY DEF Round, memory, database
  <1>2. EngineTyped' /\ DataTyped'
    BY <1>1 DEF EngineTyped, DataTyped, Pending, Contract
  <1>3. NetTyped'
    <2>1. CASE bot # "in"
      <3>1. /\ bot' = (IF bot = "out" THEN "knocking" ELSE bot) /\ wasReady' = FALSE
            /\ todo = FALSE /\ overtaken' = FALSE /\ UNCHANGED <<fresh, todo>>
        BY <2>1 DEF Round, NetTyped
      <3> QED BY <1>1, <3>1 DEF NetTyped
    <2>2. CASE bot = "in"
      <3>1. fresh' = FALSE /\ todo' = wasReady /\ wasReady' = TRUE /\ overtaken' = FALSE /\ UNCHANGED bot
        BY <2>2 DEF Round, Settled
      <3> QED BY <1>1, <3>1 DEF NetTyped
    <2> QED BY <2>1, <2>2
  <1>4. CASE call' = Idle
    BY <1>2, <1>3, <1>4, IdleCall
  <1>5. CASE \E gone \in SUBSET linked : call' = Call("reconcile", gone, FALSE)
    <2>1. PICK gone \in SUBSET linked : call' = Call("reconcile", gone, FALSE)
      BY <1>5
    <2>2. "reconcile" \in Ops /\ gone \in SUBSET Keys /\ FALSE \in BOOLEAN
      BY DEF Ops, EngineTyped
    <2>3. call' \in Calls /\ call'.op = "reconcile" /\ call'.left = gone
      BY <2>1, <2>2, CallFields
    <2> QED BY <1>1, <1>2, <1>3, <2>3 DEF CallTyped
  <1>6. call' = Idle \/ \E gone \in SUBSET linked : call' = Call("reconcile", gone, FALSE)
    <2>1. CASE UNCHANGED call
      BY <2>1 DEF Round
    <2>2. CASE \E gone \in SUBSET (linked \ (there \cup names)) :
                  call' = IF gone = {} THEN Idle ELSE Call("reconcile", gone, FALSE)
      BY <2>2
    <2> QED BY <2>1, <2>2 DEF Round
  <1> QED BY <1>4, <1>5, <1>6

LEMMA TypesDropGone == ASSUME Types, NEW k \in Keys, DropGone(k) PROVE Types'
  <1> USE DEF Types
  <1> DEFINE rest == call.left \ {k}
             tell == call.tell \/ Fatal(k)
             next == IF rest = {} THEN ThenWorld(tell) ELSE Call("reconcile", rest, tell)
  <1>1. /\ linked' = linked \ {k} /\ world' = Marked(k) /\ Breaks(k) /\ Save(k, next)
        /\ call.op = "reconcile"
        /\ UNCHANGED <<there, bot, names, fresh, due, events, wasReady, todo, users, paid, recruits, purse, overtaken, torn>>
    BY DEF DropGone, channel
  <1>2. world' \in Worlds /\ UNCHANGED Pending /\ broken' \in BOOLEAN
    BY <1>1, MarkedFields DEF Breaks, EngineTyped, Pending, Contract
  <1>3. EngineTyped'
    BY <1>1, <1>2, FS_RemoveElement DEF EngineTyped
  <1>4. DataTyped' /\ call' \in {next, Idle}
    BY <1>1, SaveTyped DEF EngineTyped
  <1>5. rest \subseteq linked' /\ rest \in SUBSET Keys /\ tell \in BOOLEAN
    BY <1>1, CallOf DEF CallTyped, EngineTyped
  <1>6. CallTyped'
    <2> HIDE DEF rest, tell
    <2>1. CASE call' = ThenWorld(tell) \/ call' = Idle
      BY <1>5, <2>1, ThenWorldFields, IdleFields, PlainCall
    <2>2. CASE call' = Call("reconcile", rest, tell)
      <3>1. "reconcile" \in Ops
        BY DEF Ops
      <3>2. call' \in Calls /\ call'.op = "reconcile" /\ call'.left = rest
        BY <1>5, <2>2, <3>1, CallFields
      <3> QED BY <1>5, <3>2 DEF CallTyped
    <2> QED BY <1>4, <2>1, <2>2
  <1>7. NetTyped'
    BY <1>1, <1>2 DEF NetTyped
  <1> QED BY <1>3, <1>4, <1>6, <1>7

(* The steps of Tick that write nothing.                                      *)
LEMMA TypesBeginTick == ASSUME Types, BeginTick \/ EndRaid PROVE Types'
  <1> USE DEF Types
  <1>1. UNCHANGED <<there, bot, names, fresh, due, events, wasReady, users, linked, world, paid, stored, rows, worldRow,
                    recruits, broken, purse, overtaken, unsaved, torn>>
    BY DEF BeginTick, EndRaid, channel, memory, database, history
  <1>4. EngineTyped' /\ DataTyped'
    BY <1>1 DEF EngineTyped, DataTyped, Pending, Contract
  <1>2. NetTyped'
    <2>1. CASE todo' = FALSE
      BY <1>1, <2>1 DEF NetTyped
    <2>2. CASE UNCHANGED todo
      BY <1>1, <2>2 DEF NetTyped
    <2> QED BY <2>1, <2>2 DEF BeginTick, EndRaid
  <1>3. call' \in Calls /\ call'.op \in {"pay", "raid", "event"}
    <2>1. /\ Step("raid", FALSE) \in Calls /\ Step("raid", FALSE).op = "raid"
          /\ Step("event", TRUE) \in Calls /\ Step("event", TRUE).op = "event"
      BY StepFields DEF Ops
    <2> DEFINE won == ~world.failed /\ Team \subseteq linked
               paying == [op |-> "pay", left |-> {}, places |-> world.team, tell |-> TRUE, won |-> won]
    <2>2. world.team \in [Keys -> Nat] /\ won \in BOOLEAN
      BY WorldFields DEF EngineTyped
    <2>3. call' \in {paying, Step("raid", FALSE), Step("event", TRUE)}
      BY DEF BeginTick, EndRaid
    <2>4. paying \in Calls /\ paying.op = "pay"
      <3> HIDE DEF won
      <3> QED BY <2>2 DEF Calls, Ops
    <2> QED BY <2>1, <2>3, <2>4
  <1> QED BY <1>2, <1>3, <1>4, PlainCall

LEMMA RewardedTyped ==
  ASSUME Types, NEW k \in Keys, NEW kind \in Kinds
  PROVE  Rewarded(k, kind) \in Payments
  BY DEF Rewarded, Payments, Types, EngineTyped

LEMMA TypesPay == ASSUME Types, NEW k \in Keys, Pay(k) PROVE Types'
  <1> USE DEF Types
  <1> DEFINE rest == [call EXCEPT !.places[k] = @ - 1]
  <1>1. /\ call.op = "pay" /\ call.places[k] > 0
        /\ UNCHANGED <<there, bot, names, fresh, due, events, wasReady, todo, users, linked, world, recruits, broken, purse, overtaken>>
    BY DEF Pay, channel, history
  <1>2. rest \in Calls /\ rest.op = "pay"
    <2>1. [call.places EXCEPT ![k] = @ - 1] \in [Keys -> Nat]
      BY <1>1, CallOf DEF CallTyped
    <2> QED BY <1>1, <2>1 DEF CallTyped, Calls
  <1> HIDE DEF rest
  <1>3. paid' \in Payments /\ DataTyped' /\ call' \in {rest, Idle} /\ torn' \in BOOLEAN
    <2>1. CASE k \in users /\ paid' = Rewarded(k, "contract") /\ Save(k, rest) /\ torn' = (torn \/ call' = Idle)
      <3>1. paid' \in Payments
        BY <2>1, RewardedTyped DEF Kinds
      <3> QED BY <2>1, <3>1, SaveTyped
    <2>2. CASE call' = rest /\ UNCHANGED <<paid, database, unsaved, torn>>
      BY <2>2 DEF database, DataTyped, EngineTyped, NetTyped
    <2> QED BY <2>1, <2>2 DEF Pay, rest
  <1>4. EngineTyped' /\ NetTyped'
    BY <1>1, <1>3 DEF EngineTyped, NetTyped, Pending, Contract
  <1>5. CallTyped'
    BY <1>2, <1>3, IdleFields, PlainCall
  <1> QED BY <1>3, <1>4, <1>5

LEMMA TypesEndPay == ASSUME Types, EndPay PROVE Types'
  <1> USE DEF Types
  <1>1. /\ world' = [world EXCEPT !.team = NoTeam, !.failed = FALSE]
        /\ recruits' = {} /\ broken' = FALSE /\ due' = due \ {"contract"}
        /\ call' = Step("raid", TRUE)
        /\ UNCHANGED <<there, bot, names, fresh, events, wasReady, todo, users, linked, paid, stored, rows, worldRow,
                       purse, overtaken, unsaved, torn>>
    BY DEF EndPay, channel, database
  <1>2. world' \in Worlds /\ world'.raid = world.raid /\ world'.drop = world.drop
    BY <1>1, NoTeamType DEF EngineTyped, Worlds
  <1>3. due' \subseteq Pending'
    BY <1>1, <1>2, StillPending DEF EngineTyped
  <1>4. EngineTyped' /\ NetTyped' /\ DataTyped'
    BY <1>1, <1>2, <1>3 DEF EngineTyped, NetTyped, DataTyped
  <1>5. CallTyped'
    BY <1>1, StepFields, PlainCall DEF Ops
  <1> QED BY <1>4, <1>5

LEMMA TypesBeginRaid == ASSUME Types, BeginRaid PROVE Types'
  <1> USE DEF Types
  <1>1. UNCHANGED <<there, bot, names, fresh, events, wasReady, todo, users, linked, paid, stored, rows, worldRow,
                    recruits, broken, overtaken, unsaved, torn>>
    BY DEF BeginRaid, channel, database
  <1>2. CASE world.raid /\ "raid" \in due
    <2>1. /\ world' = [world EXCEPT !.raid = FALSE] /\ due' = due \ {"raid"}
          /\ purse' = [purse EXCEPT !.raid = @ + Cardinality(linked)]
          /\ \E won \in BOOLEAN :
                call' = [op |-> "hit", left |-> linked, places |-> NoTeam, tell |-> TRUE, won |-> won]
      BY <1>2 DEF BeginRaid
    <2>2. world' \in Worlds /\ world'.team = world.team /\ world'.drop = world.drop
      BY <2>1 DEF EngineTyped, Worlds
    <2>3. due' \subseteq Pending'
      BY <2>1, <2>2, StillPending DEF EngineTyped, Contract
    <2>4. purse' \in [Kinds -> Nat]
      BY <2>1, FS_CardinalityType DEF EngineTyped, Kinds
    <2>5. call' \in Calls /\ call'.op = "hit" /\ call'.left = linked
      BY <2>1, NoTeamType DEF Calls, Ops, EngineTyped
    <2>6. EngineTyped' /\ NetTyped' /\ DataTyped'
      BY <1>1, <2>2, <2>3, <2>4 DEF EngineTyped, NetTyped, DataTyped
    <2>7. CallTyped'
      BY <1>1, <2>5 DEF CallTyped
    <2> QED BY <2>6, <2>7
  <1>3. CASE ~(world.raid /\ "raid" \in due)
    <2>1. call' = Step("event", call.tell) /\ UNCHANGED <<world, due, purse>>
      BY <1>3 DEF BeginRaid
    <2>2. "event" \in Ops /\ call.tell \in BOOLEAN
      BY CallOf DEF CallTyped, Ops
    <2>3. CallTyped'
      BY <2>1, <2>2, StepFields, PlainCall
    <2> QED BY <1>1, <2>1, <2>3 DEF EngineTyped, NetTyped, DataTyped, Pending, Contract
  <1> QED BY <1>2, <1>3

LEMMA TypesRaidHit == ASSUME Types, NEW k \in Keys, RaidHit(k) PROVE Types'
  <1> USE DEF Types
  <1> DEFINE rest == [call EXCEPT !.left = @ \ {k}]
  <1>1. /\ call.op = "hit" /\ paid' = Rewarded(k, "raid") /\ Save(k, rest)
        /\ UNCHANGED <<there, bot, names, fresh, due, events, wasReady, todo, users, linked, world,
                       recruits, broken, purse, overtaken, torn>>
    BY DEF RaidHit, channel, history
  <1>2. paid' \in Payments
    BY <1>1, RewardedTyped DEF Kinds
  <1>3. rest \in Calls /\ rest.op = "hit" /\ rest.left \subseteq linked
    BY <1>1 DEF CallTyped, Calls
  <1> HIDE DEF rest
  <1>4. DataTyped' /\ call' \in {rest, Idle}
    BY <1>1, <1>2, SaveTyped
  <1>5. CallTyped'
    BY <1>1, <1>3, <1>4, IdleCall DEF CallTyped
  <1> QED BY <1>1, <1>2, <1>4, <1>5 DEF EngineTyped, NetTyped, Pending, Contract

LEMMA TypesQuiet == ASSUME Types, Quiet PROVE Types'
  <1> USE DEF Types
  <1>1. /\ world' = Decayed /\ due' = due \ {"drop"} /\ call' = Step("visit", call.tell \/ Decayed # world)
        /\ UNCHANGED <<there, bot, names, fresh, events, wasReady, todo, users, linked, paid, stored, rows, worldRow,
                       recruits, broken, purse, overtaken, unsaved, torn>>
    BY DEF Quiet, channel, database, history
  <1>2. due' \subseteq Pending' /\ world' \in Worlds
    BY <1>1, DecayedFields, StillPending DEF EngineTyped, Contract
  <1>3. CallTyped'
    <2> DEFINE tell == call.tell \/ Decayed # world
    <2>1. "visit" \in Ops /\ tell \in BOOLEAN
      BY CallOf DEF CallTyped, Ops
    <2>2. call' = Step("visit", tell)
      BY <1>1
    <2> HIDE DEF tell
    <2> QED BY <2>1, <2>2, StepFields, PlainCall
  <1> QED BY <1>1, <1>2, <1>3 DEF EngineTyped, NetTyped, DataTyped

LEMMA CityTyped == ASSUME Types, CityEvent PROVE DataTyped' /\ CallTyped'
  <1> USE DEF Types
  <1>1. "city" \in Ops /\ call' = Step("city", TRUE) /\ UNCHANGED <<stored, rows, worldRow, unsaved>>
    BY DEF CityEvent, database, Ops
  <1>2. CallTyped'
    BY <1>1, StepFields, PlainCall
  <1> QED BY <1>1, <1>2 DEF DataTyped

LEMMA CityFrame ==
  ASSUME CityEvent
  PROVE  UNCHANGED <<there, bot, names, fresh, wasReady, todo, users, linked, paid, stored, rows, worldRow, overtaken, unsaved, torn>>
         /\ events < MaxEvents
  BY DEF CityEvent, channel, database

LEMMA TypesPirateEvent == ASSUME Types, PirateEvent PROVE Types'
  <1> USE DEF Types
  <1>1. CityEvent /\ OpensDrop /\ UNCHANGED <<recruits, broken>>
    BY DEF PirateEvent
  <1>2. EngineTyped'
    BY <1>1, CityFrame, OpenedTyped
  <1>3. NetTyped'
    BY <1>1, CityFrame DEF NetTyped
  <1> QED BY <1>1, <1>2, <1>3, CityTyped

LEMMA TypesRaidEvent == ASSUME Types, RaidEvent PROVE Types'
  <1> USE DEF Types
  <1>1. /\ CityEvent /\ ~world.raid /\ world' = [Decayed EXCEPT !.raid = TRUE]
        /\ due' = due \ {"drop", "raid"} /\ events' = events + 1 /\ UNCHANGED <<recruits, broken, purse>>
    BY DEF RaidEvent
  <1>2. world' \in Worlds /\ world'.team = world.team /\ world'.raid = TRUE
    <2> DEFINE d == Decayed
    <2>1. d \in Worlds /\ d.team = world.team
      BY DecayedFields DEF EngineTyped
    <2>2. world' = [d EXCEPT !.raid = TRUE]
      BY <1>1
    <2> HIDE DEF d
    <2> QED BY <2>1, <2>2 DEF Worlds
  <1>3. due' \subseteq Pending'
    BY <1>1, <1>2, StillPending DEF EngineTyped, Contract
  <1>4. events' \in 0..MaxEvents
    BY <1>1, CityFrame, WorldRulesAssumption DEF EngineTyped
  <1>5. EngineTyped' /\ NetTyped'
    BY <1>1, <1>2, <1>3, <1>4, CityFrame DEF EngineTyped, NetTyped
  <1> QED BY <1>1, <1>5, CityTyped

LEMMA TypesContractEvent == ASSUME Types, ContractEvent PROVE Types'
  <1> USE DEF Types
  <1>1. PICK team \in SUBSET linked :
          /\ world' = [Decayed EXCEPT !.team = [k \in Keys |-> IF k \in team THEN 1 ELSE 0]]
          /\ recruits' = team /\ broken' = FALSE
          /\ purse' = [purse EXCEPT !.contract = @ + Cardinality(team)]
    BY DEF ContractEvent
  <1>2. CityEvent /\ ~Contract /\ due' = due \ {"drop", "contract"} /\ events' = events + 1
    BY DEF ContractEvent
  <1>3. world' \in Worlds /\ world'.raid = world.raid
    <2> DEFINE d == Decayed
               places == [k \in Keys |-> IF k \in team THEN 1 ELSE 0]
    <2>1. d \in Worlds /\ d.raid = world.raid /\ places \in [Keys -> Nat]
      BY DecayedFields DEF EngineTyped
    <2>2. world' = [d EXCEPT !.team = places]
      BY <1>1
    <2> HIDE DEF d, places
    <2> QED BY <2>1, <2>2 DEF Worlds
  <1>4. due' \subseteq Pending'
    BY <1>2, <1>3, StillPending DEF EngineTyped, Contract
  <1>5. events' \in 0..MaxEvents
    BY <1>2, CityFrame, WorldRulesAssumption DEF EngineTyped
  <1>6. purse' \in [Kinds -> Nat]
    <2>1. Cardinality(team) \in Nat
      BY FS_Subset, FS_CardinalityType DEF EngineTyped
    <2> QED BY <1>1, <2>1 DEF EngineTyped, Kinds
  <1>7. EngineTyped' /\ NetTyped'
    <2>1. recruits' \subseteq Keys /\ UNCHANGED <<users, linked, paid>>
      BY <1>1, <1>2, CityFrame DEF EngineTyped
    <2>2. EngineTyped'
      BY <1>3, <1>4, <1>5, <1>6, <2>1 DEF EngineTyped
    <2>3. broken' = FALSE /\ UNCHANGED <<there, names, bot, fresh, wasReady, todo, overtaken, torn>>
      BY <1>1, <1>2, CityFrame
    <2>4. NetTyped'
      BY <2>3 DEF NetTyped
    <2> QED BY <2>2, <2>4
  <1> QED BY <1>2, <1>7, CityTyped

LEMMA TypesVisit == ASSUME Types, Visit PROVE Types'
  <1> USE DEF Types
  <1>1. PICK gone \in SUBSET Prunable, reached \in SUBSET linked :
          /\ users' = users \ gone /\ stored' = (stored \ gone) \cup reached
          /\ paid' = [k \in Keys |-> IF k \in gone THEN Nothing ELSE paid[k]]
          /\ rows' = [k \in Keys |-> IF k \in gone THEN Nothing ELSE IF k \in reached THEN paid[k] ELSE rows[k]]
          /\ \/ (\E tell \in {call.tell, TRUE} : call' = Step("remember", tell)) /\ UNCHANGED unsaved
             \/ FailsOnce /\ call' = Idle
    BY DEF Visit
  <1>2. UNCHANGED <<there, bot, names, fresh, due, events, wasReady, todo, linked, world, worldRow,
                    recruits, broken, purse, overtaken, torn>>
    BY DEF Visit, channel, history
  <1>3. paid' \in Payments /\ rows' \in Payments
    BY <1>1 DEF EngineTyped, DataTyped, Payments, Nothing
  <1>4. linked' \subseteq users' /\ users' \subseteq Keys
    BY <1>1, <1>2 DEF Prunable, EngineTyped
  <1>5. EngineTyped' /\ NetTyped'
    BY <1>2, <1>3, <1>4 DEF EngineTyped, NetTyped, Pending, Contract
  <1>6. unsaved' \in 0..MaxErrors
    BY <1>1, FailsTyped DEF DataTyped
  <1>7. DataTyped'
    BY <1>1, <1>2, <1>3, <1>6 DEF DataTyped, EngineTyped
  <1>8. CallTyped'
    <2>1. "remember" \in Ops /\ \A tell \in {call.tell, TRUE} : tell \in BOOLEAN
      BY CallOf DEF Ops, CallTyped
    <2> QED BY <1>1, <2>1, StepFields, PlainCall, IdleCall
  <1> QED BY <1>5, <1>7, <1>8

LEMMA TypesRemember == ASSUME Types, Remember PROVE Types'
  <1> USE DEF Types
  <1>1. UNCHANGED <<there, bot, names, fresh, due, events, wasReady, todo, users, linked, world, paid,
                    recruits, broken, purse, overtaken, torn>>
    BY DEF Remember, channel, memory, history
  <1>2. DataTyped' /\ call' = Idle
    <2>1. CASE SaveWorld(Idle)
      BY <1>1, <2>1, SaveWorldTyped DEF EngineTyped
    <2>2. CASE call' = Idle /\ UNCHANGED <<database, unsaved>>
      BY <2>2 DEF database, DataTyped
    <2> QED BY <2>1, <2>2 DEF Remember
  <1> QED BY <1>1, <1>2, IdleCall DEF EngineTyped, NetTyped, Pending, Contract

LEMMA TypesNext == ASSUME Types, [Next]_vars PROVE Types'
  <1>1. CASE UNCHANGED vars
    BY <1>1 DEF Types, NetTyped, EngineTyped, DataTyped, CallTyped, Pending, Contract,
                vars, channel, memory, database, history
  <1>2. CASE People
    BY <1>2, TypesLink, TypesQuit, TypesUnseen, TypesClaimDrop, TypesFinishSave, TypesRename, TypesMigrate,
       TypesSwitch, TypesForcePirate, TypesWorldRow DEF People
  <1>3. CASE Scheduler
    BY <1>3, TypesRound, TypesBeginTick, TypesEndPay, TypesBeginRaid, TypesQuiet, TypesPirateEvent, TypesRaidEvent,
       TypesContractEvent, TypesWorldRow, TypesVisit, TypesRemember, TypesDropGone, TypesPay, TypesRaidHit
    DEF Scheduler
  <1>4. CASE Outside
    BY <1>4, TypesOutside, TypesOutage, TypesCrash DEF Outside
  <1> QED BY <1>1, <1>2, <1>3, <1>4 DEF Next

LEMMA AlwaysTyped == Spec => []Types
  BY TypesInit, TypesNext, PTL DEF Spec

-----------------------------------------------------------------------------
(* What the rows lag behind.                                                  *)

(* The runner that a call has taken out of one row and not yet put in         *)
(* another.                                                                   *)
Owed == IF call.op = "save" THEN call.left ELSE {}

RowsInv ==
    unsaved = 0 =>
        /\ worldRow = world \/ call.tell
        /\ \A k \in Keys \ Owed : rows[k] = paid[k] /\ (k \in stored <=> k \in users)

LEMMA NotFailed == ASSUME Types, FailsOnce PROVE unsaved' # 0
  BY DEF FailsOnce, Types, DataTyped

LEMMA NothingOwed == call.op # "save" => Owed = {}
  BY DEF Owed

LEMMA IdleOwes == ASSUME call = Idle PROVE Owed = {} /\ ~call.tell
  BY IdleFields DEF Owed

LEMMA MarkedSame == ASSUME world \in Worlds, NEW k \in Keys, ~Fatal(k) PROVE Marked(k) = world
  <1>1. (world.failed \/ k \in Team) = world.failed
    BY WorldFields DEF Fatal
  <1> QED BY <1>1 DEF Marked, Worlds

LEMMA RekeyedSame ==
  ASSUME world \in Worlds, NEW j \in Keys, NEW k \in Keys, j # k, j \notin Team
  PROVE  Rekeyed(j, k) = world
  <1>1. world.team \in [Keys -> Nat]
    BY WorldFields
  <1>2. world.team[j] = 0
    BY <1>1 DEF Team
  <1> DEFINE team == [i \in Keys |-> IF i = j THEN 0
                                     ELSE IF i = k THEN world.team[k] + world.team[j]
                                     ELSE world.team[i]]
  <1>3. team = world.team
    BY <1>1, <1>2
  <1>4. Rekeyed(j, k).team = world.team
    BY <1>3, RekeyedFields
  <1>5. Rekeyed(j, k) \in Worlds /\ Rekeyed(j, k).failed = world.failed
        /\ Rekeyed(j, k).raid = world.raid /\ Rekeyed(j, k).drop = world.drop
    BY RekeyedFields
  <1> HIDE DEF team
  <1> QED BY <1>4, <1>5 DEF Worlds

LEMMA RowsSave ==
  ASSUME Types, RowsInv, NEW k \in Keys, NEW next \in Calls, Save(k, next),
         k \in users', Owed \subseteq {k},
         \A j \in Keys \ {k} : paid'[j] = paid[j] /\ (j \in users' <=> j \in users),
         (worldRow = world \/ call.tell) => worldRow = world' \/ next.tell
  PROVE  RowsInv'
  <1> SUFFICES ASSUME unsaved' = 0 PROVE RowsInv'
    BY DEF RowsInv
  <1>1. Saved(k, next)
    BY NotFailed DEF Save, Fails
  <1>2. /\ stored' = stored \cup {k} /\ rows' = [rows EXCEPT ![k] = paid'[k]]
        /\ call' = next /\ UNCHANGED <<worldRow, unsaved>>
    BY <1>1 DEF Saved
  <1>3. \A j \in Keys \ {k} : rows[j] = paid[j] /\ (j \in stored <=> j \in users)
    BY <1>2 DEF RowsInv
  <1>4. \A j \in Keys : rows'[j] = paid'[j] /\ (j \in stored' <=> j \in users')
    BY <1>2, <1>3 DEF Types, DataTyped, Payments
  <1>5. worldRow' = world' \/ call'.tell
    BY <1>2 DEF RowsInv
  <1> QED BY <1>4, <1>5 DEF RowsInv

LEMMA RowsSaveWorld ==
  ASSUME Types, RowsInv, NEW next, SaveWorld(next), Owed = {}, UNCHANGED <<users, paid>>
  PROVE  RowsInv'
  <1> SUFFICES ASSUME unsaved' = 0 PROVE RowsInv'
    BY DEF RowsInv
  <1>1. WorldSaved(next)
    BY NotFailed DEF SaveWorld, Fails
  <1> QED BY <1>1 DEF WorldSaved, RowsInv

(* Calls that leave runners and their rows alone.                             *)
LEMMA RowsStay ==
  ASSUME RowsInv, Owed = {}, UNCHANGED <<users, paid, stored, rows, worldRow, unsaved>>,
         (worldRow = world \/ call.tell) => worldRow = world' \/ call'.tell
  PROVE  RowsInv'
  BY DEF RowsInv

LEMMA RowsIRC ==
  ASSUME Types, RowsInv, NEW k \in Keys,
         Enter(k) \/ Restore(k) \/ Quit(k) \/ Split(k) \/ FinishSave(k) \/ ClaimDrop(k)
  PROVE  RowsInv'
  <1> USE DEF Types
  <1>1. CASE Enter(k) \/ Restore(k)
    <2>1. PICK j \in Keys : call = Idle /\ Link(j)
      BY <1>1, RestoreLinks DEF Enter, Seen
    <2>2. users' = users \cup {j} /\ UNCHANGED <<world, paid>> /\ Save(j, Idle)
      BY <2>1 DEF Link
    <2> QED BY <2>1, <2>2, IdleOwes, IdleFields, RowsSave
  <1>2. CASE Quit(k)
    <2>1. call = Idle /\ k \in users /\ world' = Marked(k) /\ UNCHANGED <<users, paid>> /\ Save(k, ThenWorld(Fatal(k)))
      BY <1>2 DEF Quit, Seen, EngineTyped
    <2>2. Fatal(k) \in BOOLEAN
      BY DEF Fatal
    <2>3. ThenWorld(Fatal(k)) \in Calls /\ ThenWorld(Fatal(k)).tell = Fatal(k)
      BY <2>2, ThenWorldFields
    <2>4. worldRow = world => worldRow = world' \/ ThenWorld(Fatal(k)).tell
      BY <2>1, <2>3, MarkedSame DEF EngineTyped
    <2> QED BY <2>1, <2>3, <2>4, IdleOwes, RowsSave
  <1>3. CASE Split(k)
    <2>1. call = Idle /\ k \in users /\ UNCHANGED <<users, world, paid>> /\ Save(k, Idle)
      BY <1>3 DEF Split, Seen, EngineTyped
    <2> QED BY <2>1, IdleOwes, IdleFields, RowsSave
  <1>4. CASE FinishSave(k)
    <2>1. /\ call.op = "save" /\ k \in call.left /\ users' = users \cup {k} /\ UNCHANGED <<world, paid>>
          /\ Save(k, ThenWorld(call.tell))
      BY <1>4 DEF FinishSave
    <2>2. Owed \subseteq {k}
      BY <2>1 DEF Owed, CallTyped
    <2>3. ThenWorld(call.tell) \in Calls /\ ThenWorld(call.tell).tell = call.tell
      BY CallOf, ThenWorldFields DEF CallTyped
    <2> QED BY <2>1, <2>2, <2>3, RowsSave
  <1>5. CASE ClaimDrop(k)
    <2>1. /\ call = Idle /\ k \in users /\ paid' = [paid EXCEPT ![k].drop = @ + 1]
          /\ UNCHANGED users /\ Save(k, ThenWorld(TRUE))
      BY <1>5 DEF ClaimDrop, Seen, EngineTyped
    <2>2. \A j \in Keys \ {k} : paid'[j] = paid[j]
      BY <2>1 DEF EngineTyped, Payments
    <2>3. ThenWorld(TRUE) \in Calls /\ ThenWorld(TRUE).tell
      BY ThenWorldFields
    <2> QED BY <2>1, <2>2, <2>3, IdleOwes, RowsSave
  <1> QED BY <1>1, <1>2, <1>3, <1>4, <1>5

LEMMA RowsRename ==
  ASSUME Types, RowsInv, NEW g \in Guests, NEW h \in Guests, Rename(g, h) PROVE RowsInv'
  <1> USE DEF Types
  <1> SUFFICES ASSUME unsaved' = 0 PROVE RowsInv'
    BY DEF RowsInv
  <1>1. /\ call = Idle /\ users' = users \ {g} /\ world' = Rekeyed(g, h)
        /\ paid' = [paid EXCEPT ![g] = Nothing, ![h] = paid[g]]
        /\ g # h /\ g \in Keys /\ h \in Keys
    BY DEF Rename, Seen, Keys, EngineTyped
  <1>2. /\ stored' = stored \ {g} /\ rows' = [rows EXCEPT ![g] = Nothing]
        /\ call' = Call("save", {h}, g \in Team) /\ UNCHANGED <<worldRow, unsaved>>
    BY NotFailed DEF Rename, Fails
  <1>3. Owed' = {h} /\ call'.tell = (g \in Team)
    <2> DEFINE tell == g \in Team
    <2>1. tell \in BOOLEAN /\ call' = Call("save", {h}, tell)
      BY <1>2
    <2> HIDE DEF tell
    <2>2. call'.op = "save" /\ call'.left = {h} /\ call'.tell = tell
      BY <1>1, <2>1, SaveCall
    <2> QED BY <2>2 DEF Owed, tell
  <1>4. \A k \in Keys : rows[k] = paid[k] /\ (k \in stored <=> k \in users)
    BY <1>1, <1>2, IdleOwes DEF RowsInv
  <1>5. \A k \in Keys \ {h} : rows'[k] = paid'[k] /\ (k \in stored' <=> k \in users')
    BY <1>1, <1>2, <1>4 DEF DataTyped, EngineTyped, Payments
  <1>6. worldRow' = world' \/ call'.tell
    BY <1>1, <1>2, <1>3, IdleOwes, RekeyedSame DEF RowsInv, EngineTyped
  <1> QED BY <1>3, <1>5, <1>6 DEF RowsInv

LEMMA RowsMigrate ==
  ASSUME Types, RowsInv, NEW g \in Guests, NEW a \in Accounts, Migrate(g, a) PROVE RowsInv'
  <1> USE DEF Types
  <1> SUFFICES ASSUME unsaved' = 0 PROVE RowsInv'
    BY DEF RowsInv
  <1>1. /\ call = Idle /\ users' = (users \ {g}) \cup {a} /\ world' = Rekeyed(g, a)
        /\ paid' = [paid EXCEPT ![g] = Nothing, ![a] = [e \in Kinds |-> paid[g][e] + rows[a][e]]]
        /\ stored' = (stored \ {g}) \cup {a}
        /\ rows' = [rows EXCEPT ![g] = Nothing, ![a] = paid'[a]]
        /\ call' = Call("save", {a}, g \in Team) /\ UNCHANGED <<worldRow, unsaved>>
    BY DEF Migrate, Seen
  <1>2. g # a /\ g \in Keys /\ a \in Keys
    BY WorldKeysAssumption DEF Keys
  <1>3. Owed' = {a} /\ call'.tell = (g \in Team)
    <2> DEFINE tell == g \in Team
    <2>1. tell \in BOOLEAN /\ call' = Call("save", {a}, tell)
      BY <1>1
    <2> HIDE DEF tell
    <2>2. call'.op = "save" /\ call'.left = {a} /\ call'.tell = tell
      BY <1>2, <2>1, SaveCall
    <2> QED BY <2>2 DEF Owed, tell
  <1>4. \A k \in Keys : rows[k] = paid[k] /\ (k \in stored <=> k \in users)
    BY <1>1, IdleOwes DEF RowsInv
  <1>5. \A k \in Keys \ {a} : rows'[k] = paid'[k] /\ (k \in stored' <=> k \in users')
    BY <1>1, <1>2, <1>4 DEF DataTyped, EngineTyped, Payments
  <1>6. worldRow' = world' \/ call'.tell
    BY <1>1, <1>2, <1>3, IdleOwes, RekeyedSame DEF RowsInv, EngineTyped
  <1> QED BY <1>3, <1>5, <1>6 DEF RowsInv

LEMMA RowsSwitch ==
  ASSUME Types, RowsInv, NEW a \in Accounts, NEW b \in Accounts, Switch(a, b) PROVE RowsInv'
  <1> USE DEF Types
  <1> DEFINE fatal == Fatal(a)
             next == Call("save", {b}, fatal)
  <1>1. /\ call = Idle /\ a \in users /\ a \in Keys /\ b \in Keys /\ world' = Marked(a)
        /\ Save(a, next) /\ UNCHANGED <<users, paid>>
    BY DEF Switch, Seen, Keys, EngineTyped
  <1>2. fatal \in BOOLEAN
    BY DEF Fatal
  <1>3. worldRow = world => worldRow = world' \/ fatal
    BY <1>1, MarkedSame DEF EngineTyped
  <1> HIDE DEF fatal
  <1>4. next \in Calls /\ next.tell = fatal
    <2>1. "save" \in Ops /\ {b} \in SUBSET Keys
      BY <1>1 DEF Ops
    <2> QED BY <1>2, <2>1, CallFields
  <1> HIDE DEF next
  <1> QED BY <1>1, <1>3, <1>4, IdleOwes, RowsSave

LEMMA RowsOutage == ASSUME Types, RowsInv, NEW where \in {"out", "off"}, Outage(where) PROVE RowsInv'
  <1> USE DEF Types
  <1> SUFFICES ASSUME unsaved' = 0 PROVE RowsInv'
    BY DEF RowsInv
  <1>1. call = Idle /\ UNCHANGED <<call, unsaved>> /\ DisconnectAll(linked, linked)
    BY NotFailed DEF Outage
  <1>2. /\ rows' = [k \in Keys |-> IF k \in linked THEN paid[k] ELSE rows[k]]
        /\ stored' = stored \cup linked /\ UNCHANGED <<users, world, paid, worldRow>>
    BY <1>1 DEF DisconnectAll
  <1> QED BY <1>1, <1>2, IdleOwes DEF RowsInv, EngineTyped, Owed

LEMMA RowsCrash == ASSUME Types, CrashRestart PROVE RowsInv'
  BY DEF CrashRestart, RowsInv, database

LEMMA RowsDropGone == ASSUME Types, RowsInv, NEW k \in Keys, DropGone(k) PROVE RowsInv'
  <1> USE DEF Types
  <1> DEFINE rest == call.left \ {k}
             fatal == Fatal(k)
             tell == call.tell \/ fatal
             next == IF rest = {} THEN ThenWorld(tell) ELSE Call("reconcile", rest, tell)
  <1>1. /\ call.op = "reconcile" /\ k \in users /\ world' = Marked(k) /\ UNCHANGED <<users, paid>> /\ Save(k, next)
    BY DEF DropGone, CallTyped, EngineTyped
  <1>2. worldRow = world => worldRow = world' \/ fatal
    BY <1>1, MarkedSame DEF EngineTyped
  <1>3. rest \in SUBSET Keys /\ tell \in BOOLEAN
    BY CallOf DEF CallTyped
  <1> HIDE DEF fatal, rest
  <1>4. (worldRow = world \/ call.tell) => (worldRow = world' \/ tell)
    BY <1>2
  <1> HIDE DEF tell
  <1>5. next \in Calls /\ next.tell = tell
    <2>1. "reconcile" \in Ops
      BY DEF Ops
    <2>2. Call("reconcile", rest, tell) \in Calls /\ Call("reconcile", rest, tell).tell = tell
      BY <1>3, <2>1, CallFields
    <2>3. ThenWorld(tell) \in Calls /\ ThenWorld(tell).tell = tell
      BY <1>3, ThenWorldFields
    <2> QED BY <2>2, <2>3
  <1> HIDE DEF next
  <1> QED BY <1>1, <1>4, <1>5, NothingOwed, RowsSave

LEMMA RowsPaid == ASSUME Types, RowsInv, NEW k \in Keys, Pay(k) \/ RaidHit(k) PROVE RowsInv'
  <1> USE DEF Types
  <1>1. \A kind \in Kinds : \A j \in Keys \ {k} : Rewarded(k, kind)[j] = paid[j]
    BY DEF Rewarded, EngineTyped, Payments
  <1>2. CASE RaidHit(k)
    <2> DEFINE rest == [call EXCEPT !.left = @ \ {k}]
    <2>1. /\ call.op = "hit" /\ k \in users /\ paid' = Rewarded(k, "raid") /\ UNCHANGED <<users, world>> /\ Save(k, rest)
      BY <1>2 DEF RaidHit, CallTyped, EngineTyped
    <2>2. rest \in Calls /\ rest.tell = call.tell
      BY DEF CallTyped, Calls
    <2>3. \A j \in Keys \ {k} : paid'[j] = paid[j]
      BY <1>1, <2>1 DEF Kinds
    <2> HIDE DEF rest
    <2> QED BY <2>1, <2>2, <2>3, NothingOwed, RowsSave
  <1>3. CASE Pay(k)
    <2> DEFINE rest == [call EXCEPT !.places[k] = @ - 1]
    <2>1. call.op = "pay" /\ call.places[k] > 0 /\ UNCHANGED <<users, world>>
      BY <1>3 DEF Pay
    <2>2. rest \in Calls /\ rest.tell = call.tell
      <3>1. [call.places EXCEPT ![k] = @ - 1] \in [Keys -> Nat]
        BY <2>1, CallOf DEF CallTyped
      <3> QED BY <3>1 DEF CallTyped, Calls
    <2> HIDE DEF rest
    <2>3. CASE k \in users /\ paid' = Rewarded(k, "contract") /\ Save(k, rest)
      <3>1. \A j \in Keys \ {k} : paid'[j] = paid[j]
        BY <1>1, <2>3 DEF Kinds
      <3> QED BY <2>1, <2>2, <2>3, <3>1, NothingOwed, RowsSave
    <2>4. CASE call' = rest /\ UNCHANGED <<paid, database, unsaved>>
      BY <2>1, <2>2, <2>4, NothingOwed, RowsStay DEF database
    <2> QED BY <1>3, <2>3, <2>4 DEF Pay, rest
  <1> QED BY <1>2, <1>3

LEMMA RowsRound ==
  ASSUME Types, RowsInv,
         Round \/ BeginTick \/ EndPay \/ BeginRaid \/ EndRaid \/ Quiet \/ CityEvent
               \/ Return \/ (\E e \in Kinds : Deadline(e)) \/ \E k \in Keys : Unseen(k)
  PROVE  RowsInv'
  <1> USE DEF Types
  <1>1. UNCHANGED <<users, paid, stored, rows, worldRow, unsaved>>
    BY DEF Round, BeginTick, EndPay, BeginRaid, EndRaid, Quiet, CityEvent, Return, Deadline, Unseen, memory, database
  <1>2. Owed = {}
    BY IdleOwes, NothingOwed
    DEF Round, BeginTick, EndPay, BeginRaid, EndRaid, Quiet, CityEvent, Return, Deadline, Unseen
  <1>3. /\ Step("raid", FALSE).tell = FALSE /\ Step("raid", TRUE).tell = TRUE
        /\ Step("event", TRUE).tell = TRUE /\ Step("city", TRUE).tell = TRUE
        /\ "event" \in Ops /\ "visit" \in Ops
    BY StepFields DEF Ops
  <1>4. CASE Return \/ (\E e \in Kinds : Deadline(e)) \/ \E k \in Keys : Unseen(k)
    <2>1. UNCHANGED <<world, call>>
      BY <1>4 DEF Return, Deadline, Unseen, memory
    <2> QED BY <1>1, <1>2, <2>1, RowsStay
  <1>5. CASE Round \/ BeginTick
    <2>1. call = Idle /\ UNCHANGED world
      BY <1>5 DEF Round, BeginTick, memory
    <2> QED BY <1>1, <1>2, <2>1, IdleOwes, RowsStay
  <1>6. CASE EndPay \/ EndRaid \/ CityEvent
    <2>1. call'.tell = TRUE
      BY <1>3, <1>6 DEF EndPay, EndRaid, CityEvent
    <2> QED BY <1>1, <1>2, <2>1, RowsStay
  <1>7. CASE BeginRaid
    <2>1. call'.tell = TRUE \/ (call' = Step("event", call.tell) /\ UNCHANGED world)
      BY <1>7 DEF BeginRaid
    <2>2. Step("event", call.tell).tell = call.tell
      BY <1>3, CallOf, StepFields DEF CallTyped
    <2> QED BY <1>1, <1>2, <2>1, <2>2, RowsStay
  <1>8. CASE Quiet
    <2> DEFINE tell == call.tell \/ Decayed # world
    <2>1. tell \in BOOLEAN /\ call' = Step("visit", tell) /\ world' = Decayed
      BY <1>8, CallOf DEF Quiet, CallTyped
    <2>2. (worldRow = world \/ call.tell) => (worldRow = world' \/ tell)
      BY <2>1
    <2> HIDE DEF tell
    <2>3. call'.tell = tell
      BY <1>3, <2>1, StepFields
    <2> QED BY <1>1, <1>2, <2>2, <2>3, RowsStay
  <1> QED BY <1>4, <1>5, <1>6, <1>7, <1>8

LEMMA RowsVisit == ASSUME Types, RowsInv, Visit PROVE RowsInv'
  <1> USE DEF Types
  <1> SUFFICES ASSUME unsaved' = 0 PROVE RowsInv'
    BY DEF RowsInv
  <1>1. PICK gone \in SUBSET Prunable, reached \in SUBSET linked :
          /\ users' = users \ gone /\ stored' = (stored \ gone) \cup reached
          /\ paid' = [k \in Keys |-> IF k \in gone THEN Nothing ELSE paid[k]]
          /\ rows' = [k \in Keys |-> IF k \in gone THEN Nothing ELSE IF k \in reached THEN paid[k] ELSE rows[k]]
          /\ \/ (\E tell \in {call.tell, TRUE} : call' = Step("remember", tell)) /\ UNCHANGED unsaved
             \/ FailsOnce
    BY DEF Visit
  <1>2. PICK tell \in {call.tell, TRUE} : call' = Step("remember", tell) /\ UNCHANGED unsaved
    BY <1>1, NotFailed
  <1>3. Owed = {} /\ UNCHANGED <<world, worldRow>>
    BY NothingOwed DEF Visit
  <1>4. call'.tell = tell /\ (call.tell => tell)
    <2>1. "remember" \in Ops /\ tell \in BOOLEAN
      BY CallOf DEF Ops, CallTyped
    <2> QED BY <1>2, <2>1, StepFields
  <1>5. reached \subseteq users \ gone
    BY DEF Prunable, EngineTyped
  <1> QED BY <1>1, <1>2, <1>3, <1>4, <1>5 DEF RowsInv, EngineTyped

LEMMA RowsWorldRow ==
  ASSUME Types, RowsInv, FinishWorld \/ FinishCity \/ ForcePirate \/ Remember PROVE RowsInv'
  <1>1. Owed = {} /\ UNCHANGED <<users, paid>>
    BY IdleOwes, NothingOwed DEF FinishWorld, FinishCity, ForcePirate, Remember, memory
  <1>2. CASE \E next : SaveWorld(next)
    BY <1>1, <1>2, RowsSaveWorld
  <1>3. CASE Remember /\ ~call.tell /\ UNCHANGED <<database, unsaved>>
    BY <1>1, <1>3, RowsStay DEF Remember, memory, database
  <1> QED BY <1>2, <1>3 DEF FinishWorld, FinishCity, ForcePirate, Remember

LEMMA RowsNext == ASSUME Types, RowsInv, [Next]_vars PROVE RowsInv'
  <1>1. CASE UNCHANGED vars
    BY <1>1 DEF RowsInv, Owed, vars, memory, database
  <1>2. CASE People
    BY <1>2, RowsIRC, RowsRename, RowsMigrate, RowsSwitch, RowsWorldRow, RowsRound DEF People
  <1>3. CASE Scheduler
    BY <1>3, RowsRound, RowsVisit, RowsWorldRow, RowsDropGone, RowsPaid
    DEF Scheduler, PirateEvent, RaidEvent, ContractEvent
  <1>4. CASE Outside
    BY <1>4, RowsRound, RowsOutage, RowsCrash DEF Outside
  <1> QED BY <1>1, <1>2, <1>3, <1>4 DEF Next

-----------------------------------------------------------------------------
(* The contract's team is who was recruited for it.                           *)

TeamFound == Team \subseteq users \cup Owed

FailedIsBroken ==
    /\ broken <=> world.failed
    /\ ~Contract => ~world.failed
    /\ call.op = "pay" /\ call.won => ~broken

TeamInv == ~torn => Team = recruits /\ TeamFound /\ FailedIsBroken

LEMMA TeamOrNone == ASSUME world \in Worlds PROVE Contract <=> Team # {}
  BY WorldFields DEF Contract, Team, NoTeam

(* Calls that neither change a contract nor lose a runner.                    *)
LEMMA TeamStays ==
  ASSUME Types, Types', TeamInv, torn => torn',
         world'.team = world.team, world'.failed = world.failed, UNCHANGED <<recruits, broken>>,
         ~torn' => Team \cap (users \cup Owed) \subseteq users' \cup Owed',
         call'.op = "pay" => call.op = "pay" /\ call'.won = call.won
  PROVE  TeamInv'
  <1> SUFFICES ASSUME ~torn' PROVE (Team = recruits /\ TeamFound /\ FailedIsBroken)'
    BY DEF TeamInv
  <1>1. Team' = Team /\ Contract' = Contract
    BY DEF Team, Contract
  <1>2. Team = recruits /\ TeamFound /\ FailedIsBroken
    BY DEF TeamInv
  <1> QED BY <1>1, <1>2 DEF TeamFound, FailedIsBroken

(* Somebody is disconnected for good.                                         *)
LEMMA TeamMarked ==
  ASSUME Types, Types', TeamInv, torn => torn', NEW k \in Keys,
         world' = Marked(k), Breaks(k), UNCHANGED <<users, recruits>>,
         ~torn' => Owed \subseteq Owed', call'.op # "pay"
  PROVE  TeamInv'
  <1> SUFFICES ASSUME ~torn' PROVE (Team = recruits /\ TeamFound /\ FailedIsBroken)'
    BY DEF TeamInv
  <1>1. world \in Worlds /\ world' \in Worlds
    BY DEF Types, EngineTyped
  <1>2. world'.team = world.team /\ world'.failed = (world.failed \/ k \in Team)
    BY <1>1, MarkedFields
  <1>3. Team' = Team /\ Contract' = Contract
    BY <1>2 DEF Team, Contract
  <1>4. Team = recruits /\ TeamFound /\ FailedIsBroken
    BY DEF TeamInv
  <1>5. broken' <=> world'.failed
    BY <1>2, <1>4 DEF Breaks, FailedIsBroken
  <1>6. ~Contract' => ~world'.failed
    BY <1>1, <1>2, <1>3, <1>4, TeamOrNone DEF FailedIsBroken
  <1> QED BY <1>3, <1>4, <1>5, <1>6 DEF TeamFound, FailedIsBroken

(* A participant's key changes.                                               *)
LEMMA TeamRekeyed ==
  ASSUME Types, Types', TeamInv, torn => torn', NEW j \in Keys, NEW k \in Keys, j # k,
         world' = Rekeyed(j, k), recruits' = Moved(recruits, j, k), UNCHANGED broken,
         Owed = {}, ~torn' => (users \ {j}) \cup {k} \subseteq users' \cup Owed', call'.op # "pay"
  PROVE  TeamInv'
  <1> SUFFICES ASSUME ~torn' PROVE (Team = recruits /\ TeamFound /\ FailedIsBroken)'
    BY DEF TeamInv
  <1>1. world \in Worlds /\ world' \in Worlds
    BY DEF Types, EngineTyped
  <1>2. world.team \in [Keys -> Nat]
    BY <1>1, WorldFields
  <1>3. /\ world'.team = [i \in Keys |-> IF i = j THEN 0
                                         ELSE IF i = k THEN world.team[k] + world.team[j]
                                         ELSE world.team[i]]
        /\ world'.failed = world.failed
    BY <1>1, RekeyedFields
  <1>4. \A i \in Keys : i \in Team' <=> i # j /\ (i \in Team \/ (i = k /\ j \in Team))
    BY <1>2, <1>3 DEF Team
  <1>5. Team \subseteq Keys /\ Team' \subseteq Keys
    BY DEF Team
  <1>6. Team' = Moved(Team, j, k)
    BY <1>4, <1>5 DEF Moved
  <1>7. Team = recruits /\ TeamFound /\ FailedIsBroken
    BY DEF TeamInv
  <1>8. Team' # {} <=> Team # {}
    BY <1>6 DEF Moved
  <1>9. Contract' <=> Contract
    <2>1. Contract' <=> Team' # {}
      BY <1>1, WorldFields DEF Contract, Team, NoTeam
    <2> QED BY <1>1, <1>8, <2>1, TeamOrNone
  <1>10. TeamFound'
    BY <1>6, <1>7 DEF TeamFound, Moved
  <1>11. FailedIsBroken'
    BY <1>3, <1>7, <1>9 DEF FailedIsBroken
  <1> QED BY <1>6, <1>7, <1>10, <1>11

LEMMA IdlePays == ASSUME call' = Idle PROVE call'.op # "pay" /\ ~call'.tell /\ Owed' = {}
  BY IdleFields DEF Owed

LEMMA SaveOutcome ==
  ASSUME NEW k, NEW next, Save(k, next) \/ SaveWorld(next) PROVE call' = next \/ call' = Idle
  BY DEF Save, SaveWorld, Saved, WorldSaved, Fails

LEMMA TeamIRC ==
  ASSUME Types, Types', TeamInv, NEW k \in Keys,
         Enter(k) \/ Restore(k) \/ Quit(k) \/ Split(k) \/ FinishSave(k) \/ ClaimDrop(k)
  PROVE  TeamInv'
  <1>1. UNCHANGED torn /\ users \subseteq users'
    BY DEF Enter, Restore, Link, Quit, Split, FinishSave, ClaimDrop
  <1>2. Team \cap (users \cup Owed) \subseteq users' \cup Owed'
    <2>1. CASE FinishSave(k)
      <3>1. call.op = "save" /\ k \in call.left /\ users' = users \cup {k}
        BY <2>1 DEF FinishSave
      <3>2. Owed = {k}
        BY <3>1 DEF Owed, Types, CallTyped
      <3> QED BY <3>1, <3>2
    <2>2. CASE ~FinishSave(k)
      <3>1. Owed = {}
        BY <2>2, IdleOwes DEF Enter, Restore, Quit, Split, ClaimDrop, Seen
      <3> QED BY <1>1, <3>1
    <2> QED BY <2>1, <2>2
  <1>3. call'.op # "pay"
    <2>1. PICK changed \in BOOLEAN, j \in Keys : Save(j, ThenWorld(changed)) \/ Save(j, Idle)
      <3>1. Fatal(k) \in BOOLEAN /\ call.tell \in BOOLEAN
        BY CallOf DEF Fatal, Types, CallTyped
      <3>2. (Enter(k) \/ Restore(k)) => \E j \in Keys : Save(j, Idle)
        BY RestoreLinks DEF Enter, Link, Types
      <3> QED BY <3>1, <3>2 DEF Quit, Split, FinishSave, ClaimDrop
    <2>2. call' \in {ThenWorld(changed), Idle}
      BY <2>1, SaveOutcome
    <2> QED BY <2>2, ThenWorldFields, IdleFields
  <1>4. CASE Quit(k)
    <2>1. world' = Marked(k) /\ Breaks(k) /\ UNCHANGED <<users, recruits>> /\ Owed = {}
      BY <1>4, IdleOwes DEF Quit, Seen
    <2> QED BY <1>1, <1>3, <2>1, TeamMarked
  <1>5. CASE ~Quit(k)
    <2>1. UNCHANGED <<recruits, broken>>
      BY <1>5 DEF Enter, Restore, Link, Split, FinishSave, ClaimDrop, history
    <2>2. world'.team = world.team /\ world'.failed = world.failed
      <3>1. CASE ClaimDrop(k)
        BY <3>1 DEF ClaimDrop, Types, EngineTyped, Worlds
      <3>2. CASE ~ClaimDrop(k)
        BY <1>5, <3>2 DEF Enter, Restore, Link, Split, FinishSave
      <3> QED BY <3>1, <3>2
    <2> QED BY <1>1, <1>2, <1>3, <2>1, <2>2, TeamStays
  <1> QED BY <1>4, <1>5

LEMMA TeamRename ==
  ASSUME Types, Types', TeamInv, NEW g \in Guests, NEW h \in Guests, Rename(g, h) PROVE TeamInv'
  <1>1. /\ call = Idle /\ users' = users \ {g} /\ world' = Rekeyed(g, h) /\ recruits' = Moved(recruits, g, h)
        /\ g # h /\ g \in Keys /\ h \in Keys /\ UNCHANGED broken /\ Owed = {}
    BY IdleOwes DEF Rename, Seen, Keys, Types, EngineTyped
  <1>2. CASE call' = Call("save", {h}, g \in Team) /\ UNCHANGED torn
    <2>1. (g \in Team) \in BOOLEAN
      OBVIOUS
    <2>2. call'.op = "save" /\ call'.left = {h}
      BY <1>1, <1>2, <2>1, SaveCall
    <2>3. Owed' = {h}
      BY <2>2 DEF Owed
    <2> QED BY <1>1, <1>2, <2>2, <2>3, TeamRekeyed
  <1>3. CASE torn' = TRUE
    BY <1>3 DEF TeamInv
  <1> QED BY <1>2, <1>3 DEF Rename

LEMMA TeamMigrate ==
  ASSUME Types, Types', TeamInv, NEW g \in Guests, NEW a \in Accounts, Migrate(g, a) PROVE TeamInv'
  <1>1. /\ call = Idle /\ users' = (users \ {g}) \cup {a} /\ world' = Rekeyed(g, a)
        /\ recruits' = Moved(recruits, g, a)
        /\ call' = Call("save", {a}, g \in Team) /\ UNCHANGED <<broken, torn>> /\ Owed = {}
    BY IdleOwes DEF Migrate, Seen
  <1>2. g # a /\ g \in Keys /\ a \in Keys
    BY WorldKeysAssumption DEF Keys
  <1>3. (g \in Team) \in BOOLEAN
    OBVIOUS
  <1>4. call'.op = "save"
    BY <1>1, <1>2, <1>3, SaveCall
  <1> QED BY <1>1, <1>2, <1>4, TeamRekeyed

LEMMA TeamSwitch ==
  ASSUME Types, Types', TeamInv, NEW a \in Accounts, NEW b \in Accounts, Switch(a, b) PROVE TeamInv'
  <1>1. /\ call = Idle /\ world' = Marked(a) /\ Breaks(a) /\ UNCHANGED <<users, recruits>> /\ Owed = {}
        /\ a \in Keys /\ b \in Keys /\ torn' = (torn \/ call' = Idle)
        /\ Save(a, Call("save", {b}, Fatal(a)))
    BY IdleOwes DEF Switch, Seen, Keys
  <1>2. call'.op # "pay"
    <2>1. CASE call' = Call("save", {b}, Fatal(a))
      BY <2>1 DEF Call
    <2>2. CASE call' = Idle
      BY <2>2, IdlePays
    <2> QED BY <1>1, <2>1, <2>2, SaveOutcome
  <1> QED BY <1>1, <1>2, TeamMarked

LEMMA TeamDropGone == ASSUME Types, Types', TeamInv, NEW k \in Keys, DropGone(k) PROVE TeamInv'
  <1> DEFINE rest == call.left \ {k}
             tell == call.tell \/ Fatal(k)
             next == IF rest = {} THEN ThenWorld(tell) ELSE Call("reconcile", rest, tell)
  <1>1. /\ call.op = "reconcile" /\ world' = Marked(k) /\ Breaks(k) /\ UNCHANGED <<users, recruits, torn>>
        /\ Save(k, next)
    BY DEF DropGone
  <1>2. tell \in BOOLEAN
    BY CallOf DEF Types, CallTyped
  <1>3. call'.op # "pay"
    <2> HIDE DEF tell, rest
    <2>1. call' \in {ThenWorld(tell), Call("reconcile", rest, tell), Idle}
      BY <1>1, SaveOutcome
    <2>2. Call("reconcile", rest, tell).op = "reconcile"
      BY DEF Call
    <2> QED BY <1>2, <2>1, <2>2, ThenWorldFields, IdleFields
  <1> QED BY <1>1, <1>3, NothingOwed, TeamMarked

LEMMA TeamPay == ASSUME Types, Types', TeamInv, NEW k \in Keys, Pay(k) \/ RaidHit(k) PROVE TeamInv'
  <1>1. call.op \in {"pay", "hit"} /\ UNCHANGED <<users, world, recruits, broken>>
    BY DEF Pay, RaidHit, history
  <1>2. ASSUME torn PROVE torn'
    BY <1>2, Zenon DEF Pay, RaidHit
  <1>3. call'.op = "pay" => call.op = "pay" /\ call'.won = call.won
    <2> DEFINE paying == [call EXCEPT !.places[k] = @ - 1]
               hitting == [call EXCEPT !.left = @ \ {k}]
    <2>1. paying.op = call.op /\ paying.won = call.won /\ hitting.op = call.op
      BY DEF Types, CallTyped, Calls
    <2> HIDE DEF paying, hitting
    <2>2. CASE Pay(k)
      <3>1. call' = paying \/ call' = Idle
        BY <2>2, SaveOutcome DEF Pay, paying
      <3> QED BY <2>1, <2>2, <3>1, IdlePays DEF Pay
    <2>3. CASE RaidHit(k)
      <3>1. call' = hitting \/ call' = Idle
        BY <2>3, SaveOutcome DEF RaidHit, hitting
      <3> QED BY <2>1, <2>3, <3>1, IdlePays DEF RaidHit
    <2> QED BY <2>2, <2>3
  <1> QED BY <1>1, <1>2, <1>3, NothingOwed, TeamStays

(* The steps of Tick that leave the contract as it is.                        *)
LEMMA TeamQuietTick ==
  ASSUME Types, Types', TeamInv,
         BeginRaid \/ EndRaid \/ Quiet \/ PirateEvent \/ RaidEvent \/ FinishCity \/ Visit \/ Remember
           \/ FinishWorld \/ ForcePirate
  PROVE  TeamInv'
  <1>1. UNCHANGED <<linked, recruits, broken, torn>>
    BY DEF BeginRaid, EndRaid, Quiet, PirateEvent, RaidEvent, CityEvent, FinishCity, Visit, Remember,
           FinishWorld, ForcePirate, memory, history
  <1>2. Owed = {}
    BY NothingOwed, IdleOwes
    DEF BeginRaid, EndRaid, Quiet, PirateEvent, RaidEvent, CityEvent, FinishCity, Visit, Remember,
        FinishWorld, ForcePirate
  <1>3. Team \cap users \subseteq users'
    <2>1. CASE Visit
      <3>1. PICK gone \in SUBSET Prunable : users' = users \ gone
        BY <2>1 DEF Visit
      <3> QED BY <3>1 DEF Prunable
    <2>2. CASE ~Visit
      BY <2>2 DEF BeginRaid, EndRaid, Quiet, PirateEvent, RaidEvent, CityEvent, FinishCity, Remember,
                  FinishWorld, ForcePirate, memory
    <2> QED BY <2>1, <2>2
  <1>4. world'.team = world.team /\ world'.failed = world.failed
    <2> USE DEF Types, EngineTyped
    <2>1. CASE BeginRaid
      BY <2>1 DEF BeginRaid, Worlds
    <2>2. CASE Quiet
      BY <2>2, DecayedFields DEF Quiet
    <2>3. CASE PirateEvent \/ ForcePirate
      BY <2>3 DEF PirateEvent, ForcePirate, OpensDrop, Worlds
    <2>4. CASE RaidEvent
      <3> DEFINE d == Decayed
      <3>1. d \in Worlds /\ d.team = world.team /\ d.failed = world.failed
        BY DecayedFields
      <3>2. world' = [d EXCEPT !.raid = TRUE]
        BY <2>4 DEF RaidEvent
      <3> HIDE DEF d
      <3> QED BY <3>1, <3>2 DEF Worlds
    <2>5. CASE EndRaid \/ FinishCity \/ Visit \/ Remember \/ FinishWorld
      BY <2>5 DEF EndRaid, FinishCity, Visit, Remember, FinishWorld, memory
    <2> QED BY <2>1, <2>2, <2>3, <2>4, <2>5
  <1>5. call'.op # "pay"
    <2>1. \A op \in {"raid", "event", "visit", "city", "remember"}, tell \in BOOLEAN : Step(op, tell).op = op
      BY StepFields DEF Ops
    <2>2. call.tell \in BOOLEAN
      BY CallOf DEF Types, CallTyped
    <2>3. CASE BeginRaid
      <3>1. call'.op = "hit" \/ call' = Step("event", call.tell)
        BY <2>3 DEF BeginRaid
      <3> QED BY <2>1, <2>2, <3>1
    <2>4. CASE Quiet
      <3> DEFINE tell == call.tell \/ Decayed # world
      <3>1. tell \in BOOLEAN /\ call' = Step("visit", tell)
        BY <2>2, <2>4 DEF Quiet
      <3> HIDE DEF tell
      <3> QED BY <2>1, <3>1
    <2>5. CASE EndRaid \/ PirateEvent \/ RaidEvent
      BY <2>1, <2>5 DEF EndRaid, PirateEvent, RaidEvent, CityEvent
    <2>6. CASE FinishCity
      <3>1. call' = Step("visit", TRUE) \/ call' = Idle
        BY <2>6, SaveOutcome DEF FinishCity
      <3> QED BY <2>1, <3>1, IdlePays
    <2>7. CASE Visit
      <3>1. call' = Idle \/ \E tell \in {call.tell, TRUE} : call' = Step("remember", tell)
        BY <2>7 DEF Visit
      <3> QED BY <2>1, <2>2, <3>1, IdlePays
    <2>8. CASE Remember \/ FinishWorld \/ ForcePirate
      <3>1. call' = Idle
        BY <2>8, SaveOutcome DEF Remember, FinishWorld, ForcePirate
      <3> QED BY <3>1, IdlePays
    <2> QED BY <2>3, <2>4, <2>5, <2>6, <2>7, <2>8
  <1> QED BY <1>1, <1>2, <1>3, <1>4, <1>5, TeamStays

LEMMA TeamBeginTick == ASSUME Types, Types', TeamInv, BeginTick PROVE TeamInv'
  <1>1. call = Idle /\ UNCHANGED <<users, linked, world, recruits, broken, torn>>
    BY DEF BeginTick, memory, history
  <1>2. CASE call'.op # "pay"
    BY <1>1, <1>2, IdleOwes, TeamStays
  <1>3. CASE call'.op = "pay"
    <2>1. call' = [op |-> "pay", left |-> {}, places |-> world.team, tell |-> TRUE,
                   won |-> ~world.failed /\ Team \subseteq linked]
      BY <1>3, StepFields DEF BeginTick, Ops
    <2>2. call'.won => ~world.failed
      BY <2>1
    <2>3. Team' = Team /\ Contract' = Contract /\ Owed = {}
      BY <1>1, IdleOwes DEF Team, Contract
    <2> QED BY <1>1, <2>2, <2>3 DEF TeamInv, TeamFound, FailedIsBroken
  <1> QED BY <1>2, <1>3

LEMMA TeamEndPay == ASSUME Types, Types', EndPay PROVE TeamInv'
  <1>1. /\ world' = [world EXCEPT !.team = NoTeam, !.failed = FALSE]
        /\ recruits' = {} /\ broken' = FALSE /\ call' = Step("raid", TRUE)
    BY DEF EndPay
  <1>2. world'.team = NoTeam /\ world'.failed = FALSE
    BY <1>1 DEF Types, EngineTyped, Worlds
  <1>3. Team' = {}
    BY <1>2 DEF Team, NoTeam
  <1>4. call'.op = "raid"
    BY <1>1, StepFields DEF Ops
  <1> QED BY <1>1, <1>2, <1>3, <1>4 DEF TeamInv, TeamFound, FailedIsBroken

LEMMA TeamContractEvent == ASSUME Types, Types', TeamInv, ContractEvent PROVE TeamInv'
  <1> SUFFICES ASSUME ~torn' PROVE (Team = recruits /\ TeamFound /\ FailedIsBroken)'
    BY DEF TeamInv
  <1>1. CityEvent /\ ~Contract
    BY DEF ContractEvent
  <1>2. PICK team \in SUBSET linked :
          /\ world' = [Decayed EXCEPT !.team = [k \in Keys |-> IF k \in team THEN 1 ELSE 0]]
          /\ recruits' = team /\ broken' = FALSE
    BY DEF ContractEvent
  <1>3. /\ world'.team = [k \in Keys |-> IF k \in team THEN 1 ELSE 0]
        /\ world'.failed = world.failed
    <2> DEFINE d == Decayed
               places == [k \in Keys |-> IF k \in team THEN 1 ELSE 0]
    <2>1. d \in Worlds /\ d.failed = world.failed
      BY DecayedFields DEF Types, EngineTyped
    <2>2. world' = [d EXCEPT !.team = places]
      BY <1>2
    <2> HIDE DEF d, places
    <2>3. world'.team = places /\ world'.failed = world.failed
      BY <2>1, <2>2 DEF Worlds
    <2> QED BY <2>3 DEF places
  <1>4. ~world.failed /\ UNCHANGED users
    BY <1>1, CityFrame DEF TeamInv, FailedIsBroken
  <1>5. team \subseteq Keys /\ team \subseteq users
    BY DEF Types, EngineTyped
  <1>6. Team' = team
    BY <1>3, <1>5 DEF Team
  <1>7. call'.op = "city"
    BY <1>1, StepFields DEF CityEvent, Ops
  <1> QED BY <1>2, <1>3, <1>4, <1>5, <1>6, <1>7 DEF TeamFound, FailedIsBroken

LEMMA TeamCrash == ASSUME Types, Types', TeamInv, RowsInv, CrashRestart PROVE TeamInv'
  <1> SUFFICES ASSUME ~torn' PROVE TeamInv'
    BY DEF TeamInv
  <1>1. /\ users' = stored /\ world' = worldRow /\ call' = Idle /\ torn' = (torn \/ Unwritten)
        /\ UNCHANGED <<recruits, broken>>
    BY DEF CrashRestart, history
  <1>2. worldRow = world /\ stored = users \cup Owed
    BY <1>1 DEF Unwritten, Owed
  <1> QED BY <1>1, <1>2, IdlePays, TeamStays

LEMMA TeamElse ==
  ASSUME Types, Types', TeamInv,
         Round \/ Return \/ (\E e \in Kinds : Deadline(e)) \/ (\E k \in Keys : Unseen(k))
           \/ \E where \in {"out", "off"} : Outage(where)
  PROVE  TeamInv'
  <1>1. call = Idle /\ UNCHANGED <<users, world, recruits, broken, torn>>
    BY DEF Round, Return, Deadline, Unseen, Outage, DisconnectAll, memory, history
  <1>2. call'.op # "pay"
    <2>1. CASE Round
      <3>1. call' = Idle \/ \E gone : call' = Call("reconcile", gone, FALSE)
        BY <2>1 DEF Round
      <3> QED BY <3>1, IdlePays DEF Call
    <2>2. CASE UNCHANGED call
      BY <1>1, <2>2, IdlePays
    <2> QED BY <2>1, <2>2 DEF Return, Deadline, Unseen, Outage
  <1> QED BY <1>1, <1>2, IdleOwes, TeamStays

LEMMA TeamNext == ASSUME Types, Types', RowsInv, TeamInv, [Next]_vars PROVE TeamInv'
  <1>1. CASE UNCHANGED vars
    BY <1>1 DEF TeamInv, TeamFound, FailedIsBroken, Team, Contract, Owed, vars, memory, history
  <1>2. CASE People
    BY <1>2, TeamIRC, TeamRename, TeamMigrate, TeamSwitch, TeamQuietTick, TeamElse DEF People
  <1>3. CASE Scheduler
    BY <1>3, TeamElse, TeamBeginTick, TeamEndPay, TeamQuietTick, TeamContractEvent, TeamDropGone, TeamPay
    DEF Scheduler
  <1>4. CASE Outside
    BY <1>4, TeamElse, TeamCrash DEF Outside
  <1> QED BY <1>1, <1>2, <1>3, <1>4 DEF Next

-----------------------------------------------------------------------------
(* Who is in the channel has a linked runner, once NAMES has been heard.      *)

RosterInv ==
    /\ ~torn /\ bot = "in" => there \subseteq linked \cup names \cup Owed
    /\ call.op = "reconcile" => call.left \cap (there \cup names) = {}

(* Without quick reconnects, a Tick is only owed when it has.                 *)
ReadyInv ==
    /\ todo /\ ~overtaken => bot = "in"
    /\ ~QuickReconnect =>
          /\ todo => names = {}
          /\ bot = "knocking" => ~wasReady
          /\ bot = "in" /\ fresh => ~wasReady

LEMMA TickFrame ==
  ASSUME Types,
         BeginTick \/ EndPay \/ BeginRaid \/ EndRaid \/ Quiet \/ PirateEvent \/ RaidEvent \/ ContractEvent
           \/ FinishCity \/ Visit \/ Remember \/ FinishWorld \/ ForcePirate \/ \E k \in Keys : Pay(k) \/ RaidHit(k)
  PROVE  /\ UNCHANGED <<there, bot, names, fresh, wasReady, linked, overtaken>>
         /\ Owed = {} /\ (todo' = todo \/ todo' = FALSE)
         /\ torn => torn'
  <1>1. UNCHANGED <<there, bot, names, fresh, wasReady, linked, overtaken>> /\ (todo' = todo \/ todo' = FALSE)
    BY DEF BeginTick, EndPay, BeginRaid, EndRaid, Quiet, PirateEvent, RaidEvent, ContractEvent, CityEvent,
           FinishCity, Visit, Remember, FinishWorld, ForcePirate, Pay, RaidHit, channel, memory, history
  <1>2. Owed = {}
    BY NothingOwed, IdleOwes
    DEF BeginTick, EndPay, BeginRaid, EndRaid, Quiet, PirateEvent, RaidEvent, ContractEvent, CityEvent,
        FinishCity, Visit, Remember, FinishWorld, ForcePirate, Pay, RaidHit
  <1>3. ASSUME torn PROVE torn'
    BY <1>3, Zenon
    DEF BeginTick, EndPay, BeginRaid, EndRaid, Quiet, PirateEvent, RaidEvent, ContractEvent, CityEvent,
        FinishCity, Visit, Remember, FinishWorld, ForcePirate, Pay, RaidHit
  <1> QED BY <1>1, <1>2, <1>3

LEMMA CallOp == ASSUME NEW op, NEW left, NEW tell PROVE Call(op, left, tell).op = op
  BY DEF Call

LEMMA StepOp == ASSUME NEW op, NEW tell PROVE Step(op, tell).op = op
  <1>1. Step(op, tell) = Call(op, {}, tell)
    BY DEF Step
  <1> QED BY <1>1, CallOp

LEMMA ThenWorldOp == ASSUME NEW changed PROVE ThenWorld(changed).op \in {"world", "idle"}
  <1>1. ThenWorld(changed) = Call("world", {}, TRUE) \/ ThenWorld(changed) = Idle
    BY DEF ThenWorld
  <1>2. Call("world", {}, TRUE).op = "world"
    BY CallOp
  <1> QED BY <1>1, <1>2, IdleFields

LEMMA StepCalls ==
  ASSUME EndPay \/ BeginRaid \/ EndRaid \/ Quiet \/ CityEvent \/ Visit
  PROVE  /\ call'.op \in {"idle", "raid", "hit", "event", "city", "visit", "remember"}
         /\ call'.op = "hit" => BeginRaid
  <1>1. CASE EndPay
    <2>1. call' = Step("raid", TRUE)
      BY <1>1 DEF EndPay
    <2>2. call'.op = "raid"
      BY <2>1, StepOp
    <2> QED BY <2>2
  <1>2. CASE BeginRaid
    <2>1. call'.op = "hit" \/ call' = Step("event", call.tell)
      BY <1>2 DEF BeginRaid
    <2>2. Step("event", call.tell).op = "event"
      BY StepOp
    <2> QED BY <1>2, <2>1, <2>2
  <1>3. CASE EndRaid
    <2>1. call' = Step("event", TRUE)
      BY <1>3 DEF EndRaid
    <2>2. call'.op = "event"
      BY <2>1, StepOp
    <2> QED BY <2>2
  <1>4. CASE Quiet
    <2>1. PICK tell : call' = Step("visit", tell)
      BY <1>4 DEF Quiet
    <2>2. call'.op = "visit"
      BY <2>1, StepOp
    <2> QED BY <2>2
  <1>5. CASE CityEvent
    <2>1. call' = Step("city", TRUE)
      BY <1>5 DEF CityEvent
    <2>2. call'.op = "city"
      BY <2>1, StepOp
    <2> QED BY <2>2
  <1>6. CASE Visit
    <2>1. call' = Idle \/ \E tell : call' = Step("remember", tell)
      BY <1>6 DEF Visit
    <2>2. \A tell : Step("remember", tell).op = "remember"
      BY StepOp
    <2>3. call'.op \in {"idle", "remember"}
      BY <2>1, <2>2, IdleFields
    <2> QED BY <2>3
  <1> QED BY <1>1, <1>2, <1>3, <1>4, <1>5, <1>6

LEMMA TickCalls ==
  ASSUME Types,
         BeginTick \/ EndPay \/ BeginRaid \/ EndRaid \/ Quiet \/ CityEvent
           \/ FinishCity \/ Visit \/ Remember \/ FinishWorld \/ ForcePirate \/ \E k \in Keys : Pay(k) \/ RaidHit(k)
  PROVE  call'.op # "reconcile"
  <1>2. Idle.op = "idle" /\ \A op, tell : Step(op, tell).op = op
    BY StepOp, IdleFields
  <1>1. CASE EndPay \/ BeginRaid \/ EndRaid \/ Quiet \/ CityEvent \/ Visit
    BY <1>1, StepCalls
  <1>3. CASE BeginTick
    <2>1. call'.op = "pay" \/ call' = Step("raid", FALSE)
      BY <1>3 DEF BeginTick
    <2> QED BY <1>2, <2>1
  <1>4. CASE FinishCity \/ Remember \/ FinishWorld \/ ForcePirate
    <2>1. call' = Idle \/ call' = Step("visit", TRUE)
      BY <1>4, SaveOutcome DEF FinishCity, Remember, FinishWorld, ForcePirate
    <2> QED BY <1>2, <2>1
  <1>5. CASE \E k \in Keys : Pay(k) \/ RaidHit(k)
    <2>1. PICK k \in Keys : Pay(k) \/ RaidHit(k)
      BY <1>5
    <2> DEFINE paying == [call EXCEPT !.places[k] = @ - 1]
               hitting == [call EXCEPT !.left = @ \ {k}]
    <2>2. paying.op = call.op /\ hitting.op = call.op /\ call.op \in {"pay", "hit"}
      BY <2>1 DEF Types, CallTyped, Calls, Pay, RaidHit
    <2>3. call' = paying \/ call' = hitting \/ call' = Idle
      <3> HIDE DEF paying, hitting
      <3> QED BY <2>1, SaveOutcome DEF Pay, RaidHit, paying, hitting
    <2> QED BY <1>2, <2>2, <2>3
  <1> QED BY <1>1, <1>3, <1>4, <1>5

LEMMA RosterTick ==
  ASSUME Types, RosterInv, ReadyInv,
         BeginTick \/ EndPay \/ BeginRaid \/ EndRaid \/ Quiet \/ PirateEvent \/ RaidEvent \/ ContractEvent
           \/ FinishCity \/ Visit \/ Remember \/ FinishWorld \/ ForcePirate \/ \E k \in Keys : Pay(k) \/ RaidHit(k)
  PROVE  RosterInv' /\ ReadyInv'
  <1>1. call'.op # "reconcile"
    BY TickCalls DEF PirateEvent, RaidEvent, ContractEvent
  <1>2. /\ UNCHANGED <<there, bot, names, fresh, wasReady, linked, overtaken>>
        /\ Owed = {} /\ (todo' = todo \/ todo' = FALSE) /\ (torn => torn')
    BY TickFrame
  <1> QED BY <1>1, <1>2 DEF RosterInv, ReadyInv

LEMMA RosterIRC ==
  ASSUME Types, RosterInv, ReadyInv, NEW k \in Keys,
         Enter(k) \/ Restore(k) \/ Quit(k) \/ Split(k) \/ FinishSave(k) \/ ClaimDrop(k)
  PROVE  RosterInv' /\ ReadyInv'
  <1>1. UNCHANGED <<bot, fresh, wasReady, todo, overtaken, torn>> /\ names' \subseteq names
    BY DEF Enter, Restore, Link, Quit, Split, FinishSave, ClaimDrop, channel, history
  <1>2. call'.op # "reconcile"
    <2>1. PICK changed \in BOOLEAN, j \in Keys : Save(j, ThenWorld(changed)) \/ Save(j, Idle)
      <3>1. Fatal(k) \in BOOLEAN /\ call.tell \in BOOLEAN
        BY CallOf DEF Fatal, Types, CallTyped
      <3>2. (Enter(k) \/ Restore(k)) => \E j \in Keys : Save(j, Idle)
        BY RestoreLinks DEF Enter, Link, Types
      <3> QED BY <3>1, <3>2 DEF Quit, Split, FinishSave, ClaimDrop
    <2>2. call' \in {ThenWorld(changed), Idle}
      BY <2>1, SaveOutcome
    <2> QED BY <2>2, ThenWorldFields, IdleFields
  <1>3. there \subseteq linked \cup names \cup Owed => there' \subseteq linked' \cup names'
    <2>1. CASE Enter(k)
      BY <2>1, IdleOwes DEF Enter, Seen, Link
    <2>2. CASE Restore(k)
      <3>1. PICK j \in Keys : Link(j) /\ there' = Moved(there, k, j)
        BY <2>2, RestoreLinks DEF Types
      <3>2. Owed = {} /\ names' = names \ {k} /\ linked' = linked \cup {j}
        BY <2>2, <3>1, RestoreLinks, IdleOwes DEF Types, Link
      <3> QED BY <3>1, <3>2 DEF Moved
    <2>3. CASE Quit(k) \/ Split(k) \/ ClaimDrop(k)
      BY <2>3, IdleOwes DEF Quit, Split, ClaimDrop, Seen, channel
    <2>4. CASE FinishSave(k)
      <3>1. Owed = {k}
        BY <2>4 DEF FinishSave, Owed, Types, CallTyped
      <3> QED BY <2>4, <3>1 DEF FinishSave, channel
    <2> QED BY <2>1, <2>2, <2>3, <2>4
  <1>4. RosterInv'
    BY <1>1, <1>2, <1>3 DEF RosterInv
  <1> QED BY <1>1, <1>4 DEF ReadyInv

LEMMA RosterRename ==
  ASSUME Types, RosterInv, ReadyInv, NEW g \in Guests, NEW h \in Guests, Rename(g, h)
  PROVE  RosterInv' /\ ReadyInv'
  <1>1. /\ there' = Moved(there, g, h) /\ linked' = linked \ {g} /\ Owed = {} /\ h \in Keys
        /\ UNCHANGED <<bot, names, fresh, wasReady, todo, overtaken>>
    BY IdleOwes DEF Rename, Seen, Keys
  <1>2. CASE call' = Call("save", {h}, g \in Team) /\ UNCHANGED torn
    <2>1. call'.op = "save" /\ call'.left = {h}
      BY <1>2 DEF Call
    <2>2. Owed' = {h} /\ call'.op # "reconcile"
      BY <2>1 DEF Owed
    <2> QED BY <1>1, <1>2, <2>2 DEF RosterInv, ReadyInv, Moved
  <1>3. CASE Fails /\ torn' = TRUE
    <2>1. call'.op # "reconcile"
      BY <1>3, IdleFields DEF Fails
    <2> QED BY <1>1, <1>3, <2>1 DEF RosterInv, ReadyInv
  <1> QED BY <1>2, <1>3 DEF Rename

LEMMA RosterMigrate ==
  ASSUME Types, RosterInv, ReadyInv, NEW g \in Guests, NEW a \in Accounts, Migrate(g, a)
  PROVE  RosterInv' /\ ReadyInv'
  <1>1. /\ there' = (there \ {g}) \cup {a} /\ linked' = (linked \ {g}) \cup {a} /\ Owed = {}
        /\ call' = Call("save", {a}, g \in Team)
        /\ UNCHANGED <<bot, names, fresh, wasReady, todo, overtaken, torn>>
    BY IdleOwes DEF Migrate, Seen
  <1>2. call'.op # "reconcile"
    BY <1>1 DEF Call
  <1> QED BY <1>1, <1>2 DEF RosterInv, ReadyInv

LEMMA RosterSwitch ==
  ASSUME Types, RosterInv, ReadyInv, NEW a \in Accounts, NEW b \in Accounts, Switch(a, b)
  PROVE  RosterInv' /\ ReadyInv'
  <1>1. /\ there' = Moved(there, a, b) /\ linked' = linked \ {a} /\ Owed = {}
        /\ torn' = (torn \/ call' = Idle) /\ Save(a, Call("save", {b}, Fatal(a)))
        /\ UNCHANGED <<bot, names, fresh, wasReady, todo, overtaken>>
    BY IdleOwes DEF Switch, Seen
  <1>2. CASE call' = Idle
    BY <1>1, <1>2, IdleFields DEF RosterInv, ReadyInv
  <1>3. CASE call' = Call("save", {b}, Fatal(a)) /\ call' # Idle
    <2>1. Owed' = {b} /\ call'.op # "reconcile" /\ torn' = torn
      <3>1. call'.op = "save" /\ call'.left = {b}
        BY <1>3 DEF Call
      <3>2. torn' = torn
        BY <1>1, <1>3 DEF Types, NetTyped
      <3> QED BY <3>1, <3>2 DEF Owed
    <2> QED BY <1>1, <2>1 DEF RosterInv, ReadyInv, Moved
  <1> QED BY <1>1, <1>2, <1>3, SaveOutcome

LEMMA RosterDropGone ==
  ASSUME Types, RosterInv, ReadyInv, NEW k \in Keys, DropGone(k) PROVE RosterInv' /\ ReadyInv'
  <1> DEFINE rest == call.left \ {k}
             tell == call.tell \/ Fatal(k)
             next == IF rest = {} THEN ThenWorld(tell) ELSE Call("reconcile", rest, tell)
  <1>1. /\ call.op = "reconcile" /\ k \in call.left /\ linked' = linked \ {k} /\ Save(k, next)
        /\ UNCHANGED <<there, bot, names, fresh, wasReady, todo, overtaken, torn>>
    BY DEF DropGone, channel
  <1>2. Owed = {} /\ k \notin there
    BY <1>1, NothingOwed DEF RosterInv
  <1>3. tell \in BOOLEAN
    BY CallOf DEF Types, CallTyped
  <1>4. call'.op # "reconcile" \/ call'.left = rest
    <2> HIDE DEF tell, rest
    <2>1. call' \in {ThenWorld(tell), Call("reconcile", rest, tell), Idle}
      BY <1>1, SaveOutcome
    <2>2. Call("reconcile", rest, tell).left = rest
      BY DEF Call
    <2> QED BY <1>3, <2>1, <2>2, ThenWorldFields, IdleFields
  <1>5. RosterInv'
    BY <1>1, <1>2, <1>4 DEF RosterInv
  <1> QED BY <1>1, <1>5 DEF ReadyInv

LEMMA RosterRound == ASSUME Types, RosterInv, ReadyInv, Round PROVE RosterInv' /\ ReadyInv'
  <1>1. /\ call = Idle /\ todo = FALSE /\ (names = {} \/ fresh) /\ Owed = {} /\ overtaken' = FALSE
        /\ UNCHANGED <<there, names, linked, torn>>
    BY IdleOwes DEF Round, memory, Types, NetTyped
  <1>2. CASE bot # "in"
    <2>1. /\ bot' = (IF bot = "out" THEN "knocking" ELSE bot) /\ wasReady' = FALSE
          /\ UNCHANGED <<fresh, todo, call>>
      BY <1>2 DEF Round
    <2>2. call'.op # "reconcile" /\ bot' # "in"
      BY <1>1, <1>2, <2>1, IdleFields
    <2> QED BY <1>1, <2>1, <2>2 DEF RosterInv, ReadyInv
  <1>3. CASE bot = "in"
    <2>1. /\ fresh' = FALSE /\ todo' = wasReady /\ wasReady' = TRUE /\ UNCHANGED bot
          /\ \E gone \in SUBSET (linked \ (there \cup names)) :
                call' = IF gone = {} THEN Idle ELSE Call("reconcile", gone, FALSE)
      BY <1>3 DEF Round, Settled
    <2>2. call'.op # "reconcile" \/ call'.left \cap (there \cup names) = {}
      BY <2>1, IdleFields DEF Call
    <2>3. RosterInv'
      BY <1>1, <2>1, <2>2 DEF RosterInv
    <2>4. ~QuickReconnect /\ todo' => names' = {}
      BY <1>1, <1>3, <2>1 DEF ReadyInv
    <2> QED BY <1>1, <1>3, <2>1, <2>3, <2>4 DEF ReadyInv
  <1> QED BY <1>2, <1>3

LEMMA RosterOutside ==
  ASSUME Types, RosterInv, ReadyInv,
         Return \/ CrashRestart \/ (\E e \in Kinds : Deadline(e)) \/ (\E k \in Keys : Unseen(k))
           \/ \E where \in {"out", "off"} : Outage(where)
  PROVE  RosterInv' /\ ReadyInv'
  <1>1. CASE Return
    <2>1. /\ bot' = "in" /\ names' = there /\ fresh' = TRUE /\ call = Idle
          /\ bot = "knocking" \/ (bot = "off" /\ (QuickReconnect \/ ~wasReady))
          /\ UNCHANGED <<there, wasReady, todo, linked, call, overtaken, torn>>
      BY <1>1 DEF Return, memory, history
    <2>2. call'.op # "reconcile"
      BY <2>1, IdleFields
    <2>3. ~QuickReconnect => ~wasReady /\ ~todo
      BY <2>1 DEF ReadyInv, Types, NetTyped
    <2> QED BY <2>1, <2>2, <2>3 DEF RosterInv, ReadyInv
  <1>2. CASE CrashRestart
    BY <1>2, IdleFields DEF CrashRestart, RosterInv, ReadyInv
  <1>3. CASE \E e \in Kinds : Deadline(e)
    BY <1>3 DEF Deadline, RosterInv, ReadyInv, Owed, channel, memory, history
  <1>4. CASE \E k \in Keys : Unseen(k)
    <2>1. /\ call = Idle /\ (there' \subseteq there \/ bot # "in")
          /\ UNCHANGED <<bot, names, fresh, wasReady, todo, linked, call, overtaken, torn>>
      BY <1>4 DEF Unseen, memory, history
    <2>2. call'.op # "reconcile"
      BY <2>1, IdleFields
    <2>3. UNCHANGED Owed
      BY <2>1 DEF Owed
    <2> QED BY <2>1, <2>2, <2>3 DEF RosterInv, ReadyInv
  <1>5. CASE \E where \in {"out", "off"} : Outage(where)
    <2>1. /\ bot' \in {"out", "off"} /\ names' = {} /\ overtaken' = (overtaken \/ todo) /\ call' = Idle
          /\ UNCHANGED <<fresh, wasReady, todo>>
      BY <1>5 DEF Outage
    <2>2. call'.op # "reconcile"
      BY <2>1, IdleFields
    <2> QED BY <2>1, <2>2 DEF RosterInv, ReadyInv
  <1> QED BY <1>1, <1>2, <1>3, <1>4, <1>5

LEMMA RosterNext ==
  ASSUME Types, RosterInv, ReadyInv, [Next]_vars PROVE RosterInv' /\ ReadyInv'
  <1>1. CASE UNCHANGED vars
    BY <1>1 DEF RosterInv, ReadyInv, Owed, vars, channel, memory, history
  <1>2. CASE People
    BY <1>2, RosterIRC, RosterRename, RosterMigrate, RosterSwitch, RosterTick, RosterOutside DEF People
  <1>3. CASE Scheduler
    BY <1>3, RosterTick, RosterRound, RosterDropGone DEF Scheduler
  <1>4. CASE Outside
    BY <1>4, RosterOutside DEF Outside
  <1> QED BY <1>1, <1>2, <1>3, <1>4 DEF Next

-----------------------------------------------------------------------------
(* Contracts of the loyal.                                                    *)

LEMMA LoyalTick ==
  ASSUME ~QuickReconnect, Types, TeamInv, RosterInv, ReadyInv, BeginTick PROVE LoyalSucceeds'
  <1> SUFFICES ASSUME ~torn', ~overtaken', call'.op = "pay", ~call'.won
               PROVE  broken' \/ ~(recruits' \subseteq there')
    BY DEF LoyalSucceeds
  <1>1. /\ call = Idle /\ todo /\ UNCHANGED <<there, linked, world, recruits, broken, overtaken, torn>>
    BY DEF BeginTick, channel, memory, history
  <1>2. call' = [op |-> "pay", left |-> {}, places |-> world.team, tell |-> TRUE,
                 won |-> ~world.failed /\ Team \subseteq linked]
    BY StepFields DEF BeginTick, Ops
  <1>3. world.failed \/ ~(Team \subseteq linked)
    BY <1>2
  <1>4. there \subseteq linked
    BY <1>1, IdleOwes DEF RosterInv, ReadyInv
  <1> QED BY <1>1, <1>3, <1>4 DEF TeamInv, FailedIsBroken

LEMMA LoyalPay == ASSUME Types, LoyalSucceeds, NEW k \in Keys, Pay(k) PROVE LoyalSucceeds'
  <1> DEFINE rest == [call EXCEPT !.places[k] = @ - 1]
  <1>1. call.op = "pay" /\ UNCHANGED <<there, recruits, broken, overtaken>>
    BY DEF Pay, channel, history
  <1>2. rest.op = call.op /\ rest.won = call.won
    BY DEF Types, CallTyped, Calls
  <1> HIDE DEF rest
  <1>3. call' = rest \/ call' = Idle
    BY SaveOutcome DEF Pay, rest
  <1>4. ASSUME torn PROVE torn'
    BY <1>4, Zenon DEF Pay
  <1> QED BY <1>1, <1>2, <1>3, <1>4, IdlePays DEF LoyalSucceeds

(* Nobody else starts to pay.                                                 *)
LEMMA OthersDoNotPay ==
  ASSUME Types, Next, ~BeginTick, ~ \E k \in Keys : Pay(k)
  PROVE  /\ call'.op # "pay"
         /\ call'.op = "hit" => BeginRaid \/ \E k \in Keys : RaidHit(k)
  <1>1. ASSUME NEW k \in Keys, Enter(k) \/ Restore(k) \/ Quit(k) \/ Split(k) \/ ClaimDrop(k) \/ FinishSave(k)
        PROVE  call'.op \notin {"pay", "hit"}
    <2>1. call' = Idle \/ \E c : call' = ThenWorld(c)
      BY <1>1, SaveOutcome DEF Enter, Restore, Link, Quit, Split, ClaimDrop, FinishSave
    <2> QED BY <2>1, ThenWorldOp, IdleFields
  <1>2. ASSUME NEW k \in Keys, DropGone(k) PROVE call'.op \notin {"pay", "hit"}
    <2>1. call' = Idle \/ (\E c : call' = ThenWorld(c)) \/ \E left, tell : call' = Call("reconcile", left, tell)
      <3> DEFINE rest == call.left \ {k}
                 tell == call.tell \/ Fatal(k)
      <3>1. Save(k, IF rest = {} THEN ThenWorld(tell) ELSE Call("reconcile", rest, tell))
        BY <1>2 DEF DropGone
      <3> HIDE DEF rest, tell
      <3>2. call' = Idle \/ call' = ThenWorld(tell) \/ call' = Call("reconcile", rest, tell)
        BY <3>1, SaveOutcome
      <3> QED BY <3>2
    <2>2. \A left, tell : Call("reconcile", left, tell).op = "reconcile"
      BY CallOp
    <2> QED BY <2>1, <2>2, ThenWorldOp, IdleFields
  <1>3. ASSUME \/ \E g \in Guests, h \in Guests : Rename(g, h)
               \/ \E g \in Guests, a \in Accounts : Migrate(g, a)
               \/ \E a \in Accounts, b \in Accounts : Switch(a, b)
        PROVE  call'.op \notin {"pay", "hit"}
    <2>1. call' = Idle \/ \E left, tell : call' = Call("save", left, tell)
      <3>1. CASE \E g \in Guests, h \in Guests : Rename(g, h)
        BY <3>1 DEF Rename, Fails
      <3>2. CASE \E g \in Guests, a \in Accounts : Migrate(g, a)
        BY <3>2 DEF Migrate
      <3>3. CASE \E a \in Accounts, b \in Accounts : Switch(a, b)
        BY <3>3, SaveOutcome DEF Switch
      <3> QED BY <1>3, <3>1, <3>2, <3>3
    <2>2. \A left, tell : Call("save", left, tell).op = "save"
      BY CallOp
    <2> QED BY <2>1, <2>2, IdleFields
  <1>4. ASSUME ForcePirate \/ FinishWorld \/ FinishCity \/ Remember PROVE call'.op \notin {"pay", "hit"}
    <2>1. call' = Idle \/ call' = Step("visit", TRUE)
      BY <1>4, SaveOutcome DEF ForcePirate, FinishWorld, FinishCity, Remember
    <2>2. Step("visit", TRUE).op = "visit"
      BY StepOp
    <2> QED BY <2>1, <2>2, IdleFields
  <1>5. ASSUME \/ \E k \in Keys : Unseen(k)
               \/ \E e \in Kinds : Deadline(e)
               \/ Return \/ CrashRestart
               \/ \E where \in {"out", "off"} : Outage(where)
        PROVE  call'.op \notin {"pay", "hit"}
    <2>1. call' = Idle
      BY <1>5 DEF Unseen, Deadline, Return, Outage, CrashRestart
    <2> QED BY <2>1, IdleFields
  <1>6. ASSUME Round PROVE call'.op \notin {"pay", "hit"}
    <2>1. call' = Idle \/ \E left : call' = Call("reconcile", left, FALSE)
      <3>1. CASE bot # "in"
        BY <1>6, <3>1 DEF Round
      <3>2. CASE bot = "in"
        <4>1. PICK gone \in SUBSET (linked \ (there \cup names)) :
                 call' = IF gone = {} THEN Idle ELSE Call("reconcile", gone, FALSE)
          BY <1>6, <3>2 DEF Round
        <4> QED BY <4>1
      <3> QED BY <3>1, <3>2
    <2>2. \A left : Call("reconcile", left, FALSE).op = "reconcile"
      BY CallOp
    <2> QED BY <2>1, <2>2, IdleFields
  <1>7. ASSUME EndPay \/ BeginRaid \/ EndRaid \/ Quiet \/ CityEvent \/ Visit
        PROVE  call'.op # "pay" /\ (call'.op = "hit" => BeginRaid)
    BY <1>7, StepCalls
  <1>8. ASSUME NEW k \in Keys, RaidHit(k) PROVE call'.op # "pay"
    <2> DEFINE hitting == [call EXCEPT !.left = @ \ {k}]
    <2>1. hitting.op = "hit"
      BY <1>8 DEF RaidHit, Types, CallTyped, Calls
    <2>2. call' = hitting \/ call' = Idle
      <3> HIDE DEF hitting
      <3> QED BY <1>8, SaveOutcome DEF RaidHit, hitting
    <2> QED BY <2>1, <2>2, IdleFields
  <1>9. CASE People
    BY <1>1, <1>3, <1>4, <1>5, <1>9 DEF People
  <1>10. CASE Scheduler
    BY <1>2, <1>4, <1>6, <1>7, <1>8, <1>10 DEF Scheduler, PirateEvent, RaidEvent, ContractEvent
  <1>11. CASE Outside
    BY <1>5, <1>11 DEF Outside
  <1> QED BY <1>9, <1>10, <1>11 DEF Next

-----------------------------------------------------------------------------
(* The inductive invariant.                                                   *)

Inv == Types /\ RowsInv /\ TeamInv /\ RosterInv /\ ReadyInv

LEMMA InvInit == Init => Inv
  <1> SUFFICES ASSUME Init PROVE Inv
    OBVIOUS
  <1>1. Types
    BY TypesInit
  <1>2. call = Idle
    BY DEF Init
  <1>3. Owed = {} /\ call.op = "idle"
    BY <1>2, IdleOwes, IdleFields
  <1>4. RowsInv
    BY <1>3 DEF Init, RowsInv
  <1>5. ~Contract /\ Team = {} /\ ~world.failed
    BY DEF Init, Contract, Team, NoTeam
  <1>6. TeamInv
    BY <1>3, <1>5 DEF Init, TeamInv, TeamFound, FailedIsBroken
  <1>7. RosterInv /\ ReadyInv
    BY <1>3 DEF Init, RosterInv, ReadyInv
  <1> QED BY <1>1, <1>4, <1>6, <1>7 DEF Inv

LEMMA InvNext == Inv /\ [Next]_vars => Inv'
  <1> SUFFICES ASSUME Inv, [Next]_vars PROVE Inv'
    OBVIOUS
  <1>1. Types /\ RowsInv /\ TeamInv /\ RosterInv /\ ReadyInv
    BY DEF Inv
  <1>2. Types'
    BY <1>1, TypesNext
  <1>3. RowsInv'
    BY <1>1, RowsNext
  <1>4. TeamInv'
    BY <1>1, <1>2, TeamNext
  <1>5. RosterInv' /\ ReadyInv'
    BY <1>1, RosterNext
  <1> QED BY <1>2, <1>3, <1>4, <1>5 DEF Inv

LEMMA AlwaysInv == Spec => []Inv
  BY InvInit, InvNext, PTL DEF Spec

(* Every step of the engine leaves its memory, its rows and its scheduler in  *)
(* a state of the right shape: only runners of the user map are linked.       *)
THEOREM WorldTypes == Spec => []TypeOK
  <1>1. Inv => TypeOK
    <2> SUFFICES ASSUME Inv PROVE TypeOK
      OBVIOUS
    <2>1. Types
      BY DEF Inv
    <2> QED BY <2>1 DEF Types, NetTyped, EngineTyped, DataTyped, CallTyped, Payments, TypeOK
  <1> QED BY <1>1, AlwaysInv, PTL

(* A restart resumes every contract, raid and dead drop: as long as no write  *)
(* has failed, the rows say after each engine call what the engine does, no   *)
(* matter which calls changed nicks, accounts or the world row (persist and   *)
(* persistWorldState at the end of every handler).                            *)
THEOREM RowsKept == Spec => []WorldRowCurrent
  <1>1. Inv => WorldRowCurrent
    <2> SUFFICES ASSUME Inv, call = Idle, unsaved = 0
                 PROVE  worldRow = world /\ rows = paid /\ stored = users
      BY DEF WorldRowCurrent
    <2>1. Types /\ RowsInv
      BY DEF Inv
    <2>2. Owed = {} /\ ~call.tell
      BY IdleOwes
    <2>3. worldRow = world /\ \A k \in Keys : rows[k] = paid[k] /\ (k \in stored <=> k \in users)
      BY <2>1, <2>2 DEF RowsInv
    <2>4. rows \in Payments /\ paid \in Payments /\ stored \subseteq Keys /\ users \subseteq Keys
      BY <2>1 DEF Types, DataTyped, EngineTyped
    <2> QED BY <2>3, <2>4 DEF Payments
  <1> QED BY <1>1, AlwaysInv, PTL

(* A contract follows the people it recruited through every rename, login and *)
(* change of account, for a team and a number of guests of any size (Rename   *)
(* and joinLocked with rekeyContractParticipantLocked).                       *)
THEOREM ContractFollowsPeople == Spec => []TeamFollows
  <1>1. Inv => TeamFollows
    BY NothingOwed DEF Inv, TeamInv, TeamFound, TeamFollows
  <1> QED BY <1>1, AlwaysInv, PTL

(* The first participant to drop fails the contract for good: it cannot be    *)
(* won by coming back before the deadline (markContractFailedLocked,          *)
(* resolveContractLocked).                                                    *)
THEOREM DroppedIsNotPaid == Spec => []OnlyLoyalPaid
  <1>1. Inv => OnlyLoyalPaid
    BY DEF Inv, TeamInv, FailedIsBroken, OnlyLoyalPaid
  <1> QED BY <1>1, AlwaysInv, PTL

(* A contract fails only for a participant who was disconnected or is not in  *)
(* the channel as one the bot knows, provided that the bot's outages last for *)
(* a round, so that the scheduler notices (runScheduler,                      *)
(* resolveContractLocked).  After an outage NAMES is enough for the bot to    *)
(* know a guest; an account it knows by the reply to a WHOIS, later.          *)
THEOREM LoyalArePaid == ASSUME ~QuickReconnect PROVE Spec => []LoyalSucceeds
  <1>1. Init => LoyalSucceeds
    <2> SUFFICES ASSUME Init PROVE LoyalSucceeds
      OBVIOUS
    <2>1. call.op = "idle"
      BY IdleFields DEF Init
    <2> QED BY <2>1 DEF LoyalSucceeds
  <1>2. Inv /\ LoyalSucceeds /\ [Next]_vars => LoyalSucceeds'
    <2> SUFFICES ASSUME Inv, LoyalSucceeds, [Next]_vars PROVE LoyalSucceeds'
      OBVIOUS
    <2>1. Types /\ TeamInv /\ RosterInv /\ ReadyInv
      BY DEF Inv
    <2>2. CASE UNCHANGED vars
      BY <2>2 DEF vars, channel, history, LoyalSucceeds
    <2>3. CASE BeginTick
      BY <2>1, <2>3, LoyalTick
    <2>4. CASE \E k \in Keys : Pay(k)
      BY <2>1, <2>4, LoyalPay
    <2>5. CASE Next /\ ~BeginTick /\ ~ \E k \in Keys : Pay(k)
      <3>1. call'.op # "pay"
        BY <2>1, <2>5, OthersDoNotPay
      <3> QED BY <3>1 DEF LoyalSucceeds
    <2> QED BY <2>2, <2>3, <2>4, <2>5
  <1> QED BY <1>1, <1>2, AlwaysInv, PTL DEF Spec

(* The world stands still until NAMES has told the bot who is in the channel, *)
(* if the bot stays away for a round (runScheduler's wasReady).               *)
THEOREM RosterBeforeTick == ASSUME ~QuickReconnect PROVE Spec => RestoredBeforeTick
  <1>1. Inv /\ [Next]_vars => [BeginTick => names = {}]_vars
    BY DEF Inv, ReadyInv, BeginTick
  <1> QED BY <1>1, AlwaysInv, PTL DEF Spec, RestoredBeforeTick

=============================================================================
