------------------------------ MODULE RunProofs ------------------------------
(***************************************************************************)
(* What TLAPS proves of the contracts of World: each step of the engine,   *)
(* its rows and its scheduler is a step of MegacorpRun or leaves it alone, *)
(* for every set of runners, size of team, number of events, crashes and   *)
(* failing writes.                                                         *)
(***************************************************************************)
EXTENDS PaymentProofs

-----------------------------------------------------------------------------
(* The mapping.                                                               *)

(* A contract is there while it is being settled.                             *)
PayingInv == call.op = "pay" => Contract

LEMMA PayingNext == ASSUME Types, PayingInv, [Next]_vars PROVE PayingInv'
  <1>1. CASE UNCHANGED vars
    BY <1>1 DEF PayingInv, Contract, vars, memory
  <1>2. CASE BeginTick
    <2>1. UNCHANGED world /\ (Contract \/ call' = Step("raid", FALSE))
      BY <1>2 DEF BeginTick, memory
    <2>2. Step("raid", FALSE).op = "raid"
      BY StepOp
    <2> QED BY <2>1, <2>2 DEF PayingInv, Contract
  <1>3. CASE \E k \in Keys : Pay(k)
    BY <1>3 DEF Pay, PayingInv, Contract
  <1>4. CASE Next /\ ~BeginTick /\ ~ \E k \in Keys : Pay(k)
    BY <1>4, OthersDoNotPay DEF PayingInv
  <1> QED BY <1>1, <1>2, <1>3, <1>4

LEMMA NobodyIsNoTeam == Run!Nobody = NoTeam
  BY DEF Run!Nobody, NoTeam

LEMMA RunTorn == ASSUME torn' PROVE Run!Fault
  <1>1. RunPhase' = "unknown" /\ RunPlaces' = NoTeam /\ RunUnpaid' = NoTeam /\ RunDropped' = FALSE /\ RunWages' = NoTeam
    BY DEF RunPhase, RunPlaces, RunUnpaid, RunDropped, RunWages
  <1> QED BY <1>1, NobodyIsNoTeam DEF Run!Fault

(* Outside a settlement.                                                      *)
LEMMA RunRunning ==
  ASSUME ~torn, call.op # "pay"
  PROVE  /\ RunPhase = (IF Contract THEN "running" ELSE "none")
         /\ RunPlaces = world.team /\ RunUnpaid = NoTeam
         /\ RunWages = [k \in Keys |-> paid[k].contract]
  BY DEF RunPhase, RunPlaces, RunUnpaid, RunWages

LEMMA RunRunningNext ==
  ASSUME ~torn', call'.op # "pay"
  PROVE  /\ RunPhase' = (IF world'.team # NoTeam THEN "running" ELSE "none")
         /\ RunPlaces' = world'.team /\ RunUnpaid' = NoTeam
         /\ RunWages' = [k \in Keys |-> paid'[k].contract]
  BY DEF RunPhase, RunPlaces, RunUnpaid, RunWages, Contract

LEMMA TornStays == ASSUME [Next]_vars, torn PROVE torn'
  <1>1. CASE UNCHANGED vars
    BY <1>1 DEF vars
  <1>2. CASE People
    BY <1>2, Zenon
    DEF People, Enter, Restore, Link, Quit, Split, Unseen, ClaimDrop, FinishSave, Rename, Migrate, Switch,
        ForcePirate, FinishWorld
  <1>3. CASE Scheduler
    BY <1>3, Zenon
    DEF Scheduler, Round, BeginTick, EndPay, BeginRaid, EndRaid, Quiet, PirateEvent, RaidEvent, ContractEvent,
        CityEvent, FinishCity, Visit, Remember, DropGone, Pay, RaidHit
  <1>4. CASE Outside
    BY <1>4, Zenon DEF Outside, Deadline, Outage, Return, CrashRestart
  <1> QED BY <1>1, <1>2, <1>3, <1>4 DEF Next

-----------------------------------------------------------------------------
(* One lemma for each move of MegacorpRun, and one for those that make none.  *)

LEMMA RunStays ==
  ASSUME ~torn, ~torn', call.op # "pay", call'.op # "pay",
         world'.team = world.team, UNCHANGED broken,
         \A k \in Keys : paid'[k].contract = paid[k].contract
  PROVE  UNCHANGED Run!vars
  <1>1. RunPhase' = RunPhase /\ RunPlaces' = RunPlaces /\ RunUnpaid' = RunUnpaid /\ RunWages' = RunWages
    BY RunRunning, RunRunningNext DEF Contract
  <1>2. RunDropped' = RunDropped
    BY DEF RunDropped
  <1> QED BY <1>1, <1>2 DEF Run!vars

(* Steps that have nothing to do with the contract.                           *)
LEMMA RunElse ==
  ASSUME Types, Types', Next, ~torn, ~torn', ~BeginTick, ~ \E k \in Keys : Pay(k),
         \/ \E k \in Keys : Enter(k) \/ Restore(k) \/ Split(k) \/ Unseen(k) \/ FinishSave(k) \/ ClaimDrop(k) \/ RaidHit(k)
         \/ \E e \in Kinds : Deadline(e)
         \/ \E where \in {"out", "off"} : Outage(where)
         \/ ForcePirate \/ FinishWorld \/ Return \/ Round \/ BeginRaid \/ EndRaid
         \/ Quiet \/ PirateEvent \/ RaidEvent \/ FinishCity \/ Remember
  PROVE  UNCHANGED Run!vars
  <1>1. call.op # "pay" /\ UNCHANGED broken
    BY IdleFields
    DEF Enter, Restore, Link, Split, Unseen, FinishSave, ClaimDrop, RaidHit, Deadline, Outage, ForcePirate, FinishWorld,
        Return, Round, BeginRaid, EndRaid, Quiet, PirateEvent, RaidEvent, CityEvent, FinishCity, Remember, Seen, history
  <1>2. call'.op # "pay"
    BY OthersDoNotPay
  <1>3. world'.team = world.team
    <2>1. \/ UNCHANGED world
          \/ world' = Decayed
          \/ world' = [Decayed EXCEPT !.raid = TRUE]
          \/ world' = [world EXCEPT !.drop = TRUE]
          \/ world' = [world EXCEPT !.drop = FALSE]
          \/ world' = [world EXCEPT !.raid = FALSE]
      BY DEF Enter, Restore, Link, Split, Unseen, FinishSave, ClaimDrop, RaidHit, Deadline, Outage, DisconnectAll,
             ForcePirate, FinishWorld, Return, Round, BeginRaid, EndRaid, Quiet, PirateEvent, RaidEvent, OpensDrop,
             FinishCity, Remember, memory
    <2>2. world \in Worlds
      BY DEF Types, EngineTyped
    <2>3. PICK d : d = Decayed
      OBVIOUS
    <2>4. d \in Worlds /\ d.team = world.team
      BY <2>2, <2>3, DecayedFields
    <2>5. [d EXCEPT !.raid = TRUE].team = d.team
      BY <2>4 DEF Worlds
    <2> QED BY <2>1, <2>2, <2>3, <2>4, <2>5 DEF Worlds
  <1>4. \A k \in Keys : paid'[k].contract = paid[k].contract
    <2>1. paid \in [Keys -> [Kinds -> Nat]]
      BY DEF Types, EngineTyped, Payments
    <2>2. \/ UNCHANGED paid
          \/ \E k \in Keys : paid' = [paid EXCEPT ![k].drop = @ + 1] \/ paid' = Rewarded(k, "raid")
      BY DEF Enter, Restore, Link, Split, Unseen, FinishSave, ClaimDrop, RaidHit, Deadline, Outage, DisconnectAll,
             ForcePirate, FinishWorld, Return, Round, BeginRaid, EndRaid, Quiet, PirateEvent, RaidEvent, CityEvent,
             FinishCity, Remember, memory
    <2>3. CASE \E k \in Keys : paid' = [paid EXCEPT ![k].drop = @ + 1]
      BY <2>1, <2>3 DEF Kinds
    <2>4. CASE \E k \in Keys : paid' = Rewarded(k, "raid")
      BY <2>1, <2>4 DEF Rewarded, Kinds
    <2> QED BY <2>2, <2>3, <2>4
  <1> QED BY <1>1, <1>2, <1>3, <1>4, RunStays

(* Somebody is disconnected.                                                  *)
LEMMA RunDrop ==
  ASSUME Types, Next, TeamInv, ~torn, ~torn', ~BeginTick, ~ \E k \in Keys : Pay(k),
         NEW k \in Keys, Quit(k) \/ DropGone(k) \/ \E b \in Accounts : Switch(k, b)
  PROVE  Run!Drop(k) \/ UNCHANGED Run!vars
  <1>1. /\ call.op # "pay" /\ world' = Marked(k) /\ UNCHANGED paid /\ broken' = (broken \/ k \in recruits)
    BY IdleFields DEF Quit, DropGone, Switch, Seen, Breaks
  <1>2. call'.op # "pay"
    BY OthersDoNotPay
  <1>3. world'.team = world.team
    BY <1>1, MarkedFields DEF Types, EngineTyped
  <1>4. CASE k \notin Team
    <2>1. broken \in BOOLEAN /\ k \notin recruits
      BY <1>4 DEF TeamInv, Types, NetTyped
    <2>2. UNCHANGED broken
      BY <1>1, <2>1
    <2> QED BY <1>1, <1>2, <1>3, <2>2, RunStays
  <1>5. CASE k \in Team
    <2>1. world.team[k] > 0 /\ Contract
      BY <1>5, TeamOrNone DEF Team, Types, EngineTyped
    <2>2. k \in recruits
      BY <1>5 DEF TeamInv
    <2>3. RunDropped' = TRUE
      BY <1>1, <2>2 DEF RunDropped
    <2>4. RunPhase = "running" /\ RunPlaces[k] > 0
      BY <1>1, <2>1, RunRunning
    <2>5. RunPhase' = RunPhase /\ RunPlaces' = RunPlaces /\ RunUnpaid' = RunUnpaid /\ RunWages' = RunWages
      BY <1>1, <1>2, <1>3, RunRunning, RunRunningNext DEF Contract
    <2> QED BY <2>3, <2>4, <2>5 DEF Run!Drop
  <1> QED BY <1>4, <1>5

(* A runner gets another key.                                                 *)
LEMMA RunBecome ==
  ASSUME Types, Types', ~torn, ~torn', NEW j \in Keys, NEW k \in Keys, j # k, UNCHANGED broken,
         call = Idle, call'.op # "pay", world' = Rekeyed(j, k),
         paid'[j].contract = 0, paid[j].contract <= paid'[k].contract,
         paid'[k].contract <= paid[j].contract + paid[k].contract,
         \A i \in Keys \ {j, k} : paid'[i].contract = paid[i].contract
  PROVE  Run!Become(j, k)
  <1>1. call.op # "pay"
    BY IdleFields
  <1>2. /\ world.team \in [Keys -> Nat]
        /\ world'.team = [i \in Keys |-> IF i = j THEN 0
                                        ELSE IF i = k THEN world.team[k] + world.team[j]
                                        ELSE world.team[i]]
    BY RekeyedFields, WorldFields DEF Types, EngineTyped
  <1>3. world'.team = [world.team EXCEPT ![j] = 0, ![k] = world.team[j] + world.team[k]]
    BY <1>2
  <1>4. (world'.team # NoTeam) <=> (world.team # NoTeam)
    <2>1. world.team[j] \in Nat /\ world.team[k] \in Nat
      BY <1>2
    <2>2. ASSUME world'.team = NoTeam PROVE world.team = NoTeam
      <3>1. \A i \in Keys : world'.team[i] = 0
        BY <2>2 DEF NoTeam
      <3>2. world.team[j] + world.team[k] = 0
        BY <1>3, <1>2, <3>1
      <3>3. world.team[j] = 0 /\ world.team[k] = 0
        BY <2>1, <3>2
      <3>4. \A i \in Keys : world.team[i] = 0
        BY <1>2, <3>1, <3>3
      <3> QED BY <1>2, <3>4 DEF NoTeam
    <2>3. ASSUME world.team = NoTeam PROVE world'.team = NoTeam
      <3>1. \A i \in Keys : world.team[i] = 0
        BY <2>3 DEF NoTeam
      <3>2. \A i \in Keys : world'.team[i] = 0
        BY <1>2, <3>1
      <3> QED BY <1>2, <3>2 DEF NoTeam
    <2> QED BY <2>2, <2>3
  <1>5. RunPhase' = RunPhase /\ RunUnpaid' = RunUnpaid /\ RunPhase \in {"none", "running"}
    BY <1>1, <1>4, RunRunning, RunRunningNext DEF Contract
  <1>6. RunPlaces' = [RunPlaces EXCEPT ![j] = 0, ![k] = RunPlaces[j] + RunPlaces[k]]
    BY <1>1, <1>3, RunRunning, RunRunningNext
  <1>7. RunDropped' = RunDropped
    BY DEF RunDropped
  <1>8. /\ RunWages' \in [Keys -> Nat] /\ RunWages'[j] = 0 /\ RunWages[j] <= RunWages'[k]
        /\ RunWages'[k] <= RunWages[j] + RunWages[k]
        /\ \A i \in Keys \ {j, k} : RunWages'[i] = RunWages[i]
    <2>1. RunWages = [i \in Keys |-> paid[i].contract] /\ RunWages' = [i \in Keys |-> paid'[i].contract]
      BY <1>1, RunRunning, RunRunningNext
    <2>2. \A i \in Keys : paid'[i].contract \in Nat
      BY DEF Types, EngineTyped, Payments, Kinds
    <2> QED BY <2>1, <2>2
  <1> QED BY <1>5, <1>6, <1>7, <1>8 DEF Run!Become

LEMMA RunRename ==
  ASSUME Types, Types', ~torn, ~torn', NEW g \in Guests, NEW h \in Guests, Rename(g, h) PROVE Run!Become(g, h)
  <1>1. /\ g \in Keys /\ h \in Keys /\ g # h /\ call = Idle /\ UNCHANGED broken
        /\ paid' = [paid EXCEPT ![g] = Nothing, ![h] = paid[g]] /\ world' = Rekeyed(g, h)
        /\ call' = Call("save", {h}, g \in Team)
    BY DEF Rename, Seen, Keys, Types, EngineTyped
  <1>2. call'.op = "save"
    BY <1>1, CallOp
  <1>3. paid \in [Keys -> [Kinds -> Nat]] /\ "contract" \in Kinds
    BY DEF Types, EngineTyped, Payments, Kinds
  <1>4. paid'[g] = Nothing /\ paid'[h] = paid[g] /\ \A i \in Keys \ {g, h} : paid'[i] = paid[i]
    BY <1>1, <1>3
  <1>5. Nothing.contract = 0 /\ paid[g].contract \in Nat /\ paid[h].contract \in Nat
    BY <1>1, <1>3 DEF Nothing
  <1>6. paid[g].contract <= paid'[h].contract /\ paid'[h].contract <= paid[g].contract + paid[h].contract
    BY <1>4, <1>5
  <1> QED BY <1>1, <1>2, <1>4, <1>5, <1>6, RunBecome

LEMMA RunMigrate ==
  ASSUME Types, Types', Behind, ~torn, ~torn', NEW g \in Guests, NEW a \in Accounts, Migrate(g, a)
  PROVE  Run!Become(g, a)
  <1>1. /\ call = Idle /\ UNCHANGED broken /\ world' = Rekeyed(g, a)
        /\ paid' = [paid EXCEPT ![g] = Nothing, ![a] = [e \in Kinds |-> paid[g][e] + rows[a][e]]]
        /\ call' = Call("save", {a}, g \in Team)
    BY DEF Migrate, Seen
  <1>2. g \in Keys /\ a \in Keys /\ g # a
    BY WorldKeysAssumption DEF Keys
  <1>3. call'.op = "save"
    BY <1>1, CallOp
  <1>4. paid \in [Keys -> [Kinds -> Nat]] /\ rows \in [Keys -> [Kinds -> Nat]] /\ "contract" \in Kinds
    BY DEF Types, EngineTyped, DataTyped, Payments, Kinds
  <1>5. /\ paid'[g] = Nothing /\ paid'[a] = [e \in Kinds |-> paid[g][e] + rows[a][e]]
        /\ \A i \in Keys \ {g, a} : paid'[i] = paid[i]
    BY <1>1, <1>2, <1>4
  <1>6. /\ Nothing.contract = 0 /\ paid[g].contract \in Nat /\ paid[a].contract \in Nat
        /\ rows[a].contract \in Nat /\ rows[a].contract <= paid[a].contract
    BY <1>2, <1>4, RowsBehind DEF Nothing
  <1>7. paid'[a].contract = paid[g].contract + rows[a].contract
    BY <1>4, <1>5
  <1>8. paid[g].contract <= paid'[a].contract /\ paid'[a].contract <= paid[g].contract + paid[a].contract
    BY <1>6, <1>7
  <1> QED BY <1>1, <1>2, <1>3, <1>5, <1>6, <1>8, RunBecome

LEMMA RunRecruit == ASSUME Types, Types', TeamInv, ~torn, ~torn', ContractEvent PROVE Run!Recruit
  <1>1. PICK team \in (SUBSET linked) \ {{}} :
            world' = [Decayed EXCEPT !.team = [k \in Keys |-> IF k \in team THEN 1 ELSE 0]]
    BY DEF ContractEvent
  <1>2. call.op = "event" /\ ~Contract /\ broken' = FALSE /\ UNCHANGED paid /\ call' = Step("city", TRUE)
    BY DEF ContractEvent, CityEvent
  <1>3. call'.op = "city"
    BY <1>2, StepOp
  <1>4. team \in (SUBSET Keys) \ {{}}
    BY DEF Types, EngineTyped
  <1>5. world'.team = [k \in Keys |-> IF k \in team THEN 1 ELSE 0]
    <2>1. PICK d : d = Decayed
      OBVIOUS
    <2>2. d \in Worlds
      BY <2>1, DecayedFields DEF Types, EngineTyped
    <2> QED BY <1>1, <2>1, <2>2 DEF Worlds
  <1>6. world'.team # NoTeam
    <2>1. PICK k \in team : k \in Keys
      BY <1>4
    <2>2. world'.team[k] = 1 /\ NoTeam[k] = 0
      BY <1>5, <2>1 DEF NoTeam
    <2> QED BY <2>2
  <1>7. RunPhase = "none" /\ RunPhase' = "running" /\ RunPlaces' = world'.team
    BY <1>2, <1>3, <1>6, RunRunning, RunRunningNext
  <1>8. RunUnpaid' = RunUnpaid /\ RunWages' = RunWages
    BY <1>2, <1>3, RunRunning, RunRunningNext
  <1>9. RunDropped' = RunDropped
    <2>1. ~broken
      BY <1>2 DEF TeamInv, FailedIsBroken
    <2> QED BY <1>2, <2>1 DEF RunDropped
  <1> QED BY <1>4, <1>5, <1>7, <1>8, <1>9 DEF Run!Recruit

LEMMA RunBegin ==
  ASSUME Types, TeamInv, ~torn, ~torn', BeginTick PROVE Run!Win \/ Run!Lose \/ UNCHANGED Run!vars
  <1>1. call = Idle /\ call.op = "idle" /\ UNCHANGED <<world, paid, broken>>
    BY IdleFields DEF BeginTick, memory, history
  <1>2. CASE call' = Step("raid", FALSE)
    <2>1. call'.op = "raid"
      BY <1>2, StepOp
    <2> QED BY <1>1, <2>1, RunStays
  <1>3. CASE /\ Contract /\ call'.op = "pay" /\ call'.places = world.team
             /\ call'.won = (~world.failed /\ Team \subseteq linked)
    <2>1. RunPhase = "running" /\ RunPlaces = world.team /\ RunWages = [k \in Keys |-> paid[k].contract]
      BY <1>1, <1>3, RunRunning
    <2>2. RunPhase' = (IF call'.won THEN "won" ELSE "lost") /\ RunUnpaid' = world.team
      BY <1>3 DEF RunPhase, RunUnpaid
    <2>3. RunPlaces' = RunPlaces /\ RunWages' = RunWages
      BY <1>1, <2>1 DEF RunPlaces, RunWages
    <2>4. RunDropped' = RunDropped
      BY <1>1 DEF RunDropped
    <2>5. CASE call'.won
      <3>1. ~broken
        BY <1>3, <2>5 DEF TeamInv, FailedIsBroken
      <3>2. ~RunDropped
        BY <3>1 DEF RunDropped
      <3> QED BY <2>1, <2>2, <2>3, <2>4, <2>5, <3>2 DEF Run!Win
    <2>6. CASE ~call'.won
      BY <2>1, <2>2, <2>3, <2>4, <2>6 DEF Run!Lose
    <2> QED BY <2>5, <2>6
  <1> QED BY <1>2, <1>3 DEF BeginTick

LEMMA RunSettle == ASSUME Types, Types', ~torn, ~torn', NEW k \in Keys, Pay(k) PROVE Run!Settle(k)
  <1> DEFINE rest == [call EXCEPT !.places[k] = @ - 1]
  <1>1. /\ call.op = "pay" /\ call.places[k] > 0 /\ UNCHANGED <<world, broken>>
        /\ call' = rest
        /\ \/ paid' = Rewarded(k, "contract")
           \/ UNCHANGED paid
    <2>1. call.op = "pay" /\ call.places[k] > 0 /\ UNCHANGED <<world, broken>>
      BY DEF Pay, history
    <2>2. CASE paid' = Rewarded(k, "contract") /\ Save(k, rest) /\ torn' = (torn \/ call' = Idle)
      <3> HIDE DEF rest
      <3>1. call' # Idle
        BY <2>2, Zenon
      <3> QED BY <2>1, <2>2, <3>1, SaveOutcome
    <2>3. CASE call' = rest /\ UNCHANGED <<paid, torn>>
      BY <2>1, <2>3
    <2> QED BY <2>2, <2>3 DEF Pay, rest
  <1>2. rest.op = "pay" /\ rest.won = call.won /\ rest.places = [call.places EXCEPT ![k] = @ - 1]
    BY <1>1 DEF Types, CallTyped, Calls
  <1> HIDE DEF rest
  <1>3. /\ RunPhase = (IF call.won THEN "won" ELSE "lost") /\ RunUnpaid = call.places /\ RunPlaces = world.team
        /\ RunWages = [j \in Keys |-> paid[j].contract]
    BY <1>1 DEF RunPhase, RunUnpaid, RunPlaces, RunWages
  <1>4. /\ RunPhase' = (IF call.won THEN "won" ELSE "lost") /\ RunUnpaid' = rest.places /\ RunPlaces' = world.team
        /\ RunWages' = [j \in Keys |-> paid'[j].contract]
    BY <1>1, <1>2 DEF RunPhase, RunUnpaid, RunPlaces, RunWages
  <1>5. RunDropped' = RunDropped
    BY <1>1 DEF RunDropped
  <1>6. RunUnpaid[k] > 0 /\ RunUnpaid' = [RunUnpaid EXCEPT ![k] = @ - 1]
    BY <1>1, <1>2, <1>3, <1>4
  <1>7. \/ RunPhase = "won" /\ RunWages' = [RunWages EXCEPT ![k] = @ + 1]
        \/ RunPhase \in {"won", "lost"} /\ UNCHANGED RunWages
    <2>1. paid \in [Keys -> [Kinds -> Nat]] /\ "contract" \in Kinds
      BY DEF Types, EngineTyped, Payments, Kinds
    <2>2. CASE UNCHANGED paid
      BY <1>3, <1>4, <2>2
    <2>3. CASE paid' = Rewarded(k, "contract")
      <3>1. \A j \in Keys : paid'[j].contract = IF j = k THEN paid[j].contract + (IF call.won THEN 1 ELSE 0)
                                               ELSE paid[j].contract
        BY <2>1, <2>3 DEF Rewarded
      <3>2. \A j \in Keys : paid[j].contract \in Nat
        BY <2>1
      <3>3. CASE call.won
        <4>1. RunWages' = [RunWages EXCEPT ![k] = @ + 1]
          BY <1>3, <1>4, <3>1, <3>3
        <4> QED BY <1>3, <3>3, <4>1
      <3>4. CASE ~call.won
        <4>1. \A j \in Keys : paid'[j].contract = paid[j].contract
          BY <3>1, <3>2, <3>4
        <4>2. RunWages' = RunWages
          BY <1>3, <1>4, <4>1
        <4> QED BY <1>3, <3>4, <4>2
      <3> QED BY <3>3, <3>4
    <2> QED BY <1>1, <2>2, <2>3
  <1> QED BY <1>3, <1>4, <1>5, <1>6, <1>7 DEF Run!Settle

LEMMA RunClose == ASSUME Types, ~torn, ~torn', EndPay PROVE Run!Close
  <1>1. /\ call.op = "pay" /\ call.places = NoTeam /\ UNCHANGED paid /\ broken' = FALSE
        /\ world' = [world EXCEPT !.team = NoTeam, !.failed = FALSE] /\ call' = Step("raid", TRUE)
    BY DEF EndPay
  <1>2. world'.team = NoTeam
    BY <1>1 DEF Types, EngineTyped, Worlds
  <1>3. call'.op = "raid"
    BY <1>1, StepOp
  <1>4. /\ RunPhase \in {"won", "lost"} /\ RunUnpaid = NoTeam /\ RunWages = [k \in Keys |-> paid[k].contract]
    BY <1>1 DEF RunPhase, RunUnpaid, RunWages
  <1>5. /\ RunPhase' = "none" /\ RunPlaces' = NoTeam /\ RunUnpaid' = NoTeam
        /\ RunWages' = [k \in Keys |-> paid[k].contract]
    BY <1>1, <1>2, <1>3, RunRunningNext
  <1>6. RunDropped' = FALSE
    BY <1>1 DEF RunDropped
  <1> QED BY <1>4, <1>5, <1>6, NobodyIsNoTeam DEF Run!Close

LEMMA RunRetire == ASSUME Types, ~torn, ~torn', Visit PROVE \E gone \in SUBSET Keys : Run!Retire(gone)
  <1>1. PICK gone \in SUBSET Prunable : paid' = [k \in Keys |-> IF k \in gone THEN Nothing ELSE paid[k]]
    BY DEF Visit
  <1>2. call.op = "visit" /\ UNCHANGED <<world, broken>>
    BY DEF Visit, history
  <1>3. call'.op # "pay"
    BY StepCalls
  <1>4. gone \in SUBSET Keys /\ \A k \in gone : world.team[k] = 0
    <2>1. gone \subseteq Keys /\ \A k \in gone : k \notin Team
      BY DEF Prunable, Keys
    <2>2. \A k \in gone : world.team[k] \in Nat /\ ~(world.team[k] > 0)
      BY <2>1, WorldFields DEF Team, Types, EngineTyped
    <2> QED BY <2>1, <2>2
  <1>5. /\ RunPhase' = RunPhase /\ RunPhase \in {"none", "running"} /\ RunPlaces' = RunPlaces /\ RunUnpaid' = RunUnpaid
        /\ RunPlaces = world.team
    BY <1>2, <1>3, RunRunning, RunRunningNext DEF Contract
  <1>6. RunDropped' = RunDropped
    BY <1>2 DEF RunDropped
  <1>7. RunWages' = [k \in Keys |-> IF k \in gone THEN 0 ELSE RunWages[k]]
    <2>1. RunWages = [k \in Keys |-> paid[k].contract] /\ RunWages' = [k \in Keys |-> paid'[k].contract]
      BY <1>2, <1>3, RunRunning, RunRunningNext
    <2>2. \A k \in Keys : paid'[k].contract = IF k \in gone THEN 0 ELSE paid[k].contract
      BY <1>1 DEF Nothing, Kinds
    <2> QED BY <2>1, <2>2
  <1>8. Run!Retire(gone)
    BY <1>4, <1>5, <1>6, <1>7 DEF Run!Retire
  <1> QED BY <1>4, <1>8

LEMMA RunResume == ASSUME Types, PayingInv, ~torn, ~torn', CrashRestart PROVE Run!Resume \/ UNCHANGED Run!vars
  <1>1. /\ world' = worldRow /\ paid' = rows /\ call' = Idle /\ UNCHANGED broken /\ ~Unwritten
    BY DEF CrashRestart, history
  <1>2. worldRow = world /\ rows = paid /\ (call.op = "pay" => call.places = world.team)
    BY <1>1 DEF Unwritten
  <1>3. UNCHANGED <<world, paid>> /\ call'.op = "idle"
    BY <1>1, <1>2, IdleFields
  <1>4. CASE call.op # "pay"
    BY <1>1, <1>3, <1>4, RunStays
  <1>5. CASE call.op = "pay"
    <2>1. /\ RunPhase \in {"won", "lost"} /\ RunUnpaid = world.team /\ RunPlaces = world.team
          /\ RunWages = [k \in Keys |-> paid[k].contract]
      BY <1>2, <1>5 DEF RunPhase, RunUnpaid, RunPlaces, RunWages
    <2>2. /\ RunPhase' = "running" /\ RunUnpaid' = NoTeam /\ RunPlaces' = world.team
          /\ RunWages' = [k \in Keys |-> paid[k].contract]
      BY <1>3, <1>5, RunRunningNext DEF PayingInv, Contract
    <2>3. RunDropped' = RunDropped
      BY <1>1 DEF RunDropped
    <2> QED BY <2>1, <2>2, <2>3, NobodyIsNoTeam DEF Run!Resume
  <1> QED BY <1>4, <1>5

-----------------------------------------------------------------------------

LEMMA RunStep ==
  ASSUME Types, Types', TeamInv, Behind, PayingInv, [Next]_vars PROVE [Run!Next]_(Run!vars)
  <1>1. CASE torn'
    BY <1>1, RunTorn DEF Run!Next
  <1>2. CASE UNCHANGED vars
    <2>1. UNCHANGED <<torn, call, world, broken, paid>>
      BY <1>2 DEF vars, memory, history
    <2> QED BY <2>1 DEF Run!vars, RunPhase, RunPlaces, RunUnpaid, RunDropped, RunWages, Contract
  <1>3. CASE Next /\ ~torn'
    <2>1. ~torn
      BY <1>3, TornStays
    <2>2. CASE BeginTick
      BY <1>3, <2>1, <2>2, RunBegin DEF Run!Next
    <2>3. CASE \E k \in Keys : Pay(k)
      BY <1>3, <2>1, <2>3, RunSettle DEF Run!Next
    <2>4. CASE ~BeginTick /\ ~ \E k \in Keys : Pay(k)
      <3>1. CASE \E k \in Keys : Quit(k) \/ DropGone(k) \/ \E b \in Accounts : Switch(k, b)
        BY <1>3, <2>1, <2>4, <3>1, RunDrop DEF Run!Next
      <3>2. CASE \E g \in Guests, h \in Guests : Rename(g, h)
        BY <1>3, <2>1, <3>2, RunRename DEF Run!Next, Keys
      <3>3. CASE \E g \in Guests, a \in Accounts : Migrate(g, a)
        BY <1>3, <2>1, <3>3, RunMigrate DEF Run!Next, Keys
      <3>4. CASE ContractEvent
        BY <1>3, <2>1, <3>4, RunRecruit DEF Run!Next
      <3>5. CASE EndPay
        BY <1>3, <2>1, <3>5, RunClose DEF Run!Next
      <3>6. CASE Visit
        BY <1>3, <2>1, <3>6, RunRetire DEF Run!Next
      <3>7. CASE CrashRestart
        BY <1>3, <2>1, <3>7, RunResume DEF Run!Next
      <3>8. CASE \/ \E k \in Keys : Enter(k) \/ Restore(k) \/ Split(k) \/ Unseen(k) \/ FinishSave(k) \/ ClaimDrop(k) \/ RaidHit(k)
                 \/ \E e \in Kinds : Deadline(e)
                 \/ \E where \in {"out", "off"} : Outage(where)
                 \/ ForcePirate \/ FinishWorld \/ Return \/ Round \/ BeginRaid \/ EndRaid
                 \/ Quiet \/ PirateEvent \/ RaidEvent \/ FinishCity \/ Remember
        BY <1>3, <2>1, <2>4, <3>8, RunElse
      <3>9. CASE People
        <4>1. \A a \in Accounts : a \in Keys
          BY DEF Keys
        <4> QED BY <3>1, <3>2, <3>3, <3>8, <3>9, <4>1 DEF People
      <3>10. CASE Scheduler
        BY <2>4, <3>1, <3>4, <3>5, <3>6, <3>8, <3>10 DEF Scheduler
      <3>11. CASE Outside
        BY <3>7, <3>8, <3>11 DEF Outside
      <3> QED BY <1>3, <3>9, <3>10, <3>11 DEF Next
    <2> QED BY <2>2, <2>3, <2>4
  <1> QED BY <1>1, <1>2, <1>3

LEMMA RunInit == Init => Run!Init /\ PayingInv
  <1> SUFFICES ASSUME Init PROVE Run!Init /\ PayingInv
    OBVIOUS
  <1>1. /\ ~torn /\ call.op = "idle" /\ world.team = NoTeam /\ broken = FALSE /\ paid = [k \in Keys |-> Nothing]
    BY IdleFields DEF Init
  <1>2. RunPhase = "none" /\ RunPlaces = NoTeam /\ RunUnpaid = NoTeam /\ RunWages = [k \in Keys |-> paid[k].contract]
    BY <1>1, RunRunning DEF Contract
  <1>3. RunWages = NoTeam
    BY <1>1, <1>2 DEF Nothing, NoTeam, Kinds
  <1>4. RunDropped = FALSE
    BY <1>1 DEF RunDropped
  <1> QED BY <1>1, <1>2, <1>3, <1>4, NobodyIsNoTeam DEF Run!Init, PayingInv

(* A Megacorp Run is what MegacorpRun promises, whatever the order of joins,  *)
(* renames, logins, outages and Ticks, and across restarts: each place of the *)
(* team is paid at most once, to who has it by then, and only in a run from   *)
(* which nobody dropped (startContractLocked to resolveContractLocked), until *)
(* a fault tears a call between two writes.                                   *)
THEOREM ImplementsMegacorpRun == Spec => RunsAsPromised
  <1>1. Init => Run!Init /\ PayingInv
    BY RunInit
  <1>2. Inv /\ PayingInv /\ [Next]_vars => PayingInv'
    BY PayingNext DEF Inv
  <1>3. Inv /\ Inv' /\ Behind /\ PayingInv /\ [Next]_vars => [Run!Next]_(Run!vars)
    BY RunStep DEF Inv
  <1> QED BY <1>1, <1>2, <1>3, AlwaysInv, AlwaysCovered, PTL DEF Spec, RunsAsPromised, Run!Spec

=============================================================================
