-------------------------------- MODULE World --------------------------------
(***************************************************************************)
(* What the city asks of its runners: Megacorp Runs (contracts), Blackwall *)
(* raids and dead drops, and the scheduler that moves them along.          *)
(*                                                                         *)
(* What is pending is kept in one row of its own (world_state), what a     *)
(* runner was paid for it in the runner's row (Stats), and one engine call *)
(* writes them one after the other.  As in Artifacts, a step is the part   *)
(* of a call that ends with one write.  Contracts name runners by key, so  *)
(* they have to follow every change of nick and account; the scheduler     *)
(* must not let them end while the bot has not seen who is in the channel. *)
(*                                                                         *)
(* People are named by the key of the runner they play; Links shows which  *)
(* one that is.  Rewards are counted, not weighed: `paid' counts the       *)
(* entries of Stats (Contracts, RaidWins, DeadDrops).                      *)
(***************************************************************************)
EXTENDS Naturals, FiniteSets

CONSTANTS
    Guests,          \* identity keys of guest runners
    Accounts,        \* identity keys of account runners
    Crashes,         \* whether the process may end anywhere and start again
    QuickReconnect,  \* reconnect_seconds is shorter than tick_seconds
    MaxTeam,         \* contract_participants
    MaxErrors,       \* bound: writes that fail before the process starts again
    MaxPeople,       \* bound: people in the channel at once
    MaxEvents        \* bound: contracts, raids and pirate frequencies started

ASSUME WorldKeysAssumption == Guests \cap Accounts = {}
ASSUME WorldFaultsAssumption == Crashes \in BOOLEAN /\ MaxErrors \in Nat
ASSUME WorldRulesAssumption == QuickReconnect \in BOOLEAN /\ MaxTeam \in Nat \ {0} /\ MaxPeople \in Nat /\ MaxEvents \in Nat

Keys  == Guests \cup Accounts
Kinds == {"contract", "raid", "drop"}

VARIABLES
    \* the channel
    there,     \* the runners whose people are in it, as far as the bot has been told
    bot,       \* the bot: "in" the channel, "out", "knocking", or "off" the network
    names,     \* the people NAMES has yet to tell the bot about
    fresh,     \* no scheduler round has found the bot in the channel since it joined
    due,       \* what has reached its deadline
    events,    \* contracts, raids and pirate frequencies so far, for the bound
    \* the scheduler
    wasReady,  \* the round before this one found the bot in the channel
    todo,      \* Maintain has returned and Tick has yet to be called
    \* the engine and its database
    users, linked, world, paid,
    stored, rows, worldRow,
    call,      \* what the call that holds the mutex has left to do
    \* history
    recruits,  \* the runners recruited for the contract, under their present keys
    broken,    \* one of them has been disconnected, and not by an outage or a netsplit
    purse,     \* payments that were promised, by kind
    overtaken, \* the bot lost the channel between this round's Maintain and its Tick
    unsaved,   \* writes that have failed since the process started
    torn       \* a fault hit a call that had written one row and not yet the other

channel  == <<there, bot, names, fresh>>
memory   == <<users, linked, world, paid>>
database == <<stored, rows, worldRow>>
history  == <<recruits, broken, purse, overtaken>>
vars     == <<channel, due, events, wasReady, todo, memory, database, call, history, unsaved, torn>>

(* The participants are a list in which a runner may come to be twice; its    *)
(* order is never looked at, so it is a bag.                                  *)
NoTeam  == [k \in Keys |-> 0]
Nothing == [e \in Kinds |-> 0]

Worlds == [team: [Keys -> Nat], failed: BOOLEAN, raid: BOOLEAN, drop: BOOLEAN]

(* ThenNothing, MarkedNot, RekeyedNot, ClaimDropOpen, DisconnectAllFails,     *)
(* SettledAtOnce, RewardedAnyway and PrunableLinked are not part of Next:     *)
(* they are mistakes the definition after each could contain, and serve to    *)
(* show that a property notices.                                              *)

(* The call: `left' are the runners its loop has not reached, `places' those  *)
(* of the contract's list, `tell' that it owes the world row a write (or the  *)
(* channel a message), `won' that the contract or raid is a success.          *)
Ops   == {"idle", "save", "world", "reconcile", "pay", "raid", "hit", "event", "city", "visit", "remember"}
Calls == [op: Ops, left: SUBSET Keys, places: [Keys -> Nat], tell: BOOLEAN, won: BOOLEAN]

Call(op, left, tell) == [op |-> op, left |-> left, places |-> NoTeam, tell |-> tell, won |-> FALSE]
Idle == Call("idle", {}, FALSE)

(* Mistake: the world row waits for the next Tick.  *)
ThenNothing(changed) == Idle

(* What an IRC call does after its runner's write.  *)
ThenWorld(changed) == IF changed THEN Call("world", {}, TRUE) ELSE Idle

Team     == {k \in Keys : world.team[k] > 0}
Contract == world.team # NoTeam

Init ==
    /\ there = {} /\ bot = "in" /\ names = {} /\ fresh = TRUE /\ due = {} /\ events = 0
    /\ wasReady = FALSE /\ todo = FALSE
    /\ users = {} /\ linked = {} /\ paid = [k \in Keys |-> Nothing]
    /\ world = [team |-> NoTeam, failed |-> FALSE, raid |-> FALSE, drop |-> FALSE]
    /\ stored = {} /\ rows = [k \in Keys |-> Nothing] /\ worldRow = world
    /\ call = Idle
    /\ recruits = {} /\ broken = FALSE /\ purse = Nothing
    /\ overtaken = FALSE /\ unsaved = 0 /\ torn = FALSE

-----------------------------------------------------------------------------
(* Writes.  When one fails the call returns: memory stays as it is, what the  *)
(* call still had to do is dropped.                                           *)

FailsOnce == unsaved < MaxErrors /\ unsaved' = unsaved + 1

Fails ==
    /\ FailsOnce
    /\ call' = Idle
    /\ UNCHANGED database

Saved(k, next) ==
    /\ stored' = stored \cup {k}
    /\ rows' = [rows EXCEPT ![k] = paid'[k]]
    /\ call' = next
    /\ UNCHANGED <<worldRow, unsaved>>

WorldSaved(next) ==
    /\ worldRow' = world'
    /\ call' = next
    /\ UNCHANGED <<stored, rows, unsaved>>

Save(k, next)   == Saved(k, next) \/ Fails
SaveWorld(next) == WorldSaved(next) \/ Fails

-----------------------------------------------------------------------------
(* People.  The bot sees what they do while it is in the channel.             *)

Seen(k) == call = Idle /\ bot = "in" /\ k \notin names

Moved(S, j, k) == IF j \in S THEN (S \ {j}) \cup {k} ELSE S

(* markContractFailedLocked: the first participant to drop fails it.          *)
Fatal(k) == k \in Team /\ ~world.failed

(* Mistake: the contract is only looked at again when it ends.  *)
MarkedNot(k) == world

Marked(k) == [world EXCEPT !.failed = @ \/ k \in Team]
Breaks(k) == broken' = (broken \/ k \in recruits)

(* Mistake: the contract keeps the old key.  *)
RekeyedNot(j, k) == world

(* rekeyContractParticipantLocked.                                            *)
Rekeyed(j, k) == [world EXCEPT !.team = [@ EXCEPT ![j] = 0, ![k] = world.team[k] + world.team[j]]]

Link(k) ==
    /\ users' = users \cup {k}
    /\ linked' = linked \cup {k}
    /\ UNCHANGED <<bot, fresh, due, events, wasReady, todo, world, paid, history, torn>>
    /\ Save(k, Idle)

(* JOIN: somebody enters.  *)
Enter(k) ==
    /\ Seen(k) /\ k \notin there /\ Cardinality(there) < MaxPeople
    /\ there' = there \cup {k}
    /\ UNCHANGED names
    /\ Link(k)

(* RPL_NAMREPLY: somebody was there when the bot came.  The reply does not    *)
(* say whose account it is: a guest plays on until the reply to a WHOIS does, *)
(* which is a Migrate.                                                        *)
Restore(k) ==
    /\ call = Idle /\ k \in names
    /\ names' = names \ {k}
    /\ \/ k \in Guests /\ UNCHANGED there /\ Link(k)
       \/ \E g \in Guests \ there : k \in Accounts /\ there' = Moved(there, k, g) /\ Link(g)

(* PART, QUIT or KICK.  *)
Quit(k) ==
    /\ Seen(k) /\ k \in there \cap linked
    /\ there' = there \ {k}
    /\ linked' = linked \ {k}
    /\ world' = Marked(k)
    /\ Breaks(k)
    /\ UNCHANGED <<bot, names, fresh, due, events, wasReady, todo, users, paid, recruits, purse, overtaken, torn>>
    /\ Save(k, ThenWorld(Fatal(k)))

(* A netsplit fails nothing.  *)
Split(k) ==
    /\ Seen(k) /\ k \in there \cap linked
    /\ there' = there \ {k}
    /\ linked' = linked \ {k}
    /\ UNCHANGED <<bot, names, fresh, due, events, wasReady, todo, users, world, paid, history, torn>>
    /\ Save(k, Idle)

(* A QUIT that was missed, or anything while the bot is away.  *)
Unseen(k) ==
    /\ call = Idle /\ k \notin names
    /\ \/ there' = there \ {k}
       \/ bot # "in" /\ Cardinality(there) < MaxPeople /\ there' = there \cup {k}
    /\ UNCHANGED <<bot, names, fresh, due, events, wasReady, todo, memory, database, call, history, unsaved, torn>>

(* Rename of a guest to a nick no other runner holds.  The runner leaves the  *)
(* user map, its old row is deleted, and the new one is written next; when    *)
(* the delete fails, it is under no key.                                      *)
Rename(g, h) ==
    /\ Seen(g) /\ g \in Guests \cap linked \cap there
    /\ h \in Guests \ (users \cup there)
    /\ there' = Moved(there, g, h)
    /\ users' = users \ {g}
    /\ linked' = linked \ {g}
    /\ paid' = [paid EXCEPT ![g] = Nothing, ![h] = paid[g]]
    /\ world' = Rekeyed(g, h)
    /\ recruits' = Moved(recruits, g, h)
    /\ \/ /\ stored' = stored \ {g}
          /\ rows' = [rows EXCEPT ![g] = Nothing]
          /\ call' = Call("save", {h}, g \in Team)
          /\ UNCHANGED <<worldRow, unsaved, torn>>
       \/ Fails /\ torn' = TRUE
    /\ UNCHANGED <<bot, names, fresh, due, events, wasReady, todo, broken, purse, overtaken>>

(* A person who plays a guest logs in: the guest's row is saved, and one      *)
(* transaction merges it into the account's row and deletes it.  The runner   *)
(* in memory is what that row says.  Nobody else plays the account.           *)
Migrate(g, a) ==
    /\ Seen(g) /\ Seen(a)
    /\ g \in Guests \cap users /\ (g \in linked <=> g \in there)
    /\ g \in there \/ Cardinality(there) < MaxPeople
    /\ a \in Accounts \ there
    /\ there' = (there \ {g}) \cup {a}
    /\ users' = (users \ {g}) \cup {a}
    /\ linked' = (linked \ {g}) \cup {a}
    /\ paid' = [paid EXCEPT ![g] = Nothing, ![a] = [e \in Kinds |-> paid[g][e] + rows[a][e]]]
    /\ world' = Rekeyed(g, a)
    /\ recruits' = Moved(recruits, g, a)
    /\ stored' = (stored \ {g}) \cup {a}
    /\ rows' = [rows EXCEPT ![g] = Nothing, ![a] = paid'[a]]
    /\ call' = Call("save", {a}, g \in Team)
    /\ UNCHANGED <<bot, names, fresh, due, events, wasReady, todo, broken, purse, overtaken, worldRow, unsaved, torn>>

(* Bind of somebody who plays another account: that account goes offline, and *)
(* a failed write leaves the person with no runner.                           *)
Switch(a, b) ==
    /\ Seen(a) /\ Seen(b)
    /\ a \in Accounts \cap linked \cap there
    /\ b \in Accounts \ (there \cup {a})
    /\ there' = Moved(there, a, b)
    /\ linked' = linked \ {a}
    /\ world' = Marked(a)
    /\ Breaks(a)
    /\ UNCHANGED <<bot, names, fresh, due, events, wasReady, todo, users, paid, recruits, purse, overtaken>>
    /\ Save(a, Call("save", {b}, Fatal(a)))
    /\ torn' = (torn \/ call' = Idle)

(* The rest of a join or a nick change, and of any call that has changed the  *)
(* world row.                                                                 *)
FinishSave(k) ==
    /\ call.op = "save" /\ k \in call.left
    /\ users' = users \cup {k}
    /\ linked' = linked \cup {k}
    /\ UNCHANGED <<channel, due, events, wasReady, todo, world, paid, history, torn>>
    /\ Save(k, ThenWorld(call.tell))

FinishWorld ==
    /\ call.op = "world"
    /\ UNCHANGED <<channel, due, events, wasReady, todo, memory, history, torn>>
    /\ SaveWorld(Idle)

(* Mistake: the code stays valid until the frequency closes.  *)
ClaimDropOpen(k) ==
    /\ Seen(k) /\ k \in linked \cap there
    /\ world.drop /\ "drop" \notin due
    /\ paid' = [paid EXCEPT ![k].drop = @ + 1]
    /\ Save(k, ThenWorld(TRUE))
    /\ UNCHANGED <<channel, due, events, wasReady, todo, users, linked, world, history, torn>>

(* Somebody types the code of the dead drop.  *)
ClaimDrop(k) ==
    /\ Seen(k) /\ k \in linked \cap there
    /\ world.drop /\ "drop" \notin due
    /\ paid' = [paid EXCEPT ![k].drop = @ + 1]
    /\ world' = [world EXCEPT !.drop = FALSE]
    /\ Save(k, ThenWorld(TRUE))
    /\ UNCHANGED <<channel, due, events, wasReady, todo, users, linked, history, torn>>

OpensDrop ==
    /\ world' = [world EXCEPT !.drop = TRUE]
    /\ due' = due \ {"drop"}
    /\ purse' = [purse EXCEPT !.drop = @ + 1]
    /\ events' = events + 1

(* !pirate.  *)
ForcePirate ==
    /\ call = Idle /\ bot = "in" /\ events < MaxEvents
    /\ OpensDrop
    /\ SaveWorld(Idle)
    /\ UNCHANGED <<channel, wasReady, todo, users, linked, paid, recruits, broken, overtaken, torn>>

-----------------------------------------------------------------------------
(* Time, the bot and the process.                                             *)

Pending == (IF Contract THEN {"contract"} ELSE {}) \cup {e \in {"raid", "drop"} : world[e]}

Deadline(e) ==
    /\ call = Idle /\ e \in Pending \ due
    /\ due' = due \cup {e}
    /\ UNCHANGED <<channel, events, wasReady, todo, memory, database, call, history, unsaved, torn>>

(* Mistake: an outage counts as a dropped signal.  *)
DisconnectAllFails(done, off) ==
    /\ linked' = linked \ off
    /\ rows' = [k \in Keys |-> IF k \in done THEN paid[k] ELSE rows[k]]
    /\ stored' = stored \cup done
    /\ world' = [world EXCEPT !.failed = @ \/ Team \cap off # {}]
    /\ UNCHANGED <<users, paid, worldRow>>

(* The runners `off' are paused, and `done' of them saved.                    *)
DisconnectAll(done, off) ==
    /\ linked' = linked \ off
    /\ rows' = [k \in Keys |-> IF k \in done THEN paid[k] ELSE rows[k]]
    /\ stored' = stored \cup done
    /\ UNCHANGED <<users, world, paid, worldRow>>

(* The bot is kicked, or loses its connection.  A runner whose write fails is *)
(* paused already; those after it are paused only for a lost connection, when *)
(* the call is made again, and the process ends if a write fails again.       *)
Outage(where) ==
    /\ call = Idle /\ bot = "in"
    /\ bot' = where /\ names' = {}
    /\ overtaken' = (overtaken \/ todo)
    /\ \/ DisconnectAll(linked, linked) /\ UNCHANGED unsaved
       \/ /\ FailsOnce
          /\ \E k \in linked : \E done \in SUBSET (linked \ {k}) :
                /\ where = "off" => done = linked \ {k}
                /\ DisconnectAll(done, done \cup {k})
    /\ UNCHANGED <<there, fresh, due, events, wasReady, todo, call, recruits, broken, purse, torn>>

(* Back in the channel: after a kick the bot waits for the next round to ask  *)
(* for it, after a lost connection for reconnect_seconds.                     *)
Return ==
    /\ call = Idle
    /\ \/ bot = "knocking"
       \/ bot = "off" /\ (QuickReconnect \/ ~wasReady)
    /\ bot' = "in" /\ names' = there /\ fresh' = TRUE
    /\ UNCHANGED <<there, due, events, wasReady, todo, memory, database, call, history, unsaved, torn>>

Unwritten ==
    \/ worldRow # world \/ rows # paid
    \/ stored # users \cup (IF call.op = "save" THEN call.left ELSE {})
    \/ call.op = "pay" /\ call.places # world.team

(* The process ends anywhere and starts again from its rows.  *)
CrashRestart ==
    /\ Crashes
    /\ torn' = (torn \/ Unwritten)
    /\ users' = stored /\ linked' = {} /\ world' = worldRow /\ paid' = rows
    /\ call' = Idle /\ unsaved' = 0
    /\ bot' = "off" /\ names' = {} /\ wasReady' = FALSE /\ todo' = FALSE
    /\ due' = due \cap Pending'
    /\ UNCHANGED <<there, fresh, events, database, history>>

-----------------------------------------------------------------------------
(* The scheduler.  A round calls Maintain, which asks for the channel again   *)
(* or drops linked runners that have been missing from its user list for a    *)
(* while, and then Tick, if the bot has been in the channel for a full round. *)

(* Mistake: the bot only has to be in the channel.  *)
SettledAtOnce == TRUE

Settled == wasReady

(* NAMES takes less than a round.  *)
Round ==
    /\ call = Idle /\ ~todo
    /\ names = {} \/ fresh
    /\ overtaken' = FALSE
    /\ \/ /\ bot # "in"
          /\ bot' = IF bot = "out" THEN "knocking" ELSE bot
          /\ wasReady' = FALSE
          /\ UNCHANGED <<fresh, todo, call>>
       \/ /\ bot = "in"
          /\ fresh' = FALSE /\ todo' = Settled /\ wasReady' = TRUE
          /\ \E gone \in SUBSET (linked \ (there \cup names)) :
                call' = IF gone = {} THEN Idle ELSE Call("reconcile", gone, FALSE)
          /\ UNCHANGED bot
    /\ UNCHANGED <<there, names, due, events, memory, database, recruits, broken, purse, unsaved, torn>>

DropGone(k) ==
    /\ call.op = "reconcile" /\ k \in call.left
    /\ linked' = linked \ {k}
    /\ world' = Marked(k)
    /\ Breaks(k)
    /\ UNCHANGED <<channel, due, events, wasReady, todo, users, paid, recruits, purse, overtaken, torn>>
    /\ LET rest == call.left \ {k}
           tell == call.tell \/ Fatal(k)
       IN  Save(k, IF rest = {} THEN ThenWorld(tell) ELSE Call("reconcile", rest, tell))

-----------------------------------------------------------------------------
(* Tick: the contract, the raid, the dead drop, a city event, the runners,    *)
(* and the messages of all that, which are remembered in the world row.       *)

Step(op, tell) == Call(op, {}, tell)

(* A contract ends at its deadline, or as soon as somebody has dropped.       *)
BeginTick ==
    /\ call = Idle /\ todo
    /\ todo' = FALSE
    /\ call' = IF Contract /\ ("contract" \in due \/ world.failed)
               THEN [op |-> "pay", left |-> {}, places |-> world.team, tell |-> TRUE,
                     won |-> ~world.failed /\ Team \subseteq linked]
               ELSE Step("raid", FALSE)
    /\ UNCHANGED <<channel, due, events, wasReady, memory, database, history, unsaved, torn>>

(* Mistake: the loop over the team rewards whatever came of the run.  *)
RewardedAnyway(k, kind) == [paid EXCEPT ![k][kind] = @ + 1]

Rewarded(k, kind) == [paid EXCEPT ![k][kind] = @ + (IF call.won THEN 1 ELSE 0)]

(* A participant who is no longer a runner gets nothing.                      *)
Pay(k) ==
    /\ call.op = "pay" /\ call.places[k] > 0
    /\ LET rest == [call EXCEPT !.places[k] = @ - 1]
       IN  \/ /\ k \in users
              /\ paid' = Rewarded(k, "contract")
              /\ Save(k, rest)
              /\ torn' = (torn \/ call' = Idle)
           \/ /\ k \notin users
              /\ call' = rest
              /\ UNCHANGED <<paid, database, unsaved, torn>>
    /\ UNCHANGED <<channel, due, events, wasReady, todo, users, linked, world, history>>

EndPay ==
    /\ call.op = "pay" /\ call.places = NoTeam
    /\ world' = [world EXCEPT !.team = NoTeam, !.failed = FALSE]
    /\ recruits' = {} /\ broken' = FALSE /\ due' = due \ {"contract"}
    /\ call' = Step("raid", TRUE)
    /\ UNCHANGED <<channel, events, wasReady, todo, users, linked, paid, database, purse, overtaken, unsaved, torn>>

(* Everybody linked meets the ICE together.  *)
BeginRaid ==
    /\ call.op = "raid"
    /\ IF world.raid /\ "raid" \in due
       THEN /\ world' = [world EXCEPT !.raid = FALSE]
            /\ due' = due \ {"raid"}
            /\ purse' = [purse EXCEPT !.raid = @ + Cardinality(linked)]
            /\ \E won \in BOOLEAN :
                  call' = [op |-> "hit", left |-> linked, places |-> NoTeam, tell |-> TRUE, won |-> won]
       ELSE call' = Step("event", call.tell) /\ UNCHANGED <<world, due, purse>>
    /\ UNCHANGED <<channel, events, wasReady, todo, users, linked, paid, database, recruits, broken, overtaken, unsaved, torn>>

RaidHit(k) ==
    /\ call.op = "hit" /\ k \in call.left
    /\ paid' = Rewarded(k, "raid")
    /\ Save(k, [call EXCEPT !.left = @ \ {k}])
    /\ UNCHANGED <<channel, due, events, wasReady, todo, users, linked, world, history, torn>>

EndRaid ==
    /\ call.op = "hit" /\ call.left = {}
    /\ call' = Step("event", TRUE)
    /\ UNCHANGED <<channel, due, events, wasReady, todo, memory, database, history, unsaved, torn>>

(* Before it, an unclaimed dead drop decays.  *)
Decayed == [world EXCEPT !.drop = @ /\ "drop" \notin due]

Quiet ==
    /\ call.op = "event"
    /\ world' = Decayed
    /\ due' = due \ {"drop"}
    /\ call' = Step("visit", call.tell \/ Decayed # world)
    /\ UNCHANGED <<channel, events, wasReady, todo, users, linked, paid, database, history, unsaved, torn>>

CityEvent ==
    /\ call.op = "event" /\ events < MaxEvents
    /\ call' = Step("city", TRUE)
    /\ UNCHANGED <<channel, wasReady, todo, users, linked, paid, database, overtaken, unsaved, torn>>

PirateEvent == CityEvent /\ OpensDrop /\ UNCHANGED <<recruits, broken>>

RaidEvent ==
    /\ CityEvent
    /\ ~world.raid /\ Cardinality(linked) > 1
    /\ world' = [Decayed EXCEPT !.raid = TRUE]
    /\ due' = due \ {"drop", "raid"}
    /\ events' = events + 1
    /\ UNCHANGED <<recruits, broken, purse>>

(* A Megacorp Run recruits among the linked runners.  *)
ContractEvent ==
    /\ CityEvent
    /\ ~Contract
    /\ \E team \in (SUBSET linked) \ {{}} :
          /\ Cardinality(team) = IF Cardinality(linked) < MaxTeam THEN Cardinality(linked) ELSE MaxTeam
          /\ world' = [Decayed EXCEPT !.team = [k \in Keys |-> IF k \in team THEN 1 ELSE 0]]
          /\ recruits' = team /\ broken' = FALSE
          /\ purse' = [purse EXCEPT !.contract = @ + Cardinality(team)]
    /\ due' = due \ {"drop", "contract"}
    /\ events' = events + 1

FinishCity ==
    /\ call.op = "city"
    /\ UNCHANGED <<channel, due, events, wasReady, todo, memory, history, torn>>
    /\ SaveWorld(Step("visit", TRUE))

(* Guests long gone are deleted and linked runners saved; the guest retention *)
(* is longer than a contract.  Whether anybody's progress is worth a message  *)
(* is not followed.                                                           *)
(* Mistake: a guest that idles is taken for one that is gone.  *)
PrunableLinked == (Guests \cap users) \ Team

Prunable == (Guests \cap users) \ (linked \cup Team)

Visit ==
    /\ call.op = "visit"
    /\ \E gone \in SUBSET Prunable, reached \in SUBSET linked :
          /\ users' = users \ gone
          /\ stored' = (stored \ gone) \cup reached
          /\ paid' = [k \in Keys |-> IF k \in gone THEN Nothing ELSE paid[k]]
          /\ rows' = [k \in Keys |-> IF k \in gone THEN Nothing ELSE IF k \in reached THEN paid[k] ELSE rows[k]]
          /\ \/ /\ reached = linked
                /\ \E tell \in {call.tell, TRUE} : call' = Step("remember", tell)
                /\ UNCHANGED unsaved
             \/ FailsOnce /\ call' = Idle
    /\ UNCHANGED <<channel, due, events, wasReady, todo, linked, world, worldRow, history, torn>>

Remember ==
    /\ call.op = "remember"
    /\ UNCHANGED <<channel, due, events, wasReady, todo, memory, history, torn>>
    /\ \/ call.tell /\ SaveWorld(Idle)
       \/ ~call.tell /\ call' = Idle /\ UNCHANGED <<database, unsaved>>

-----------------------------------------------------------------------------
People ==
    \/ \E k \in Keys : Enter(k) \/ Restore(k) \/ Quit(k) \/ Split(k) \/ Unseen(k) \/ ClaimDrop(k) \/ FinishSave(k)
    \/ \E g \in Guests, h \in Guests : Rename(g, h)
    \/ \E g \in Guests, a \in Accounts : Migrate(g, a)
    \/ \E a \in Accounts, b \in Accounts : Switch(a, b)
    \/ ForcePirate \/ FinishWorld

Scheduler ==
    \/ Round \/ BeginTick \/ EndPay \/ BeginRaid \/ EndRaid
    \/ Quiet \/ PirateEvent \/ RaidEvent \/ ContractEvent \/ FinishCity \/ Visit \/ Remember
    \/ \E k \in Keys : DropGone(k) \/ Pay(k) \/ RaidHit(k)

Outside ==
    \/ \E e \in Kinds : Deadline(e)
    \/ \E where \in {"out", "off"} : Outage(where)
    \/ Return \/ CrashRestart

Next == People \/ Scheduler \/ Outside

Spec == Init /\ [][Next]_vars

-----------------------------------------------------------------------------
(* Linked runners are runners of the user map, and so are those the call has  *)
(* yet to reach; a Tick is only owed by a round that found the bot ready.     *)
TypeOK ==
    /\ there \subseteq Keys /\ bot \in {"in", "out", "knocking", "off"}
    /\ names \subseteq Keys /\ fresh \in BOOLEAN /\ due \subseteq Pending /\ events \in 0..MaxEvents
    /\ wasReady \in BOOLEAN /\ todo \in BOOLEAN /\ (todo => wasReady)
    /\ users \subseteq Keys /\ linked \subseteq users
    /\ world \in Worlds /\ worldRow \in Worlds
    /\ paid \in [Keys -> [Kinds -> Nat]] /\ rows \in [Keys -> [Kinds -> Nat]] /\ stored \subseteq Keys
    /\ call \in Calls /\ (call.op \in {"reconcile", "hit"} => call.left \subseteq linked)
    /\ recruits \subseteq Keys /\ broken \in BOOLEAN /\ purse \in [Kinds -> Nat]
    /\ overtaken \in BOOLEAN /\ unsaved \in 0..MaxErrors /\ torn \in BOOLEAN

(* The participants named by the contract are the people who were recruited,  *)
(* under whatever nick or account they are now known by (Rename, joinLocked). *)
TeamFollows == torn \/ (Team = recruits /\ (call.op # "save" => Team \subseteq users))

(* The units of the numbers f[k], one by one: as many as their sum.           *)
Units(f) == UNION {{k} \X (1..f[k]) : k \in Keys}

(* Nobody is paid twice: not by a second claim of a dead drop, not for a      *)
(* contract or a raid that has been settled, not by a migration that counts   *)
(* the same Stats twice.                                                      *)
PaidOnce == torn \/ \A e \in Kinds : Cardinality(Units([k \in Keys |-> paid[k][e]])) <= purse[e]

(* A contract is not paid out when a participant was disconnected on the way, *)
(* even one who is back at the deadline.                                      *)
OnlyLoyalPaid == torn \/ (call.op = "pay" /\ call.won => ~broken)

(* README.md: "Netsplits and the bot's own outages do not fail a contract,    *)
(* but any participant still missing at the deadline does."  A contract fails *)
(* only when a participant was disconnected or is not in the channel.  One    *)
(* who plays an account is not until the bot knows it: after an outage that   *)
(* takes a WHOIS, for which BeginTick does not wait.                          *)
LoyalSucceeds ==
    torn \/ overtaken \/ (call.op = "pay" /\ ~call.won => broken \/ ~(recruits \subseteq there))

(* The world does not advance before NAMES has restored the roster after the  *)
(* bot came back (runScheduler).                                              *)
RestoredBeforeTick == [][BeginTick => names = {}]_vars

(* If no write fails, the database says between two calls what the engine     *)
(* does; a restart then resumes every contract, raid and dead drop.           *)
WorldRowCurrent == call = Idle /\ unsaved = 0 => worldRow = world /\ rows = paid /\ stored = users

(* What World has of a MegacorpRun.                                           *)
RunPhase ==
    IF torn THEN "unknown"
    ELSE IF call.op = "pay" THEN (IF call.won THEN "won" ELSE "lost")
    ELSE IF Contract THEN "running" ELSE "none"

RunPlaces  == IF torn THEN NoTeam ELSE world.team
RunUnpaid  == IF ~torn /\ call.op = "pay" THEN call.places ELSE NoTeam
RunDropped == ~torn /\ broken
RunWages   == IF torn THEN NoTeam ELSE [k \in Keys |-> paid[k].contract]

Run == INSTANCE MegacorpRun WITH
           Runners <- Keys, phase <- RunPhase, places <- RunPlaces, unpaid <- RunUnpaid,
           dropped <- RunDropped, wages <- RunWages

(* The engine and its database implement the promise of MegacorpRun: between  *)
(* startContractLocked and the end of resolveContractLocked places follow     *)
(* their people through renames, migrations and restarts, and a place is paid *)
(* at most once, to the runner who has it, and only if nobody dropped.        *)
RunsAsPromised == Run!Spec

=============================================================================
