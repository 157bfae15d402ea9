# NEONGRID in TLA+

A verification project for the NEONGRID IRC idle game (`src/`, Go): TLA+ modules translated from the
source, TLC runs over small instances, and TLAPS proofs for every instance. Paths below are relative
to `src/`; `game.go`, `features.go` are in `internal/game`, `storage.go` in `internal/storage`,
`bot.go`, `ratelimit.go` in `internal/irc`, `main.go` in `cmd/neongrid`.

## The system

One process. A girc client delivers IRC events in order to the handlers of `bot.go`, each of which
makes one or two calls of the engine (`game.go`, `features.go`). A scheduler goroutine (`main.go:62`)
calls `Maintain` and then `Tick` every `tick_seconds` (30). `Bot.Run` reconnects and pauses everybody
when the connection is lost. A web goroutine copies state for the observer page. Every engine call
holds one mutex from start to end, and writes runners and the world to SQLite (`storage.go`) in
separate statements while it does.

| Component | State | Operations | What makes it hard | Correct when |
|---|---|---|---|---|
| Identities and links (`game.go` 357-484, 603-737, 982-1023) | `users`, `Connected`, `Nick`, `missingSince` | Join, Bind, Disconnect, DisconnectAll, Reconcile, Rename, MigrateGuest, pruning | late and reordered knowledge of nicks and accounts, WHOIS replies, outages, ambiguous nicks | nobody plays or takes another's runner; whoever is in the channel is linked; whoever is not is dropped; a migration keeps the higher of two Reps |
| IRC bot (`bot.go`) | client, user list, `lastJoinAttempt` | handlers, Maintain, Run, commands | the user list is copied and used later; kicks, reconnects | Maintain drops only runners that are gone; the bot is in the channel again in the end |
| Scheduler (`main.go`) | `wasReady` | Maintain, Tick | a reconnect between two rounds | the world moves only when links have been restored |
| Artifacts (`game.go` 1103-1127, 1164-1407, `features.go` 473) | equipment, table `rare_items` | drop, burn-out and salvage, theft, abandonment, data leak, merge | three places know where an artifact is; several writes per call | one holder each; what is not held is in the pool; what is abandoned returns |
| Persistence (`storage.go`) | `players`, `rare_items`, `world_state` | Save, Delete, MigrateGuest, Claim/Release/Transfer, SaveWorldState, schema upgrade | crash or failure between two writes; a migration reads the row, not memory | rows never lag memory between calls; a restart resumes the game everybody saw |
| Progress and Heat (`game.go` 1052-1101) | `LastProgressAt`, `LastHeatAt`, level | advancePlayer | two clocks (server time tags, local time) | linked time counts once, other time never |
| Contracts (`game.go` 1650-1752) | `world.Contract` | start, fail, rekey, resolve | participants migrate, leave, are missing; several saves per resolution | paid at most once, only if all stayed |
| Raids (`features.go` 250-323) | `world.Raid` | start, resolve | as contracts | resolved once |
| World clock, city events, faction respec window (`game.go` 770-903, 1600-1648) | timers in the world row | Tick | a failed save in the middle of a Tick | every event at its time, once |
| Factions, faction week (`game.go` 543-575, `features.go` 130-193) | faction, `LastFactionSwapAt`, scores | SetFaction, score, crown | window end against a late command; merge of two runners | one choice, one respec per window |
| Pirate frequency, dead drops (`features.go` 195-248) | `PirateUntil`, code | open, claim, expire | claim against expiry; crash before the world row | one claim per drop |
| Streaks, bulletin, announcements, events log (`features.go` 325-415, `game.go` 1025-1050, 1589) | counters, `pending`, `RecentEvents` | tick, queue, remember | a guest's streak replaces the account's at a merge; bounded queues, a Tick that fails | only a long absence or a quit ends a streak; every announcement once, oldest dropped first |
| Collisions, rivalries (`game.go` 1204-1315, `features.go` 417-471) | cooldowns, `Rivals` | collide, theft | two runners in one call | both sides change together |
| Titles, scars, aliases (`game.go` 486-541, 1420-1562) | sets, alias | add, choose, set | alias against a later nick | aliases unique |
| Rate limiter (`ratelimit.go`) | `last` | allowAll | several keys at once, forgetting | all or none; a running cooldown is not forgotten |
| Web observer, configuration, flavor text | none of their own | | | not modelled (rendering, constants) |

`PROJECT.json` lists the components with their status, and under `hazards` every place where this
code is hard to test, with the properties that cover it.

## What is modelled

### ArtifactPool, Artifacts, MCArtifacts, ArtifactsProofs

`ArtifactPool` is the promise: for every artifact its keepers and whether the pool has it; it drops to
one runner, passes from one to another, returns. `LeakySpec` also lets it vanish.

`Artifacts` is the engine with its database. `users`, `linked`, `gear` are memory; `stored`, `rows`,
`claims` are the tables `players` and `rare_items`. A step is the part of an engine call that ends
with one database write, because that is where the process may stop or the write may fail; `call`
is what the call that holds the mutex still has to do, so that no other call interleaves with it, as
the mutex has it. `Join`, `Leave`, `Act`, `Rename`, `Migrate` are the IRC side; `BeginTick`,
`LeakRunner`, `VisitLinked`, `BurnOut`, `Salvage`, `EndVisit`, `VisitOffline`, `Abandon`, `Prune`,
`Collide`, `EndTick` are Tick's loop and the calls in it; `CrashRestart` is `New`; `Abort` is the early
return after a failed write. Which runner wins, loses or wears out an artifact is nondeterministic:
levels, odds and timers are abstracted. A slot holds Mk gear, its artifact, or its artifact under the
name a data leak gave it. `Decks`, `OrderedDeadlines` and `ArtifactsOutrate` switch the three
circumstances in which the code loses artifacts on or off, so that the runs can say what holds with and
without them; `Faults` does so for crashes and failed writes. `staleRead` remembers that a row older
than memory was loaded (restart, or MigrateGuest).

### Links, MCLinks, LinksProofs

People and their nicks and logins; the channel; the server's messages to the bot in a FIFO `wire`;
WHOIS requests in `asked`; the bot's `joined` and `roster` (girc's user list), the copy `glance` on
which Maintain works; the engine's `users`, `linked`, `nickOf`, `missing`. `Deliver` is girc updating
its list and running the handler; `Look` and `Reconcile` are the two halves of Maintain, between which
handlers run; `Knock` is its attempt to rejoin; `LoseConnection`, `Reconnect` are `Run`; `Admit` is the
server's JOIN and NAMES. Finding a runner by nick picks any of those that match, as a Go map does.
NAMES carries no accounts, since the library has not asked for them when it arrives. PART, KICK of
another and QUIT reach the same engine call and differ only in penalties; a netsplit too. The history
variable `played` is who has played a runner, and `rep` its Level, which `Gain` raises and a merge (`Merged`) takes from the
higher of the two; `raced` that a Reconcile has dropped a runner
that was on the user list by then. Engine calls are atomic and their writes succeed here: `Artifacts`
and its theorem WritesThrough are about what is in between. Private commands link nobody and are left out.

### MegacorpRun, World, MCWorld, WorldProofs, PaymentProofs, RunProofs

Contracts, raids and dead drops: what is pending is in the world row (`world`, `worldRow`), what a runner
was paid in its own row (`paid`, `rows`), and one call writes both, one after the other. As in
`Artifacts`, a step ends with one write and `call` is what the call still has to do; `Fails` is a write that
fails and the early return after it, `CrashRestart` is a stop anywhere followed by `New`.

- People: `Enter`, `Restore` (NAMES, which knows no accounts: whoever plays one is linked as a guest, and a WHOIS reply,
  a `Migrate`, comes any number of steps later), `Quit`, `Split`, `Unseen`, `Rename`, `Migrate`, `Switch` (another account
  is bound), `ClaimDrop`, `ForcePirate`. `Seen` says the bot is there to see it. A contract's participants are a bag of
  keys, because a migration may make one runner of two of them.
- Scheduler: `Round` is a round of `runScheduler` with its Maintain; `todo` is the Tick it owes, `wasReady` what it
  remembers. `DropGone` is Reconcile's loop. `BeginTick`, `Pay`, `EndPay`, `BeginRaid`, `RaidHit`, `EndRaid`, `Quiet`,
  `PirateEvent`, `RaidEvent`, `ContractEvent`, `FinishCity`, `Visit`, `Remember` are a Tick in its order.
- Outside: `Deadline`, `Outage` (a kick or a lost connection, with the DisconnectAll that follows; a save that fails in it ends
  the call with that runner unlinked and unsaved), `Return`.

`recruits`, `broken` and `purse` are the history the properties compare with: whom the contract recruited, whether
one of them was disconnected, how many payments were promised. `torn` remembers that a fault hit a call between
two writes that belong together; `overtaken` that the bot lost the channel between a Maintain and its Tick.
`MegacorpRun` is what a contract promises, without keys that log in, rows or calls: a team is recruited, its members keep their
places under whatever names (`Become`), a run from which nobody dropped is won or lost, any other is lost, and each place is
settled once before the run closes. `World` maps to it by its own team and counts; a run is being settled while `call` is
resolveContractLocked's loop, and "unknown" once a call is `torn`.
Assumed: two people never play one account at once (`Links` has that), the guest retention is longer than a
contract, NAMES takes less than a round.

### Limiter, Factions, Clocks, MCClocks, ClocksProofs, ProgressProofs

`Limiter` is `allowAll` with its table that forgets old keys; `Factions` is the faction of a runner and the
window a system crash opens (`factionSwapTickLocked`, `SetFaction`). `Clocks` composes them with one person's
time: LastProgressAt, LastSeenAt, StreakSince and progress of the person's guest and of their account (`runner`).

- People and server: `Enter`, `Leave`, `Speak`, `Type`, `Answer` (the reply to a WHOIS), `KickBot`. Messages carry the server's
  stamp and are handled up to `Lag` later, in order; Ticks, outages and restarts use the local clock. A reply that finds the
  person or the bot out of the channel is `LATE`: it links a runner that nobody plays (`ghost`), as `handleWhoisAccount` does.
- Engine: `Join` is `joinLocked` with its three outcomes (`StartOver`, `Resume`, `Rebind`); `LogIn` is `Bind`, which migrates
  the guest (`Migrate`) or joins; `Merged` is `merge`: the higher progress, but the guest's streak. `Touch` and `LookAt` are what
  chat and commands do, `Tick` starts a missing streak, `Reconcile` drops a runner that is not on the user list (`listed`).
- Outages: `HandleKicked`, `LoseConnection`, `Restart`, and `Return`, which is NAMES: the person is linked as a guest again until
  the WHOIS reply comes. In `Disconnected` a save of somebody else's runner fails, and this person's stays linked after a kick.

The history says what counting is compared with: `spent` is the time the person and the bot were in the channel, `links` how often
a runner was linked, `lost` what an outage, a restart or the change to another runner has cost the runner played
last (`player`), and `streak` what each streak has lived through: `left`, `worst`, `quit`, `kept`.

## The runs

| Run | Instance | Shows |
|---|---|---|
| `art_faults` | 2 guests, 1 account, 2 artifacts (one a deck), crashes and failed writes | types; nothing but a stale row ever duplicates an artifact or offers one that is held. States behind a stale row are not explored (constraint): the invariant asks nothing there |
| `art_calls` | 2 guests, 2 accounts, 2 artifacts, no faults | one holder; the rows lag only for the runner the running call has changed; every move is one of `ArtifactPool`, losses included |
| `art_circulates` | 2 guests, 1 account, 2 artifacts, none of the three leaks | nothing is lost; `ArtifactPool` without losses is implemented; abandoned artifacts return (fairness) |
| `art_leak` | a deck | violation: README.md:57 "it returns to the drop pool" |
| `links_own` | 2 people, 3 nicks nobody shares, 2 accounts, 5 moves, kicks and disconnections | types; nobody plays another's runner; once everything has arrived everyone in the channel has a linked runner |
| `links_shared` | 2 people, 2 nicks both use, 1 account, extended-join, 4 moves, outages, a level to gain | a runner that is not pruned goes on as one with its players and at least its Rep; runners whose nick has left are dropped (fairness) |
| `links_hijack` | shared nicks, no outages | violation: PLAN.md:65 "a nick change onto another guest's offline nick is still tracked" |
| `links_takeover` | shared nicks, server without capabilities | violation: PLAN.md:65 "unrelated accounts no longer take over other runners" |
| `world_paid` | 2 people, at most 3 runners of 2 guests and 2 accounts, 1 event, a team of 2, crashes, a failed write, outages | types; contracts follow their people; nothing is paid twice; a contract with a dropped participant is not paid, and one whose team is there, under names the bot knows, is not failed; the rows say what memory does; no Tick before NAMES; `MegacorpRun` is implemented. States after a torn call are not explored (constraint `NothingTorn`) |
| `world_hasty` | reconnect_seconds below tick_seconds, no faults | violation: README.md:61 "the bot's own outages do not fail a contract" |
| `clocks` | 1 person with a guest and an account, 2 messages on their way, lag 1, grace 1, 2 limiter keys | types; cooldowns are kept; progress is the time in the channel, but for the messages' delay and what outages and merges leave behind; streaks live through no quit and no long absence, and a short one ends none except by a merge; one choice of faction per system crash |
| `clocks_streak` | the same | violation: README.md:78 "a netsplit or bot outage doesn't break the streak" |

**Bounds.** Two artifacts suffice for the loop over slots to meet a salvage that equips another slot;
two guests and an account for a theft, a rename or a migration to meet every step of a Tick. `Artifacts`
has no other bound: its state space is finite. In `Links`, `MaxMoves` bounds what people and outages do (the
bot's and server's steps are not bounded), and `MaxWire` how far the bot lags. The scenarios the hazards
name need at most five moves: a person enters, leaves, logs in, comes back, changes nick. Six moves of
`links_own` were explored once (4.6 million states, no error) with the same result. `MaxRep` is how far a runner rises: one
level, in `links_shared`, is enough for two runners to differ when they merge; the other runs say nothing of Rep. `GraceTicks = 2` is the
default grace of one minute with a tick of 30 seconds.

`world_paid` starts one event (contract, raid or pirate frequency), and `Quiet` lets any number of Ticks pass around it;
all its properties are about one event at a time or about the rows, and the theorems have any number of them. Two people suffice for a migration to make
one runner of two participants, or one to leave while the other is paid; `FewRunners` keeps to three runners at once, since the
fourth, offline, is like the third. In `clocks` five instants are enough for
a message to be late on either side of a Tick or of a grace. `FewLinks` bounds the times a runner was linked and the messages on the
wire together: three, so that a runner is linked, lost, linked as a guest and merged; two once a runner is linked that nobody
plays, of which little is claimed; and one, without a guest or an outage, after there is a faction, a crash or a cooldown, none of which tells the
clocks anything. The theorems below have none of these bounds.

**Fairness.** `World` and `Clocks` state safety only and assume none. `Artifacts`: strong fairness of `BeginTick`, since
the scheduler's ticker does not stop and a Go mutex lets every waiter in; weak fairness of a call's own steps; strong fairness of finding an absent
runner past its deadline, which says that time passes (LastSeenAt of a runner that does nothing does not
move). `Links`: weak fairness of delivery, WHOIS replies, Maintain's steps, reconnection and the
server admitting the bot: `Run` and `Maintain` retry for ever. People and outages have none.

## What is proved

`ArtifactsProofs`, for every set of guests, accounts, artifacts and decks:

- `TypeCorrect`: `Spec => []TypeOK`.
- `StaleRowsOnly`: `Spec => []OnlyStaleRowsDuplicate`, whatever faults are allowed. The induction
  strengthens the invariant with what a call in progress has yet to write: the slots a loop has left are
  held, a salvage has freed what it may not return, the rows of runners not in `dirty` agree with memory
  unless a write failed.
- `WritesThrough`: without failed writes (crashes allowed), `Spec => []WriteThrough`.
- `OneOfEach`: without faults, `Spec => []OneHolder`, from the above, as no stale row is ever loaded.
- `ImplementsLeakyPool`, `ImplementsPool`: refinement of `ArtifactPool`, step by step: each action moves
  every artifact as the pool allows, or not at all; the second under the assumptions that rule out the losses.
- `NothingIsLost`: `Spec => []NothingLost` under the same assumptions.

Each follows the same plan: one lemma per action, a lemma for `Save`, a step lemma that splits `Next`, and
a temporal step. Assumptions are those of `Artifacts` on its constants, and the fault sets the theorems name.

`WorldProofs`, for every set of guests and accounts, every team, any number of events, crashes and failed writes:

- `WorldTypes`: `Spec => []TypeOK`.
- `RowsKept`: `Spec => []WorldRowCurrent`. In the middle of a call the invariant (`RowsInv`) says which runner
  still owes a row (`Owed`) and that a world row that is behind is one the call will write (`call.tell`).
- `ContractFollowsPeople`, `DroppedIsNotPaid`: `[]TeamFollows`, `[]OnlyLoyalPaid`, from `TeamInv`: the team is the recruits, each is
  a runner or the one the call is about to save, and the contract is marked failed exactly when somebody was disconnected.
- `LoyalArePaid`, `RosterBeforeTick`: `[]LoyalSucceeds` and `RestoredBeforeTick`, assuming `~QuickReconnect`. `RosterInv`: who is in the
  channel is linked or still to be named by NAMES; `ReadyInv`: a Tick is owed only when nobody is left to name. A participant with an
  account counts as there once the bot knows the account again: the code's Tick does not wait for the WHOIS, and neither does the model's.

`ClocksProofs`, for every set of keys and cooldowns, delay, grace, window and bound:

- `CooldownsKept`: `[]Spaced`. A key granted is in the table with that time, or older than `Forget` (`Remembered`); this
  needs that no cooldown exceeds `Forget`, an assumption of `Limiter` (ratelimit.go forgets after ten minutes).
- `StreaksEarned`, `StreaksResume`: `[]StreakEarned` and the action property `StreakResumes`. The invariant says that messages arrive in
  the order of their stamps, none before a runner was last known to be linked, and that for an offline runner with a
  streak this is LastSeenAt, unless something touched it meanwhile or it was taken over.
- `OneRespec`: `[]RespecOnce`: what was chosen during a crash was chosen no earlier than it began (`FactionsInv`).

`LinksProofs`, for every finite set of people, any nicks and accounts, however long the wire and the grace:

- `LinksTypes`: `[]TypeOK`, with what the server may say of a person (`HonestInv`): only nicks and accounts that are theirs.
- `PlayKept`: `PlayIsKept`, whoever uses whose nick. In every step but its pruning, a runner goes on as one that has all its players and
  at least its Rep: no join, migration, nick change, disconnect or outage takes Rep away or leaves a person without it. What two runners
  had is not added up.
- `PlayStaysOwn`: `[]PlayIsOwn`, assuming `Personal`: nobody uses another's nick or account (`links_hijack` and
  `links_takeover` show what happens otherwise). `OwnedInv`: whose play a runner carries, theirs are its key and its nick.
- `EverybodyTracked`: `[]TrackedUnlessRaced` under the same assumption. That nobody is left out once the wire is empty says nothing
  of a wire that is not, so the invariant follows each person along it (`FollowedInv`): from where they are linked, now or by a
  JOIN or NAMES still on its way, every later message about them names the nick they have at that point.

`ProgressProofs`, as `ClocksProofs`: `ClocksTypes` (`[]TypeOK`), `ProgressReal` (`[]IdleTimeIsReal`) and `ProgressCounted` (`[]TimeIsCounted`).
Between a message and its handling, memory knows less than the person. The invariant therefore says that there is a story of comings and
goings along the wire (`Story`), with the time spent when each message was sent, and that what memory has counted balances with the time
spent up to the stamp of the next message, from both sides (`Balanced`), for the guest's runner and the account's. That the two
are never linked at once is part of it, and is why `ClocksTypes` is proved here. All of it
holds until a late WHOIS reply or a failed save leaves a runner linked that nobody plays (`ghost`): such a runner gains progress
until Reconcile drops it, and all that is claimed of it is that it is dropped (`GhostsDropped`).

`PaymentProofs`, as `WorldProofs`: `NobodyPaidTwice` (`[]PaidOnce`). What runners hold and what may yet be paid (the places of the contract or
of the running payment, the runners a won raid has not reached, the open dead drop) are together no more than was promised
(`PurseInv`); each payment moves one from the second to the first. A migration adds the guest's counts to the account's *row*, so the proof
also needs that no row is ahead of memory and that only runners in memory have one (`Behind`). What runners hold is counted as the
cardinality of a set (`Units`), not as a sum, since what a fold computes needs an induction over data.

`RunProofs`: `ImplementsMegacorpRun` (`RunsAsPromised`), the refinement of `MegacorpRun`, with one lemma for each of its moves and one for the
steps that make none. It rests on `TeamInv` (a mark on the contract and `broken` are the same thing, so `Win` is allowed), `Behind`
(what a migration makes of two runners' wages) and on the contract being there while it is settled (`PayingInv`: a restart
before any payment is `Resume`).

Only model-checked: `AbandonedReturns` and `GhostsDropped`, which are liveness under fairness. Every invariant and every
other action property of a passing run has its theorem.

## Where the code and its documents part

1. A data leak renames an artifact deck, which then never returns to the pool (`art_leak`).
2. A guest that took another guest's nick keeps a key that whoever enters under its old nick is given (`links_hijack`).
3. A guest linked by an unauthenticated JOIN is taken for the account's own (`links_takeover`).
4. A connection lost and regained between two rounds is not noticed by the scheduler: the next Tick comes before
   NAMES and fails a contract whose team never left (`world_hasty`; the default settings allow it).
5. An outage breaks the streak of a runner with an account, although README.md:78 says it does not: NAMES links a fresh guest, and the
   merge that follows the WHOIS reply takes the guest's streak (`clocks_streak`; `storage.go:452`).

Also met, and named as hazards: a stop between the two saves of a theft (`game.go:1275`), or between a claim or release and the save, duplicates
an artifact or frees one that is held, although README.md:57 says "only one of each artifact exists" (`staleRead` in `Artifacts`); a merge
keeps the higher Rep, and the time that made the lower one is gone (`storage.go:405`), although README.md:31 says
"without losing progress" (`lost` in `Clocks`, the wording of `PlayIsKept` in `Links`); a merge drops an artifact that rates below the Mk gear of the other runner
(`storage.go:431`); pruning a guest leaves its artifacts claimed when the retention ends first (`game.go:809`);
Reconcile may drop a runner who is there, when a JOIN is handled between the copy of the user list and the
call, or spans an unlink that did not reset `missingSince` (`raced` in `Links`); after a kick a late WHOIS reply
leaves one person with two linked runners, and that reply, or a save that
fails in DisconnectAll, leaves a runner progressing while the bot is out, although README.md:82 says "every runner is paused" (`ghost` in `Clocks`).

In `World`, excluded by the history variables that name them: a stop or a failed write while a contract is being resolved
pays the participants again (`torn`), as does a stop between a claimed dead drop and the world row; a kick between Maintain
and its Tick fails a due contract (`overtaken`). So does a Tick that comes after NAMES but before the WHOIS replies, if a participant
plays an account (`game.go:1688`): `LoyalSucceeds` does not count that participant as there. A failed write of the world row is repaired by whichever call writes it
next, and a restart before that forgets what it said (`unsaved`). In `Clocks`: a private command of a runner that is offline
sets LastSeenAt and so keeps its streak, and an account that takes over an offline guest takes the guest's streak whatever
its age (`kept`); a stamp earlier than the last Tick sets LastProgressAt back, which counts at most `Lag` again for
each time the runner is linked; a `!faction` that was on its way when a system crash began does not use up the respec.

## Plan

Done: `Artifacts`, `Links`, `World`, `Limiter`, `Factions`, `Clocks`, and the theorems above. Next, as far as they deserve it: the announcement
queue and the weekly scores.

## Not modelled

StreakDays, which says which days of a streak were paid, and the bonus: StreakSince is there. In `Clocks`, failed saves other than those of
other people's runners in DisconnectAll, and the pruning of a guest, which is in `Links`. In `Links`, failed saves, which are in
`Artifacts` and `World`. In `World`, the pruning of a guest that a contract names: the retention is in days and a contract in hours.

Registration (SASL, NickServ, TLS fallback), commands and rendering, the observer, configuration, flavor text:
no state another part depends on. Odds and amounts of rewards: they decide nothing the properties tell apart.
Heat decays by the rule that progress grows by, and is left out with levels and penalties. Titles, scars and aliases are
each written in one call under the mutex. Announcements and the bulletin are texts nothing reads back; `World` only has
that a Tick with something to say writes the world row. Weekly faction scores only weigh odds.
Schema upgrades in `Store.init`: they run once before anything else.
