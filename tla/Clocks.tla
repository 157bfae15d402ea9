------------------------------- MODULE Clocks --------------------------------
(***************************************************************************)
(* A person's time: the seconds its runner is linked become progress, and  *)
(* each full day without leaving pays a Ghost Protocol bonus.              *)
(*                                                                         *)
(* One person comes and goes, logs in, chats and sends commands; the       *)
(* server stamps what it relays and the bot acts on the stamp when it      *)
(* arrives, up to Lag later, while Ticks, outages and restarts go by the   *)
(* local clock.  The two clocks agree; what differs is the order.  A       *)
(* runner's row is written by every call that changes it, so a restart or  *)
(* a migration finds it as the last call left it; of the saves that fail,  *)
(* only those of other people are followed, in DisconnectAll.              *)
(*                                                                         *)
(* The person has a guest's runner, while the bot does not know its        *)
(* account, and an account's, which takes the guest's over when the bot    *)
(* learns of it.  Keys and nicks are the subject of Links; here the person *)
(* has one connection, and enters under the account's name or another      *)
(* nick.  What a guest that stays away loses to its retention is there     *)
(* too.  A day's bonus counts no time, and is left out with StreakDays,    *)
(* which says whether it was paid.                                         *)
(*                                                                         *)
(* The limiter lets the commands through, and one of them sets a faction,  *)
(* when Factions permits: the account's, which is what a merge keeps.      *)
(***************************************************************************)
EXTENDS Limiter, Factions, Integers, Sequences

CONSTANTS
    Commands,  \* sets of keys the person's commands need of the limiter
    Notice,    \* the key of the notice that chatting was penalised
    Lag,       \* the longest a message is on its way
    Grace,     \* streakGrace
    MaxTime,   \* bound: the clock stops
    MaxWire    \* bound: messages on the way

ASSUME CommandsAssumption == Commands \subseteq SUBSET Slots /\ Notice \in Slots
ASSUME ClocksAssumption == {Lag, Grace, MaxTime, MaxWire} \subseteq Nat

Owners == {"guest", "account"}

VARIABLES
    there,   \* the person is in the channel
    bot,     \* the bot: "in" the channel, "kicked" and yet to hear of it, "out", or "off" the network
    wire,    \* messages on the way to the bot, oldest first
    asked,   \* a WHOIS is on its way to the server
    listed,  \* the person is on the library's user list of the channel
    runner,  \* of each owner
    spent,   \* history: time both were in the channel
    links,   \* history: how often a runner was linked
    player,  \* history: whose runner was linked last
    lost,    \* history: time that an outage, a restart or a change of runner took from player's
    ghost,   \* history: a runner was linked that nobody plays, by a late reply or for want of a save
    streak   \* history: what the streak of each runner has seen

server  == <<there, bot, wire, asked>>
history == <<spent, links, player, lost, ghost, streak>>
vars    == <<now, table, factions, server, listed, runner, history>>

(* A runner that was never seen does not exist; it has no streak while        *)
(* `since' is Never.                                                          *)
Runners  == [linked: BOOLEAN, progressAt: Nat, seenAt: Nat, since: Nat, progress: Nat]
NoRunner == [linked |-> FALSE, progressAt |-> Never, seenAt |-> Never, since |-> Never, progress |-> 0]

(* When the runner was last known to be linked, the longest it was not, that  *)
(* it left other than by a netsplit, and that something other than a short    *)
(* absence has kept the streak.                                               *)
Streaks  == [left: Nat, worst: Nat, quit: BOOLEAN, kept: BOOLEAN]
NoStreak == [left |-> Never, worst |-> 0, quit |-> FALSE, kept |-> FALSE]

Exists(k) == runner[k].seenAt # Never
Playing   == {k \in Owners : runner[k].linked}

Init ==
    /\ LimiterInit /\ FactionsInit
    /\ there = FALSE /\ bot = "in" /\ wire = <<>> /\ asked = FALSE /\ listed = FALSE
    /\ runner = [k \in Owners |-> NoRunner]
    /\ spent = 0 /\ links = 0 /\ player = "guest" /\ lost = 0 /\ ghost = FALSE
    /\ streak = [k \in Owners |-> NoStreak]

Later(s, t) == IF s > t THEN s ELSE t

-----------------------------------------------------------------------------
(* The person and the server.                                                 *)

Send(kind) == wire' = Append(wire, [kind |-> kind, at |-> now])

(* The channel's members are told what happens in it.                         *)
Tell(kind) == IF bot = "in" THEN Send(kind) ELSE UNCHANGED wire

Quietly == Len(wire) < MaxWire /\ UNCHANGED <<now, table, factions, bot, listed, runner, history>>

(* With an account that the server shows, or without.                         *)
Enter ==
    /\ ~there /\ there' = TRUE
    /\ \E kind \in {"JOIN", "LOGIN"} : Tell(kind)
    /\ Quietly /\ UNCHANGED asked

Leave ==
    /\ there /\ there' = FALSE
    /\ \E kind \in {"QUIT", "SPLIT"} : Tell(kind)
    /\ Quietly /\ UNCHANGED asked

(* Logs in, or chats.                                                         *)
Speak ==
    /\ there /\ UNCHANGED there
    /\ \E kind \in {"LOGIN", "SAY"} : Tell(kind)
    /\ Quietly /\ UNCHANGED asked

(* In the channel, or in private from anywhere.                               *)
Type ==
    /\ bot # "off" /\ Send("COMMAND")
    /\ Quietly /\ UNCHANGED <<there, asked>>

(* The reply to a WHOIS, if the person is logged in.  It is LATE for a person *)
(* who is not in the channel, or when the bot is not.                         *)
Answer ==
    /\ asked /\ asked' = FALSE
    /\ Send(IF there /\ bot = "in" THEN "LOGIN" ELSE "LATE") \/ UNCHANGED wire
    /\ Quietly /\ UNCHANGED there

KickBot ==
    /\ bot = "in" /\ bot' = "kicked"
    /\ Send("KICKED") /\ Len(wire) < MaxWire
    /\ UNCHANGED <<now, table, factions, there, asked, listed, runner, history>>

Passes ==
    /\ now < MaxTime
    /\ wire # <<>> => now < Head(wire).at + Lag
    /\ Pass
    /\ spent' = spent + (IF there /\ bot = "in" THEN 1 ELSE 0)
    /\ UNCHANGED <<factions, server, listed, runner, links, player, lost, ghost, streak>>

-----------------------------------------------------------------------------
(* The engine.  AdvancedUnseen, LinkedSince, GoneSinceAdvance, MergedAsGuest  *)
(* and DisconnectNone are not part of Next: they are mistakes the definition  *)
(* after each could contain, and serve to show that a property notices.       *)

(* Mistake: being connected is not being seen.                                *)
AdvancedUnseen(r, t) ==
    IF ~r.linked THEN [r EXCEPT !.progressAt = t]
    ELSE [r EXCEPT !.progress = @ + Later(t, r.progressAt) - r.progressAt,
                   !.progressAt = Later(t, @)]

(* advancePlayer: connected time becomes progress.                            *)
Advanced(r, t) ==
    IF ~r.linked THEN [r EXCEPT !.progressAt = t]
    ELSE [r EXCEPT !.seenAt = Later(t, @),
                   !.progress = @ + Later(t, r.progressAt) - r.progressAt,
                   !.progressAt = Later(t, @)]

(* Mistake: counts from where it last counted.                                *)
LinkedSince(r, t) == [r EXCEPT !.linked = TRUE, !.seenAt = t]

Linked(r, t) == [r EXCEPT !.linked = TRUE, !.seenAt = t, !.progressAt = t]

(* Mistake: an offline runner's clock is not its absence.                     *)
GoneSinceAdvance(r, t) == t - r.progressAt > Grace

GoneTooLong(r, t) == t - r.seenAt > Grace

Anew(s) == [s EXCEPT !.worst = 0, !.quit = FALSE, !.kept = FALSE]

StartOver(k, t) ==
    /\ ~runner[k].linked /\ (runner[k].since = Never \/ GoneTooLong(runner[k], t))
    /\ runner' = [runner EXCEPT ![k] = [Linked(@, t) EXCEPT !.since = t]]
    /\ streak' = [streak EXCEPT ![k] = Anew(@)]

Resume(k, t) ==
    /\ ~runner[k].linked /\ runner[k].since # Never /\ ~GoneTooLong(runner[k], t)
    /\ runner' = [runner EXCEPT ![k] = Linked(@, t)]
    /\ streak' = [streak EXCEPT ![k].worst = Later(@, t - streak[k].left)]

Rebind(k, t) ==
    /\ runner[k].linked
    /\ runner' = [runner EXCEPT ![k] = Linked(Advanced(@, t), t)]
    /\ UNCHANGED streak

(* What one runner has the other need not have.                               *)
Join(k, t) ==
    /\ StartOver(k, t) \/ Resume(k, t) \/ Rebind(k, t)
    /\ links' = links + 1
    /\ player' = k
    /\ lost' = Later(0, lost + runner[player].progress - runner[k].progress)

(* Mistake: the guest is the live connection, so its progress is what counts. *)
MergedAsGuest(g, a) ==
    [a EXCEPT !.progress = g.progress, !.seenAt = Later(g.seenAt, @),
              !.progressAt = Later(g.progressAt, @), !.since = g.since]

(* merge: the higher Level and ProgressSeconds, but the guest's streak.       *)
Merged(g, a) ==
    [a EXCEPT !.progress = Later(g.progress, @), !.seenAt = Later(g.seenAt, @),
              !.progressAt = Later(g.progressAt, @), !.since = g.since]

(* What a runner has not counted.                                             *)
Lacks(k) == Later(0, spent - runner[k].progress)

(* The account takes over the guest: what MigrateGuest returns counts as      *)
(* connected for the rest of joinLocked.                                      *)
Migrate(t) ==
    /\ Exists("guest")
    /\ LET g == Advanced(runner["guest"], t)
           m == IF Exists("account") THEN Merged(g, runner["account"]) ELSE g
       IN  runner' = [k \in Owners |-> IF k = "guest" THEN NoRunner
                                       ELSE Linked(Advanced([m EXCEPT !.linked = TRUE], t), t)]
    /\ streak' = [k \in Owners |-> IF k = "guest" THEN NoStreak
                                   ELSE [streak["guest"] EXCEPT !.kept = @ \/ ~runner["guest"].linked]]
    /\ links' = links + 1
    /\ player' = "account"
    /\ lost' = IF Exists("account") /\ Lacks("account") < lost THEN Lacks("account") ELSE lost

(* Bind, and Join with an account.  The guest is taken over if it is linked,  *)
(* or if nobody is and the nick is its account's name.                        *)
LogIn(t) ==
    \/ Migrate(t) /\ (runner["guest"].linked \/ Playing = {})
    \/ Join("account", t) /\ (runner["account"].linked \/ Playing = {})

(* Only a netsplit leaves the streak alone.                                   *)
Disconnect(k, kind, t) ==
    /\ runner' = [runner EXCEPT ![k] = [Advanced(runner[k], t) EXCEPT
                                           !.linked = FALSE, !.seenAt = t, !.progressAt = t,
                                           !.since = IF kind = "QUIT" THEN Never ELSE @]]
    /\ streak' = [streak EXCEPT ![k].left = t, ![k].quit = @ \/ kind = "QUIT"]

(* Activity, SetStance, SetAlias, SetTitle and SetFaction.                    *)
Touch(k, t) ==
    /\ runner' = [runner EXCEPT ![k] = [Advanced(@, t) EXCEPT !.seenAt = t]]
    /\ streak' = [streak EXCEPT ![k].kept = @ \/ ~runner[k].linked]

(* Status and Top.                                                            *)
LookAt(k, t) == runner' = [runner EXCEPT ![k] = Advanced(@, t)] /\ UNCHANGED streak

(* The runner a message is about: the account's, when the message says whose  *)
(* it is, or one linked under the nick, or else the guest of that nick.       *)
Addressed == {k \in Owners : Exists(k) /\ (k = "account" \/ k \in Playing \/ Playing = {})}

-----------------------------------------------------------------------------
(* The bot.                                                                   *)

Receive(kind) ==
    /\ wire # <<>> /\ Head(wire).kind = kind
    /\ wire' = Tail(wire)
    /\ UNCHANGED <<now, there, spent>>

(* JOIN and NAMES without an account are followed by a WHOIS.                 *)
HandleJoin ==
    /\ \/ Receive("JOIN") /\ Join("guest", Head(wire).at)
          /\ listed' = TRUE /\ asked' = TRUE /\ UNCHANGED ghost
       \/ Receive("LOGIN") /\ LogIn(Head(wire).at)
          /\ listed' = TRUE /\ UNCHANGED <<asked, ghost>>
       \/ Receive("LATE") /\ LogIn(Head(wire).at)
          /\ ghost' = TRUE /\ UNCHANGED <<asked, listed>>
    /\ UNCHANGED <<table, factions, bot>>

HandleQuit ==
    /\ \E kind \in {"QUIT", "SPLIT"} :
          /\ Receive(kind)
          /\ \/ \E k \in Playing : Disconnect(k, kind, Head(wire).at)
             \/ Playing = {} /\ UNCHANGED <<runner, streak>>
    /\ listed' = FALSE
    /\ UNCHANGED <<table, factions, bot, asked, links, player, lost, ghost>>

(* The limiter goes by the local clock.  There may be nothing to give notice  *)
(* of: a pirate frequency makes chat free.                                    *)
HandleMessage ==
    /\ Receive("SAY")
    /\ \/ \E k \in Addressed : Touch(k, Head(wire).at) /\ (Allowed({Notice}) \/ UNCHANGED table)
       \/ Playing = {} /\ UNCHANGED <<table, runner, streak>>
    /\ UNCHANGED <<factions, bot, asked, listed, links, player, lost, ghost>>

(* A command is denied, touches a runner and may set the account's faction,   *)
(* looks at one, or does neither: !help, or an argument that is refused.      *)
HandleCommand ==
    /\ Receive("COMMAND")
    /\ \E keys \in Commands :
          \/ /\ Allowed(keys)
             /\ \E k \in Addressed :
                   \/ Touch(k, Head(wire).at) /\ ((k = "account" /\ SetFaction(Head(wire).at)) \/ UNCHANGED factions)
                   \/ LookAt(k, Head(wire).at) /\ UNCHANGED factions
          \/ (Allowed(keys) \/ Denied(keys)) /\ UNCHANGED <<runner, factions, streak>>
    /\ UNCHANGED <<bot, asked, listed, links, player, lost, ghost>>

(* The scheduler's round, while the bot thinks it is in the channel.          *)
Watching == bot \in {"in", "kicked"}

Ghosted(r) == [Advanced(r, now) EXCEPT !.since = IF @ = Never THEN now ELSE @]

Tick ==
    /\ Watching
    /\ FactionSwapTick(now)
    /\ runner' = [k \in Owners |-> IF k \in Playing THEN Ghosted(runner[k]) ELSE runner[k]]
    /\ streak' = [k \in Owners |-> IF k \in Playing /\ runner[k].since = Never THEN Anew(streak[k]) ELSE streak[k]]
    /\ UNCHANGED <<now, table, server, listed, spent, links, player, lost, ghost>>

(* A linked runner that has been missing from the user list.  For how long is *)
(* not followed: Links has that.                                              *)
Reconcile(k) ==
    /\ Watching /\ ~listed /\ k \in Playing
    /\ runner' = [runner EXCEPT ![k] = [Advanced(@, now) EXCEPT
                                           !.linked = FALSE, !.seenAt = now, !.since = Never]]
    /\ streak' = [streak EXCEPT ![k].left = now, ![k].quit = TRUE]
    /\ UNCHANGED <<now, table, factions, server, listed, spent, links, player, lost, ghost>>

(* Mistake: runners stay connected.                                           *)
DisconnectNone == UNCHANGED <<runner, streak>>

DisconnectAll ==
    /\ runner' = [k \in Owners |-> IF k \in Playing
                                   THEN [Advanced(runner[k], now) EXCEPT !.linked = FALSE, !.progressAt = now]
                                   ELSE runner[k]]
    /\ streak' = [k \in Owners |-> IF k \in Playing THEN [streak[k] EXCEPT !.left = now] ELSE streak[k]]

(* DisconnectAll gives up when a save fails; if it was another person's, the  *)
(* runner may not have had its turn.  The connection is lost with a second    *)
(* call, which the process does not outlive if it fails.                      *)
Disconnected ==
    \/ DisconnectAll /\ UNCHANGED ghost
    \/ Playing # {} /\ ghost' = TRUE /\ UNCHANGED <<runner, streak>>

HandleKicked ==
    /\ Receive("KICKED")
    /\ bot' = "out" /\ listed' = FALSE
    /\ Disconnected
    /\ UNCHANGED <<table, factions, asked, links, player, lost>>

GoesOff == bot' = "off" /\ wire' = <<>> /\ asked' = FALSE /\ listed' = FALSE

LoseConnection ==
    /\ bot # "off" /\ GoesOff
    /\ DisconnectAll /\ UNCHANGED ghost
    /\ lost' = Later(lost, spent - runner'[player].progress)
    /\ UNCHANGED <<now, table, factions, there, spent, links, player>>

Restart ==
    /\ GoesOff
    /\ runner' = [k \in Owners |-> IF Exists(k) THEN [runner[k] EXCEPT !.linked = FALSE, !.progressAt = now]
                                   ELSE runner[k]]
    /\ streak' = [k \in Owners |-> IF k \in Playing THEN [streak[k] EXCEPT !.left = runner[k].seenAt] ELSE streak[k]]
    /\ lost' = Later(lost, spent - runner[player].progress)
    /\ last' = [k \in {} |-> now]
    /\ granted' = [k \in Slots |-> Never]
    /\ UNCHANGED <<now, early, factions, there, spent, links, player, ghost>>

(* Whoever is there is named by NAMES, without their account.                 *)
Return ==
    /\ bot \in {"out", "off"} /\ bot' = "in"
    /\ IF there THEN Send("JOIN") ELSE UNCHANGED wire
    /\ UNCHANGED <<now, table, factions, there, asked, listed, runner, history>>

Next ==
    \/ Enter \/ Leave \/ Speak \/ Type \/ Answer \/ KickBot \/ Passes
    \/ HandleJoin \/ HandleQuit \/ HandleMessage \/ HandleCommand \/ HandleKicked
    \/ Tick \/ (\E k \in Owners : Reconcile(k))
    \/ LoseConnection \/ Restart \/ Return

Spec == Init /\ [][Next]_vars

-----------------------------------------------------------------------------
(* At most one runner is linked, and only while the person is on the user     *)
(* list of a channel the bot thinks it is in, until a late reply              *)
(* (handleWhoisAccount) or a failed save (DisconnectAll) leaves one linked    *)
(* that nobody plays.                                                         *)
TypeOK ==
    /\ now \in Nat \ {Never} /\ Known \subseteq Slots /\ last \in [Known -> Nat]
    /\ granted \in [Slots -> Nat] /\ early \in BOOLEAN
    /\ there \in BOOLEAN /\ bot \in {"in", "kicked", "out", "off"} /\ asked \in BOOLEAN
    /\ \A i \in DOMAIN wire : wire[i].at <= now
    /\ listed \in BOOLEAN /\ (listed => Watching)
    /\ runner \in [Owners -> Runners]
    /\ ghost \/ \A k \in Playing : listed /\ Playing = {k} /\ k = player
    /\ {started, until, swappedAt, picks} \subseteq 0..(now + Window) /\ chosen \in BOOLEAN
    /\ {spent, links, lost} \subseteq Nat /\ player \in Owners /\ ghost \in BOOLEAN
    /\ streak \in [Owners -> Streaks]

(* Time that counts is time the person spent in the channel with the bot, but *)
(* for what a message on its way can hide: at most Lag for each time a runner *)
(* was linked (advancePlayer, joinLocked, merge).  A runner that nobody plays *)
(* counts on, until Reconcile or an outage ends it.                           *)
IdleTimeIsReal == ghost \/ \A k \in Owners : runner[k].progress <= spent + Lag * links

(* And all that time counts for the runner that is linked, sooner or later,   *)
(* except what was lost to an outage or a restart, or left with the other     *)
(* runner when this one was linked.  No join, login or message in between     *)
(* forgets any, and a merge leaves it lacking no more than the runner of the  *)
(* two that lacked least.                                                     *)
TimeIsCounted ==
    ghost \/ \A k \in Playing : spent <= runner[k].progress + lost + (now - runner[k].progressAt)

(* README.md: "Each full day linked without quitting pays a bonus."  Unless   *)
(* the runner was touched or taken over while offline, a streak has seen no   *)
(* quit and no absence longer than the grace (joinLocked, Disconnect, merge). *)
StreakEarned ==
    \A k \in Playing : runner[k].since # Never /\ ~streak[k].kept
                         => ~streak[k].quit /\ streak[k].worst <= Grace

(* A runner with a streak is linked again within the grace.                   *)
BackInTime(k) ==
    /\ ~runner[k].linked /\ runner'[k].linked
    /\ runner[k].since # Never /\ ~streak[k].kept
    /\ runner'[k].progressAt - streak[k].left <= Grace

(* README.md: "A netsplit or bot outage doesn't break the streak if the       *)
(* runner is back within an hour."                                            *)
StreakSurvives == [][\A k \in Owners : BackInTime(k) => runner'[k].since = runner[k].since]_vars

(* It does if it is back as a guest before its account is known: the merge    *)
(* takes the guest's.  Nothing else ends it.                                  *)
StreakResumes ==
    [][\A k \in Owners : BackInTime(k) => \/ runner'[k].since = runner[k].since
                                          \/ Exists("guest") /\ runner'["guest"] = NoRunner]_vars

=============================================================================
