-------------------------------- MODULE Links --------------------------------
(***************************************************************************)
(* Who plays which runner: people on IRC, the bot that watches them, and   *)
(* the engine's table of identities and links.                             *)
(*                                                                         *)
(* People enter the channel, leave it, change nick and log in to accounts; *)
(* the server tells the bot in the order it happened, late.  The bot       *)
(* (internal/irc) turns each message into one engine call (internal/game), *)
(* asks WHOIS about nicks whose account it does not know, and compares the *)
(* linked runners with the channel's user list every tick.  It may be      *)
(* kicked from the channel or lose the connection.                         *)
(*                                                                         *)
(* Engine calls are atomic here: they hold the engine's mutex, and what    *)
(* happens between their database writes is the subject of Artifacts.      *)
(* The server and the girc library (delivery, its user list, NAMES without *)
(* accounts) are modelled from how the bot uses them.                      *)
(***************************************************************************)
EXTENDS Naturals, Sequences, FiniteSets, SequencesExt

CONSTANTS
    Persons,
    Nicks,
    Accounts,
    OwnNicks,      \* the nicks each person uses
    OwnAccounts,   \* the accounts each person logs in to
    Namesakes,     \* pairs of a nick and an account that are the same word
    Caps,          \* the capabilities the server offers
    Outages,       \* what may happen to the bot: "kick", "disconnect"
    GraceTicks,    \* ticks a runner missing from the user list is left alone
    MaxMoves,      \* bound: moves of people and outages
    MaxWire,       \* bound: messages on the way to the bot
    MaxRep,        \* bound: Rep above the first
    None

ASSUME PersonsAssumption == IsFiniteSet(Persons)
ASSUME OwnAssumption == OwnNicks \in [Persons -> SUBSET Nicks] /\ OwnAccounts \in [Persons -> SUBSET Accounts]
ASSUME NamesakesAssumption == Namesakes \subseteq Nicks \X Accounts
ASSUME CapsAssumption == Caps \subseteq {"extended-join", "account-notify"}
ASSUME OutagesAssumption == Outages \subseteq {"kick", "disconnect"}
ASSUME BoundsAssumption == GraceTicks \in Nat \ {0} /\ {MaxMoves, MaxWire, MaxRep} \subseteq Nat
ASSUME NoneAssumption == None \notin Nicks \cup Accounts \cup Persons

GuestKey(n)   == [kind |-> "guest", name |-> n]
AccountKey(a) == [kind |-> "acct", name |-> a]

GuestKeys   == {GuestKey(n) : n \in Nicks}
AccountKeys == {AccountKey(a) : a \in Accounts}
Keys        == GuestKeys \cup AccountKeys

VARIABLES
    \* the IRC server
    nick,      \* each person's nick, None when not on the network
    inside,    \* the people in the game channel
    login,     \* the account each person is logged in to, or None
    bot,       \* the bot: "off" the network, "out", "knocking" or "in" the channel
    wire,      \* messages on the way to the bot
    asked,     \* nicks of WHOIS requests on the way to the server
    moves,     \* moves made so far, for the bound
    \* the bot and the library under it
    joined,    \* the bot knows it is in the channel
    roster,    \* the library's user list of the channel
    glance,    \* the copy of it that Maintain works on, or None
    \* the engine
    users, linked, nickOf, missing,
    rep,       \* each runner's Level, from 0; 0 for one that does not exist
    played,    \* history: the people whose play a runner carries
    raced      \* history: Reconcile dropped a runner the user list had

server == <<nick, inside, login, bot, moves>>
client == <<joined, roster, glance>>
engine == <<users, linked, nickOf, missing, rep, played, raced>>
vars   == <<server, wire, asked, client, engine>>

Messages == [kind: {"JOIN", "NAMES", "PART", "NICK", "ACCOUNT", "WHOIS", "JOINED", "KICKED"},
             who: Persons \cup {None}, nick: Nicks \cup {None},
             arg: Nicks \cup Accounts \cup {None}]

Message(kind, p, n, arg) == [kind |-> kind, who |-> p, nick |-> n, arg |-> arg]

Init ==
    /\ nick = [p \in Persons |-> None] /\ inside = {} /\ login = [p \in Persons |-> None]
    /\ bot = "in" /\ wire = <<>> /\ asked = {} /\ moves = 0
    /\ joined = TRUE /\ roster = {} /\ glance = None
    /\ users = {} /\ linked = {} /\ nickOf = [k \in Keys |-> None]
    /\ missing = [k \in Keys |-> 0] /\ rep = [k \in Keys |-> 0]
    /\ played = [k \in Keys |-> {}] /\ raced = FALSE

-----------------------------------------------------------------------------
(* People.  The server tells the bot what it sees while it is in the channel. *)

Tell(message) ==
    wire' = IF bot = "in" THEN Append(wire, message) ELSE wire

Move ==
    /\ moves < MaxMoves /\ Len(wire) < MaxWire
    /\ moves' = moves + 1
    /\ UNCHANGED <<bot, asked, client, engine>>

Taken == {nick[p] : p \in Persons}

(* JOIN carries the account only where the server has extended-join. *)
Enter(p, n) ==
    /\ p \notin inside
    /\ n \in OwnNicks[p] /\ n \notin Taken \ {nick[p]}
    /\ Move
    /\ nick' = [nick EXCEPT ![p] = n]
    /\ inside' = inside \cup {p}
    /\ Tell(Message("JOIN", p, n, IF "extended-join" \in Caps THEN login[p] ELSE None))
    /\ UNCHANGED login

(* PART or KICK leaves the person on the network, QUIT does not. *)
Depart(p, n) ==
    /\ p \in inside /\ n \in {nick[p], None}
    /\ Move
    /\ nick' = [nick EXCEPT ![p] = n]
    /\ inside' = inside \ {p}
    /\ Tell(Message("PART", p, nick[p], None))
    /\ UNCHANGED login

Change(p, n) ==
    /\ nick[p] # None /\ n \in OwnNicks[p] \ Taken
    /\ Move
    /\ nick' = [nick EXCEPT ![p] = n]
    /\ IF p \in inside THEN Tell(Message("NICK", p, nick[p], n)) ELSE UNCHANGED wire
    /\ UNCHANGED <<inside, login>>

(* Before connecting or at any time after; the bot ignores logouts. *)
LogIn(p, a) ==
    /\ a \in (OwnAccounts[p] \cup {None}) \ {login[p]}
    /\ Move
    /\ login' = [login EXCEPT ![p] = a]
    /\ IF p \in inside /\ a # None /\ "account-notify" \in Caps
       THEN Tell(Message("ACCOUNT", p, nick[p], a))
       ELSE UNCHANGED wire
    /\ UNCHANGED <<nick, inside>>

(* The reply to a WHOIS names the account of whoever has the nick now, in the *)
(* channel or not; there is none for a nick that is free or not logged in.    *)
Answer(n) ==
    /\ n \in asked /\ bot # "off"
    /\ asked' = asked \ {n}
    /\ wire' = wire \o SetToSeq({Message("WHOIS", p, n, login[p]) :
                                 p \in {q \in Persons : nick[q] = n /\ login[q] # None}})
    /\ UNCHANGED <<server, client, engine>>

-----------------------------------------------------------------------------
(* MigratesByAccountName, MergedAsAccount, RekeyOverwrites, RenameUntracked,  *)
(* DueLate and GraceRestarts are not part of Next: they are mistakes the      *)
(* definition after each could contain, and serve to show that a property     *)
(* notices.                                                                   *)

(* The engine.  Runners are found by nick among the linked ones, in the order *)
(* of a Go map: when two have the nick, either.  `off' are runners the call   *)
(* has already put offline.                                                   *)

FindConnected(n, off) == {k \in linked \ off : nickOf[k] = n}

(* Without an account, the guest of that name is found even when offline. *)
FindRunner(n) ==
    IF FindConnected(n, {}) # {} THEN FindConnected(n, {}) ELSE {GuestKey(n)} \cap users

(* Mistake: the offline guest is looked up by the account name. *)
MigratesByAccountName(n, a, off) ==
    IF FindConnected(n, off) # {}
    THEN {{k} \cap GuestKeys : k \in FindConnected(n, off)}
    ELSE {{GuestKey(m) : m \in {l \in Nicks : <<l, a>> \in Namesakes}} \cap users}

(* The guest an account takes over, as a set of at most one runner: the one   *)
(* linked under the nick, or, when nobody is, the offline guest of a nick     *)
(* that is the account's name.                                                *)
Migratable(n, a, off) ==
    IF FindConnected(n, off) # {}
    THEN {{k} \cap GuestKeys : k \in FindConnected(n, off)}
    ELSE {IF <<n, a>> \in Namesakes THEN {GuestKey(n)} \cap users ELSE {}}

(* Mistake: an account that has a runner keeps that runner's Rep. *)
MergedAsAccount(k, guests) ==
    {rep[g] : g \in IF k \in users \/ guests = {} THEN {k} ELSE guests}

(* merge: the higher Level of the two, which is not the sum. *)
Merged(k, guests) ==
    {r \in {rep[g] : g \in guests \cup {k}} : \A g \in guests \cup {k} : rep[g] <= r}

(* The rest of joinLocked, `guests' being what migrates. *)
Link(k, n, p, guests, off) ==
    /\ users' = (users \ guests) \cup {k}
    /\ linked' = (linked \ (guests \cup off)) \cup {k}
    /\ nickOf' = [j \in Keys |-> IF j = k THEN n ELSE IF j \in guests THEN None ELSE nickOf[j]]
    /\ played' = [j \in Keys |->
                    IF j = k THEN {p} \cup UNION {played[g] : g \in guests \cup {k}}
                    ELSE IF j \in guests THEN {} ELSE played[j]]
    /\ \E r \in Merged(k, guests) :
          rep' = [j \in Keys |-> IF j = k THEN r ELSE IF j \in guests THEN 0 ELSE rep[j]]
    /\ UNCHANGED <<missing, raced>>

Join(n, a, p, off) ==
    IF a = None THEN Link(GuestKey(n), n, p, {}, off)
    ELSE \E guests \in Migratable(n, a, off) : Link(AccountKey(a), n, p, guests, off)

(* A user who switched accounts leaves the old account's runner behind. *)
Bind(n, a, p) ==
    \/ FindConnected(n, {}) = {} /\ Join(n, a, p, {})
    \/ \E k \in FindConnected(n, {}) : Join(n, a, p, {k} \cap (AccountKeys \ {AccountKey(a)}))

Disconnect(n) ==
    IF FindRunner(n) \cap linked = {} THEN UNCHANGED engine
    ELSE /\ \E k \in FindRunner(n) : linked' = linked \ {k}
         /\ UNCHANGED <<users, nickOf, missing, rep, played, raced>>

DisconnectAll ==
    /\ linked' = {}
    /\ missing' = [k \in Keys |-> 0]
    /\ UNCHANGED <<users, nickOf, rep, played, raced>>

(* Mistake: the key is taken whoever has it. *)
RekeyOverwrites(k, n) == IF k \in GuestKeys THEN GuestKey(n) ELSE k

(* A guest takes the key of its new nick, unless another guest has it. *)
Rekey(k, n) == IF k \in GuestKeys /\ GuestKey(n) \notin users THEN GuestKey(n) ELSE k

(* Mistake: a nick change onto another guest is not followed. *)
RenameUntracked(k, n, p) ==
    IF k \in GuestKeys /\ GuestKey(n) \in users \ {k} THEN UNCHANGED engine
    ELSE LET new == Rekey(k, n) IN
         /\ users' = (users \ {k}) \cup {new}
         /\ linked' = (linked \ {k}) \cup {new}
         /\ nickOf' = [nickOf EXCEPT ![k] = None, ![new] = n]
         /\ rep' = [rep EXCEPT ![k] = 0, ![new] = rep[k]]
         /\ played' = [played EXCEPT ![k] = {}, ![new] = played[k] \cup {p}]
         /\ UNCHANGED <<missing, raced>>

RenameRunner(k, n, p) ==
    LET new == Rekey(k, n) IN
    /\ users' = (users \ {k}) \cup {new}
    /\ linked' = (linked \ {k}) \cup {new}
    /\ nickOf' = [nickOf EXCEPT ![k] = None, ![new] = n]
    /\ rep' = [rep EXCEPT ![k] = 0, ![new] = rep[k]]
    /\ played' = [played EXCEPT ![k] = {}, ![new] = played[k] \cup {p}]
    /\ UNCHANGED <<missing, raced>>

Rename(old, n, p) ==
    IF FindRunner(old) \cap linked = {} THEN UNCHANGED engine
    ELSE \E k \in FindRunner(old) : RenameRunner(k, n, p)

(* advancePlayer, in whatever call: a linked runner rises in Rep. *)
Gain(k) ==
    /\ k \in linked /\ rep[k] < MaxRep
    /\ rep' = [rep EXCEPT ![k] = @ + 1]
    /\ UNCHANGED <<server, wire, asked, client, users, linked, nickOf, missing, played, raced>>

-----------------------------------------------------------------------------
(* The bot.  The library updates its user list, then the handler runs.       *)

Handler(m) ==
    CASE m.kind = "JOIN"    -> Join(m.nick, m.arg, m.who, {})
      [] m.kind = "NAMES"   -> Join(m.nick, None, m.who, {})
      [] m.kind = "PART"    -> Disconnect(m.nick)
      [] m.kind = "NICK"    -> Rename(m.nick, m.arg, m.who)
      [] m.kind \in {"ACCOUNT", "WHOIS"} -> Bind(m.nick, m.arg, m.who)
      [] m.kind = "KICKED"  -> DisconnectAll
      [] m.kind = "JOINED"  -> UNCHANGED engine

Listed(m) ==
    CASE m.kind \in {"JOIN", "NAMES"}    -> roster \cup {m.nick}
      [] m.kind = "PART"                 -> roster \ {m.nick}
      [] m.kind = "NICK"                 -> (roster \ {m.nick}) \cup {m.arg}
      [] m.kind \in {"KICKED", "JOINED"} -> {}
      [] OTHER                           -> roster

(* WHOIS for whoever linked without an account. *)
Asks(m) == IF m.kind \in {"JOIN", "NAMES"} /\ m.arg = None THEN {m.nick} ELSE {}

Deliver ==
    /\ wire # <<>>
    /\ LET m == Head(wire) IN
       /\ Handler(m)
       /\ roster' = Listed(m)
       /\ joined' = IF m.kind \in {"JOINED", "KICKED"} THEN m.kind = "JOINED" ELSE joined
       /\ asked' = asked \cup Asks(m)
    /\ wire' = Tail(wire)
    /\ UNCHANGED <<server, glance>>

(* Maintain, once per tick: ask to be let in, or copy the user list and have  *)
(* the engine compare it.  Handlers may run between the copy and the call.    *)
Knock ==
    /\ bot = "out" /\ ~joined
    /\ bot' = "knocking"
    /\ UNCHANGED <<nick, inside, login, moves, wire, asked, client, engine>>

Look ==
    /\ bot # "off" /\ joined /\ glance = None
    /\ glance' = {roster}
    /\ UNCHANGED <<server, wire, asked, joined, roster, engine>>

(* Mistake: a tick too late. *)
DueLate(present) == {k \in linked : nickOf[k] \notin present /\ missing[k] > GraceTicks}

(* Runners on the list are not missing; the others are missing one tick more, *)
(* and dropped when that was the case for the grace period.                   *)
Due(present) == {k \in linked : nickOf[k] \notin present /\ missing[k] = GraceTicks}

(* Mistake: the grace period starts anew each tick. *)
GraceRestarts(present) ==
    [k \in Keys |-> IF k \in linked /\ nickOf[k] \notin present /\ missing[k] = 0 THEN 1 ELSE 0]

StillMissing(present) ==
    [k \in Keys |-> IF k \in linked \ Due(present) /\ nickOf[k] \notin present
                    THEN missing[k] + 1 ELSE 0]

Reconcile ==
    /\ glance # None
    /\ \E present \in glance :
          /\ linked' = linked \ Due(present)
          /\ missing' = StillMissing(present)
          /\ raced' = (raced \/ \E k \in Due(present) : nickOf[k] \in roster)
    /\ glance' = None
    /\ UNCHANGED <<server, wire, asked, joined, roster, users, nickOf, rep, played>>

(* Tick deletes a guest that has been away too long. *)
Prune(k) ==
    /\ joined /\ glance = None
    /\ k \in (users \cap GuestKeys) \ linked
    /\ users' = users \ {k}
    /\ nickOf' = [nickOf EXCEPT ![k] = None]
    /\ rep' = [rep EXCEPT ![k] = 0]
    /\ played' = [played EXCEPT ![k] = {}]
    /\ UNCHANGED <<server, wire, asked, client, linked, missing, raced>>

-----------------------------------------------------------------------------
(* Outages.  On joining, the bot is told who is there, one by one.           *)

KickBot ==
    /\ "kick" \in Outages /\ bot = "in"
    /\ moves < MaxMoves /\ moves' = moves + 1
    /\ bot' = "out"
    /\ wire' = Append(wire, Message("KICKED", None, None, None))
    /\ UNCHANGED <<nick, inside, login, asked, client, engine>>

(* Run: what was on the way either way is lost, and everybody is paused. *)
LoseConnection ==
    /\ "disconnect" \in Outages /\ bot # "off"
    /\ moves < MaxMoves /\ moves' = moves + 1
    /\ bot' = "off"
    /\ wire' = <<>> /\ asked' = {}
    /\ joined' = FALSE /\ roster' = {}
    /\ DisconnectAll
    /\ UNCHANGED <<nick, inside, login, glance>>

(* RPL_WELCOME: the bot asks to join. *)
Reconnect ==
    /\ bot = "off"
    /\ bot' = "knocking"
    /\ UNCHANGED <<nick, inside, login, moves, wire, asked, client, engine>>

Admit ==
    /\ bot = "knocking"
    /\ bot' = "in"
    /\ wire' = wire \o <<Message("JOINED", None, None, None)>>
                    \o SetToSeq({Message("NAMES", p, nick[p], None) : p \in inside})
    /\ UNCHANGED <<nick, inside, login, moves, asked, client, engine>>

-----------------------------------------------------------------------------
People ==
    \/ \E p \in Persons, n \in Nicks \cup {None} : Enter(p, n) \/ Depart(p, n) \/ Change(p, n)
    \/ \E p \in Persons, a \in Accounts \cup {None} : LogIn(p, a)

Server == (\E n \in Nicks : Answer(n)) \/ Admit \/ Reconnect

Bot == Deliver \/ Knock \/ Look \/ Reconcile

Next == People \/ Server \/ Bot \/ KickBot \/ LoseConnection \/ \E k \in Keys : Gain(k) \/ Prune(k)

Spec == Init /\ [][Next]_vars

(* Messages and replies arrive, the scheduler calls Maintain every tick, the  *)
(* bot is let in again in the end.  People need do nothing.                   *)
FairSpec ==
    /\ Spec
    /\ WF_vars(Deliver) /\ WF_vars(Knock) /\ WF_vars(Look) /\ WF_vars(Reconcile)
    /\ WF_vars(Admit) /\ WF_vars(Reconnect)
    /\ \A n \in Nicks : WF_vars(Answer(n))

-----------------------------------------------------------------------------
TypeOK ==
    /\ nick \in [Persons -> Nicks \cup {None}] /\ inside \subseteq Persons
    /\ login \in [Persons -> Accounts \cup {None}]
    /\ bot \in {"off", "out", "knocking", "in"} /\ moves \in 0..MaxMoves
    /\ wire \in Seq(Messages) /\ asked \subseteq Nicks
    /\ joined \in BOOLEAN /\ roster \subseteq Nicks
    /\ glance = None \/ \E present \in SUBSET Nicks : glance = {present}
    /\ users \subseteq Keys /\ linked \subseteq users
    /\ nickOf \in [Keys -> Nicks \cup {None}] /\ missing \in [Keys -> 0..GraceTicks]
    /\ rep \in [Keys -> 0..MaxRep]
    /\ played \in [Keys -> SUBSET Persons] /\ raced \in BOOLEAN

(* "Unrelated accounts no longer take over other runners": what an account's *)
(* runner carries was played by its owner.                                    *)
AccountIsOwn ==
    \A a \in Accounts : \A p \in played[AccountKey(a)] : a \in OwnAccounts[p]

(* Where nobody uses another's nick or account, what a runner carries was     *)
(* played by one person, however late messages and WHOIS replies arrive and   *)
(* whatever outages there are between them.                                   *)
PlayIsOwn ==
    /\ AccountIsOwn
    /\ \A k \in Keys : \A p, q \in played[k] : p = q

(* Once everything on the way has arrived, everybody in the channel has a     *)
(* linked runner under the nick they have: they gain Rep, and their next      *)
(* message, nick change or QUIT finds it.                                     *)
Quiet == bot = "in" /\ joined /\ wire = <<>>

Tracked ==
    Quiet => \A p \in inside : \E k \in linked : nickOf[k] = nick[p]

(* The same, but for the runner a Maintain that had copied the user list      *)
(* before its owner came back has just dropped.                               *)
TrackedUnlessRaced == raced \/ Tracked

(* "Guest runners migrate to the account key without losing progress", as far *)
(* as merge goes: whatever happens to a runner that is not pruned, some       *)
(* runner is played by all who played it and has at least its Rep, and a nick *)
(* change leaves another's alone.  Of two runners that become one the lower   *)
(* Rep is not added to the higher.                                            *)
GoesOnAs(k, j) == played[k] \subseteq played'[j] /\ rep[k] <= rep'[j]

PlayIsKept == [][\A k \in users : Prune(k) \/ \E j \in users' : GoesOnAs(k, j)]_vars

(* "A runner missing from the user list for more than a minute is             *)
(* disconnected": nobody who has left gains Rep for ever.                     *)
Present(n) == \E p \in inside : nick[p] = n

GhostsDropped ==
    \A k \in Keys : (k \in linked /\ ~Present(nickOf[k])) ~> (k \notin linked \/ Present(nickOf[k]))

=============================================================================
