----------------------------- MODULE LinksProofs -----------------------------
(***************************************************************************)
(* What TLAPS proves of Links, for any number of people, nicks, accounts,  *)
(* moves and outages.                                                      *)
(***************************************************************************)
EXTENDS Links, FiniteSetTheorems, SequenceTheorems, TLAPS

-----------------------------------------------------------------------------
(* The invariants.                                                            *)

(* What a message says of somebody was so when it was sent.                   *)
Honest(m) ==
    /\ m \in Messages
    /\ m.kind \notin {"JOINED", "KICKED"} => m.who \in Persons /\ m.nick \in OwnNicks[m.who]
    /\ m.kind = "JOIN" => m.arg \in OwnAccounts[m.who] \cup {None}
    /\ m.kind \in {"ACCOUNT", "WHOIS"} => m.arg \in OwnAccounts[m.who]
    /\ m.kind = "NICK" => m.arg \in OwnNicks[m.who]

HonestInv ==
    /\ \A p \in Persons :
          /\ nick[p] \in OwnNicks[p] \cup {None}
          /\ login[p] \in OwnAccounts[p] \cup {None}
          /\ p \in inside => nick[p] # None
    /\ \A i \in 1..Len(wire) : Honest(wire[i])

LinksInv == TypeOK /\ HonestInv

(* Nobody uses the nick or the account of another.                            *)
Personal ==
    \A p, q \in Persons : p # q =>
        OwnNicks[p] \cap OwnNicks[q] = {} /\ OwnAccounts[p] \cap OwnAccounts[q] = {}

OwnKeys(p) == {GuestKey(n) : n \in OwnNicks[p]} \cup {AccountKey(a) : a \in OwnAccounts[p]}

(* Whose play a runner carries, has both its key and its nick.                *)
OwnedInv ==
    \A k \in Keys :
        /\ \A p \in played[k] : k \in OwnKeys(p) /\ nickOf[k] \in OwnNicks[p] \cup {None}
        /\ k \in linked => played[k] # {} /\ nickOf[k] # None

(* The nicks f that p has between the messages on the wire: from j on, when   *)
(* it is linked, or a message links it, the messages about it are about the   *)
(* nick it has then.                                                          *)
Follows(p, j, f) ==
    /\ f[Len(wire)] = nick[p]
    /\ IF j = 0 THEN f[0] \in roster /\ \E k \in linked : nickOf[k] = f[0]
       ELSE wire[j].kind \in {"JOIN", "NAMES"} /\ wire[j].who = p /\ wire[j].nick = f[j]
    /\ \A i \in (j+1)..Len(wire) :
          /\ wire[i].kind \notin {"JOINED", "KICKED"}
          /\ wire[i].who = p => wire[i].kind \in {"NICK", "ACCOUNT", "WHOIS"} /\ wire[i].nick = f[i-1]
          /\ f[i] = IF wire[i].who = p /\ wire[i].kind = "NICK" THEN wire[i].arg ELSE f[i-1]

Followed(p) == \E j \in 0..Len(wire), f \in [0..Len(wire) -> OwnNicks[p]] : Follows(p, j, f)

FollowedInv == bot = "in" /\ ~raced => \A p \in inside : Followed(p)

-----------------------------------------------------------------------------
(* Sequences.                                                                 *)

(* SetToSeq lists a finite set: every element once.                           *)
LEMMA Listing ==
  ASSUME NEW S, IsFiniteSet(S)
  PROVE  /\ SetToSeq(S) \in Seq(S)
         /\ \A x \in S : \E i \in 1..Len(SetToSeq(S)) : SetToSeq(S)[i] = x
         /\ \A i, j \in 1..Len(SetToSeq(S)) : SetToSeq(S)[i] = SetToSeq(S)[j] => i = j
  <1> DEFINE n == Cardinality(S)
             s == SetToSeq(S)
  <1>1. n \in Nat /\ ExistsBijection(1..n, S)
    BY FS_CardinalityType
  <1>2. \E f \in [1..n -> S] : IsInjective(f)
    BY <1>1 DEF ExistsBijection, Bijection, Injection
  <1>3. s \in [1..n -> S] /\ IsInjective(s)
    BY <1>2 DEF SetToSeq
  <1>4. s \in Seq(S) /\ Len(s) = n
    BY <1>1, <1>3
  <1>5. IsFiniteSet(1..n) /\ Cardinality(1..n) = n
    BY <1>1, FS_Interval
  <1>6. s \in Surjection(1..n, S)
    BY <1>3, <1>5, FS_Injection DEF Injection
  <1> QED BY <1>3, <1>4, <1>6 DEF Surjection, IsInjective

(* The messages about a set of people are finitely many.                      *)
LEMMA FewPeople ==
  ASSUME NEW P \in SUBSET Persons, NEW f, DOMAIN f = P
  PROVE  IsFiniteSet({f[p] : p \in P})
  <1>1. IsFiniteSet(P)
    BY FS_Subset, PersonsAssumption
  <1>2. [p \in P |-> f[p]] \in Surjection(P, {f[p] : p \in P})
    BY DEF Surjection
  <1> QED BY <1>1, <1>2, FS_Surjection

-----------------------------------------------------------------------------
(* Types, and that messages are honest.                                       *)

EngineType ==
    /\ users \subseteq Keys /\ linked \subseteq users
    /\ nickOf \in [Keys -> Nicks \cup {None}] /\ missing \in [Keys -> 0..GraceTicks]
    /\ rep \in [Keys -> 0..MaxRep]
    /\ played \in [Keys -> SUBSET Persons] /\ raced \in BOOLEAN

LEMMA KeyTypes ==
  /\ \A n \in Nicks : GuestKey(n) \in Keys /\ GuestKey(n) \in GuestKeys
  /\ \A a \in Accounts : AccountKey(a) \in Keys /\ AccountKey(a) \in AccountKeys
  /\ \A k \in GuestKeys, j \in AccountKeys : k # j
  /\ \A m, n : GuestKey(m) = GuestKey(n) => m = n
  /\ \A a, b : AccountKey(a) = AccountKey(b) => a = b
  <1>1. \A m, n : GuestKey(m).kind = "guest" /\ AccountKey(n).kind = "acct" /\ GuestKey(m).name = m /\ AccountKey(n).name = n
    BY DEF GuestKey, AccountKey
  <1>2. \A m, n : GuestKey(m) # AccountKey(n)
    BY <1>1
  <1>3. \A k \in GuestKeys, j \in AccountKeys : k # j
    BY <1>2 DEF GuestKeys, AccountKeys
  <1>4. \A m, n : GuestKey(m) = GuestKey(n) => m = n
    BY <1>1
  <1>5. \A a, b : AccountKey(a) = AccountKey(b) => a = b
    BY <1>1
  <1>6. \A n \in Nicks : GuestKey(n) \in Keys /\ GuestKey(n) \in GuestKeys
    BY DEF Keys, GuestKeys
  <1>7. \A a \in Accounts : AccountKey(a) \in Keys /\ AccountKey(a) \in AccountKeys
    BY DEF Keys, AccountKeys
  <1> QED BY <1>3, <1>4, <1>5, <1>6, <1>7

LEMMA Grace == GraceTicks \in Nat /\ MaxRep \in Nat
  BY BoundsAssumption

LEMMA Owns ==
  ASSUME NEW p \in Persons
  PROVE  OwnNicks[p] \subseteq Nicks /\ OwnAccounts[p] \subseteq Accounts
  BY OwnAssumption

LEMMA NoneIsNone == None \notin Nicks /\ None \notin Accounts /\ None \notin Persons
  BY NoneAssumption

LEMMA LinkType ==
  ASSUME EngineType, NEW k \in Keys, NEW n \in Nicks, NEW p \in Persons,
         NEW guests \in SUBSET Keys, NEW off, Link(k, n, p, guests, off)
  PROVE  EngineType'
  <1>1. users' \subseteq Keys /\ linked' \subseteq users'
    BY DEF EngineType, Link
  <1>2. played' \in [Keys -> SUBSET Persons]
    <2>1. {p} \cup UNION {played[g] : g \in guests \cup {k}} \in SUBSET Persons
      BY DEF EngineType
    <2> QED BY <2>1 DEF EngineType, Link
  <1>3. rep' \in [Keys -> 0..MaxRep]
    <2>1. PICK r \in Merged(k, guests) :
            rep' = [j \in Keys |-> IF j = k THEN r ELSE IF j \in guests THEN 0 ELSE rep[j]]
      BY DEF Link
    <2>2. r \in 0..MaxRep /\ 0 \in 0..MaxRep
      BY Grace DEF EngineType, Merged
    <2> QED BY <2>1, <2>2 DEF EngineType
  <1> QED BY <1>1, <1>2, <1>3 DEF EngineType, Link

LEMMA MigratableType ==
  ASSUME EngineType, NEW n \in Nicks, NEW a, NEW off, NEW guests \in Migratable(n, a, off)
  PROVE  guests \in SUBSET GuestKeys
  <1>1. CASE FindConnected(n, off) # {}
    BY <1>1 DEF Migratable
  <1>2. CASE FindConnected(n, off) = {}
    BY <1>2, KeyTypes DEF Migratable
  <1> QED BY <1>1, <1>2

LEMMA JoinType ==
  ASSUME EngineType, NEW n \in Nicks, NEW a \in Accounts \cup {None}, NEW p \in Persons, NEW off, Join(n, a, p, off)
  PROVE  EngineType'
  <1>1. CASE a = None
    <2>1. Link(GuestKey(n), n, p, {}, off)
      BY <1>1 DEF Join
    <2> QED BY <2>1, KeyTypes, LinkType
  <1>2. CASE a # None
    <2>1. PICK guests \in Migratable(n, a, off) : Link(AccountKey(a), n, p, guests, off)
      BY <1>2 DEF Join
    <2>2. guests \in SUBSET Keys
      BY MigratableType DEF Keys
    <2> QED BY <1>2, <2>1, <2>2, KeyTypes, LinkType
  <1> QED BY <1>1, <1>2

LEMMA BindType ==
  ASSUME EngineType, NEW n \in Nicks, NEW a \in Accounts \cup {None}, NEW p \in Persons, Bind(n, a, p)
  PROVE  EngineType'
  BY JoinType DEF Bind

LEMMA DisconnectType == ASSUME EngineType, NEW n, Disconnect(n) PROVE EngineType'
  BY DEF EngineType, Disconnect, engine

LEMMA DisconnectAllType == ASSUME EngineType, DisconnectAll PROVE EngineType'
  BY Grace DEF EngineType, DisconnectAll

LEMMA FoundType == ASSUME EngineType, NEW n PROVE FindRunner(n) \cap linked \subseteq Keys /\ FindRunner(n) \subseteq users
  BY DEF EngineType, FindRunner, FindConnected

LEMMA RenameType ==
  ASSUME EngineType, NEW old, NEW n \in Nicks, NEW p \in Persons, Rename(old, n, p)
  PROVE  EngineType'
  <1>1. CASE UNCHANGED engine
    BY <1>1 DEF EngineType, engine
  <1>2. CASE \E k \in FindRunner(old) : RenameRunner(k, n, p)
    <2>1. PICK k \in FindRunner(old) : RenameRunner(k, n, p)
      BY <1>2
    <2>2. k \in Keys
      BY FoundType DEF EngineType
    <2>3. Rekey(k, n) \in Keys
      BY <2>2, KeyTypes DEF Rekey
    <2>4. 0 \in 0..MaxRep
      BY Grace
    <2> QED BY <2>1, <2>2, <2>3, <2>4 DEF RenameRunner, EngineType
  <1> QED BY <1>1, <1>2 DEF Rename

LEMMA HonestType ==
  ASSUME NEW m, Honest(m)
  PROVE  /\ m.kind \in {"JOIN", "NAMES", "PART", "NICK", "ACCOUNT", "WHOIS", "JOINED", "KICKED"}
         /\ m.kind \notin {"JOINED", "KICKED"} => m.who \in Persons /\ m.nick \in Nicks
         /\ m.kind = "JOIN" => m.arg \in Accounts \cup {None}
         /\ m.kind \in {"ACCOUNT", "WHOIS"} => m.arg \in Accounts
         /\ m.kind = "NICK" => m.arg \in Nicks
  BY Owns DEF Honest, Messages

LEMMA HandlerType == ASSUME EngineType, NEW m, Honest(m), Handler(m) PROVE EngineType'
  <1> USE HonestType
  <1>1. CASE m.kind = "JOIN"
    BY <1>1, JoinType DEF Handler
  <1>2. CASE m.kind = "NAMES"
    BY <1>2, JoinType DEF Handler
  <1>3. CASE m.kind = "PART"
    BY <1>3, DisconnectType DEF Handler
  <1>4. CASE m.kind = "NICK"
    BY <1>4, RenameType DEF Handler
  <1>5. CASE m.kind \in {"ACCOUNT", "WHOIS"}
    BY <1>5, BindType DEF Handler
  <1>6. CASE m.kind = "KICKED"
    BY <1>6, DisconnectAllType DEF Handler
  <1>7. CASE m.kind = "JOINED"
    BY <1>7 DEF Handler, EngineType, engine
  <1> QED BY <1>1, <1>2, <1>3, <1>4, <1>5, <1>6, <1>7

WireInv == wire \in Seq(Messages) /\ \A i \in 1..Len(wire) : Honest(wire[i])

LEMMA WireGrows ==
  ASSUME WireInv, NEW s \in Seq(Messages), \A i \in 1..Len(s) : Honest(s[i]), wire' = wire \o s
  PROVE  WireInv'
  <1>1. /\ wire' \in Seq(Messages)
        /\ Len(wire') = Len(wire) + Len(s)
        /\ \A i \in 1..Len(wire') : wire'[i] = IF i <= Len(wire) THEN wire[i] ELSE s[i - Len(wire)]
    BY ConcatProperties DEF WireInv
  <1>2. Len(wire) \in Nat /\ Len(s) \in Nat
    BY LenProperties DEF WireInv
  <1>3. ASSUME NEW i \in 1..Len(wire') PROVE Honest(wire'[i])
    <2>1. CASE i <= Len(wire)
      BY <1>1, <1>2, <2>1 DEF WireInv
    <2>2. CASE ~(i <= Len(wire))
      <3>1. i - Len(wire) \in 1..Len(s)
        BY <1>1, <1>2, <2>2
      <3> QED BY <1>1, <2>2, <3>1
    <2> QED BY <2>1, <2>2
  <1> QED BY <1>1, <1>3 DEF WireInv

LEMMA OneMore ==
  ASSUME NEW m \in Messages, WireInv
  PROVE  <<m>> \in Seq(Messages) /\ Len(<<m>>) = 1 /\ <<m>>[1] = m /\ Append(wire, m) = wire \o <<m>>
  BY AppendIsConcat DEF WireInv

LEMMA Appended ==
  ASSUME WireInv, NEW m, Honest(m), wire' = Append(wire, m)
  PROVE  WireInv'
  <1>1. m \in Messages
    BY DEF Honest
  <1>2. \A i \in 1..Len(<<m>>) : Honest(<<m>>[i])
    BY <1>1, OneMore
  <1> QED BY <1>1, <1>2, OneMore, WireGrows

LEMMA Told == ASSUME WireInv, NEW m, Honest(m), Tell(m) PROVE WireInv'
  BY Appended DEF Tell, WireInv

LEMMA HonestMessage ==
  ASSUME NEW kind \in {"JOIN", "NAMES", "PART", "NICK", "ACCOUNT", "WHOIS"},
         NEW p \in Persons, NEW n \in OwnNicks[p], NEW arg,
         kind \in {"JOIN", "NAMES", "PART"} => arg \in OwnAccounts[p] \cup {None},
         kind \in {"ACCOUNT", "WHOIS"} => arg \in OwnAccounts[p],
         kind = "NICK" => arg \in OwnNicks[p]
  PROVE  Honest(Message(kind, p, n, arg))
  <1>1. n \in Nicks /\ arg \in Nicks \cup Accounts \cup {None}
    BY Owns
  <1>2. Message(kind, p, n, arg) \in Messages
    BY <1>1 DEF Message, Messages
  <1> QED BY <1>2 DEF Honest, Message

LEMMA HonestNews ==
  ASSUME NEW kind \in {"JOINED", "KICKED"}
  PROVE  Honest(Message(kind, None, None, None))
  <1>1. Message(kind, None, None, None) \in Messages
    BY DEF Message, Messages
  <1> QED BY <1>1 DEF Honest, Message

(* TypeOK and HonestInv, sorted by who keeps what.                            *)
PeopleInv ==
    /\ nick \in [Persons -> Nicks \cup {None}] /\ inside \subseteq Persons
    /\ login \in [Persons -> Accounts \cup {None}]
    /\ bot \in {"off", "out", "knocking", "in"} /\ moves \in 0..MaxMoves
    /\ \A p \in Persons :
          /\ nick[p] \in OwnNicks[p] \cup {None}
          /\ login[p] \in OwnAccounts[p] \cup {None}
          /\ p \in inside => nick[p] # None

ClientType ==
    /\ asked \subseteq Nicks
    /\ joined \in BOOLEAN /\ roster \subseteq Nicks
    /\ glance = None \/ \E present \in SUBSET Nicks : glance = {present}

LEMMA InvParts == LinksInv <=> PeopleInv /\ WireInv /\ ClientType /\ EngineType
  BY DEF LinksInv, TypeOK, HonestInv, PeopleInv, WireInv, ClientType, EngineType

LEMMA InvPartsNext == LinksInv' <=> PeopleInv' /\ WireInv' /\ ClientType' /\ EngineType'
  BY DEF LinksInv, TypeOK, HonestInv, PeopleInv, WireInv, ClientType, EngineType

LEMMA LinksStart == Init => LinksInv
  <1> SUFFICES ASSUME Init PROVE LinksInv
    OBVIOUS
  <1>1. PeopleInv
    BY BoundsAssumption DEF Init, PeopleInv
  <1>2. WireInv
    BY EmptySeq DEF Init, WireInv
  <1>3. ClientType
    BY DEF Init, ClientType
  <1>4. EngineType
    <2>1. 0 \in 0..GraceTicks
      BY Grace
    <2>2. missing \in [Keys -> 0..GraceTicks]
      BY <2>1 DEF Init
    <2>3. rep \in [Keys -> 0..MaxRep]
      BY Grace DEF Init
    <2> QED BY <2>2, <2>3 DEF Init, EngineType
  <1> QED BY <1>1, <1>2, <1>3, <1>4, InvParts

LEMMA ClientStays == ASSUME LinksInv, UNCHANGED <<asked, client>> PROVE ClientType'
  BY DEF LinksInv, TypeOK, ClientType, client

LEMMA EngineStays == ASSUME LinksInv, UNCHANGED engine PROVE EngineType'
  BY DEF LinksInv, TypeOK, EngineType, engine

LEMMA Moved ==
  ASSUME LinksInv, moves < MaxMoves, moves' = moves + 1
  PROVE  moves' \in 0..MaxMoves
  BY BoundsAssumption DEF LinksInv, TypeOK

LEMMA MoveKeeps == ASSUME LinksInv, Move PROVE ClientType' /\ EngineType' /\ moves' \in 0..MaxMoves /\ bot' = bot
  BY ClientStays, EngineStays, Moved DEF Move

LEMMA EnterKeeps == ASSUME LinksInv, NEW p \in Persons, NEW n, Enter(p, n) PROVE LinksInv'
  <1> USE InvParts
  <1>1. Move /\ n \in OwnNicks[p] /\ n \in Nicks /\ n # None
    BY Owns, NoneIsNone DEF Enter
  <1>2. PeopleInv'
    BY <1>1, MoveKeeps DEF Enter, PeopleInv
  <1>3. Honest(Message("JOIN", p, n, IF "extended-join" \in Caps THEN login[p] ELSE None))
    BY <1>1, HonestMessage DEF PeopleInv
  <1>4. WireInv'
    BY <1>3, Told DEF Enter
  <1> QED BY <1>1, <1>2, <1>4, MoveKeeps, InvPartsNext

LEMMA DepartKeeps == ASSUME LinksInv, NEW p \in Persons, NEW n, Depart(p, n) PROVE LinksInv'
  <1> USE InvParts
  <1>1. Move /\ n \in {nick[p], None} /\ nick[p] \in OwnNicks[p]
    BY DEF Depart, PeopleInv
  <1>2. PeopleInv'
    BY <1>1, MoveKeeps DEF Depart, PeopleInv
  <1>3. Honest(Message("PART", p, nick[p], None))
    BY <1>1, HonestMessage
  <1>4. WireInv'
    BY <1>3, Told DEF Depart
  <1> QED BY <1>1, <1>2, <1>4, MoveKeeps, InvPartsNext

LEMMA ChangeKeeps == ASSUME LinksInv, NEW p \in Persons, NEW n, Change(p, n) PROVE LinksInv'
  <1> USE InvParts
  <1>1. Move /\ n \in OwnNicks[p] /\ n \in Nicks /\ n # None /\ nick[p] \in OwnNicks[p]
    BY Owns, NoneIsNone DEF Change, PeopleInv
  <1>2. PeopleInv'
    BY <1>1, MoveKeeps DEF Change, PeopleInv
  <1>3. Honest(Message("NICK", p, nick[p], n))
    BY <1>1, HonestMessage
  <1>4. WireInv'
    BY <1>3, Told DEF Change, WireInv
  <1> QED BY <1>1, <1>2, <1>4, MoveKeeps, InvPartsNext

LEMMA LogInKeeps == ASSUME LinksInv, NEW p \in Persons, NEW a, LogIn(p, a) PROVE LinksInv'
  <1> USE InvParts
  <1>1. Move /\ a \in OwnAccounts[p] \cup {None} /\ a \in Accounts \cup {None}
    BY Owns DEF LogIn
  <1>2. PeopleInv'
    BY <1>1, MoveKeeps DEF LogIn, PeopleInv
  <1>3. WireInv'
    <2>1. CASE UNCHANGED wire
      BY <2>1 DEF WireInv
    <2>2. CASE p \in inside /\ a # None /\ Tell(Message("ACCOUNT", p, nick[p], a))
      <3>1. nick[p] \in OwnNicks[p] /\ a \in OwnAccounts[p]
        BY <1>1, <2>2 DEF PeopleInv
      <3> QED BY <2>2, <3>1, HonestMessage, Told
    <2> QED BY <2>1, <2>2 DEF LogIn
  <1> QED BY <1>1, <1>2, <1>3, MoveKeeps, InvPartsNext

(* What a WHOIS is answered with, and what the server says on admitting the   *)
(* bot.                                                                       *)
Replies(n) == SetToSeq({Message("WHOIS", p, n, login[p]) : p \in {q \in Persons : nick[q] = n /\ login[q] # None}})

Census == SetToSeq({Message("NAMES", p, nick[p], None) : p \in inside})

LEMMA RepliesAre ==
  ASSUME LinksInv, NEW n \in Nicks
  PROVE  /\ Replies(n) \in Seq(Messages)
         /\ \A i \in 1..Len(Replies(n)) : \E p \in Persons :
               /\ nick[p] = n /\ login[p] # None
               /\ Replies(n)[i] = Message("WHOIS", p, n, login[p])
         /\ \A i \in 1..Len(Replies(n)) : Honest(Replies(n)[i])
  <1> DEFINE P == {q \in Persons : nick[q] = n /\ login[q] # None}
             f == [p \in P |-> Message("WHOIS", p, n, login[p])]
             S == {Message("WHOIS", p, n, login[p]) : p \in P}
  <1>1. IsFiniteSet({f[p] : p \in P}) /\ S = {f[p] : p \in P}
    BY FewPeople
  <1>2. \A p \in P : Honest(Message("WHOIS", p, n, login[p]))
    BY HonestMessage, NoneIsNone DEF LinksInv, HonestInv
  <1>3. S \subseteq Messages
    BY <1>2 DEF Honest
  <1>4. Replies(n) \in Seq(S)
    BY <1>1, Listing DEF Replies
  <1>5. \A i \in 1..Len(Replies(n)) : Replies(n)[i] \in S
    BY <1>4, ElementOfSeq
  <1> QED BY <1>2, <1>3, <1>4, <1>5, SeqMonotonic

LEMMA CensusIs ==
  ASSUME LinksInv
  PROVE  /\ Census \in Seq(Messages)
         /\ \A i \in 1..Len(Census) : \E p \in inside : Census[i] = Message("NAMES", p, nick[p], None)
         /\ \A p \in inside : \E i \in 1..Len(Census) : Census[i] = Message("NAMES", p, nick[p], None)
         /\ \A i, j \in 1..Len(Census) : Census[i] = Census[j] => i = j
         /\ \A i \in 1..Len(Census) : Honest(Census[i])
  <1> DEFINE f == [p \in inside |-> Message("NAMES", p, nick[p], None)]
             S == {Message("NAMES", p, nick[p], None) : p \in inside}
  <1>0. inside \subseteq Persons
    BY DEF LinksInv, TypeOK
  <1>1. IsFiniteSet({f[p] : p \in inside}) /\ S = {f[p] : p \in inside}
    BY <1>0, FewPeople
  <1>2. \A p \in inside : Honest(Message("NAMES", p, nick[p], None))
    BY <1>0, HonestMessage DEF LinksInv, HonestInv
  <1>3. S \subseteq Messages
    BY <1>2 DEF Honest
  <1>4. /\ Census \in Seq(S)
        /\ \A x \in S : \E i \in 1..Len(Census) : Census[i] = x
        /\ \A i, j \in 1..Len(Census) : Census[i] = Census[j] => i = j
    BY <1>1, Listing DEF Census
  <1>5. \A i \in 1..Len(Census) : Census[i] \in S
    BY <1>4, ElementOfSeq
  <1> QED BY <1>2, <1>3, <1>4, <1>5, SeqMonotonic

LEMMA AnswerKeeps == ASSUME LinksInv, NEW n \in Nicks, Answer(n) PROVE LinksInv'
  <1> USE InvParts
  <1>1. PeopleInv'
    BY DEF Answer, server, PeopleInv
  <1>2. wire' = wire \o Replies(n)
    BY DEF Answer, Replies
  <1>3. WireInv'
    BY <1>2, RepliesAre, WireGrows
  <1>4. ClientType'
    BY DEF Answer, ClientType, client
  <1>5. EngineType'
    BY EngineStays DEF Answer
  <1> QED BY <1>1, <1>3, <1>4, <1>5, InvPartsNext

LEMMA AdmitKeeps == ASSUME LinksInv, Admit PROVE LinksInv'
  <1> USE InvParts
  <1>1. PeopleInv'
    BY DEF Admit, PeopleInv
  <1> DEFINE welcome == Message("JOINED", None, None, None)
  <1>2. wire' = (wire \o <<welcome>>) \o Census
    BY DEF Admit, Census
  <1>3. Honest(welcome) /\ welcome \in Messages
    BY HonestNews DEF Honest
  <1>4. WireInv'
    <2>1. /\ <<welcome>> \in Seq(Messages) /\ Len(<<welcome>>) = 1 /\ <<welcome>>[1] = welcome
          /\ wire \in Seq(Messages) /\ Census \in Seq(Messages)
      BY <1>3, OneMore, CensusIs DEF WireInv
    <2>2. wire' = wire \o (<<welcome>> \o Census)
      BY <1>2, <2>1, ConcatAssociative
    <2>3. <<welcome>> \o Census \in Seq(Messages)
      BY <2>1, ConcatProperties
    <2>4. ASSUME NEW i \in 1..Len(<<welcome>> \o Census) PROVE Honest((<<welcome>> \o Census)[i])
      <3>1. Len(<<welcome>> \o Census) = 1 + Len(Census) /\ Len(Census) \in Nat
        BY <2>1, ConcatProperties, LenProperties
      <3>2. (<<welcome>> \o Census)[i] = IF i <= 1 THEN <<welcome>>[i] ELSE Census[i - 1]
        BY <2>1, <3>1, ConcatProperties
      <3>3. CASE i = 1
        BY <1>3, <2>1, <3>2, <3>3
      <3>4. CASE i # 1
        <4>1. i - 1 \in 1..Len(Census) /\ ~(i <= 1)
          BY <3>1, <3>4
        <4> QED BY <3>2, <4>1, CensusIs
      <3> QED BY <3>3, <3>4
    <2> QED BY <2>2, <2>3, <2>4, WireGrows
  <1>5. ClientType' /\ EngineType'
    BY ClientStays, EngineStays DEF Admit
  <1> QED BY <1>1, <1>4, <1>5, InvPartsNext

LEMMA Headed ==
  ASSUME WireInv, wire # <<>>
  PROVE  /\ Honest(Head(wire)) /\ Head(wire) = wire[1]
         /\ Tail(wire) \in Seq(Messages) /\ Len(Tail(wire)) = Len(wire) - 1 /\ Len(wire) \in Nat \ {0}
         /\ \A i \in 1..Len(Tail(wire)) : Tail(wire)[i] = wire[i+1]
  <1>1. Len(wire) \in Nat \ {0}
    BY EmptySeq DEF WireInv
  <1>2. Head(wire) = wire[1]
    BY DEF WireInv
  <1> QED BY <1>1, <1>2, HeadTailProperties DEF WireInv

LEMMA TailKeeps == ASSUME WireInv, wire # <<>>, wire' = Tail(wire) PROVE WireInv'
  <1>1. ASSUME NEW i \in 1..Len(Tail(wire)) PROVE Honest(Tail(wire)[i])
    <2>1. i + 1 \in 1..Len(wire)
      BY Headed
    <2> QED BY <2>1, Headed DEF WireInv
  <1> QED BY <1>1, Headed DEF WireInv

LEMMA DeliverKeeps == ASSUME LinksInv, Deliver PROVE LinksInv'
  <1> USE InvParts
  <1> DEFINE m == Head(wire)
  <1>1. Honest(m) /\ wire # <<>> /\ wire' = Tail(wire)
    BY Headed DEF Deliver
  <1>2. Handler(m) /\ roster' = Listed(m) /\ asked' = asked \cup Asks(m)
    BY DEF Deliver
  <1>3. PeopleInv'
    BY DEF Deliver, server, PeopleInv
  <1>4. WireInv'
    BY <1>1, TailKeeps
  <1>5. EngineType'
    BY <1>1, <1>2, HandlerType
  <1>6. ClientType'
    <2>1. Listed(m) \subseteq Nicks
      BY <1>1, HonestType DEF Listed, ClientType
    <2>2. Asks(m) \subseteq Nicks
      BY <1>1, HonestType DEF Asks
    <2>3. joined' \in BOOLEAN /\ glance' = glance
      BY DEF Deliver, ClientType
    <2> QED BY <1>2, <2>1, <2>2, <2>3 DEF ClientType
  <1> QED BY <1>3, <1>4, <1>5, <1>6, InvPartsNext

LEMMA KnockKeeps == ASSUME LinksInv, Knock PROVE LinksInv'
  <1>1. PeopleInv'
    BY InvParts DEF Knock, PeopleInv
  <1>2. WireInv'
    BY InvParts DEF Knock, WireInv
  <1> QED BY <1>1, <1>2, ClientStays, EngineStays, InvPartsNext DEF Knock

LEMMA ReconnectKeeps == ASSUME LinksInv, Reconnect PROVE LinksInv'
  <1>1. PeopleInv'
    BY InvParts DEF Reconnect, PeopleInv
  <1>2. WireInv'
    BY InvParts DEF Reconnect, WireInv
  <1> QED BY <1>1, <1>2, ClientStays, EngineStays, InvPartsNext DEF Reconnect

LEMMA LookKeeps == ASSUME LinksInv, Look PROVE LinksInv'
  <1>1. PeopleInv' /\ WireInv'
    BY InvParts DEF Look, server, PeopleInv, WireInv
  <1>2. ClientType'
    BY InvParts DEF Look, ClientType
  <1> QED BY <1>1, <1>2, EngineStays, InvPartsNext DEF Look

LEMMA ReconcileKeeps == ASSUME LinksInv, Reconcile PROVE LinksInv'
  <1>1. PeopleInv' /\ WireInv' /\ ClientType'
    BY InvParts DEF Reconcile, server, PeopleInv, WireInv, ClientType
  <1>2. EngineType'
    <2>1. PICK present \in glance : linked' = linked \ Due(present) /\ missing' = StillMissing(present)
      BY DEF Reconcile
    <2>2. ASSUME NEW k \in Keys PROVE missing'[k] \in 0..GraceTicks
      <3>1. missing[k] \in 0..GraceTicks /\ GraceTicks \in Nat
        BY InvParts, Grace DEF EngineType
      <3>2. CASE k \in linked \ Due(present) /\ nickOf[k] \notin present
        <4>1. missing[k] # GraceTicks /\ missing'[k] = missing[k] + 1
          BY <2>1, <3>2 DEF Due, StillMissing
        <4> QED BY <3>1, <4>1
      <3>3. CASE ~(k \in linked \ Due(present) /\ nickOf[k] \notin present)
        <4>1. missing'[k] = 0
          BY <2>1, <3>3 DEF StillMissing
        <4> QED BY <3>1, <4>1
      <3> QED BY <3>2, <3>3
    <2>3. missing' \in [Keys -> 0..GraceTicks]
      BY <2>1, <2>2 DEF StillMissing
    <2>4. raced' \in BOOLEAN
      BY InvParts DEF Reconcile, EngineType
    <2> QED BY <2>1, <2>3, <2>4, InvParts DEF Reconcile, EngineType
  <1> QED BY <1>1, <1>2, InvPartsNext

LEMMA PruneKeeps == ASSUME LinksInv, NEW k \in Keys, Prune(k) PROVE LinksInv'
  <1>1. PeopleInv' /\ WireInv' /\ ClientType'
    BY InvParts DEF Prune, server, client, PeopleInv, WireInv, ClientType
  <1>2. EngineType'
    <2>1. 0 \in 0..MaxRep
      BY Grace
    <2> QED BY <2>1, InvParts DEF Prune, EngineType
  <1> QED BY <1>1, <1>2, InvPartsNext

LEMMA GainKeeps == ASSUME LinksInv, NEW k \in Keys, Gain(k) PROVE LinksInv'
  <1>1. PeopleInv' /\ WireInv' /\ ClientType'
    BY InvParts DEF Gain, server, client, PeopleInv, WireInv, ClientType
  <1>2. EngineType'
    <2>1. rep[k] + 1 \in 0..MaxRep
      BY Grace, InvParts DEF Gain, EngineType
    <2> QED BY <2>1, InvParts DEF Gain, EngineType
  <1> QED BY <1>1, <1>2, InvPartsNext

LEMMA KickKeeps == ASSUME LinksInv, KickBot PROVE LinksInv'
  <1>1. PeopleInv'
    BY InvParts, Moved DEF KickBot, PeopleInv
  <1>2. WireInv'
    BY InvParts, HonestNews, Appended DEF KickBot
  <1> QED BY <1>1, <1>2, ClientStays, EngineStays, InvPartsNext DEF KickBot

LEMMA LoseKeeps == ASSUME LinksInv, LoseConnection PROVE LinksInv'
  <1>1. PeopleInv'
    BY InvParts, Moved DEF LoseConnection, PeopleInv
  <1>2. WireInv'
    BY EmptySeq DEF LoseConnection, WireInv
  <1>3. ClientType'
    BY InvParts DEF LoseConnection, ClientType
  <1>4. EngineType'
    BY InvParts, DisconnectAllType DEF LoseConnection
  <1> QED BY <1>1, <1>2, <1>3, <1>4, InvPartsNext

LEMMA LinksStep == ASSUME LinksInv, [Next]_vars PROVE LinksInv'
  <1>1. CASE UNCHANGED vars
    BY <1>1, ClientStays, EngineStays, InvParts, InvPartsNext DEF vars, server, client, engine, PeopleInv, WireInv
  <1>2. CASE People
    BY <1>2, EnterKeeps, DepartKeeps, ChangeKeeps, LogInKeeps DEF People
  <1>3. CASE Server
    BY <1>3, AnswerKeeps, AdmitKeeps, ReconnectKeeps DEF Server
  <1>4. CASE Bot
    BY <1>4, DeliverKeeps, KnockKeeps, LookKeeps, ReconcileKeeps DEF Bot
  <1>5. CASE KickBot \/ LoseConnection
    BY <1>5, KickKeeps, LoseKeeps
  <1>6. CASE \E k \in Keys : Gain(k) \/ Prune(k)
    BY <1>6, GainKeeps, PruneKeeps
  <1> QED BY <1>1, <1>2, <1>3, <1>4, <1>5, <1>6 DEF Next

LEMMA LinksAlways == Spec => []LinksInv
  BY LinksStart, LinksStep, PTL DEF Spec

(* Server, library and engine hold what they should, whoever uses whose nick: *)
(* a linked runner exists, and none is missing longer than the grace.         *)
THEOREM LinksTypes == Spec => []TypeOK
  <1>1. LinksInv => TypeOK
    BY DEF LinksInv
  <1> QED BY <1>1, LinksAlways, PTL

-----------------------------------------------------------------------------
(* Every runner goes on as some runner.                                       *)

GoesOn(j) == \E l \in users' : GoesOnAs(j, l)

LEMMA AsItWas ==
  ASSUME EngineType, NEW j \in users, NEW l \in users', played[j] \subseteq played'[l], rep'[l] = rep[j]
  PROVE  GoesOn(j)
  <1>1. rep[j] \in Nat
    BY Grace DEF EngineType
  <1> QED BY <1>1 DEF GoesOn, GoesOnAs

LEMMA LinkKeepsPlay ==
  ASSUME EngineType, NEW k \in Keys, NEW n, NEW p, NEW guests \in SUBSET Keys, k \notin guests,
         NEW off, Link(k, n, p, guests, off), NEW j \in users
  PROVE  GoesOn(j)
  <1>1. CASE j \in guests \cup {k}
    <2>1. k \in users' /\ played[j] \subseteq played'[k]
      BY <1>1 DEF Link
    <2>2. PICK r \in Merged(k, guests) :
            rep' = [i \in Keys |-> IF i = k THEN r ELSE IF i \in guests THEN 0 ELSE rep[i]]
      BY DEF Link
    <2>3. rep[j] <= rep'[k]
      BY <1>1, <2>2 DEF Merged
    <2> QED BY <2>1, <2>3 DEF GoesOn, GoesOnAs
  <1>2. CASE j \notin guests \cup {k}
    <2>1. j \in users' /\ played'[j] = played[j] /\ rep'[j] = rep[j]
      BY <1>2 DEF Link, EngineType
    <2> QED BY <2>1, AsItWas
  <1> QED BY <1>1, <1>2

LEMMA JoinKeepsPlay ==
  ASSUME EngineType, NEW n \in Nicks, NEW a \in Accounts \cup {None}, NEW p, NEW off, Join(n, a, p, off),
         NEW j \in users
  PROVE  GoesOn(j)
  <1>1. CASE a = None
    BY <1>1, KeyTypes, LinkKeepsPlay DEF Join
  <1>2. CASE a # None
    <2>1. PICK guests \in Migratable(n, a, off) : Link(AccountKey(a), n, p, guests, off)
      BY <1>2 DEF Join
    <2>2. guests \in SUBSET GuestKeys
      BY MigratableType
    <2>3. AccountKey(a) \in Keys /\ AccountKey(a) \notin guests /\ guests \in SUBSET Keys
      BY <1>2, <2>2, KeyTypes DEF Keys
    <2> QED BY <2>1, <2>3, LinkKeepsPlay
  <1> QED BY <1>1, <1>2

LEMMA StaysPlayed == ASSUME EngineType, UNCHANGED <<users, played, rep>>, NEW j \in users PROVE GoesOn(j)
  BY AsItWas

LEMMA RenameKeepsPlay ==
  ASSUME EngineType, NEW old, NEW n \in Nicks, NEW p, Rename(old, n, p), NEW j \in users
  PROVE  GoesOn(j)
  <1>1. CASE UNCHANGED engine
    BY <1>1, StaysPlayed DEF engine
  <1>2. ASSUME NEW k \in FindRunner(old), RenameRunner(k, n, p) PROVE GoesOn(j)
    <2> DEFINE new == Rekey(k, n)
    <2>1. k \in users /\ k \in Keys
      BY FoundType DEF EngineType
    <2>2. new \in Keys /\ (new \in users => new = k)
      BY <2>1, KeyTypes DEF Rekey
    <2>3. CASE j = k
      <3>1. new \in users' /\ played'[new] = played[k] \cup {p}
        BY <1>2, <2>1, <2>2 DEF RenameRunner, EngineType
      <3>2. rep'[new] = rep[k]
        BY <1>2, <2>1, <2>2 DEF RenameRunner, EngineType
      <3> QED BY <2>3, <3>1, <3>2, AsItWas
    <2>4. CASE j # k
      <3>1. j \in users' /\ j # new /\ j \in Keys
        BY <1>2, <2>2, <2>4 DEF RenameRunner, EngineType
      <3>2. played'[j] = played[j] /\ rep'[j] = rep[j]
        BY <1>2, <2>4, <3>1 DEF RenameRunner, EngineType
      <3> QED BY <3>1, <3>2, AsItWas
    <2> QED BY <2>3, <2>4
  <1> QED BY <1>1, <1>2 DEF Rename

LEMMA HandlerKeepsPlay ==
  ASSUME EngineType, NEW m, Honest(m), Handler(m), NEW j \in users
  PROVE  GoesOn(j)
  <1> USE HonestType
  <1>1. CASE m.kind = "JOIN"
    BY <1>1, JoinKeepsPlay DEF Handler
  <1>2. CASE m.kind = "NAMES"
    BY <1>2, JoinKeepsPlay DEF Handler
  <1>3. CASE m.kind = "PART"
    BY <1>3, StaysPlayed DEF Handler, Disconnect, engine
  <1>4. CASE m.kind = "NICK"
    BY <1>4, RenameKeepsPlay DEF Handler
  <1>5. CASE m.kind \in {"ACCOUNT", "WHOIS"}
    BY <1>5, JoinKeepsPlay DEF Handler, Bind
  <1>6. CASE m.kind = "KICKED"
    BY <1>6, StaysPlayed DEF Handler, DisconnectAll
  <1>7. CASE m.kind = "JOINED"
    BY <1>7, StaysPlayed DEF Handler, engine
  <1> QED BY <1>1, <1>2, <1>3, <1>4, <1>5, <1>6, <1>7

LEMMA StepKeepsPlay ==
  ASSUME LinksInv, Next, NEW j \in users
  PROVE  GoesOn(j) \/ Prune(j)
  <1>0. EngineType
    BY InvParts
  <1>1. CASE UNCHANGED engine
    BY <1>0, <1>1, StaysPlayed DEF engine
  <1>2. CASE Deliver
    <2>1. wire # <<>> /\ Handler(Head(wire)) /\ Honest(Head(wire))
      BY <1>2, InvParts, Headed DEF Deliver
    <2> QED BY <1>0, <2>1, HandlerKeepsPlay
  <1>3. CASE Reconcile
    BY <1>0, <1>3, StaysPlayed DEF Reconcile
  <1>4. CASE LoseConnection
    BY <1>0, <1>4, StaysPlayed DEF LoseConnection, DisconnectAll
  <1>5. CASE People \/ Server \/ Knock \/ Look \/ KickBot
    BY <1>1, <1>5 DEF People, Server, Enter, Depart, Change, LogIn, Move, Answer, Admit, Reconnect, Knock, Look, KickBot
  <1>6. ASSUME NEW k \in Keys, Gain(k) PROVE GoesOn(j)
    <2>1. j \in users' /\ played'[j] = played[j] /\ rep[j] \in Nat
      BY <1>0, <1>6, Grace DEF Gain, EngineType
    <2>2. rep[j] <= rep'[j]
      BY <1>0, <1>6, <2>1 DEF Gain, EngineType
    <2> QED BY <2>1, <2>2 DEF GoesOn, GoesOnAs
  <1>7. ASSUME NEW k \in Keys, Prune(k), k # j PROVE GoesOn(j)
    <2>1. j \in users' /\ played'[j] = played[j] /\ rep'[j] = rep[j]
      BY <1>0, <1>7 DEF Prune, EngineType
    <2> QED BY <1>0, <2>1, AsItWas
  <1> QED BY <1>2, <1>3, <1>4, <1>5, <1>6, <1>7 DEF Next, Bot

(* Whoever shares nicks and accounts with whomever, and however late messages *)
(* arrive: no join, migration, nick change, disconnect or outage takes Rep    *)
(* from a runner or from a person the runner that they played; only pruning a *)
(* guest does.                                                                *)
THEOREM PlayKept == Spec => PlayIsKept
  <1> DEFINE AllGoOn == \A k \in users : Prune(k) \/ \E j \in users' : GoesOnAs(k, j)
  <1>1. LinksInv /\ [Next]_vars => [AllGoOn]_vars
    BY StepKeepsPlay DEF GoesOn
  <1> QED BY <1>1, LinksAlways, PTL DEF Spec, PlayIsKept

-----------------------------------------------------------------------------
(* Whose play a runner carries.                                               *)

LEMMA OneOwner ==
  ASSUME Personal, NEW p \in Persons, NEW q \in Persons
  PROVE  /\ \A n : n \in OwnNicks[p] /\ n \in OwnNicks[q] => p = q
         /\ \A k : k \in OwnKeys(p) /\ k \in OwnKeys(q) => p = q
  <1>1. \A n : n \in OwnNicks[p] /\ n \in OwnNicks[q] => p = q
    BY DEF Personal
  <1>2. \A a : a \in OwnAccounts[p] /\ a \in OwnAccounts[q] => p = q
    BY DEF Personal
  <1>3. ASSUME NEW k, k \in OwnKeys(p), k \in OwnKeys(q) PROVE p = q
    <2>1. OwnNicks[p] \subseteq Nicks /\ OwnNicks[q] \subseteq Nicks /\ OwnAccounts[p] \subseteq Accounts /\ OwnAccounts[q] \subseteq Accounts
      BY Owns
    <2>2. CASE k \in GuestKeys
      <3>1. PICK n \in OwnNicks[p] : k = GuestKey(n)
        BY <1>3, <2>1, <2>2, KeyTypes DEF OwnKeys
      <3>2. PICK l \in OwnNicks[q] : k = GuestKey(l)
        BY <1>3, <2>1, <2>2, KeyTypes DEF OwnKeys
      <3> QED BY <1>1, <3>1, <3>2, KeyTypes
    <2>3. CASE k \notin GuestKeys
      <3>1. PICK a \in OwnAccounts[p] : k = AccountKey(a)
        BY <1>3, <2>1, <2>3, KeyTypes DEF OwnKeys
      <3>2. PICK b \in OwnAccounts[q] : k = AccountKey(b)
        BY <1>3, <2>1, <2>3, KeyTypes DEF OwnKeys
      <3> QED BY <1>2, <3>1, <3>2, KeyTypes
    <2> QED BY <2>2, <2>3
  <1> QED BY <1>1, <1>3

LEMMA OwnKeyTypes ==
  ASSUME NEW p \in Persons
  PROVE  /\ OwnKeys(p) \subseteq Keys
         /\ \A n \in OwnNicks[p] : GuestKey(n) \in OwnKeys(p) /\ n # None
         /\ \A a \in OwnAccounts[p] : AccountKey(a) \in OwnKeys(p) /\ a # None
  BY Owns, KeyTypes, NoneIsNone DEF OwnKeys

(* A runner linked under somebody's nick, or with a key of theirs, carries    *)
(* nobody else's play.                                                        *)
LEMMA OwnRunner ==
  ASSUME Personal, EngineType, OwnedInv, NEW p \in Persons, NEW k \in Keys,
         nickOf[k] \in OwnNicks[p] \/ k \in OwnKeys(p)
  PROVE  played[k] \subseteq {p}
  <1> SUFFICES ASSUME NEW q \in played[k] PROVE q = p
    OBVIOUS
  <1>1. q \in Persons /\ k \in OwnKeys(q) /\ nickOf[k] \in OwnNicks[q] \cup {None}
    BY DEF EngineType, OwnedInv
  <1>2. CASE nickOf[k] \in OwnNicks[p]
    <2>1. nickOf[k] # None
      BY <1>2, OwnKeyTypes
    <2> QED BY <1>1, <1>2, <2>1, OneOwner
  <1>3. CASE k \in OwnKeys(p)
    BY <1>1, <1>3, OneOwner
  <1> QED BY <1>2, <1>3

LEMMA FoundOwn ==
  ASSUME EngineType, NEW p \in Persons, NEW n \in OwnNicks[p], NEW k \in FindRunner(n)
  PROVE  k \in Keys /\ (nickOf[k] \in OwnNicks[p] \/ k \in OwnKeys(p))
  <1>1. k \in Keys
    BY FoundType DEF EngineType
  <1> QED BY <1>1, OwnKeyTypes DEF FindRunner, FindConnected

LEMMA MigrantsOwn ==
  ASSUME EngineType, NEW p \in Persons, NEW n \in OwnNicks[p], NEW a, NEW off,
         NEW guests \in Migratable(n, a, off), NEW g \in guests
  PROVE  g \in Keys /\ (nickOf[g] \in OwnNicks[p] \/ g \in OwnKeys(p))
  <1>1. g \in Keys
    BY MigratableType, Owns DEF Keys
  <1>2. CASE FindConnected(n, off) # {}
    BY <1>1, <1>2 DEF Migratable, FindConnected
  <1>3. CASE FindConnected(n, off) = {}
    BY <1>1, <1>3, OwnKeyTypes DEF Migratable
  <1> QED BY <1>2, <1>3

LEMMA LinkOwned ==
  ASSUME Personal, EngineType, OwnedInv, NEW p \in Persons, NEW k \in OwnKeys(p), NEW n \in OwnNicks[p],
         NEW guests \in SUBSET Keys, \A g \in guests : played[g] \subseteq {p},
         NEW off, Link(k, n, p, guests, off)
  PROVE  OwnedInv'
  <1>1. k \in Keys /\ n # None
    BY OwnKeyTypes
  <1>2. played[k] \subseteq {p}
    BY <1>1, OwnRunner
  <1>3. played'[k] = {p} /\ nickOf'[k] = n
    <2>1. {p} \cup UNION {played[g] : g \in guests \cup {k}} = {p}
      BY <1>2
    <2> QED BY <1>1, <2>1 DEF Link
  <1>4. ASSUME NEW j \in Keys, j # k
        PROVE  /\ \A q \in played'[j] : j \in OwnKeys(q) /\ nickOf'[j] \in OwnNicks[q] \cup {None}
               /\ j \in linked' => played'[j] # {} /\ nickOf'[j] # None
    <2>1. CASE j \in guests
      BY <1>4, <2>1 DEF Link
    <2>2. CASE j \notin guests
      <3>1. played'[j] = played[j] /\ nickOf'[j] = nickOf[j] /\ (j \in linked' => j \in linked)
        BY <1>4, <2>2 DEF Link
      <3> QED BY <3>1 DEF OwnedInv
    <2> QED BY <2>1, <2>2
  <1> QED BY <1>1, <1>3, <1>4 DEF OwnedInv

LEMMA JoinOwned ==
  ASSUME Personal, EngineType, OwnedInv, NEW p \in Persons, NEW n \in OwnNicks[p],
         NEW a \in OwnAccounts[p] \cup {None}, NEW off, Join(n, a, p, off)
  PROVE  OwnedInv'
  <1>1. CASE a = None
    <2>1. Link(GuestKey(n), n, p, {}, off)
      BY <1>1 DEF Join
    <2> QED BY <2>1, OwnKeyTypes, LinkOwned
  <1>2. CASE a # None
    <2>1. PICK guests \in Migratable(n, a, off) : Link(AccountKey(a), n, p, guests, off)
      BY <1>2 DEF Join
    <2>2. guests \in SUBSET Keys /\ \A g \in guests : played[g] \subseteq {p}
      BY MigrantsOwn, OwnRunner
    <2> QED BY <1>2, <2>1, <2>2, OwnKeyTypes, LinkOwned
  <1> QED BY <1>1, <1>2

LEMMA RekeyOwn ==
  ASSUME NEW p \in Persons, NEW k \in Keys, NEW n \in OwnNicks[p]
  PROVE  Rekey(k, n) \in Keys /\ (Rekey(k, n) = k \/ (Rekey(k, n) = GuestKey(n) /\ GuestKey(n) \notin users))
  BY OwnKeyTypes DEF Rekey

LEMMA RenameOwned ==
  ASSUME Personal, EngineType, OwnedInv, NEW p \in Persons, NEW old \in OwnNicks[p], NEW n \in OwnNicks[p],
         Rename(old, n, p)
  PROVE  OwnedInv'
  <1>1. CASE UNCHANGED engine
    BY <1>1 DEF engine, OwnedInv
  <1>2. ASSUME NEW k \in FindRunner(old), k \in linked, RenameRunner(k, n, p) PROVE OwnedInv'
    <2> DEFINE new == Rekey(k, n)
    <2>1. k \in Keys /\ played[k] \subseteq {p}
      BY FoundOwn, OwnRunner
    <2>2. played[k] = {p} /\ k \in OwnKeys(p)
      BY <1>2, <2>1 DEF OwnedInv
    <2>3. new \in Keys /\ new \in OwnKeys(p) /\ n # None
      BY <2>1, <2>2, RekeyOwn, OwnKeyTypes
    <2>4. played'[new] = {p} /\ nickOf'[new] = n
      BY <1>2, <2>1, <2>2, <2>3 DEF RenameRunner, EngineType
    <2>5. ASSUME NEW j \in Keys, j # new
          PROVE  /\ \A q \in played'[j] : j \in OwnKeys(q) /\ nickOf'[j] \in OwnNicks[q] \cup {None}
                 /\ j \in linked' => played'[j] # {} /\ nickOf'[j] # None
      <3>1. CASE j = k
        BY <1>2, <2>5, <3>1 DEF RenameRunner, EngineType
      <3>2. CASE j # k
        <4>1. played'[j] = played[j] /\ nickOf'[j] = nickOf[j] /\ (j \in linked' => j \in linked)
          BY <1>2, <2>5, <3>2 DEF RenameRunner, EngineType
        <4> QED BY <4>1 DEF OwnedInv
      <3> QED BY <3>1, <3>2
    <2> QED BY <2>3, <2>4, <2>5 DEF OwnedInv
  <1>3. CASE FindRunner(old) \cap linked # {}
    <2>1. PICK k \in FindRunner(old) : RenameRunner(k, n, p)
      BY <1>3 DEF Rename
    <2>2. k \in linked
      BY <1>3 DEF FindRunner, FindConnected
    <2> QED BY <1>2, <2>1, <2>2
  <1> QED BY <1>1, <1>3 DEF Rename

LEMMA FewerLinked ==
  ASSUME OwnedInv, linked' \subseteq linked, UNCHANGED <<nickOf, played>> PROVE OwnedInv'
  BY DEF OwnedInv

LEMMA HandlerOwned ==
  ASSUME Personal, EngineType, OwnedInv, NEW m, Honest(m), Handler(m) PROVE OwnedInv'
  <1>0. m.kind \notin {"JOINED", "KICKED"} => m.who \in Persons /\ m.nick \in OwnNicks[m.who]
    BY DEF Honest
  <1>1. CASE m.kind = "JOIN"
    BY <1>0, <1>1, JoinOwned DEF Handler, Honest
  <1>2. CASE m.kind = "NAMES"
    BY <1>0, <1>2, JoinOwned DEF Handler
  <1>3. CASE m.kind = "PART"
    <2>1. Disconnect(m.nick)
      BY <1>3 DEF Handler
    <2>2. linked' \subseteq linked /\ UNCHANGED <<nickOf, played>>
      BY <2>1 DEF Disconnect, engine
    <2> QED BY <2>2, FewerLinked
  <1>4. CASE m.kind = "NICK"
    BY <1>0, <1>4, RenameOwned DEF Handler, Honest
  <1>5. CASE m.kind \in {"ACCOUNT", "WHOIS"}
    BY <1>0, <1>5, JoinOwned DEF Handler, Bind, Honest
  <1>6. CASE m.kind = "KICKED"
    BY <1>6, FewerLinked DEF Handler, DisconnectAll
  <1>7. CASE m.kind = "JOINED"
    BY <1>7, FewerLinked DEF Handler, engine
  <1>8. m.kind \in {"JOIN", "NAMES", "PART", "NICK", "ACCOUNT", "WHOIS", "JOINED", "KICKED"}
    BY HonestType
  <1> QED BY <1>1, <1>2, <1>3, <1>4, <1>5, <1>6, <1>7, <1>8

LEMMA OwnedStart == Init => OwnedInv
  BY DEF Init, OwnedInv

LEMMA OwnedStep == ASSUME Personal, LinksInv, OwnedInv, [Next]_vars PROVE OwnedInv'
  <1>1. CASE UNCHANGED engine
    BY <1>1, FewerLinked DEF engine
  <1>2. CASE Deliver
    <2>1. wire # <<>> /\ Handler(Head(wire)) /\ Honest(Head(wire))
      BY <1>2, InvParts, Headed DEF Deliver
    <2> QED BY <2>1, InvParts, HandlerOwned
  <1>3. CASE Reconcile
    BY <1>3, FewerLinked DEF Reconcile
  <1>4. CASE LoseConnection
    BY <1>4, FewerLinked DEF LoseConnection, DisconnectAll
  <1>5. ASSUME NEW k \in Keys, Prune(k) PROVE OwnedInv'
    BY <1>5, InvParts DEF Prune, OwnedInv, EngineType
  <1>6. CASE People \/ Server \/ Knock \/ Look \/ KickBot
    BY <1>1, <1>6 DEF People, Server, Enter, Depart, Change, LogIn, Move, Answer, Admit, Reconnect, Knock, Look, KickBot
  <1>7. CASE UNCHANGED vars
    BY <1>1, <1>7 DEF vars
  <1>8. ASSUME NEW k \in Keys, Gain(k) PROVE OwnedInv'
    BY <1>8, FewerLinked DEF Gain
  <1> QED BY <1>2, <1>3, <1>4, <1>5, <1>6, <1>7, <1>8 DEF Next, Bot

LEMMA OwnedIsOwn == ASSUME Personal, LinksInv, OwnedInv PROVE PlayIsOwn
  <1>1. ASSUME NEW a \in Accounts, NEW p \in played[AccountKey(a)] PROVE a \in OwnAccounts[p]
    <2>1. AccountKey(a) \in Keys /\ p \in Persons
      BY KeyTypes, InvParts DEF EngineType
    <2>2. AccountKey(a) \in OwnKeys(p)
      BY <2>1 DEF OwnedInv
    <2> QED BY <2>1, <2>2, KeyTypes, Owns DEF OwnKeys
  <1>2. ASSUME NEW k \in Keys, NEW p \in played[k], NEW q \in played[k] PROVE p = q
    <2>1. p \in Persons /\ q \in Persons
      BY InvParts DEF EngineType
    <2> QED BY <2>1, OneOwner DEF OwnedInv
  <1> QED BY <1>1, <1>2 DEF PlayIsOwn, AccountIsOwn

LEMMA OwnedAlways == ASSUME Personal PROVE Spec => [](LinksInv /\ OwnedInv)
  <1>1. Init => OwnedInv
    BY OwnedStart
  <1>2. LinksInv /\ OwnedInv /\ [Next]_vars => OwnedInv'
    BY OwnedStep
  <1> QED BY <1>1, <1>2, LinksAlways, PTL DEF Spec

(* Where nobody uses another's nick or account, no order of joins, nick       *)
(* changes, logins, late WHOIS replies, kicks and lost connections makes a    *)
(* runner carry what two people played, or an account carry another's play.   *)
THEOREM PlayStaysOwn == ASSUME Personal PROVE Spec => []PlayIsOwn
  <1>1. LinksInv /\ OwnedInv => PlayIsOwn
    BY OwnedIsOwn
  <1> QED BY <1>1, OwnedAlways, PTL

-----------------------------------------------------------------------------
(* Whoever is in the channel is linked, or about to be.                       *)

(* The messages of others do not touch somebody's runner.                     *)
LEMMA Undisturbed ==
  ASSUME Personal, EngineType, OwnedInv, NEW p \in Persons,
         NEW k \in linked, nickOf[k] \in OwnNicks[p],
         NEW m, Honest(m), m.kind \notin {"JOINED", "KICKED"}, m.who # p, Handler(m)
  PROVE  k \in linked' /\ nickOf'[k] = nickOf[k]
  <1> DEFINE q == m.who
             n == m.nick
  <1>1. q \in Persons /\ n \in OwnNicks[q] /\ k \in Keys /\ k \in users
    BY DEF Honest, EngineType
  <1>2. k \in OwnKeys(p)
    <2>1. played[k] = {p}
      BY <1>1, OwnRunner DEF OwnedInv
    <2> QED BY <1>1, <2>1 DEF OwnedInv
  <1>3. k \notin OwnKeys(q) /\ nickOf[k] \notin OwnNicks[q]
    BY <1>1, <1>2, OneOwner
  <1>4. k \notin FindRunner(n) /\ k \notin FindConnected(n, {})
    BY <1>1, <1>3, FoundOwn DEF FindConnected
  <1>5. ASSUME NEW a \in OwnAccounts[q] \cup {None}, NEW off, k \notin off, Join(n, a, q, off)
        PROVE  k \in linked' /\ nickOf'[k] = nickOf[k]
    <2>1. CASE a = None
      <3>1. k # GuestKey(n)
        BY <1>1, <1>3, OwnKeyTypes
      <3> QED BY <1>1, <1>5, <2>1, <3>1 DEF Join, Link
    <2>2. CASE a # None
      <3>1. PICK guests \in Migratable(n, a, off) : Link(AccountKey(a), n, q, guests, off)
        BY <1>5, <2>2 DEF Join
      <3>2. k # AccountKey(a)
        BY <1>1, <1>3, <2>2, OwnKeyTypes
      <3>3. k \notin guests
        BY <1>1, <1>3, MigrantsOwn
      <3> QED BY <1>1, <1>5, <3>1, <3>2, <3>3 DEF Link
    <2> QED BY <2>1, <2>2
  <1>6. CASE m.kind \in {"JOIN", "NAMES"}
    BY <1>5, <1>6 DEF Handler, Honest
  <1>7. CASE m.kind = "PART"
    BY <1>4, <1>7 DEF Handler, Disconnect, engine
  <1>8. CASE m.kind = "NICK"
    <2>1. CASE UNCHANGED engine
      BY <2>1 DEF engine
    <2>2. ASSUME NEW j \in FindRunner(n), RenameRunner(j, m.arg, q) PROVE k \in linked' /\ nickOf'[k] = nickOf[k]
      <3>1. m.arg \in OwnNicks[q] /\ j \in Keys /\ j # k
        BY <1>1, <1>4, <1>8, FoundOwn DEF Honest
      <3>2. Rekey(j, m.arg) \in Keys /\ Rekey(j, m.arg) # k
        BY <1>1, <3>1, RekeyOwn
      <3> QED BY <1>1, <2>2, <3>1, <3>2 DEF RenameRunner, EngineType
    <2> QED BY <1>8, <2>1, <2>2 DEF Handler, Rename
  <1>9. CASE m.kind \in {"ACCOUNT", "WHOIS"}
    <2>1. m.arg \in OwnAccounts[q] /\ Bind(n, m.arg, q)
      BY <1>9 DEF Handler, Honest
    <2>2. CASE Join(n, m.arg, q, {})
      BY <1>5, <2>1, <2>2
    <2>3. ASSUME NEW j \in FindConnected(n, {}), Join(n, m.arg, q, {j} \cap (AccountKeys \ {AccountKey(m.arg)}))
          PROVE  k \in linked' /\ nickOf'[k] = nickOf[k]
      <3>1. k \notin {j} \cap (AccountKeys \ {AccountKey(m.arg)})
        BY <1>4
      <3> QED BY <1>5, <2>1, <2>3, <3>1
    <2> QED BY <2>1, <2>2, <2>3 DEF Bind
  <1>10. m.kind \in {"JOIN", "NAMES", "PART", "NICK", "ACCOUNT", "WHOIS", "JOINED", "KICKED"}
    BY HonestType
  <1> QED BY <1>6, <1>7, <1>8, <1>9, <1>10

HasRunner(n) == \E k \in linked : nickOf[k] = n

LEMMA Joined ==
  ASSUME EngineType, NEW n \in Nicks, NEW a \in Accounts \cup {None}, NEW p, NEW off, Join(n, a, p, off)
  PROVE  HasRunner(n)'
  <1>1. ASSUME NEW k \in Keys, NEW guests, Link(k, n, p, guests, off) PROVE HasRunner(n)'
    BY <1>1 DEF Link, HasRunner
  <1> QED BY <1>1, KeyTypes DEF Join

LEMMA Renamed ==
  ASSUME EngineType, NEW old, NEW n \in Nicks, NEW p, Rename(old, n, p), HasRunner(old)
  PROVE  HasRunner(n)'
  <1>1. FindRunner(old) \cap linked # {}
    BY DEF HasRunner, FindRunner, FindConnected
  <1>2. PICK k \in FindRunner(old) : RenameRunner(k, n, p)
    BY <1>1 DEF Rename
  <1>3. Rekey(k, n) \in Keys
    BY FoundType, KeyTypes DEF EngineType, Rekey
  <1> QED BY <1>2, <1>3 DEF RenameRunner, HasRunner, EngineType

(* The first message of a chain links somebody, or keeps them linked.         *)
LEMMA HeadLinks ==
  ASSUME Personal, LinksInv, OwnedInv, wire # <<>>, NEW p \in Persons,
         Handler(Head(wire)), roster' = Listed(Head(wire)),
         NEW j \in {0, 1}, NEW f \in [0..Len(wire) -> OwnNicks[p]], Follows(p, j, f)
  PROVE  f[1] \in roster' /\ HasRunner(f[1])'
  <1> DEFINE m == wire[1]
  <1>1. Len(wire) \in Nat \ {0} /\ Head(wire) = m /\ Honest(m) /\ WireInv /\ EngineType
    BY InvParts, Headed
  <1>2. m.kind \in {"JOIN", "NAMES", "PART", "NICK", "ACCOUNT", "WHOIS", "JOINED", "KICKED"}
    BY <1>1, HonestType
  <1>3. CASE j = 1
    <2>1. m.kind \in {"JOIN", "NAMES"} /\ m.nick = f[1]
      BY <1>3 DEF Follows
    <2>2. f[1] \in roster'
      BY <1>1, <2>1 DEF Listed
    <2>3. HasRunner(f[1])'
      BY <1>1, <2>1, HonestType, Joined DEF Handler
    <2> QED BY <2>2, <2>3
  <1>4. CASE j = 0
    <2>1. 1 \in 1..Len(wire) /\ 1 - 1 = 0 /\ 0 \in 0..Len(wire)
      BY <1>1
    <2>2. /\ f[0] \in roster /\ \E k \in linked : nickOf[k] = f[0]
          /\ m.kind \notin {"JOINED", "KICKED"}
          /\ m.who = p => m.kind \in {"NICK", "ACCOUNT", "WHOIS"} /\ m.nick = f[0]
          /\ f[1] = IF m.who = p /\ m.kind = "NICK" THEN m.arg ELSE f[0]
      BY <1>4, <2>1 DEF Follows
    <2>3. f[0] \in OwnNicks[p]
      BY <2>1
    <2>4. CASE m.who = p /\ m.kind = "NICK"
      <3>1. f[1] \in roster'
        BY <1>1, <2>2, <2>4 DEF Listed
      <3>2. Rename(f[0], f[1], p) /\ HasRunner(f[0]) /\ f[1] \in Nicks
        BY <1>1, <2>2, <2>4, HonestType DEF Handler, HasRunner
      <3>3. HasRunner(f[1])'
        BY <1>1, <3>2, Renamed
      <3> QED BY <3>1, <3>3
    <2>5. CASE m.who = p /\ m.kind # "NICK"
      <3>1. m.kind \in {"ACCOUNT", "WHOIS"} /\ f[1] = m.nick /\ f[1] = f[0]
        BY <2>2, <2>5
      <3>2. f[1] \in roster'
        BY <1>1, <2>2, <3>1 DEF Listed
      <3>3. HasRunner(f[1])'
        BY <1>1, <3>1, HonestType, Joined DEF Handler, Bind
      <3> QED BY <3>2, <3>3
    <2>6. CASE m.who # p
      <3>1. PICK k \in linked : nickOf[k] = f[0]
        BY <2>2
      <3>2. k \in linked' /\ nickOf'[k] = f[0]
        BY <1>1, <2>2, <2>3, <2>6, <3>1, Undisturbed
      <3>3. m.nick # f[0]
        BY <1>1, <2>2, <2>3, <2>6, OneOwner DEF Honest
      <3>4. f[0] \in roster'
        BY <1>1, <1>2, <2>2, <3>3 DEF Listed
      <3> QED BY <2>2, <2>6, <3>2, <3>4 DEF HasRunner
    <2> QED BY <2>4, <2>5, <2>6
  <1> QED BY <1>3, <1>4

LEMMA FollowDelivered ==
  ASSUME Personal, LinksInv, OwnedInv, Deliver, NEW p \in Persons, Followed(p)
  PROVE  Followed(p)'
  <1> DEFINE L == Len(wire)
  <1>1. PICK j \in 0..L, f \in [0..L -> OwnNicks[p]] : Follows(p, j, f)
    BY DEF Followed
  <1>2. wire # <<>> /\ wire' = Tail(wire) /\ nick' = nick /\ Handler(Head(wire)) /\ roster' = Listed(Head(wire))
    BY DEF Deliver, server
  <1>3. L \in Nat \ {0} /\ Len(wire') = L - 1 /\ \A i \in 1..L-1 : wire'[i] = wire[i+1]
    BY <1>2, InvParts, Headed
  <1> DEFINE h == IF j = 0 THEN 0 ELSE j - 1
  <1> PICK g : g = [i \in 0..Len(wire') |-> f[i+1]]
    OBVIOUS
  <1>4. g \in [0..Len(wire') -> OwnNicks[p]] /\ h \in 0..Len(wire')
    BY <1>3
  <1>5. g[Len(wire')] = nick'[p]
    BY <1>1, <1>2, <1>3 DEF Follows
  <1>6. IF h = 0 THEN g[0] \in roster' /\ \E k \in linked' : nickOf'[k] = g[0]
        ELSE wire'[h].kind \in {"JOIN", "NAMES"} /\ wire'[h].who = p /\ wire'[h].nick = g[h]
    <2>1. CASE j \in {0, 1}
      <3>1. h = 0 /\ g[0] = f[1]
        BY <1>3, <2>1
      <3> QED BY <1>1, <1>2, <2>1, <3>1, HeadLinks DEF HasRunner
    <2>2. CASE j \notin {0, 1}
      <3>1. h \in 1..L-1 /\ h \in 0..Len(wire') /\ h + 1 = j /\ h # 0 /\ j # 0
        BY <1>3, <2>2
      <3>2. g[h] = f[j] /\ wire'[h] = wire[j]
        BY <1>3, <3>1
      <3> QED BY <1>1, <3>1, <3>2 DEF Follows
    <2> QED BY <2>1, <2>2
  <1>7. ASSUME NEW i \in (h+1)..Len(wire')
        PROVE  /\ wire'[i].kind \notin {"JOINED", "KICKED"}
               /\ wire'[i].who = p => wire'[i].kind \in {"NICK", "ACCOUNT", "WHOIS"} /\ wire'[i].nick = g[i-1]
               /\ g[i] = IF wire'[i].who = p /\ wire'[i].kind = "NICK" THEN wire'[i].arg ELSE g[i-1]
    <2>1. i + 1 \in (j+1)..L /\ wire'[i] = wire[i+1] /\ g[i] = f[i+1] /\ g[i-1] = f[(i+1)-1]
      BY <1>3
    <2> QED BY <1>1, <2>1 DEF Follows
  <1>8. Follows(p, h, g)'
    BY <1>5, <1>6, <1>7 DEF Follows
  <1> QED BY <1>4, <1>8 DEF Followed

(* What others say, and what the server says of an account, changes nothing.  *)
LEMMA FollowExtended ==
  ASSUME LinksInv, NEW p \in Persons, Followed(p), NEW s \in Seq(Messages), wire' = wire \o s,
         nick'[p] = nick[p], UNCHANGED <<roster, linked, nickOf>>,
         \A i \in 1..Len(s) : /\ s[i].kind \notin {"JOINED", "KICKED"}
                              /\ s[i].who = p => s[i].kind \in {"ACCOUNT", "WHOIS"} /\ s[i].nick = nick[p]
  PROVE  Followed(p)'
  <1> DEFINE L == Len(wire)
  <1>1. PICK j \in 0..L, f \in [0..L -> OwnNicks[p]] : Follows(p, j, f)
    BY DEF Followed
  <1>2. /\ L \in Nat /\ Len(s) \in Nat /\ Len(wire') = L + Len(s)
        /\ \A i \in 1..Len(wire') : wire'[i] = IF i <= L THEN wire[i] ELSE s[i - L]
    BY InvParts, ConcatProperties, LenProperties DEF WireInv
  <1> PICK g : g = [i \in 0..Len(wire') |-> IF i <= L THEN f[i] ELSE f[L]]
    OBVIOUS
  <1>3. g \in [0..Len(wire') -> OwnNicks[p]] /\ j \in 0..Len(wire') /\ \A i \in 0..L : g[i] = f[i]
    BY <1>2
  <1>4. f[L] = nick[p] /\ \A i \in L..Len(wire') : g[i] = nick[p]
    BY <1>1, <1>2, <1>3 DEF Follows
  <1>5. IF j = 0 THEN g[0] \in roster' /\ \E k \in linked' : nickOf'[k] = g[0]
        ELSE wire'[j].kind \in {"JOIN", "NAMES"} /\ wire'[j].who = p /\ wire'[j].nick = g[j]
    <2>1. g[0] = f[0] /\ g[j] = f[j] /\ (j # 0 => wire'[j] = wire[j])
      BY <1>2, <1>3
    <2> QED BY <1>1, <2>1 DEF Follows
  <1>6. ASSUME NEW i \in (j+1)..Len(wire')
        PROVE  /\ wire'[i].kind \notin {"JOINED", "KICKED"}
               /\ wire'[i].who = p => wire'[i].kind \in {"NICK", "ACCOUNT", "WHOIS"} /\ wire'[i].nick = g[i-1]
               /\ g[i] = IF wire'[i].who = p /\ wire'[i].kind = "NICK" THEN wire'[i].arg ELSE g[i-1]
    <2>1. CASE i <= L
      <3>1. i \in (j+1)..L /\ wire'[i] = wire[i] /\ g[i] = f[i] /\ g[i-1] = f[i-1]
        BY <1>2, <1>3, <2>1
      <3> QED BY <1>1, <3>1 DEF Follows
    <2>2. CASE ~(i <= L)
      <3>1. i \in 1..Len(wire') /\ i \in L..Len(wire') /\ i - 1 \in L..Len(wire') /\ i - L \in 1..Len(s)
        BY <1>2, <2>2
      <3>2. wire'[i] = s[i - L] /\ g[i] = nick[p] /\ g[i-1] = nick[p]
        BY <1>2, <1>4, <2>2, <3>1
      <3> QED BY <3>1, <3>2
    <2> QED BY <2>1, <2>2
  <1>7. g[Len(wire')] = nick'[p]
    <2>1. Len(wire') \in L..Len(wire')
      BY <1>2
    <2> QED BY <1>4, <2>1
  <1>8. Follows(p, j, g)'
    BY <1>5, <1>6, <1>7 DEF Follows
  <1> QED BY <1>3, <1>8 DEF Followed

LEMMA FollowRenamed ==
  ASSUME LinksInv, NEW p \in Persons, Followed(p), NEW n \in OwnNicks[p],
         wire' = Append(wire, Message("NICK", p, nick[p], n)),
         nick'[p] = n, UNCHANGED <<roster, linked, nickOf>>
  PROVE  Followed(p)'
  <1> DEFINE L == Len(wire)
             m == Message("NICK", p, nick[p], n)
  <1>1. PICK j \in 0..L, f \in [0..L -> OwnNicks[p]] : Follows(p, j, f)
    BY DEF Followed
  <1>2. L \in Nat /\ f[L] = nick[p]
    BY <1>1, InvParts, LenProperties DEF WireInv, Follows
  <1>3. m \in Messages /\ m.kind = "NICK" /\ m.who = p /\ m.nick = nick[p] /\ m.arg = n
    <2>1. nick[p] \in OwnNicks[p]
      BY <1>2
    <2> QED BY <2>1, HonestMessage DEF Honest, Message
  <1>4. Len(wire') = L + 1 /\ wire'[L+1] = m /\ \A i \in 1..L : wire'[i] = wire[i]
    BY <1>3, InvParts, AppendProperties DEF WireInv
  <1> PICK g : g = [i \in 0..Len(wire') |-> IF i <= L THEN f[i] ELSE n]
    OBVIOUS
  <1>5. g \in [0..Len(wire') -> OwnNicks[p]] /\ j \in 0..Len(wire') /\ g[L+1] = n /\ \A i \in 0..L : g[i] = f[i]
    BY <1>2, <1>4
  <1>6. IF j = 0 THEN g[0] \in roster' /\ \E k \in linked' : nickOf'[k] = g[0]
        ELSE wire'[j].kind \in {"JOIN", "NAMES"} /\ wire'[j].who = p /\ wire'[j].nick = g[j]
    <2>1. g[0] = f[0] /\ g[j] = f[j] /\ (j # 0 => wire'[j] = wire[j])
      BY <1>2, <1>4, <1>5
    <2> QED BY <1>1, <2>1 DEF Follows
  <1>7. ASSUME NEW i \in (j+1)..Len(wire')
        PROVE  /\ wire'[i].kind \notin {"JOINED", "KICKED"}
               /\ wire'[i].who = p => wire'[i].kind \in {"NICK", "ACCOUNT", "WHOIS"} /\ wire'[i].nick = g[i-1]
               /\ g[i] = IF wire'[i].who = p /\ wire'[i].kind = "NICK" THEN wire'[i].arg ELSE g[i-1]
    <2>1. CASE i <= L
      <3>1. i \in (j+1)..L /\ wire'[i] = wire[i] /\ g[i] = f[i] /\ g[i-1] = f[i-1]
        BY <1>2, <1>4, <1>5, <2>1
      <3> QED BY <1>1, <3>1 DEF Follows
    <2>2. CASE ~(i <= L)
      <3>1. i = L + 1 /\ i - 1 = L
        BY <1>2, <1>4, <2>2
      <3>2. wire'[i] = m /\ g[i] = n /\ g[i-1] = nick[p]
        BY <1>2, <1>4, <1>5, <3>1
      <3> QED BY <1>3, <3>2
    <2> QED BY <2>1, <2>2
  <1>8. Follows(p, j, g)'
    BY <1>4, <1>5, <1>6, <1>7 DEF Follows
  <1> QED BY <1>5, <1>8 DEF Followed

LEMMA FollowTold ==
  ASSUME LinksInv, NEW p \in Persons, Followed(p), NEW m, Honest(m), m.kind \notin {"JOINED", "KICKED"},
         m.who = p => m.kind \in {"ACCOUNT", "WHOIS"} /\ m.nick = nick[p],
         wire' = Append(wire, m), nick'[p] = nick[p], UNCHANGED <<roster, linked, nickOf>>
  PROVE  Followed(p)'
  <1>1. m \in Messages
    BY DEF Honest
  <1>2. <<m>> \in Seq(Messages) /\ Len(<<m>>) = 1 /\ <<m>>[1] = m /\ wire' = wire \o <<m>>
    BY <1>1, InvParts, OneMore
  <1>3. \A i \in 1..Len(<<m>>) : /\ <<m>>[i].kind \notin {"JOINED", "KICKED"}
                                 /\ <<m>>[i].who = p => <<m>>[i].kind \in {"ACCOUNT", "WHOIS"} /\ <<m>>[i].nick = nick[p]
    BY <1>2
  <1> QED BY <1>2, <1>3, FollowExtended

(* A step that sends nothing, and leaves the runners on the user list alone.  *)
LEMMA FollowKept ==
  ASSUME NEW p \in Persons, Followed(p), UNCHANGED <<wire, nick, roster>>,
         \A k \in linked : nickOf[k] \in roster => k \in linked' /\ nickOf'[k] = nickOf[k]
  PROVE  Followed(p)'
  <1>1. PICK j \in 0..Len(wire), f \in [0..Len(wire) -> OwnNicks[p]] : Follows(p, j, f)
    BY DEF Followed
  <1>2. ASSUME f[0] \in roster, NEW k \in linked, nickOf[k] = f[0] PROVE \E l \in linked' : nickOf'[l] = f[0]
    BY <1>2
  <1>3. Follows(p, j, f)'
    BY <1>1, <1>2 DEF Follows
  <1> QED BY <1>3 DEF Followed

(* A message that links somebody, and nothing about them after it.            *)
LEMMA FollowStarts ==
  ASSUME NEW p \in Persons, nick'[p] \in OwnNicks[p], Len(wire') \in Nat, NEW j \in 1..Len(wire'),
         wire'[j].kind \in {"JOIN", "NAMES"}, wire'[j].who = p, wire'[j].nick = nick'[p],
         \A i \in (j+1)..Len(wire') : wire'[i].kind \notin {"JOINED", "KICKED"} /\ wire'[i].who # p
  PROVE  Followed(p)'
  <1> PICK n : n = nick'[p]
    OBVIOUS
  <1> PICK f : f = [i \in 0..Len(wire') |-> n]
    OBVIOUS
  <1>1. f \in [0..Len(wire') -> OwnNicks[p]] /\ j \in 0..Len(wire') /\ j # 0 /\ f[j] = n /\ f[Len(wire')] = n
    OBVIOUS
  <1>2. \A i \in (j+1)..Len(wire') : i \in 0..Len(wire') /\ i - 1 \in 0..Len(wire')
    OBVIOUS
  <1>3. \A i \in (j+1)..Len(wire') : f[i] = f[i-1]
    BY <1>2
  <1>4. Follows(p, j, f)'
    BY <1>1, <1>3 DEF Follows
  <1> QED BY <1>1, <1>4 DEF Followed

LEMMA EnterFollowed ==
  ASSUME LinksInv, FollowedInv, NEW r \in Persons, NEW n, Enter(r, n)
  PROVE  FollowedInv'
  <1> SUFFICES ASSUME bot' = "in", ~raced', NEW p \in inside' PROVE Followed(p)'
    BY DEF FollowedInv
  <1> DEFINE m == Message("JOIN", r, n, IF "extended-join" \in Caps THEN login[r] ELSE None)
  <1>1. bot = "in" /\ ~raced /\ UNCHANGED <<roster, linked, nickOf>>
    BY DEF Enter, Move, client, engine
  <1>2. Honest(m) /\ m \in Messages /\ m.kind = "JOIN" /\ m.who = r /\ m.nick = n /\ n \in OwnNicks[r]
    BY HonestMessage, InvParts DEF Enter, PeopleInv, Message, Honest
  <1>3. wire' = Append(wire, m) /\ wire \in Seq(Messages)
    BY <1>1, InvParts DEF Enter, Tell, WireInv
  <1>4. nick \in [Persons -> Nicks \cup {None}] /\ inside \subseteq Persons
    BY InvParts DEF PeopleInv
  <1>5. CASE p = r
    <2>1. Len(wire') = Len(wire) + 1 /\ wire'[Len(wire) + 1] = m /\ Len(wire) \in Nat
      BY <1>2, <1>3, AppendProperties, LenProperties
    <2>2. nick'[p] = n
      BY <1>4, <1>5 DEF Enter
    <2>3. Len(wire') \in 1..Len(wire') /\ (Len(wire') + 1)..Len(wire') = {}
      BY <2>1
    <2> QED BY <1>2, <1>5, <2>1, <2>2, <2>3, FollowStarts
  <1>6. CASE p # r
    <2>1. p \in inside /\ p \in Persons /\ nick'[p] = nick[p]
      BY <1>4, <1>6 DEF Enter
    <2>2. Followed(p)
      BY <1>1, <2>1 DEF FollowedInv
    <2> QED BY <1>1, <1>2, <1>3, <1>6, <2>1, <2>2, FollowTold
  <1> QED BY <1>5, <1>6

LEMMA DepartFollowed ==
  ASSUME LinksInv, FollowedInv, NEW r \in Persons, NEW n, Depart(r, n)
  PROVE  FollowedInv'
  <1> SUFFICES ASSUME bot' = "in", ~raced', NEW p \in inside' PROVE Followed(p)'
    BY DEF FollowedInv
  <1> DEFINE m == Message("PART", r, nick[r], None)
  <1>1. bot = "in" /\ ~raced /\ UNCHANGED <<roster, linked, nickOf>>
    BY DEF Depart, Move, client, engine
  <1>2. Honest(m) /\ m.kind = "PART" /\ m.who = r
    BY HonestMessage, InvParts DEF Depart, PeopleInv, Message
  <1>3. wire' = Append(wire, m)
    BY <1>1 DEF Depart, Tell
  <1>4. p \in inside /\ p \in Persons /\ p # r /\ nick'[p] = nick[p]
    BY InvParts DEF Depart, PeopleInv
  <1>5. Followed(p)
    BY <1>1, <1>4 DEF FollowedInv
  <1> QED BY <1>1, <1>2, <1>3, <1>4, <1>5, FollowTold

LEMMA ChangeFollowed ==
  ASSUME LinksInv, FollowedInv, NEW r \in Persons, NEW n, Change(r, n)
  PROVE  FollowedInv'
  <1> SUFFICES ASSUME bot' = "in", ~raced', NEW p \in inside' PROVE Followed(p)'
    BY DEF FollowedInv
  <1> DEFINE m == Message("NICK", r, nick[r], n)
  <1>1. bot = "in" /\ ~raced /\ UNCHANGED <<roster, linked, nickOf, inside>>
    BY DEF Change, Move, client, engine
  <1>2. Honest(m) /\ m.kind = "NICK" /\ m.who = r /\ n \in OwnNicks[r]
    BY HonestMessage, InvParts DEF Change, PeopleInv, Message
  <1>3. p \in Persons /\ p \in inside /\ Followed(p)
    BY <1>1, InvParts DEF PeopleInv, FollowedInv
  <1>4. nick'[r] = n /\ (p # r => nick'[p] = nick[p])
    BY <1>3, InvParts DEF Change, PeopleInv
  <1>5. CASE r \in inside
    <2>1. wire' = Append(wire, m)
      BY <1>1, <1>5 DEF Change, Tell
    <2> QED BY <1>1, <1>2, <1>3, <1>4, <2>1, FollowTold, FollowRenamed
  <1>6. CASE r \notin inside
    <2>1. wire' = wire /\ p # r
      BY <1>3, <1>6 DEF Change
    <2>2. PICK j \in 0..Len(wire), f \in [0..Len(wire) -> OwnNicks[p]] : Follows(p, j, f)
      BY <1>3 DEF Followed
    <2>3. Follows(p, j, f)'
      BY <1>1, <1>4, <2>1, <2>2 DEF Follows
    <2> QED BY <2>1, <2>3 DEF Followed
  <1> QED BY <1>5, <1>6

LEMMA LogInFollowed ==
  ASSUME LinksInv, FollowedInv, NEW r \in Persons, NEW a, LogIn(r, a)
  PROVE  FollowedInv'
  <1> SUFFICES ASSUME bot' = "in", ~raced', NEW p \in inside' PROVE Followed(p)'
    BY DEF FollowedInv
  <1>1. bot = "in" /\ ~raced /\ UNCHANGED <<roster, linked, nickOf, inside, nick>>
    BY DEF LogIn, Move, client, engine
  <1>2. p \in Persons /\ Followed(p)
    BY <1>1, InvParts DEF PeopleInv, FollowedInv
  <1>3. CASE UNCHANGED wire
    BY <1>1, <1>2, <1>3, FollowKept
  <1>4. CASE r \in inside /\ a # None /\ Tell(Message("ACCOUNT", r, nick[r], a))
    <2> DEFINE m == Message("ACCOUNT", r, nick[r], a)
    <2>1. Honest(m) /\ m.kind = "ACCOUNT" /\ m.who = r /\ m.nick = nick[r]
      BY <1>4, HonestMessage, InvParts DEF LogIn, PeopleInv, Message
    <2>2. wire' = Append(wire, m)
      BY <1>1, <1>4 DEF Tell
    <2> QED BY <1>1, <1>2, <2>1, <2>2, FollowTold
  <1> QED BY <1>3, <1>4 DEF LogIn

LEMMA AnswerFollowed ==
  ASSUME LinksInv, FollowedInv, NEW n \in Nicks, Answer(n)
  PROVE  FollowedInv'
  <1> SUFFICES ASSUME bot' = "in", ~raced', NEW p \in inside' PROVE Followed(p)'
    BY DEF FollowedInv
  <1>1. bot = "in" /\ ~raced /\ UNCHANGED <<roster, linked, nickOf, inside, nick>>
    BY DEF Answer, server, client, engine
  <1>2. p \in Persons /\ Followed(p)
    BY <1>1, InvParts DEF PeopleInv, FollowedInv
  <1>3. wire' = wire \o Replies(n)
    BY DEF Answer, Replies
  <1>4. ASSUME NEW i \in 1..Len(Replies(n))
        PROVE  /\ Replies(n)[i].kind \notin {"JOINED", "KICKED"}
               /\ Replies(n)[i].who = p => Replies(n)[i].kind \in {"ACCOUNT", "WHOIS"} /\ Replies(n)[i].nick = nick[p]
    <2>1. PICK q \in Persons : nick[q] = n /\ Replies(n)[i] = Message("WHOIS", q, n, login[q])
      BY RepliesAre
    <2> QED BY <2>1 DEF Message
  <1> QED BY <1>1, <1>2, <1>3, <1>4, RepliesAre, FollowExtended

LEMMA AdmitFollowed ==
  ASSUME LinksInv, FollowedInv, Admit
  PROVE  FollowedInv'
  <1> SUFFICES ASSUME bot' = "in", ~raced', NEW p \in inside' PROVE Followed(p)'
    BY DEF FollowedInv
  <1> DEFINE welcome == Message("JOINED", None, None, None)
             start == wire \o <<welcome>>
  <1>1. p \in inside /\ p \in Persons /\ nick'[p] = nick[p] /\ nick[p] \in OwnNicks[p]
    BY InvParts DEF Admit, PeopleInv
  <1>2. wire' = start \o Census
    BY DEF Admit, Census
  <1>3. start \in Seq(Messages) /\ Census \in Seq(Messages)
    BY HonestNews, OneMore, CensusIs, ConcatProperties, InvParts DEF Honest, WireInv
  <1>4. /\ Len(start) \in Nat /\ Len(Census) \in Nat /\ Len(wire') = Len(start) + Len(Census)
        /\ \A i \in 1..Len(wire') : wire'[i] = IF i <= Len(start) THEN start[i] ELSE Census[i - Len(start)]
    BY <1>2, <1>3, ConcatProperties, LenProperties
  <1>5. PICK c \in 1..Len(Census) : Census[c] = Message("NAMES", p, nick[p], None)
    BY <1>1, CensusIs
  <1>6. PICK j : j = Len(start) + c
    OBVIOUS
  <1>7. j \in 1..Len(wire') /\ wire'[j] = Message("NAMES", p, nick[p], None)
    <2>1. j \in 1..Len(wire') /\ ~(j <= Len(start)) /\ j - Len(start) = c
      BY <1>4, <1>6
    <2> QED BY <1>4, <1>5, <2>1
  <1>8. ASSUME NEW i \in (j+1)..Len(wire') PROVE wire'[i].kind \notin {"JOINED", "KICKED"} /\ wire'[i].who # p
    <2>1. i \in 1..Len(wire') /\ ~(i <= Len(start)) /\ i - Len(start) \in 1..Len(Census) /\ i - Len(start) # c
      BY <1>4, <1>6, <1>7
    <2>2. PICK d \in 1..Len(Census) : d = i - Len(start)
      BY <2>1
    <2>3. PICK q \in inside : Census[d] = Message("NAMES", q, nick[q], None)
      BY CensusIs
    <2>4. q # p
      BY <1>5, <2>1, <2>2, <2>3, CensusIs
    <2>5. wire'[i] = Message("NAMES", q, nick[q], None)
      BY <1>4, <2>1, <2>2, <2>3
    <2> QED BY <2>4, <2>5 DEF Message
  <1>9. wire'[j].kind \in {"JOIN", "NAMES"} /\ wire'[j].who = p /\ wire'[j].nick = nick'[p]
    BY <1>1, <1>7 DEF Message
  <1>10. Len(wire') \in Nat
    BY <1>4
  <1> QED BY <1>1, <1>7, <1>8, <1>9, <1>10, FollowStarts

LEMMA ReconcileFollowed ==
  ASSUME LinksInv, FollowedInv, Reconcile
  PROVE  FollowedInv'
  <1> SUFFICES ASSUME bot' = "in", ~raced', NEW p \in inside' PROVE Followed(p)'
    BY DEF FollowedInv
  <1>1. PICK present \in glance :
          /\ linked' = linked \ Due(present)
          /\ raced' = (raced \/ \E k \in Due(present) : nickOf[k] \in roster)
    BY DEF Reconcile
  <1>2. ~raced /\ \A k \in Due(present) : nickOf[k] \notin roster
    BY <1>1
  <1>3. UNCHANGED <<wire, nick, roster, nickOf, inside, bot>>
    BY DEF Reconcile, server
  <1>4. p \in Persons /\ Followed(p)
    BY <1>2, <1>3, InvParts DEF PeopleInv, FollowedInv
  <1>5. \A k \in linked : nickOf[k] \in roster => k \in linked' /\ nickOf'[k] = nickOf[k]
    BY <1>1, <1>2, <1>3
  <1> QED BY <1>3, <1>4, <1>5, FollowKept

LEMMA FollowedStep ==
  ASSUME Personal, LinksInv, OwnedInv, FollowedInv, [Next]_vars
  PROVE  FollowedInv'
  <1>1. CASE People
    BY <1>1, EnterFollowed, DepartFollowed, ChangeFollowed, LogInFollowed DEF People
  <1>2. CASE \E n \in Nicks : Answer(n)
    BY <1>2, AnswerFollowed
  <1>3. CASE Admit
    BY <1>3, AdmitFollowed
  <1>4. CASE Reconnect \/ Knock \/ KickBot \/ LoseConnection
    BY <1>4 DEF Reconnect, Knock, KickBot, LoseConnection, FollowedInv
  <1>5. CASE Deliver
    <2>1. UNCHANGED <<bot, inside>> /\ inside \subseteq Persons
      BY <1>5, InvParts DEF Deliver, server, PeopleInv
    <2>2. raced' = raced
      <3>1. Handler(Head(wire)) /\ Honest(Head(wire))
        BY <1>5, InvParts, Headed DEF Deliver
      <3> QED BY <3>1, HonestType DEF Handler, Join, Link, Bind, Disconnect, Rename, RenameRunner, DisconnectAll, engine
    <2> QED BY <1>5, <2>1, <2>2, FollowDelivered DEF FollowedInv
  <1>6. CASE Reconcile
    BY <1>6, ReconcileFollowed
  <1>7. CASE Look \/ (\E k \in Keys : Gain(k)) \/ UNCHANGED vars
    <2>1. UNCHANGED <<bot, raced, inside, wire, nick, roster, linked, nickOf>> /\ inside \subseteq Persons
      BY <1>7, InvParts DEF Look, Gain, vars, server, client, engine, PeopleInv
    <2> QED BY <2>1, FollowKept DEF FollowedInv
  <1>8. ASSUME NEW k \in Keys, Prune(k) PROVE FollowedInv'
    <2>1. UNCHANGED <<bot, raced, inside, wire, nick, roster, linked>> /\ inside \subseteq Persons
      BY <1>8, InvParts DEF Prune, server, client, PeopleInv
    <2>2. \A l \in linked : nickOf'[l] = nickOf[l]
      BY <1>8, InvParts DEF Prune, EngineType
    <2> QED BY <2>1, <2>2, FollowKept DEF FollowedInv
  <1> QED BY <1>1, <1>2, <1>3, <1>4, <1>5, <1>6, <1>7, <1>8 DEF Next, Server, Bot

LEMMA FollowedTracked == ASSUME LinksInv, FollowedInv PROVE TrackedUnlessRaced
  <1> SUFFICES ASSUME ~raced, Quiet, NEW p \in inside PROVE \E k \in linked : nickOf[k] = nick[p]
    BY DEF TrackedUnlessRaced, Tracked
  <1>1. Len(wire) = 0
    BY DEF Quiet
  <1>2. PICK j \in 0..Len(wire), f \in [0..Len(wire) -> OwnNicks[p]] : Follows(p, j, f)
    BY DEF FollowedInv, Followed, Quiet
  <1>3. j = 0
    BY <1>1
  <1> QED BY <1>1, <1>2, <1>3 DEF Follows

(* Where nobody uses another's nick or account: once everything on the way    *)
(* has arrived, everybody in the channel has a linked runner under the nick   *)
(* they have, whatever was sent and lost before, unless Reconcile worked on   *)
(* an old copy of the user list.                                              *)
THEOREM EverybodyTracked == ASSUME Personal PROVE Spec => []TrackedUnlessRaced
  <1>1. Init => FollowedInv
    BY DEF Init, FollowedInv
  <1>2. LinksInv /\ OwnedInv /\ FollowedInv /\ [Next]_vars => FollowedInv'
    BY FollowedStep
  <1>3. LinksInv /\ FollowedInv => TrackedUnlessRaced
    BY FollowedTracked
  <1> QED BY <1>1, <1>2, <1>3, OwnedAlways, PTL DEF Spec

=============================================================================
