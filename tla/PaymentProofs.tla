--------------------------- MODULE PaymentProofs ----------------------------
(***************************************************************************)
(* What TLAPS proves of the payments that World counts, for every set of   *)
(* runners, size of team, number of events, crashes and failing writes:    *)
(* nobody is paid what was not promised.                                   *)
(***************************************************************************)
EXTENDS WorldProofs

-----------------------------------------------------------------------------
(* Units: what is counted, one by one.                                        *)

Numbers == [Keys -> Nat]

LEMMA UnitOf ==
  ASSUME NEW f \in Numbers
  PROVE  /\ \A u \in Units(f) : \E k \in Keys, i \in Nat : u = <<k, i>> /\ 1 <= i /\ i <= f[k]
         /\ \A k \in Keys, i \in Nat : 1 <= i /\ i <= f[k] => <<k, i>> \in Units(f)
         /\ \A k \in Keys, i \in Nat : <<k, i>> \in Units(f) => 1 <= i /\ i <= f[k]
  <1>1. \A k \in Keys : f[k] \in Nat
    BY DEF Numbers
  <1>2. \A u : u \in Units(f) <=> \E k \in Keys : u \in {k} \X (1..f[k])
    BY DEF Units
  <1>3. ASSUME NEW u \in Units(f)
        PROVE  \E k \in Keys, i \in Nat : u = <<k, i>> /\ 1 <= i /\ i <= f[k]
    <2>1. PICK k \in Keys : u \in {k} \X (1..f[k])
      BY <1>2
    <2>2. PICK i \in 1..f[k] : u = <<k, i>>
      BY <2>1
    <2>3. i \in Nat /\ 1 <= i /\ i <= f[k]
      BY <1>1, <2>2
    <2> QED BY <2>2, <2>3
  <1>4. ASSUME NEW k \in Keys, NEW i \in Nat, 1 <= i, i <= f[k]
        PROVE  <<k, i>> \in Units(f)
    <2>1. i \in 1..f[k]
      BY <1>1, <1>4
    <2>2. <<k, i>> \in {k} \X (1..f[k])
      BY <2>1
    <2> QED BY <1>2, <2>2
  <1>5. ASSUME NEW k \in Keys, NEW i \in Nat, <<k, i>> \in Units(f)
        PROVE  1 <= i /\ i <= f[k]
    <2>1. PICK j \in Keys, m \in Nat : <<k, i>> = <<j, m>> /\ 1 <= m /\ m <= f[j]
      BY <1>3, <1>5
    <2> QED BY <2>1
  <1> QED BY <1>3, <1>4, <1>5

LEMMA UnitsNone == Units(NoTeam) = {} /\ IsFiniteSet(Units(NoTeam)) /\ Cardinality(Units(NoTeam)) = 0
  <1>1. NoTeam \in Numbers /\ \A k \in Keys : NoTeam[k] = 0
    BY DEF NoTeam, Numbers
  <1>2. Units(NoTeam) = {}
    BY <1>1, UnitOf
  <1> QED BY <1>2, FS_EmptySet

LEMMA UnitsFewer ==
  ASSUME NEW f \in Numbers, NEW q \in Numbers, \A k \in Keys : q[k] <= f[k]
  PROVE  Units(q) \subseteq Units(f)
  <1> SUFFICES ASSUME NEW u \in Units(q) PROVE u \in Units(f)
    OBVIOUS
  <1>1. PICK k \in Keys, i \in Nat : u = <<k, i>> /\ 1 <= i /\ i <= q[k]
    BY UnitOf
  <1>2. i <= f[k]
    BY <1>1 DEF Numbers
  <1> QED BY <1>1, <1>2, UnitOf

(* One more.                                                                  *)
LEMMA UnitsMore ==
  ASSUME NEW f \in Numbers, NEW q \in Numbers, NEW k \in Keys,
         q[k] = f[k] + 1, \A j \in Keys \ {k} : q[j] = f[j], IsFiniteSet(Units(f))
  PROVE  IsFiniteSet(Units(q)) /\ Cardinality(Units(q)) = Cardinality(Units(f)) + 1
  <1> DEFINE new == <<k, f[k] + 1>>
  <1>1. f[k] \in Nat /\ f[k] + 1 \in Nat
    BY DEF Numbers
  <1>2. new \notin Units(f)
    <2>1. ~(f[k] + 1 <= f[k])
      BY <1>1
    <2> QED BY <1>1, <2>1, UnitOf
  <1>3. Units(q) \subseteq Units(f) \cup {new}
    <2> SUFFICES ASSUME NEW u \in Units(q) PROVE u \in Units(f) \cup {new}
      OBVIOUS
    <2>1. PICK j \in Keys, i \in Nat : u = <<j, i>> /\ 1 <= i /\ i <= q[j]
      BY UnitOf
    <2>2. CASE j # k
      BY <2>1, <2>2, UnitOf
    <2>3. CASE j = k
      <3>1. i = f[k] + 1 \/ i <= f[k]
        BY <1>1, <2>1, <2>3
      <3> QED BY <2>1, <2>3, <3>1, UnitOf
    <2> QED BY <2>2, <2>3
  <1>4. Units(f) \subseteq Units(q)
    <2>1. \A j \in Keys : f[j] <= q[j]
      <3> TAKE j \in Keys
      <3>1. f[j] \in Nat /\ (j = k \/ q[j] = f[j])
        BY DEF Numbers
      <3> QED BY <1>1, <3>1
    <2> QED BY <2>1, UnitsFewer
  <1>5. new \in Units(q)
    BY <1>1, UnitOf
  <1>6. Units(q) = Units(f) \cup {new}
    BY <1>3, <1>4, <1>5
  <1> HIDE DEF new
  <1> QED BY <1>2, <1>6, FS_AddElement

(* What was counted for j is counted for k instead, if it still is.           *)
LEMMA UnitsMoved ==
  ASSUME NEW f \in Numbers, NEW q \in Numbers, NEW j \in Keys, NEW k \in Keys, j # k,
         q[j] = 0, q[k] <= f[j] + f[k], \A i \in Keys \ {j, k} : q[i] <= f[i], IsFiniteSet(Units(f))
  PROVE  IsFiniteSet(Units(q)) /\ Cardinality(Units(q)) <= Cardinality(Units(f))
  <1>1. f[j] \in Nat /\ f[k] \in Nat /\ q[k] \in Nat
    BY DEF Numbers
  <1> DEFINE to(u) == IF u[1] = k /\ u[2] > f[k] THEN <<j, u[2] - f[k]>> ELSE u
  <1>2. PICK m : m = [u \in Units(q) |-> to(u)]
    OBVIOUS
  <1>3. ASSUME NEW u \in Units(q)
        PROVE  \E x \in Keys, i \in Nat :
                  /\ u = <<x, i>> /\ x # j
                  /\ x = k /\ i > f[k] => m[u] = <<j, i - f[k]>> /\ i - f[k] \in Nat /\ i - f[k] >= 1 /\ i - f[k] <= f[j]
                  /\ ~(x = k /\ i > f[k]) => m[u] = <<x, i>> /\ 1 <= i /\ i <= f[x]
    <2>1. PICK x \in Keys, i \in Nat : u = <<x, i>> /\ 1 <= i /\ i <= q[x]
      BY UnitOf
    <2>2. x # j
      BY <2>1
    <2>3. u[1] = x /\ u[2] = i /\ m[u] = to(u)
      BY <1>2, <2>1
    <2>4. CASE x = k /\ i > f[k]
      <3>1. m[u] = <<j, i - f[k]>>
        BY <2>3, <2>4
      <3>2. i - f[k] \in Nat /\ i - f[k] >= 1 /\ i - f[k] <= f[j]
        BY <1>1, <2>1, <2>4
      <3> QED BY <2>1, <2>2, <2>4, <3>1, <3>2
    <2>5. CASE ~(x = k /\ i > f[k])
      <3>1. m[u] = <<x, i>>
        BY <2>1, <2>3, <2>5
      <3>2. i <= f[x]
        <4>1. CASE x = k
          BY <1>1, <2>5, <4>1
        <4>2. CASE x # k
          <5>1. q[x] \in Nat /\ f[x] \in Nat /\ q[x] <= f[x]
            BY <2>2, <4>2 DEF Numbers
          <5> QED BY <2>1, <5>1
        <4> QED BY <4>1, <4>2
      <3> QED BY <2>1, <2>2, <2>5, <3>1, <3>2
    <2> QED BY <2>4, <2>5
  <1>4. \A u \in Units(q) : m[u] \in Units(f)
    <2> TAKE u \in Units(q)
    <2>1. PICK x \in Keys, i \in Nat :
                  /\ u = <<x, i>> /\ x # j
                  /\ x = k /\ i > f[k] => m[u] = <<j, i - f[k]>> /\ i - f[k] \in Nat /\ i - f[k] >= 1 /\ i - f[k] <= f[j]
                  /\ ~(x = k /\ i > f[k]) => m[u] = <<x, i>> /\ 1 <= i /\ i <= f[x]
      BY <1>3
    <2>2. CASE x = k /\ i > f[k]
      <3>1. \E n \in Nat : m[u] = <<j, n>> /\ 1 <= n /\ n <= f[j]
        BY <2>1, <2>2
      <3> QED BY <3>1, UnitOf
    <2>3. CASE ~(x = k /\ i > f[k])
      BY <2>1, <2>3, UnitOf
    <2> QED BY <2>2, <2>3
  <1>5. ASSUME NEW u \in Units(q), NEW v \in Units(q), m[u] = m[v] PROVE u = v
    <2>1. PICK x \in Keys, i \in Nat :
                  /\ u = <<x, i>> /\ x # j
                  /\ x = k /\ i > f[k] => m[u] = <<j, i - f[k]>> /\ i - f[k] \in Nat /\ i - f[k] >= 1 /\ i - f[k] <= f[j]
                  /\ ~(x = k /\ i > f[k]) => m[u] = <<x, i>> /\ 1 <= i /\ i <= f[x]
      BY <1>3
    <2>2. PICK y \in Keys, n \in Nat :
                  /\ v = <<y, n>> /\ y # j
                  /\ y = k /\ n > f[k] => m[v] = <<j, n - f[k]>> /\ n - f[k] \in Nat /\ n - f[k] >= 1 /\ n - f[k] <= f[j]
                  /\ ~(y = k /\ n > f[k]) => m[v] = <<y, n>> /\ 1 <= n /\ n <= f[y]
      BY <1>3
    <2>3. CASE x = k /\ i > f[k] /\ y = k /\ n > f[k]
      <3>1. i - f[k] = n - f[k]
        BY <1>5, <2>1, <2>2, <2>3
      <3>2. i = n
        BY <1>1, <3>1
      <3> QED BY <2>1, <2>2, <2>3, <3>2
    <2>4. CASE ~(x = k /\ i > f[k]) /\ ~(y = k /\ n > f[k])
      BY <1>5, <2>1, <2>2, <2>4
    <2>5. CASE (x = k /\ i > f[k]) # (y = k /\ n > f[k])
      BY <1>5, <2>1, <2>2, <2>5
    <2> QED BY <2>3, <2>4, <2>5
  <1>6. m \in Injection(Units(q), Units(f))
    BY <1>2, <1>4, <1>5 DEF Injection, IsInjective
  <1> QED BY <1>6, FS_Injection

(* One for each member of a set.                                              *)
LEMMA UnitsOfSet ==
  ASSUME NEW T \in SUBSET Keys, IsFiniteSet(T), NEW f \in Numbers,
         \A k \in Keys : f[k] = IF k \in T THEN 1 ELSE 0
  PROVE  IsFiniteSet(Units(f)) /\ Cardinality(Units(f)) <= Cardinality(T)
  <1>1. ASSUME NEW u \in Units(f) PROVE \E k \in T : u = <<k, 1>> /\ u[1] = k
    <2>1. PICK k \in Keys, i \in Nat : u = <<k, i>> /\ 1 <= i /\ i <= f[k]
      BY UnitOf
    <2>2. k \in T /\ i = 1
      <3>1. CASE k \in T
        BY <2>1, <3>1
      <3>2. CASE k \notin T
        BY <2>1, <3>2
      <3> QED BY <3>1, <3>2
    <2> QED BY <2>1, <2>2
  <1>2. PICK m : m = [u \in Units(f) |-> u[1]]
    OBVIOUS
  <1>3. m \in [Units(f) -> T]
    BY <1>1, <1>2
  <1>4. \A u, v \in Units(f) : m[u] = m[v] => u = v
    BY <1>1, <1>2
  <1>5. m \in Injection(Units(f), T)
    BY <1>3, <1>4 DEF Injection, IsInjective
  <1> QED BY <1>5, FS_Injection

-----------------------------------------------------------------------------
(* The invariants.                                                            *)

(* No row is ahead of the runner it is of.                                    *)
Behind ==
    ~torn =>
        /\ stored \subseteq users
        /\ \A k \in Keys \ stored : rows[k] = Nothing
        /\ \A k \in Keys, e \in Kinds : rows[k][e] <= paid[k][e]

(* What runners hold, and what may yet be paid: a place in the contract, a    *)
(* runner the raid has not reached, the dead drop.                            *)
Held(e) == Units([k \in Keys |-> paid[k][e]])

Places == IF call.op = "pay" THEN call.places ELSE world.team

Owing(e) ==
    CASE e = "contract" -> Units(Places)
      [] e = "raid"     -> IF call.op = "hit" /\ call.won THEN call.left ELSE {}
      [] e = "drop"     -> {d \in {"drop"} : world.drop}

Covered(e) ==
    /\ IsFiniteSet(Held(e)) /\ IsFiniteSet(Owing(e))
    /\ Cardinality(Held(e)) + Cardinality(Owing(e)) <= purse[e]

PurseInv == ~torn => \A e \in Kinds : Covered(e)

LEMMA OwingKinds ==
  /\ Owing("contract") = Units(Places)
  /\ Owing("raid") = IF call.op = "hit" /\ call.won THEN call.left ELSE {}
  /\ Owing("drop") = {d \in {"drop"} : world.drop}
  BY DEF Owing

LEMMA HeldNumbers ==
  ASSUME Types, NEW e \in Kinds
  PROVE  [k \in Keys |-> paid[k][e]] \in Numbers
  BY DEF Types, EngineTyped, Payments, Numbers

LEMMA PlacesNumbers == ASSUME Types PROVE Places \in Numbers
  <1>1. world.team \in Numbers
    BY WorldFields DEF Types, EngineTyped, Numbers
  <1>2. call.places \in Numbers
    BY CallOf DEF Types, CallTyped, Numbers
  <1> QED BY <1>1, <1>2 DEF Places

(* What is held and owed does not grow by more than is promised.              *)
LEMMA CoveredStill ==
  ASSUME NEW e \in Kinds, Covered(e), purse \in [Kinds -> Nat], purse' \in [Kinds -> Nat],
         Held(e)' \subseteq Held(e), Owing(e)' \subseteq Owing(e), purse[e] <= purse'[e]
  PROVE  Covered(e)'
  <1>1. /\ IsFiniteSet(Held(e)') /\ Cardinality(Held(e)') <= Cardinality(Held(e))
        /\ IsFiniteSet(Owing(e)') /\ Cardinality(Owing(e)') <= Cardinality(Owing(e))
    BY FS_Subset DEF Covered
  <1>2. /\ Cardinality(Held(e)) \in Nat /\ Cardinality(Held(e)') \in Nat
        /\ Cardinality(Owing(e)) \in Nat /\ Cardinality(Owing(e)') \in Nat
    BY <1>1, FS_CardinalityType DEF Covered
  <1>3. purse[e] \in Nat /\ purse'[e] \in Nat
    OBVIOUS
  <1> QED BY <1>1, <1>2, <1>3 DEF Covered

(* Steps that neither pay nor promise: what is owed for a raid may be dropped *)
(* and the dead drop may decay.                                               *)
LEMMA PurseStays ==
  ASSUME Types, Types', PurseInv, torn => torn', UNCHANGED <<paid, purse>>,
         Places' = Places, world'.drop => world.drop,
         call'.op = "hit" => call' = call
  PROVE  PurseInv'
  <1> SUFFICES ASSUME ~torn', NEW e \in Kinds PROVE Covered(e)'
    BY DEF PurseInv
  <1>1. Covered(e) /\ Held(e)' = Held(e)
    BY DEF PurseInv, Held
  <1>2. Owing(e)' \subseteq Owing(e)
    <2>1. CASE e = "contract"
      BY <2>1, OwingKinds DEF Owing
    <2>2. CASE e = "raid"
      BY <2>2 DEF Owing
    <2>3. CASE e = "drop"
      BY <2>3 DEF Owing
    <2> QED BY <2>1, <2>2, <2>3 DEF Kinds
  <1>3. purse \in [Kinds -> Nat] /\ purse' \in [Kinds -> Nat] /\ purse[e] <= purse'[e]
    BY DEF Types, EngineTyped
  <1> QED BY <1>1, <1>2, <1>3, CoveredStill

(* The steps that leave the contract, the raid and the dead drop alone, or    *)
(* only mark the contract as failed.                                          *)
LEMMA PurseElse ==
  ASSUME Types, Types', PurseInv, ~BeginTick, ~BeginRaid, ~ \E k \in Keys : Pay(k) \/ RaidHit(k),
         \/ \E k \in Keys : Enter(k) \/ Restore(k) \/ Quit(k) \/ Split(k) \/ Unseen(k) \/ FinishSave(k) \/ DropGone(k)
         \/ \E a \in Accounts, b \in Accounts : Switch(a, b)
         \/ \E e \in Kinds : Deadline(e)
         \/ \E where \in {"out", "off"} : Outage(where)
         \/ FinishWorld \/ Return \/ Round \/ FinishCity \/ Remember \/ EndRaid
  PROVE  PurseInv'
  <1> USE DEF Types, EngineTyped
  <1>1. UNCHANGED <<paid, purse>>
    BY DEF Enter, Restore, Link, Quit, Split, Unseen, FinishSave, DropGone, Switch, Deadline, Outage,
           DisconnectAll, FinishWorld, Return, Round, FinishCity, Remember, EndRaid, memory, history
  <1>2. world'.team = world.team /\ world'.drop = world.drop
    <2>1. UNCHANGED world \/ \E k \in Keys : world' = Marked(k)
      BY DEF Enter, Restore, Link, Quit, Split, Unseen, FinishSave, DropGone, Switch, Deadline, Outage,
             DisconnectAll, FinishWorld, Return, Round, FinishCity, Remember, EndRaid, memory, Keys
    <2> QED BY <2>1, MarkedFields
  <1>3. call.op # "pay"
    BY IdleFields
    DEF Enter, Restore, Link, Quit, Split, Unseen, FinishSave, DropGone, Switch, Deadline, Outage,
        FinishWorld, Return, Round, FinishCity, Remember, EndRaid, Seen
  <1>4. torn => torn'
    <2>1. ASSUME torn PROVE torn'
      BY <2>1, Zenon DEF Enter, Restore, Link, Quit, Split, Unseen, FinishSave, DropGone, Switch, Deadline, Outage,
             FinishWorld, Return, Round, FinishCity, Remember, EndRaid, history
    <2> QED BY <2>1
  <1>5. call'.op \notin {"pay", "hit"}
    <2>1. People \/ Scheduler \/ Outside
      BY Zenon DEF People, Scheduler, Outside
    <2> QED BY <2>1, OthersDoNotPay DEF Next
  <1>6. Places' = Places
    BY <1>2, <1>3, <1>5 DEF Places
  <1> QED BY <1>1, <1>2, <1>4, <1>5, <1>6, PurseStays

LEMMA PurseBeginTick == ASSUME Types, Types', PurseInv, BeginTick PROVE PurseInv'
  <1>1. call = Idle /\ UNCHANGED <<world, paid, purse, torn>>
    BY DEF BeginTick, memory, history
  <1>2. call' = Step("raid", FALSE) \/ (call'.op = "pay" /\ call'.places = world.team)
    BY DEF BeginTick
  <1>3. Step("raid", FALSE).op = "raid"
    BY StepOp
  <1>4. Places' = Places /\ call'.op # "hit"
    <2>1. CASE call' = Step("raid", FALSE)
      BY <1>1, <1>3, <2>1, IdleFields DEF Places
    <2>2. CASE call'.op = "pay" /\ call'.places = world.team
      BY <1>1, <2>2, IdleFields DEF Places
    <2> QED BY <1>2, <2>1, <2>2
  <1> QED BY <1>1, <1>4, PurseStays

LEMMA PurseEndPay == ASSUME Types, Types', PurseInv, EndPay PROVE PurseInv'
  <1>1. /\ call.op = "pay" /\ call.places = NoTeam /\ UNCHANGED <<paid, purse, torn>>
        /\ world' = [world EXCEPT !.team = NoTeam, !.failed = FALSE] /\ call' = Step("raid", TRUE)
    BY DEF EndPay
  <1>2. world'.team = NoTeam /\ world'.drop = world.drop
    BY <1>1 DEF Types, EngineTyped, Worlds
  <1>3. call'.op = "raid"
    BY <1>1, StepOp
  <1>4. Places' = Places
    BY <1>1, <1>2, <1>3 DEF Places
  <1> QED BY <1>1, <1>2, <1>3, <1>4, PurseStays

LEMMA PurseQuiet == ASSUME Types, Types', PurseInv, Quiet \/ RaidEvent PROVE PurseInv'
  <1>1. /\ call.op = "event" /\ UNCHANGED <<paid, purse, torn>>
        /\ call'.op \notin {"pay", "hit"}
    <2>1. call'.op # "pay" /\ (call'.op = "hit" => BeginRaid)
      BY StepCalls DEF RaidEvent
    <2>2. call.op = "event" /\ UNCHANGED <<paid, purse, torn>>
      BY DEF Quiet, RaidEvent, CityEvent, history
    <2> QED BY <2>1, <2>2 DEF BeginRaid
  <1>2. world'.team = world.team /\ (world'.drop => world.drop)
    <2> DEFINE d == Decayed
    <2>1. d \in Worlds /\ d.team = world.team /\ (d.drop => world.drop)
      BY DecayedFields DEF Types, EngineTyped
    <2>2. world' = d \/ world' = [d EXCEPT !.raid = TRUE]
      BY DEF Quiet, RaidEvent
    <2> HIDE DEF d
    <2>3. CASE world' = d
      BY <2>1, <2>3
    <2>4. CASE world' = [d EXCEPT !.raid = TRUE]
      BY <2>1, <2>4 DEF Worlds
    <2> QED BY <2>2, <2>3, <2>4
  <1>3. Places' = Places
    BY <1>1, <1>2 DEF Places
  <1> QED BY <1>1, <1>2, <1>3, PurseStays

LEMMA PurseCrash == ASSUME Types, Types', PurseInv, CrashRestart PROVE PurseInv'
  <1> SUFFICES ASSUME ~torn' PROVE PurseInv'
    BY DEF PurseInv
  <1>1. /\ world' = worldRow /\ paid' = rows /\ call' = Idle /\ UNCHANGED purse
        /\ ~torn /\ ~Unwritten
    BY DEF CrashRestart, history
  <1>2. worldRow = world /\ rows = paid /\ (call.op = "pay" => call.places = world.team)
    BY <1>1 DEF Unwritten
  <1>3. Places' = Places /\ call'.op = "idle"
    BY <1>1, <1>2, IdleFields DEF Places
  <1> QED BY <1>1, <1>2, <1>3, PurseStays

(* Promises.                                                                  *)
LEMMA PursePirate ==
  ASSUME Types, Types', PurseInv, OpensDrop, UNCHANGED <<paid, torn>>,
         call.op # "pay", call'.op \notin {"pay", "hit"}
  PROVE  PurseInv'
  <1> SUFFICES ASSUME ~torn', NEW e \in Kinds PROVE Covered(e)'
    BY DEF PurseInv
  <1>1. world' = [world EXCEPT !.drop = TRUE] /\ purse' = [purse EXCEPT !.drop = @ + 1]
    BY DEF OpensDrop
  <1>2. purse \in [Kinds -> Nat] /\ purse' \in [Kinds -> Nat] /\ world'.team = world.team
    BY <1>1 DEF Types, EngineTyped, Worlds
  <1>3. Covered(e) /\ Held(e)' = Held(e)
    BY DEF PurseInv, Held
  <1>4. CASE e = "drop"
    <2>1. Owing(e)' \subseteq {"drop"}
      BY <1>4 DEF Owing
    <2>2. IsFiniteSet(Owing(e)') /\ Cardinality(Owing(e)') <= 1 /\ Cardinality(Owing(e)') \in Nat
      <3>1. IsFiniteSet({"drop"}) /\ Cardinality({"drop"}) = 1
        BY FS_Singleton, Zenon
      <3>2. IsFiniteSet(Owing(e)') /\ Cardinality(Owing(e)') <= Cardinality({"drop"})
        BY <2>1, <3>1, FS_Subset
      <3>3. Cardinality(Owing(e)') <= 1
        BY <3>1, <3>2
      <3> QED BY <3>2, <3>3, FS_CardinalityType
    <2>3. Cardinality(Held(e)) \in Nat /\ Cardinality(Owing(e)) \in Nat
      BY <1>3, FS_CardinalityType DEF Covered
    <2>4. purse'[e] = purse[e] + 1 /\ purse[e] \in Nat
      BY <1>1, <1>2, <1>4
    <2> QED BY <1>3, <2>2, <2>3, <2>4 DEF Covered
  <1>5. CASE e # "drop"
    <2>1. Owing(e)' \subseteq Owing(e)
      BY <1>2, <1>5 DEF Owing, Kinds, Places
    <2>2. purse[e] <= purse'[e]
      BY <1>1, <1>2, <1>5
    <2> QED BY <1>2, <1>3, <2>1, <2>2, CoveredStill
  <1> QED BY <1>4, <1>5

LEMMA PurseContract == ASSUME Types, Types', PurseInv, ContractEvent PROVE PurseInv'
  <1>1. PICK team \in (SUBSET linked) \ {{}} :
            /\ world' = [Decayed EXCEPT !.team = [k \in Keys |-> IF k \in team THEN 1 ELSE 0]]
            /\ purse' = [purse EXCEPT !.contract = @ + Cardinality(team)]
    BY DEF ContractEvent
  <1>2. /\ call.op = "event" /\ call'.op \notin {"pay", "hit"} /\ ~Contract
        /\ UNCHANGED <<paid, torn>>
    <2>1. call'.op # "pay" /\ (call'.op = "hit" => BeginRaid)
      BY StepCalls DEF ContractEvent
    <2>2. call.op = "event" /\ ~Contract /\ UNCHANGED <<paid, torn>>
      BY DEF ContractEvent, CityEvent
    <2> QED BY <2>1, <2>2 DEF BeginRaid
  <1> SUFFICES ASSUME ~torn', NEW e \in Kinds PROVE Covered(e)'
    BY DEF PurseInv
  <1>3. team \in SUBSET Keys /\ IsFiniteSet(team) /\ Cardinality(team) \in Nat
    <2>1. team \subseteq linked /\ IsFiniteSet(linked) /\ linked \subseteq Keys
      BY DEF Types, EngineTyped
    <2> QED BY <2>1, FS_Subset, FS_CardinalityType
  <1>4. /\ purse \in [Kinds -> Nat] /\ purse' \in [Kinds -> Nat]
        /\ world'.team = [k \in Keys |-> IF k \in team THEN 1 ELSE 0] /\ (world'.drop => world.drop)
    <2>1. Decayed \in Worlds /\ (Decayed.drop => world.drop)
      BY DecayedFields DEF Types, EngineTyped
    <2>2. purse \in [Kinds -> Nat] /\ purse' \in [Kinds -> Nat]
      BY DEF Types, EngineTyped
    <2> DEFINE d == Decayed
    <2>3. world' = [d EXCEPT !.team = [k \in Keys |-> IF k \in team THEN 1 ELSE 0]]
      BY <1>1
    <2> HIDE DEF d
    <2>4. d \in Worlds /\ (d.drop => world.drop)
      BY <2>1 DEF d
    <2> QED BY <2>2, <2>3, <2>4 DEF Worlds
  <1>5. Covered(e) /\ Held(e)' = Held(e)
    BY <1>2 DEF PurseInv, Held
  <1>6. CASE e = "contract"
    <2>1. Places' = [k \in Keys |-> IF k \in team THEN 1 ELSE 0] /\ Places' \in Numbers
      BY <1>2, <1>4, PlacesNumbers DEF Places, Numbers
    <2>2. IsFiniteSet(Units(Places')) /\ Cardinality(Units(Places')) <= Cardinality(team)
      BY <1>3, <2>1, UnitsOfSet
    <2>3. Owing(e)' = Units(Places')
      BY <1>6 DEF Owing, Units
    <2>4. Places = NoTeam
      BY <1>2 DEF Places, Contract
    <2>5. /\ Cardinality(Held(e)) \in Nat /\ Cardinality(Owing(e)) \in Nat
          /\ Cardinality(Units(Places')) \in Nat
      BY <1>5, <2>2, FS_CardinalityType DEF Covered
    <2>6. purse'[e] = purse[e] + Cardinality(team) /\ purse[e] \in Nat
      BY <1>1, <1>4, <1>6
    <2>7. Cardinality(Held(e)) <= purse[e]
      BY <1>5, <2>5, <2>6 DEF Covered
    <2> QED BY <1>3, <1>5, <2>2, <2>3, <2>5, <2>6, <2>7 DEF Covered
  <1>7. CASE e # "contract"
    <2>1. Owing(e)' \subseteq Owing(e)
      BY <1>2, <1>4, <1>7 DEF Owing, Kinds
    <2>2. purse[e] <= purse'[e]
      BY <1>1, <1>4, <1>7
    <2> QED BY <1>4, <1>5, <2>1, <2>2, CoveredStill
  <1> QED BY <1>6, <1>7

LEMMA PurseBeginRaid == ASSUME Types, Types', PurseInv, BeginRaid PROVE PurseInv'
  <1>1. call.op = "raid" /\ UNCHANGED <<paid, torn>>
    BY DEF BeginRaid
  <1>2. CASE call' = Step("event", call.tell) /\ UNCHANGED <<world, purse>>
    <2>1. call'.op = "event"
      BY <1>2, StepOp
    <2>2. Places' = Places
      BY <1>1, <1>2, <2>1 DEF Places
    <2> QED BY <1>1, <1>2, <2>1, <2>2, PurseStays
  <1>3. CASE /\ world' = [world EXCEPT !.raid = FALSE]
             /\ purse' = [purse EXCEPT !.raid = @ + Cardinality(linked)]
             /\ call'.op = "hit" /\ call'.left = linked
    <2> SUFFICES ASSUME ~torn', NEW e \in Kinds PROVE Covered(e)'
      BY DEF PurseInv
    <2>1. /\ purse \in [Kinds -> Nat] /\ purse' \in [Kinds -> Nat] /\ IsFiniteSet(linked)
          /\ world'.team = world.team /\ world'.drop = world.drop /\ Cardinality(linked) \in Nat
      BY <1>3, FS_CardinalityType DEF Types, EngineTyped, Worlds
    <2>2. Covered(e) /\ Held(e)' = Held(e)
      BY <1>1 DEF PurseInv, Held
    <2>3. CASE e = "raid"
      <3>1. Owing(e)' \subseteq linked
        BY <1>3, <2>3 DEF Owing
      <3>2. /\ IsFiniteSet(Owing(e)') /\ Cardinality(Owing(e)') <= Cardinality(linked)
            /\ Cardinality(Owing(e)') \in Nat
        BY <2>1, <3>1, FS_Subset, FS_CardinalityType
      <3>3. Cardinality(Held(e)) \in Nat /\ Cardinality(Owing(e)) \in Nat
        BY <2>2, FS_CardinalityType DEF Covered
      <3>4. purse'[e] = purse[e] + Cardinality(linked) /\ purse[e] \in Nat
        BY <1>3, <2>1, <2>3
      <3>5. Cardinality(Held(e)) <= purse[e]
        BY <2>2, <3>3, <3>4 DEF Covered
      <3> QED BY <2>1, <2>2, <3>2, <3>3, <3>4, <3>5 DEF Covered
    <2>4. CASE e # "raid"
      <3>1. Owing(e)' \subseteq Owing(e)
        BY <1>1, <1>3, <2>1, <2>4 DEF Owing, Kinds, Places
      <3>2. purse[e] <= purse'[e]
        BY <1>3, <2>1, <2>4
      <3> QED BY <2>1, <2>2, <3>1, <3>2, CoveredStill
    <2> QED BY <2>3, <2>4
  <1> QED BY <1>2, <1>3 DEF BeginRaid

LEMMA PursePirates == ASSUME Types, Types', PurseInv, PirateEvent \/ ForcePirate PROVE PurseInv'
  <1>1. CASE PirateEvent
    <2>1. OpensDrop /\ CityEvent /\ call.op = "event" /\ UNCHANGED <<paid, torn>>
      BY <1>1 DEF PirateEvent, CityEvent
    <2>2. call'.op = "city"
      BY <2>1, StepOp DEF CityEvent
    <2> QED BY <2>1, <2>2, PursePirate
  <1>2. CASE ForcePirate
    <2>1. OpensDrop /\ call = Idle /\ UNCHANGED <<paid, torn>> /\ call' = Idle
      BY <1>2, SaveOutcome DEF ForcePirate
    <2>2. call.op = "idle" /\ call'.op = "idle"
      BY <2>1, IdleFields
    <2> QED BY <2>1, <2>2, PursePirate
  <1> QED BY <1>1, <1>2

(* Guests who are long gone take what they held with them.                    *)
LEMMA PurseVisit == ASSUME Types, Types', PurseInv, Visit PROVE PurseInv'
  <1>1. /\ call.op = "visit" /\ UNCHANGED <<world, purse, torn>>
        /\ \E gone \in SUBSET Keys : paid' = [k \in Keys |-> IF k \in gone THEN Nothing ELSE paid[k]]
    BY DEF Visit, history, Prunable, Keys
  <1>2. call'.op \notin {"pay", "hit"}
    BY <1>1, StepCalls DEF BeginRaid
  <1> SUFFICES ASSUME ~torn', NEW e \in Kinds PROVE Covered(e)'
    BY DEF PurseInv
  <1>3. Covered(e)
    BY <1>1 DEF PurseInv
  <1>4. Held(e)' \subseteq Held(e)
    <2>1. [k \in Keys |-> paid[k][e]] \in Numbers /\ [k \in Keys |-> paid'[k][e]] \in Numbers
      BY DEF Types, EngineTyped, Payments, Numbers
    <2>2. PICK f : f = [k \in Keys |-> paid[k][e]]
      OBVIOUS
    <2>3. PICK q : q = [k \in Keys |-> paid'[k][e]]
      OBVIOUS
    <2>4. \A k \in Keys : q[k] <= f[k]
      <3> TAKE k \in Keys
      <3>1. paid'[k] = paid[k] \/ paid'[k] = Nothing
        BY <1>1
      <3>2. paid[k][e] \in Nat /\ Nothing[e] = 0
        BY DEF Types, EngineTyped, Payments, Nothing
      <3>3. f[k] = paid[k][e] /\ q[k] = paid'[k][e]
        BY <2>2, <2>3
      <3> QED BY <3>1, <3>2, <3>3
    <2>5. Units(q) \subseteq Units(f)
      BY <2>1, <2>2, <2>3, <2>4, UnitsFewer
    <2> QED BY <2>2, <2>3, <2>5 DEF Held
  <1>5. Owing(e)' \subseteq Owing(e)
    BY <1>1, <1>2 DEF Owing, Kinds, Places
  <1>6. purse \in [Kinds -> Nat] /\ purse' \in [Kinds -> Nat] /\ purse[e] <= purse'[e]
    BY <1>1 DEF Types, EngineTyped
  <1> QED BY <1>3, <1>4, <1>5, <1>6, CoveredStill

-----------------------------------------------------------------------------
(* Payments.                                                                  *)

(* A runner who is paid holds one more.                                       *)
LEMMA HeldMore ==
  ASSUME Types, Types', NEW k \in Keys, NEW kind \in Kinds, NEW n \in {0, 1},
         paid' = [paid EXCEPT ![k][kind] = @ + n], NEW e \in Kinds, IsFiniteSet(Held(e))
  PROVE  /\ e # kind \/ n = 0 => Held(e)' = Held(e)
         /\ e = kind /\ n = 1 => IsFiniteSet(Held(e)') /\ Cardinality(Held(e)') = Cardinality(Held(e)) + 1
  <1>1. [j \in Keys |-> paid[j][e]] \in Numbers /\ [j \in Keys |-> paid'[j][e]] \in Numbers
    BY DEF Types, EngineTyped, Payments, Numbers
  <1>2. PICK f : f = [j \in Keys |-> paid[j][e]]
    OBVIOUS
  <1>3. PICK q : q = [j \in Keys |-> paid'[j][e]]
    OBVIOUS
  <1>4. Held(e) = Units(f) /\ Held(e)' = Units(q)
    BY <1>2, <1>3 DEF Held
  <1>5. paid \in [Keys -> [Kinds -> Nat]]
    BY DEF Types, EngineTyped, Payments
  <1>6. \A j \in Keys : paid'[j][e] = IF j = k /\ e = kind THEN paid[j][e] + n ELSE paid[j][e]
    BY <1>5
  <1>7. \A j \in Keys : q[j] = IF j = k /\ e = kind THEN f[j] + n ELSE f[j]
    BY <1>2, <1>3, <1>6
  <1>8. CASE e # kind \/ n = 0
    <2>1. \A j \in Keys : f[j] \in Nat
      BY <1>1, <1>2 DEF Numbers
    <2>2. \A j \in Keys : q[j] = f[j]
      BY <1>7, <1>8, <2>1
    <2>3. q = f
      BY <1>2, <1>3, <2>2
    <2> QED BY <1>4, <1>8, <2>3
  <1>9. CASE e = kind /\ n = 1
    <2>1. q[k] = f[k] + 1 /\ \A j \in Keys \ {k} : q[j] = f[j]
      BY <1>7, <1>9
    <2>2. IsFiniteSet(Units(q)) /\ Cardinality(Units(q)) = Cardinality(Units(f)) + 1
      BY <1>1, <1>2, <1>3, <1>4, <2>1, UnitsMore
    <2> QED BY <1>4, <1>9, <2>2
  <1> QED BY <1>8, <1>9

(* What is held more is owed less.                                            *)
LEMMA CoveredMoves ==
  ASSUME NEW e \in Kinds, Covered(e), UNCHANGED purse, purse[e] \in Nat,
         IsFiniteSet(Held(e)'), IsFiniteSet(Owing(e)'),
         Cardinality(Held(e)') + Cardinality(Owing(e)') <= Cardinality(Held(e)) + Cardinality(Owing(e))
  PROVE  Covered(e)'
  <1>1. /\ Cardinality(Held(e)) \in Nat /\ Cardinality(Held(e)') \in Nat
        /\ Cardinality(Owing(e)) \in Nat /\ Cardinality(Owing(e)') \in Nat
    BY FS_CardinalityType DEF Covered
  <1>2. Cardinality(Held(e)) + Cardinality(Owing(e)) <= purse[e]
    BY DEF Covered
  <1>3. Cardinality(Held(e)') + Cardinality(Owing(e)') <= purse[e]
    BY <1>1, <1>2
  <1> QED BY <1>3 DEF Covered

(* The one kind of payment this is leaves one less to pay.                    *)
LEMMA PurseReward ==
  ASSUME Types, Types', PurseInv, torn => torn', UNCHANGED purse,
         NEW k \in Keys, NEW kind \in Kinds, NEW n \in {0, 1},
         paid' = [paid EXCEPT ![k][kind] = @ + n],
         \A e \in Kinds : Owing(e)' \subseteq Owing(e),
         ~torn' /\ n = 1 /\ IsFiniteSet(Owing(kind)) => Cardinality(Owing(kind)') + 1 <= Cardinality(Owing(kind))
  PROVE  PurseInv'
  <1> SUFFICES ASSUME ~torn', NEW e \in Kinds PROVE Covered(e)'
    BY DEF PurseInv
  <1>1. Covered(e)
    BY DEF PurseInv
  <1>2. /\ IsFiniteSet(Held(e)) /\ IsFiniteSet(Owing(e)) /\ IsFiniteSet(Owing(e)')
        /\ Cardinality(Owing(e)') <= Cardinality(Owing(e))
    BY <1>1, FS_Subset DEF Covered
  <1>3. purse \in [Kinds -> Nat] /\ purse' \in [Kinds -> Nat] /\ purse[e] <= purse'[e]
    BY DEF Types, EngineTyped
  <1>4. CASE e # kind \/ n = 0
    <2>1. Held(e)' = Held(e)
      BY <1>2, <1>4, HeldMore
    <2> QED BY <1>1, <1>3, <2>1, CoveredStill
  <1>5. CASE e = kind /\ n = 1
    <2>1. IsFiniteSet(Held(e)') /\ Cardinality(Held(e)') = Cardinality(Held(e)) + 1
      BY <1>2, <1>5, HeldMore
    <2>2. Cardinality(Owing(e)') + 1 <= Cardinality(Owing(e))
      BY <1>2, <1>5
    <2>3. /\ Cardinality(Held(e)) \in Nat
          /\ Cardinality(Owing(e)) \in Nat /\ Cardinality(Owing(e)') \in Nat
      BY <1>2, FS_CardinalityType
    <2>4. Cardinality(Held(e)') + Cardinality(Owing(e)') <= Cardinality(Held(e)) + Cardinality(Owing(e))
      BY <2>1, <2>2, <2>3
    <2> QED BY <1>1, <1>2, <1>3, <2>1, <2>4, CoveredMoves
  <1> QED BY <1>4, <1>5

LEMMA OneLess ==
  ASSUME NEW S, IsFiniteSet(S), NEW x \in S, NEW T, T \subseteq S \ {x}
  PROVE  Cardinality(T) + 1 <= Cardinality(S)
  <1>1. IsFiniteSet(S \ {x}) /\ Cardinality(S \ {x}) = Cardinality(S) - 1
    BY FS_RemoveElement
  <1>2. IsFiniteSet(T) /\ Cardinality(T) <= Cardinality(S \ {x})
    BY <1>1, FS_Subset
  <1>3. Cardinality(S) \in Nat /\ Cardinality(S \ {x}) \in Nat /\ Cardinality(T) \in Nat
    BY <1>1, <1>2, FS_CardinalityType
  <1> QED BY <1>1, <1>2, <1>3

LEMMA RewardedMore ==
  ASSUME Types, NEW k \in Keys, NEW kind \in Kinds
  PROVE  \E n \in {0, 1} : /\ n = (IF call.won THEN 1 ELSE 0)
                          /\ Rewarded(k, kind) = [paid EXCEPT ![k][kind] = @ + n]
  <1>1. PICK n : n = IF call.won THEN 1 ELSE 0
    OBVIOUS
  <1>2. n \in {0, 1}
    BY <1>1
  <1>3. Rewarded(k, kind) = [paid EXCEPT ![k][kind] = @ + n]
    BY <1>1 DEF Rewarded
  <1> QED BY <1>1, <1>2, <1>3

LEMMA PurseRaidHit == ASSUME Types, Types', PurseInv, NEW k \in Keys, RaidHit(k) PROVE PurseInv'
  <1> DEFINE rest == [call EXCEPT !.left = @ \ {k}]
  <1>1. /\ call.op = "hit" /\ k \in call.left /\ UNCHANGED <<world, purse, torn>>
        /\ paid' = Rewarded(k, "raid") /\ (call' = rest \/ call' = Idle)
    BY SaveOutcome DEF RaidHit, history
  <1>2. rest.op = "hit" /\ rest.left = call.left \ {k} /\ rest.won = call.won
    BY <1>1 DEF Types, CallTyped, Calls
  <1> HIDE DEF rest
  <1>3. PICK n \in {0, 1} : n = (IF call.won THEN 1 ELSE 0) /\ paid' = [paid EXCEPT ![k].raid = @ + n]
    BY <1>1, RewardedMore DEF Kinds
  <1>4. /\ call'.op # "pay"
        /\ call'.op = "hit" /\ call'.won => call.won /\ call'.left \subseteq call.left \ {k}
    BY <1>1, <1>2, IdleFields
  <1>5. Places' = Places
    BY <1>1, <1>4 DEF Places
  <1>6. Owing("raid")' \subseteq Owing("raid") \ {k}
    BY <1>1, <1>4, OwingKinds DEF Owing
  <1>7. n = 1 => k \in Owing("raid")
    BY <1>1, <1>3, OwingKinds
  <1>8. \A e \in Kinds : Owing(e)' \subseteq Owing(e)
    <2> TAKE e \in Kinds
    <2>1. CASE e = "raid"
      BY <1>6, <2>1
    <2>2. CASE e # "raid"
      BY <1>1, <1>5, <2>2 DEF Owing, Kinds
    <2> QED BY <2>1, <2>2
  <1>9. n = 1 /\ IsFiniteSet(Owing("raid")) => Cardinality(Owing("raid")') + 1 <= Cardinality(Owing("raid"))
    BY <1>6, <1>7, OneLess
  <1>10. "raid" \in Kinds
    BY DEF Kinds
  <1> QED BY <1>1, <1>3, <1>8, <1>9, <1>10, PurseReward

LEMMA PurseClaimDrop == ASSUME Types, Types', PurseInv, NEW k \in Keys, ClaimDrop(k) PROVE PurseInv'
  <1>1. /\ call = Idle /\ world.drop /\ UNCHANGED <<purse, torn>>
        /\ paid' = [paid EXCEPT ![k].drop = @ + 1] /\ world' = [world EXCEPT !.drop = FALSE]
        /\ (call' = ThenWorld(TRUE) \/ call' = Idle)
    BY SaveOutcome DEF ClaimDrop, Seen, history
  <1>2. ThenWorld(TRUE).op \in {"world", "idle"} /\ Idle.op = "idle"
    BY ThenWorldOp, IdleFields
  <1>3. call.op = "idle" /\ call'.op \notin {"pay", "hit"}
    BY <1>1, <1>2
  <1>4. world'.team = world.team /\ world'.drop = FALSE
    BY <1>1 DEF Types, EngineTyped, Worlds
  <1>5. Places' = Places
    BY <1>3, <1>4 DEF Places
  <1>6. "drop" \in Owing("drop") /\ Owing("drop")' = {}
    BY <1>1, <1>4, OwingKinds DEF Owing
  <1>7. \A e \in Kinds : Owing(e)' \subseteq Owing(e)
    BY <1>3, <1>5, <1>6 DEF Owing, Kinds
  <1>8. IsFiniteSet(Owing("drop")) => Cardinality(Owing("drop")') + 1 <= Cardinality(Owing("drop"))
    BY <1>6, OneLess
  <1>9. "drop" \in Kinds
    BY DEF Kinds
  <1>10. PICK n \in {0, 1} : n = 1
    OBVIOUS
  <1>11. paid' = [paid EXCEPT ![k]["drop"] = @ + n]
    BY <1>1, <1>10
  <1> QED BY <1>1, <1>7, <1>8, <1>9, <1>11, PurseReward

LEMMA PursePay == ASSUME Types, Types', PurseInv, NEW k \in Keys, Pay(k) PROVE PurseInv'
  <1> DEFINE rest == [call EXCEPT !.places[k] = @ - 1]
  <1> SUFFICES ASSUME ~torn' PROVE PurseInv'
    BY DEF PurseInv
  <1>1. /\ call.op = "pay" /\ call.places[k] > 0 /\ UNCHANGED <<world, purse>> /\ ~torn
        /\ call' = rest
        /\ \/ paid' = Rewarded(k, "contract")
           \/ UNCHANGED paid
    <2>1. call.op = "pay" /\ call.places[k] > 0 /\ UNCHANGED <<world, purse>>
      BY DEF Pay, history
    <2>2. CASE paid' = Rewarded(k, "contract") /\ Save(k, rest) /\ torn' = (torn \/ call' = Idle)
      <3> HIDE DEF rest
      <3>1. ~torn /\ call' # Idle
        BY <2>2, Zenon
      <3> QED BY <2>1, <2>2, <3>1, SaveOutcome
    <2>3. CASE call' = rest /\ UNCHANGED <<paid, torn>>
      BY <2>1, <2>3
    <2> QED BY <2>2, <2>3 DEF Pay, rest
  <1>2. rest.op = "pay" /\ rest.places = [call.places EXCEPT ![k] = @ - 1] /\ call.places \in [Keys -> Nat]
    BY <1>1 DEF Types, CallTyped, Calls
  <1> HIDE DEF rest
  <1>3. PICK f : f = Places
    OBVIOUS
  <1>4. PICK q : q = call'.places
    OBVIOUS
  <1>5. f = call.places /\ q = Places' /\ q = [f EXCEPT ![k] = @ - 1]
    BY <1>1, <1>2, <1>3, <1>4 DEF Places
  <1>6. f \in Numbers /\ q \in Numbers
    BY <1>1, <1>2, <1>5 DEF Numbers
  <1>7. f[k] \in Nat /\ f[k] > 0
    BY <1>1, <1>5, <1>6 DEF Numbers
  <1>8. f[k] = q[k] + 1 /\ \A j \in Keys \ {k} : f[j] = q[j]
    BY <1>5, <1>6, <1>7 DEF Numbers
  <1>9. \A j \in Keys : q[j] <= f[j]
    BY <1>6, <1>8 DEF Numbers
  <1>10. Units(q) \subseteq Units(f)
    BY <1>6, <1>9, UnitsFewer
  <1>11. Owing("contract") = Units(f) /\ Owing("contract")' = Units(q)
    BY <1>3, <1>5, OwingKinds DEF Owing, Units
  <1>12. \A e \in Kinds : Owing(e)' \subseteq Owing(e)
    <2> TAKE e \in Kinds
    <2>1. CASE e = "contract"
      BY <1>10, <1>11, <2>1
    <2>2. CASE e # "contract"
      BY <1>1, <1>2, <2>2 DEF Owing, Kinds
    <2> QED BY <2>1, <2>2
  <1>13. CASE paid' = Rewarded(k, "contract")
    <2>1. "contract" \in Kinds
      BY DEF Kinds
    <2>2. PICK n \in {0, 1} : paid' = [paid EXCEPT ![k]["contract"] = @ + n]
      BY <1>13, <2>1, RewardedMore
    <2>3. IsFiniteSet(Owing("contract")) => Cardinality(Owing("contract")') + 1 <= Cardinality(Owing("contract"))
      <3> SUFFICES ASSUME IsFiniteSet(Units(f)) PROVE Cardinality(Units(q)) + 1 <= Cardinality(Units(f))
        BY <1>11
      <3>1. IsFiniteSet(Units(q))
        BY <1>10, FS_Subset
      <3>2. Cardinality(Units(f)) = Cardinality(Units(q)) + 1
        BY <1>6, <1>8, <3>1, UnitsMore
      <3>3. Cardinality(Units(f)) \in Nat /\ Cardinality(Units(q)) \in Nat
        BY <3>1, FS_CardinalityType
      <3> QED BY <3>2, <3>3
    <2> QED BY <1>1, <1>12, <2>1, <2>2, <2>3, PurseReward
  <1>14. CASE UNCHANGED paid
    <2> SUFFICES ASSUME NEW e \in Kinds PROVE Covered(e)'
      BY DEF PurseInv
    <2>1. Covered(e) /\ Held(e)' = Held(e)
      BY <1>1, <1>14 DEF PurseInv, Held
    <2>2. purse \in [Kinds -> Nat] /\ purse' \in [Kinds -> Nat] /\ purse[e] <= purse'[e]
      BY <1>1 DEF Types, EngineTyped
    <2> QED BY <1>12, <2>1, <2>2, CoveredStill
  <1> QED BY <1>1, <1>13, <1>14

-----------------------------------------------------------------------------
(* Changes of key.                                                            *)

LEMMA PurseMoved ==
  ASSUME Types, Types', PurseInv, torn => torn', UNCHANGED purse,
         NEW j \in Keys, NEW k \in Keys, j # k, world' = Rekeyed(j, k),
         call = Idle, call'.op = "save",
         \A e \in Kinds : /\ paid'[j][e] = 0 /\ paid'[k][e] <= paid[j][e] + paid[k][e]
                         /\ \A i \in Keys \ {j, k} : paid'[i][e] = paid[i][e]
  PROVE  PurseInv'
  <1> SUFFICES ASSUME ~torn', NEW e \in Kinds PROVE Covered(e)'
    BY DEF PurseInv
  <1>1. Covered(e)
    BY DEF PurseInv
  <1>2. IsFiniteSet(Held(e)') /\ Cardinality(Held(e)') <= Cardinality(Held(e))
    <2>1. [i \in Keys |-> paid[i][e]] \in Numbers /\ [i \in Keys |-> paid'[i][e]] \in Numbers
      BY DEF Types, EngineTyped, Payments, Numbers
    <2>2. PICK f : f = [i \in Keys |-> paid[i][e]]
      OBVIOUS
    <2>3. PICK q : q = [i \in Keys |-> paid'[i][e]]
      OBVIOUS
    <2>4. q[j] = 0 /\ q[k] <= f[j] + f[k] /\ \A i \in Keys \ {j, k} : q[i] = f[i]
      BY <2>2, <2>3
    <2>5. \A i \in Keys \ {j, k} : q[i] <= f[i]
      BY <2>1, <2>2, <2>4 DEF Numbers
    <2>6. IsFiniteSet(Units(f))
      BY <1>1, <2>2 DEF Covered, Held
    <2>7. IsFiniteSet(Units(q)) /\ Cardinality(Units(q)) <= Cardinality(Units(f))
      BY <2>1, <2>2, <2>3, <2>4, <2>5, <2>6, UnitsMoved
    <2> QED BY <2>2, <2>3, <2>7 DEF Held
  <1>3. /\ world'.drop = world.drop
        /\ world'.team = [i \in Keys |-> IF i = j THEN 0
                                        ELSE IF i = k THEN world.team[k] + world.team[j]
                                        ELSE world.team[i]]
        /\ call.op = "idle"
    BY RekeyedFields, IdleFields DEF Types, EngineTyped
  <1>4. IsFiniteSet(Owing(e)') /\ Cardinality(Owing(e)') <= Cardinality(Owing(e))
    <2>1. CASE e = "contract"
      <3>1. PICK f : f = world.team
        OBVIOUS
      <3>2. PICK q : q = world'.team
        OBVIOUS
      <3>3. Places = f /\ Places' = q
        BY <1>3, <3>1, <3>2 DEF Places
      <3>4. f \in Numbers /\ q \in Numbers
        <4>1. world \in Worlds /\ world' \in Worlds
          BY DEF Types, EngineTyped
        <4> QED BY <3>1, <3>2, <4>1, WorldFields DEF Numbers
      <3>5. Owing(e) = Units(f) /\ Owing(e)' = Units(q)
        BY <2>1, <3>3 DEF Owing, Units
      <3>6. \A i \in Keys : f[i] \in Nat
        BY <3>4 DEF Numbers
      <3>7. q[j] = 0 /\ q[k] = f[k] + f[j] /\ \A i \in Keys \ {j, k} : q[i] = f[i]
        BY <1>3, <3>1, <3>2
      <3>8. q[k] <= f[j] + f[k] /\ \A i \in Keys \ {j, k} : q[i] <= f[i]
        BY <3>6, <3>7
      <3>9. IsFiniteSet(Units(f))
        BY <1>1, <3>5 DEF Covered
      <3>10. IsFiniteSet(Units(q)) /\ Cardinality(Units(q)) <= Cardinality(Units(f))
        BY <3>4, <3>7, <3>8, <3>9, UnitsMoved
      <3> QED BY <3>5, <3>10
    <2>2. CASE e # "contract"
      <3>1. Owing(e)' \subseteq Owing(e)
        BY <1>3, <2>2 DEF Owing, Kinds
      <3> QED BY <1>1, <3>1, FS_Subset DEF Covered
    <2> QED BY <2>1, <2>2
  <1>5. /\ Cardinality(Held(e)) \in Nat /\ Cardinality(Held(e)') \in Nat
        /\ Cardinality(Owing(e)) \in Nat /\ Cardinality(Owing(e)') \in Nat
    BY <1>1, <1>2, <1>4, FS_CardinalityType DEF Covered
  <1>6. Cardinality(Held(e)') + Cardinality(Owing(e)') <= Cardinality(Held(e)) + Cardinality(Owing(e))
    BY <1>2, <1>4, <1>5
  <1>7. purse[e] \in Nat
    BY DEF Types, EngineTyped
  <1> QED BY <1>1, <1>2, <1>4, <1>6, <1>7, CoveredMoves

LEMMA PurseRename ==
  ASSUME Types, Types', PurseInv, NEW g \in Guests, NEW h \in Guests, Rename(g, h) PROVE PurseInv'
  <1> SUFFICES ASSUME ~torn' PROVE PurseInv'
    BY DEF PurseInv
  <1>1. /\ g \in Keys /\ h \in Keys /\ g # h /\ call = Idle /\ UNCHANGED purse /\ ~torn
        /\ paid' = [paid EXCEPT ![g] = Nothing, ![h] = paid[g]] /\ world' = Rekeyed(g, h)
        /\ call' = Call("save", {h}, g \in Team)
    BY DEF Rename, Seen, Keys, Types, EngineTyped
  <1>2. call'.op = "save"
    BY <1>1, CallOp
  <1>3. paid \in [Keys -> [Kinds -> Nat]]
    BY DEF Types, EngineTyped, Payments
  <1>4. paid'[g] = Nothing /\ paid'[h] = paid[g] /\ \A i \in Keys \ {g, h} : paid'[i] = paid[i]
    BY <1>1, <1>3
  <1>5. ASSUME NEW e \in Kinds
        PROVE  /\ paid'[g][e] = 0 /\ paid'[h][e] <= paid[g][e] + paid[h][e]
               /\ \A i \in Keys \ {g, h} : paid'[i][e] = paid[i][e]
    <2>1. paid[g][e] \in Nat /\ paid[h][e] \in Nat /\ Nothing[e] = 0
      BY <1>1, <1>3 DEF Nothing
    <2>2. paid'[h][e] <= paid[g][e] + paid[h][e]
      BY <1>4, <2>1
    <2> QED BY <1>4, <2>1, <2>2
  <1> QED BY <1>1, <1>2, <1>5, PurseMoved

LEMMA PurseMigrate ==
  ASSUME Types, Types', PurseInv, Behind, NEW g \in Guests, NEW a \in Accounts, Migrate(g, a) PROVE PurseInv'
  <1> SUFFICES ASSUME ~torn' PROVE PurseInv'
    BY DEF PurseInv
  <1>1. /\ call = Idle /\ UNCHANGED <<purse, torn>> /\ world' = Rekeyed(g, a)
        /\ paid' = [paid EXCEPT ![g] = Nothing, ![a] = [e \in Kinds |-> paid[g][e] + rows[a][e]]]
        /\ call' = Call("save", {a}, g \in Team)
    BY DEF Migrate, Seen
  <1>2. g \in Keys /\ a \in Keys /\ g # a
    BY WorldKeysAssumption DEF Keys
  <1>3. call'.op = "save"
    BY <1>1, CallOp
  <1>4. paid \in [Keys -> [Kinds -> Nat]] /\ rows \in [Keys -> [Kinds -> Nat]]
    BY DEF Types, EngineTyped, DataTyped, Payments
  <1>5. /\ paid'[g] = Nothing /\ paid'[a] = [e \in Kinds |-> paid[g][e] + rows[a][e]]
        /\ \A i \in Keys \ {g, a} : paid'[i] = paid[i]
    BY <1>1, <1>2, <1>4
  <1>6. ASSUME NEW e \in Kinds
        PROVE  /\ paid'[g][e] = 0 /\ paid'[a][e] <= paid[g][e] + paid[a][e]
               /\ \A i \in Keys \ {g, a} : paid'[i][e] = paid[i][e]
    <2>1. paid[g][e] \in Nat /\ paid[a][e] \in Nat /\ rows[a][e] \in Nat /\ Nothing[e] = 0
      BY <1>2, <1>4 DEF Nothing
    <2>2. rows[a][e] <= paid[a][e]
      BY <1>1, <1>2 DEF Behind
    <2>3. paid'[a][e] = paid[g][e] + rows[a][e]
      BY <1>5
    <2>4. paid'[a][e] <= paid[g][e] + paid[a][e]
      BY <2>1, <2>2, <2>3
    <2> QED BY <1>5, <2>1, <2>4
  <1> QED BY <1>1, <1>2, <1>3, <1>6, PurseMoved

LEMMA PurseNext == ASSUME Types, Types', Behind, PurseInv, [Next]_vars PROVE PurseInv'
  <1>1. CASE UNCHANGED vars
    BY <1>1 DEF PurseInv, Covered, Held, Owing, Places, Units, vars, memory, history
  <1>2. CASE BeginTick \/ BeginRaid \/ \E k \in Keys : Pay(k) \/ RaidHit(k)
    BY <1>2, PurseBeginTick, PurseBeginRaid, PursePay, PurseRaidHit
  <1>3. CASE Next /\ ~(BeginTick \/ BeginRaid \/ \E k \in Keys : Pay(k) \/ RaidHit(k))
    <2>1. CASE People
      BY <1>3, <2>1, PurseElse, PurseClaimDrop, PurseRename, PurseMigrate, PursePirates DEF People
    <2>2. CASE Scheduler
      BY <1>3, <2>2, PurseElse, PurseEndPay, PurseQuiet, PursePirates, PurseContract, PurseVisit DEF Scheduler
    <2>3. CASE Outside
      BY <1>3, <2>3, PurseElse, PurseCrash DEF Outside
    <2> QED BY <1>3, <2>1, <2>2, <2>3 DEF Next
  <1> QED BY <1>1, <1>2, <1>3

-----------------------------------------------------------------------------
(* Rows lag behind.                                                           *)

LEMMA BehindStays ==
  ASSUME Behind, torn => torn', UNCHANGED <<stored, rows>>, users \subseteq users',
         \A k \in Keys, e \in Kinds : rows[k][e] <= paid'[k][e]
  PROVE  Behind'
  BY DEF Behind

(* A runner is saved, or the write fails.                                     *)
LEMMA BehindSave ==
  ASSUME Types, Types', Behind, torn => torn', NEW k \in Keys, NEW next, Save(k, next),
         users \subseteq users', k \in users',
         ~torn' => \A j \in Keys, e \in Kinds : rows[j][e] <= paid'[j][e]
  PROVE  Behind'
  <1> SUFFICES ASSUME ~torn' PROVE Behind'
    BY DEF Behind
  <1>1. CASE Fails
    BY <1>1, BehindStays DEF Fails, database
  <1>2. CASE stored' = stored \cup {k} /\ rows' = [rows EXCEPT ![k] = paid'[k]]
    <2>1. rows \in [Keys -> [Kinds -> Nat]] /\ paid' \in [Keys -> [Kinds -> Nat]]
      BY DEF Types, DataTyped, EngineTyped, Payments
    <2>2. rows'[k] = paid'[k] /\ \A j \in Keys \ {k} : rows'[j] = rows[j]
      BY <1>2, <2>1
    <2>3. \A j \in Keys, e \in Kinds : rows'[j][e] <= paid'[j][e]
      <3> TAKE j \in Keys, e \in Kinds
      <3>1. paid'[j][e] \in Nat
        BY <2>1
      <3>2. CASE j = k
        BY <2>2, <3>1, <3>2
      <3>3. CASE j # k
        BY <2>2, <3>3
      <3> QED BY <3>2, <3>3
    <2>4. stored' \subseteq users' /\ \A j \in Keys \ stored' : rows'[j] = Nothing
      BY <1>2, <2>2 DEF Behind
    <2> QED BY <2>3, <2>4 DEF Behind
  <1> QED BY <1>1, <1>2 DEF Save, Saved

LEMMA RowsBehind ==
  ASSUME Behind, ~torn, NEW k \in Keys, NEW e \in Kinds PROVE rows[k][e] <= paid[k][e]
  BY DEF Behind

(* Payments only add.                                                         *)
LEMMA BehindPaid ==
  ASSUME Types, Types', Behind, ~torn, NEW k \in Keys, NEW kind \in Kinds, NEW n \in {0, 1},
         paid' = [paid EXCEPT ![k][kind] = @ + n]
  PROVE  \A j \in Keys, e \in Kinds : rows[j][e] <= paid'[j][e]
  <1> TAKE j \in Keys, e \in Kinds
  <1>1. paid \in [Keys -> [Kinds -> Nat]] /\ rows \in [Keys -> [Kinds -> Nat]]
    BY DEF Types, DataTyped, EngineTyped, Payments
  <1>2. paid'[j][e] = IF j = k /\ e = kind THEN paid[j][e] + n ELSE paid[j][e]
    BY <1>1
  <1>3. paid[j][e] \in Nat /\ rows[j][e] \in Nat /\ rows[j][e] <= paid[j][e]
    BY <1>1, RowsBehind
  <1> QED BY <1>2, <1>3

LEMMA BehindIRC ==
  ASSUME Types, Types', Behind, NEW k \in Keys,
         \/ Enter(k) \/ Restore(k) \/ Quit(k) \/ Split(k) \/ FinishSave(k) \/ DropGone(k)
         \/ \E b \in Accounts : Switch(k, b)
  PROVE  Behind'
  <1>1. PICK j \in Keys : UNCHANGED paid /\ users \subseteq users' /\ j \in users' /\ \E next : Save(j, next)
    <2>1. CASE Enter(k) \/ Restore(k)
      <3>1. \E j \in Keys : Link(j)
        BY <2>1, RestoreLinks DEF Enter, Types
      <3> QED BY <3>1 DEF Link
    <2>2. CASE ~(Enter(k) \/ Restore(k))
      <3>1. UNCHANGED paid /\ users \subseteq users' /\ k \in users' /\ \E next : Save(k, next)
        BY <2>2 DEF Quit, Split, FinishSave, DropGone, Switch, Types, EngineTyped, CallTyped
      <3> QED BY <3>1
    <2> QED BY <2>1, <2>2
  <1>2. torn => torn'
    <2>1. ASSUME torn PROVE torn'
      BY <2>1, Zenon DEF Enter, Restore, Link, Quit, Split, FinishSave, DropGone, Switch
    <2> QED BY <2>1
  <1>3. ~torn' => \A i \in Keys, e \in Kinds : rows[i][e] <= paid'[i][e]
    BY <1>1, <1>2, RowsBehind
  <1> QED BY <1>1, <1>2, <1>3, BehindSave

LEMMA BehindPays ==
  ASSUME Types, Types', Behind, NEW k \in Keys, Pay(k) \/ RaidHit(k) \/ ClaimDrop(k) PROVE Behind'
  <1> SUFFICES ASSUME ~torn' PROVE Behind'
    BY DEF Behind
  <1>1. UNCHANGED users
    BY DEF Pay, RaidHit, ClaimDrop
  <1>2. ~torn
    <2>1. ASSUME torn PROVE torn'
      BY <2>1, Zenon DEF Pay, RaidHit, ClaimDrop
    <2> QED BY <2>1
  <1>3. CASE (\E next : Save(k, next)) /\ k \in users /\ (\E kind \in Kinds : paid' = Rewarded(k, kind))
    <2>1. PICK kind \in Kinds : paid' = Rewarded(k, kind)
      BY <1>3
    <2>2. PICK n \in {0, 1} : paid' = [paid EXCEPT ![k][kind] = @ + n]
      BY <2>1, RewardedMore
    <2>3. \A j \in Keys, e \in Kinds : rows[j][e] <= paid'[j][e]
      BY <1>2, <2>2, BehindPaid
    <2> QED BY <1>1, <1>2, <1>3, <2>3, BehindSave
  <1>4. CASE UNCHANGED <<paid, database>>
    BY <1>1, <1>2, <1>4, RowsBehind, BehindStays DEF database
  <1>5. CASE ClaimDrop(k)
    <2>1. paid' = [paid EXCEPT ![k].drop = @ + 1] /\ k \in users /\ \E next : Save(k, next)
      BY <1>5 DEF ClaimDrop, Types, EngineTyped
    <2>2. PICK n \in {0, 1} : n = 1
      OBVIOUS
    <2>3. "drop" \in Kinds /\ paid' = [paid EXCEPT ![k]["drop"] = @ + n]
      BY <2>1, <2>2 DEF Kinds
    <2>4. \A j \in Keys, e \in Kinds : rows[j][e] <= paid'[j][e]
      BY <1>2, <2>3, BehindPaid
    <2> QED BY <1>1, <1>2, <2>1, <2>4, BehindSave
  <1>6. CASE RaidHit(k)
    <2>1. paid' = Rewarded(k, "raid") /\ k \in users /\ \E next : Save(k, next)
      BY <1>6 DEF RaidHit, Types, EngineTyped, CallTyped
    <2> QED BY <1>3, <2>1 DEF Kinds
  <1>7. CASE Pay(k)
    <2>1. \/ k \in users /\ paid' = Rewarded(k, "contract") /\ \E next : Save(k, next)
          \/ UNCHANGED <<paid, database>>
      BY <1>7 DEF Pay
    <2> QED BY <1>3, <1>4, <2>1 DEF Kinds
  <1> QED BY <1>5, <1>6, <1>7

LEMMA BehindRename ==
  ASSUME Types, Types', Behind, NEW g \in Guests, NEW h \in Guests, Rename(g, h) PROVE Behind'
  <1> SUFFICES ASSUME ~torn' PROVE Behind'
    BY DEF Behind
  <1>1. /\ g \in Keys /\ h \in Keys \ users /\ g # h /\ users' = users \ {g} /\ ~torn
        /\ paid' = [paid EXCEPT ![g] = Nothing, ![h] = paid[g]]
        /\ stored' = stored \ {g} /\ rows' = [rows EXCEPT ![g] = Nothing]
    BY DEF Rename, Keys, Types, EngineTyped
  <1>2. paid \in [Keys -> [Kinds -> Nat]] /\ rows \in [Keys -> [Kinds -> Nat]]
    BY DEF Types, DataTyped, EngineTyped, Payments
  <1>3. rows'[g] = Nothing /\ \A i \in Keys \ {g} : rows'[i] = rows[i]
    BY <1>1, <1>2
  <1>4. paid'[h] = paid[g] /\ paid'[g] = Nothing /\ \A i \in Keys \ {g, h} : paid'[i] = paid[i]
    BY <1>1, <1>2
  <1>5. rows[h] = Nothing
    BY <1>1 DEF Behind
  <1>6. \A i \in Keys, e \in Kinds : rows'[i][e] <= paid'[i][e]
    <2> TAKE i \in Keys, e \in Kinds
    <2>1. Nothing[e] = 0 /\ paid[g][e] \in Nat
      BY <1>1, <1>2 DEF Nothing
    <2>2. CASE i = g
      BY <1>3, <1>4, <2>1, <2>2
    <2>3. CASE i = h
      BY <1>1, <1>3, <1>4, <1>5, <2>1, <2>3
    <2>4. CASE i # g /\ i # h
      BY <1>1, <1>3, <1>4, <2>4, RowsBehind
    <2> QED BY <2>2, <2>3, <2>4
  <1> QED BY <1>1, <1>3, <1>6 DEF Behind

LEMMA BehindMigrate ==
  ASSUME Types, Types', Behind, NEW g \in Guests, NEW a \in Accounts, Migrate(g, a) PROVE Behind'
  <1> SUFFICES ASSUME ~torn' PROVE Behind'
    BY DEF Behind
  <1>1. /\ users' = (users \ {g}) \cup {a} /\ stored' = (stored \ {g}) \cup {a} /\ ~torn
        /\ paid' = [paid EXCEPT ![g] = Nothing, ![a] = [e \in Kinds |-> paid[g][e] + rows[a][e]]]
        /\ rows' = [rows EXCEPT ![g] = Nothing, ![a] = paid'[a]]
    BY DEF Migrate
  <1>2. g \in Keys /\ a \in Keys /\ g # a
    BY WorldKeysAssumption DEF Keys
  <1>3. /\ paid \in [Keys -> [Kinds -> Nat]] /\ rows \in [Keys -> [Kinds -> Nat]]
        /\ paid' \in [Keys -> [Kinds -> Nat]]
    BY DEF Types, DataTyped, EngineTyped, Payments
  <1>4. rows'[g] = Nothing /\ rows'[a] = paid'[a] /\ \A i \in Keys \ {g, a} : rows'[i] = rows[i]
    BY <1>1, <1>2, <1>3
  <1>5. paid'[g] = Nothing /\ \A i \in Keys \ {g, a} : paid'[i] = paid[i]
    BY <1>1, <1>2, <1>3
  <1>6. \A i \in Keys, e \in Kinds : rows'[i][e] <= paid'[i][e]
    <2> TAKE i \in Keys, e \in Kinds
    <2>1. Nothing[e] = 0 /\ paid'[a][e] \in Nat
      BY <1>2, <1>3 DEF Nothing
    <2>2. CASE i = g
      BY <1>4, <1>5, <2>1, <2>2
    <2>3. CASE i = a
      BY <1>4, <2>1, <2>3
    <2>4. CASE i # g /\ i # a
      BY <1>1, <1>4, <1>5, <2>4, RowsBehind
    <2> QED BY <2>2, <2>3, <2>4
  <1> QED BY <1>1, <1>2, <1>4, <1>6 DEF Behind

LEMMA BehindVisit == ASSUME Types, Types', Behind, Visit PROVE Behind'
  <1> SUFFICES ASSUME ~torn' PROVE Behind'
    BY DEF Behind
  <1>1. PICK gone \in SUBSET Prunable, reached \in SUBSET linked :
          /\ users' = users \ gone /\ stored' = (stored \ gone) \cup reached
          /\ paid' = [k \in Keys |-> IF k \in gone THEN Nothing ELSE paid[k]]
          /\ rows' = [k \in Keys |-> IF k \in gone THEN Nothing ELSE IF k \in reached THEN paid[k] ELSE rows[k]]
    BY DEF Visit
  <1>2. ~torn /\ reached \subseteq users \ gone
    BY DEF Visit, Prunable, Types, EngineTyped
  <1>3. \A k \in Keys, e \in Kinds : rows'[k][e] <= paid'[k][e]
    <2> TAKE k \in Keys, e \in Kinds
    <2>1. Nothing[e] = 0 /\ paid[k][e] \in Nat
      BY DEF Nothing, Types, EngineTyped, Payments
    <2>2. rows[k][e] <= paid[k][e]
      BY <1>2, RowsBehind
    <2>3. CASE k \in gone
      BY <1>1, <2>1, <2>3
    <2>4. CASE k \notin gone
      BY <1>1, <2>1, <2>2, <2>4
    <2> QED BY <2>3, <2>4
  <1>4. stored' \subseteq users' /\ \A k \in Keys \ stored' : rows'[k] = Nothing
    BY <1>1, <1>2 DEF Behind
  <1> QED BY <1>3, <1>4 DEF Behind

LEMMA BehindOutage == ASSUME Types, Types', Behind, NEW where \in {"out", "off"}, Outage(where) PROVE Behind'
  <1> SUFFICES ASSUME ~torn' PROVE Behind'
    BY DEF Behind
  <1>1. PICK done \in SUBSET linked :
          /\ stored' = stored \cup done /\ UNCHANGED <<users, paid, torn>>
          /\ rows' = [k \in Keys |-> IF k \in done THEN paid[k] ELSE rows[k]]
    BY DEF Outage, DisconnectAll
  <1>2. \A k \in Keys, e \in Kinds : rows'[k][e] <= paid'[k][e]
    <2> TAKE k \in Keys, e \in Kinds
    <2>1. paid[k][e] \in Nat /\ rows[k][e] <= paid[k][e]
      BY <1>1, RowsBehind DEF Types, EngineTyped, Payments
    <2> QED BY <1>1, <2>1
  <1>3. stored' \subseteq users' /\ \A k \in Keys \ stored' : rows'[k] = Nothing
    BY <1>1 DEF Behind, Types, EngineTyped
  <1> QED BY <1>2, <1>3 DEF Behind

LEMMA BehindCrash == ASSUME Types, Types', Behind, CrashRestart PROVE Behind'
  <1> SUFFICES ASSUME ~torn' PROVE Behind'
    BY DEF Behind
  <1>1. users' = stored /\ paid' = rows /\ UNCHANGED <<stored, rows>> /\ ~torn
    BY DEF CrashRestart, database
  <1>2. \A k \in Keys, e \in Kinds : rows'[k][e] <= paid'[k][e]
    BY <1>1 DEF Types, DataTyped, Payments
  <1> QED BY <1>1, <1>2 DEF Behind

LEMMA BehindElse ==
  ASSUME Types, Behind,
         \/ \E k \in Keys : Unseen(k)
         \/ \E e \in Kinds : Deadline(e)
         \/ ForcePirate \/ FinishWorld \/ Return \/ Round \/ BeginTick \/ EndPay \/ BeginRaid \/ EndRaid
         \/ Quiet \/ PirateEvent \/ RaidEvent \/ ContractEvent \/ FinishCity \/ Remember
  PROVE  Behind'
  <1>1. UNCHANGED <<users, paid, stored, rows, torn>>
    BY DEF Unseen, Deadline, ForcePirate, FinishWorld, Return, Round, BeginTick, EndPay, BeginRaid, EndRaid,
           Quiet, PirateEvent, RaidEvent, ContractEvent, CityEvent, FinishCity, Remember,
           SaveWorld, WorldSaved, Fails, memory, database, history
  <1> QED BY <1>1 DEF Behind

LEMMA BehindNext == ASSUME Types, Types', Behind, [Next]_vars PROVE Behind'
  <1>1. CASE UNCHANGED vars
    BY <1>1 DEF Behind, vars, memory, database
  <1>2. CASE People
    <2>1. \A a \in Accounts : a \in Keys
      BY DEF Keys
    <2> QED BY <1>2, <2>1, BehindIRC, BehindPays, BehindRename, BehindMigrate, BehindElse DEF People
  <1>3. CASE Scheduler
    BY <1>3, BehindIRC, BehindPays, BehindVisit, BehindElse DEF Scheduler
  <1>4. CASE Outside
    BY <1>4, BehindOutage, BehindCrash, BehindElse DEF Outside
  <1> QED BY <1>1, <1>2, <1>3, <1>4 DEF Next

-----------------------------------------------------------------------------

LEMMA PaymentsInit == Init => Behind /\ PurseInv
  <1> SUFFICES ASSUME Init PROVE Behind /\ PurseInv
    OBVIOUS
  <1>1. /\ users = {} /\ stored = {} /\ rows = [k \in Keys |-> Nothing] /\ paid = rows
        /\ call.op = "idle" /\ world.team = NoTeam /\ world.drop = FALSE /\ purse = Nothing
    BY IdleFields DEF Init
  <1>2. Behind
    BY <1>1 DEF Behind, Nothing
  <1>3. ASSUME NEW e \in Kinds PROVE Covered(e)
    <2>1. [k \in Keys |-> paid[k][e]] = NoTeam
      BY <1>1 DEF NoTeam, Nothing
    <2>2. Held(e) = {}
      BY <2>1, UnitsNone DEF Held
    <2>3. Owing(e) = {}
      BY <1>1, UnitsNone, OwingKinds DEF Places, Kinds
    <2>4. purse[e] = 0
      BY <1>1 DEF Nothing
    <2> QED BY <2>2, <2>3, <2>4, FS_EmptySet DEF Covered
  <1> QED BY <1>2, <1>3 DEF PurseInv

LEMMA AlwaysCovered == Spec => [](Types /\ Behind /\ PurseInv)
  <1>1. Init => Behind /\ PurseInv
    BY PaymentsInit
  <1>2. Behind /\ PurseInv /\ Inv /\ Inv' /\ [Next]_vars => Behind' /\ PurseInv'
    <2> SUFFICES ASSUME Behind, PurseInv, Inv, Inv', [Next]_vars PROVE Behind' /\ PurseInv'
      OBVIOUS
    <2>1. Types /\ Types'
      BY DEF Inv
    <2> QED BY <2>1, BehindNext, PurseNext
  <1>3. Inv => Types
    BY DEF Inv
  <1> QED BY <1>1, <1>2, <1>3, AlwaysInv, PTL DEF Spec

(* Nobody is paid twice, however many crashes, failing writes, changes of     *)
(* nick and account come in between: what runners hold for contracts, raids   *)
(* and dead drops never exceeds what was promised (resolveContractLocked,     *)
(* resolveRaidLocked, ClaimDeadDrop, MigrateGuest), until a fault tears the   *)
(* payment and the row that ends it apart.                                    *)
THEOREM NobodyPaidTwice == Spec => []PaidOnce
  <1>1. Types /\ Behind /\ PurseInv => PaidOnce
    <2> SUFFICES ASSUME Types, PurseInv, ~torn, NEW e \in Kinds
                 PROVE  Cardinality(Units([k \in Keys |-> paid[k][e]])) <= purse[e]
      BY DEF PaidOnce
    <2>1. Covered(e)
      BY DEF PurseInv
    <2>2. Cardinality(Held(e)) \in Nat /\ Cardinality(Owing(e)) \in Nat /\ purse[e] \in Nat
      BY <2>1, FS_CardinalityType DEF Covered, Types, EngineTyped
    <2>3. Cardinality(Held(e)) <= purse[e]
      BY <2>1, <2>2 DEF Covered
    <2> QED BY <2>3 DEF Held
  <1> QED BY <1>1, AlwaysCovered, PTL

=============================================================================
