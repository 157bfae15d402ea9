----------------------------- MODULE ClocksProofs -----------------------------
(***************************************************************************)
(* What TLAPS proves of Clocks and of the Limiter in front of it, for      *)
(* every set of keys, cooldown, delay and grace, and for a clock and a     *)
(* wire of any bounds.                                                     *)
(***************************************************************************)
EXTENDS Clocks, TLAPS

-----------------------------------------------------------------------------
(* The limiter.                                                               *)

LimiterType ==
    /\ now \in Moments
    /\ Known \subseteq Slots /\ last \in [Known -> Nat]
    /\ granted \in [Slots -> Nat]
    /\ early = FALSE

(* A key is forgotten only when its cooldown has long passed, and no time in  *)
(* the table is ahead of the clock.                                           *)
Remembered ==
    \A k \in Slots :
        /\ granted[k] <= now
        /\ granted[k] # Never => (k \in Known /\ last[k] = granted[k]) \/ now - granted[k] > Forget

LimiterInv == LimiterType /\ Remembered

LEMMA LimiterStart == LimiterInit => LimiterInv
  <1> SUFFICES ASSUME LimiterInit PROVE LimiterInv
    OBVIOUS
  <1>1. LimiterType
    BY DEF LimiterInit, LimiterType, Known, Never, Moments
  <1>2. Remembered
    BY DEF LimiterInit, Remembered, Known, Never
  <1> QED BY <1>1, <1>2 DEF LimiterInv

LEMMA LimiterAllowed ==
  ASSUME LimiterInv, NEW keys \in SUBSET Slots, Allowed(keys), UNCHANGED now
  PROVE  LimiterInv'
  <1> USE DEF LimiterInv, LimiterType, Known, Never, Moments
  <1>1. Kept \subseteq Known /\ \A k \in Known \ Kept : now - last[k] > Forget
    BY DEF Kept, Stale
  <1>2. DOMAIN last' = Kept \cup keys
    BY DEF Allowed
  <1>3. ASSUME NEW k \in keys
        PROVE  granted[k] = Never \/ now - granted[k] >= Cooldown[k]
    <2>1. CASE k \in Known /\ last[k] = granted[k]
      BY <2>1 DEF Allowed, Ready
    <2>2. CASE now - granted[k] > Forget
      BY <2>2, CooldownAssumption, ForgetAssumption
    <2> QED BY <2>1, <2>2 DEF Remembered
  <1>4. early' = FALSE
    <2>1. ~ \E k \in keys : granted[k] # Never /\ now - granted[k] < Cooldown[k]
      BY <1>3, CooldownAssumption
    <2>2. early' = (early \/ \E k \in keys : granted[k] # Never /\ now - granted[k] < Cooldown[k])
      BY DEF Allowed
    <2>3. early = FALSE
      OBVIOUS
    <2> QED BY <2>1, <2>2, <2>3, Zenon
  <1>5. LimiterType'
    BY <1>1, <1>2, <1>4 DEF Allowed
  <1>6. Remembered'
    <2> SUFFICES ASSUME NEW k \in Slots
                 PROVE  /\ granted'[k] <= now
                        /\ granted'[k] # Never =>
                              (k \in DOMAIN last' /\ last'[k] = granted'[k]) \/ now - granted'[k] > Forget
      BY DEF Remembered
    <2>1. CASE k \in keys
      BY <2>1 DEF Allowed
    <2>2. CASE k \notin keys /\ k \in Kept
      BY <2>2, <1>1 DEF Allowed, Remembered
    <2>3. CASE k \notin keys /\ k \notin Kept
      BY <2>3, <1>1 DEF Allowed, Remembered
    <2> QED BY <2>1, <2>2, <2>3
  <1> QED BY <1>5, <1>6

LEMMA LimiterIdle == ASSUME LimiterInv, UNCHANGED <<now, table>> PROVE LimiterInv'
  BY DEF LimiterInv, LimiterType, Remembered, Known, table

LEMMA LimiterPass == ASSUME LimiterInv, Pass PROVE LimiterInv'
  <1> USE DEF LimiterInv, LimiterType, Known, Never, Moments
  <1>1. LimiterType'
    BY DEF Pass, table
  <1>2. Remembered'
    BY ForgetAssumption DEF Pass, Remembered, table
  <1> QED BY <1>1, <1>2

LEMMA LimiterReset ==
  ASSUME LimiterInv, last' = [k \in {} |-> now], granted' = [k \in Slots |-> Never], UNCHANGED <<now, early>>
  PROVE  LimiterInv'
  BY DEF LimiterInv, LimiterType, Remembered, Known, Never, Moments

-----------------------------------------------------------------------------
(* The wire.                                                                  *)

Kinds    == {"JOIN", "LOGIN", "LATE", "QUIT", "SPLIT", "KICKED", "SAY", "COMMAND"}
Messages == [kind : Kinds, at : Nat]

(* Sent to members of the channel only.                                       *)
Local == Kinds \ {"LATE", "COMMAND"}

(* Messages arrive in the order of their stamps, and none from the channel    *)
(* once the bot has been kicked from it.                                      *)
WireInv ==
    /\ wire \in Seq(Messages)
    /\ \A i \in 1..Len(wire) : wire[i].at <= now
    /\ \A i, j \in 1..Len(wire) : i < j => wire[i].at <= wire[j].at
    /\ \A i \in 1..Len(wire) : wire[i].kind \in Local => Watching
    /\ \A i \in 1..Len(wire) : wire[i].kind = "KICKED" => bot = "kicked"
    /\ \A i, j \in 1..Len(wire) : i < j /\ wire[i].kind = "KICKED" => wire[j].kind \notin Local

Typed ==
    /\ now \in Nat
    /\ there \in BOOLEAN /\ bot \in {"in", "kicked", "out", "off"} /\ asked \in BOOLEAN
    /\ listed \in BOOLEAN /\ (listed => Watching)
    /\ spent \in Nat /\ links \in Nat /\ lost \in Nat
    /\ player \in Owners /\ ghost \in BOOLEAN

(* What is true at the time n of a runner r and of what its streak s has      *)
(* seen: it was last seen when it was last known to be linked, but for what   *)
(* it does while it is offline.                                               *)
Good(r, s, n) ==
    /\ r \in Runners /\ s \in Streaks
    /\ r.progressAt <= n /\ r.seenAt <= n /\ s.left <= n
    /\ ~r.linked /\ r.since # Never /\ ~s.kept => s.left = r.seenAt
    /\ r.since # Never /\ ~s.kept => ~s.quit /\ s.worst <= Grace

Functions == runner \in [Owners -> Runners] /\ streak \in [Owners -> Streaks]

StreakInv == Functions /\ \A k \in Owners : Good(runner[k], streak[k], now)

ClocksInv == Typed /\ WireInv /\ StreakInv

LEMMA Bounds == Lag \in Nat /\ Grace \in Nat /\ MaxTime \in Nat /\ MaxWire \in Nat
  BY ClocksAssumption

LEMMA RunnerFields ==
  ASSUME NEW r \in Runners
  PROVE  /\ r.linked \in BOOLEAN
         /\ r.progressAt \in Nat /\ r.seenAt \in Nat /\ r.since \in Nat /\ r.progress \in Nat
  BY DEF Runners

LEMMA StreakFields ==
  ASSUME NEW s \in Streaks
  PROVE  s.left \in Nat /\ s.worst \in Nat /\ s.quit \in BOOLEAN /\ s.kept \in BOOLEAN
  BY DEF Streaks

LEMMA NewRunner ==
  ASSUME NEW n \in Nat
  PROVE  Good(NoRunner, NoStreak, n) /\ NoRunner \in Runners /\ NoStreak \in Streaks
  BY DEF Good, NoRunner, NoStreak, Runners, Streaks, Never

LEMMA ClocksStart == Init => ClocksInv
  <1> SUFFICES ASSUME Init PROVE ClocksInv
    OBVIOUS
  <1>1. Typed
    BY DEF Init, LimiterInit, Typed, Owners
  <1>2. WireInv
    BY DEF Init, WireInv
  <1>3. StreakInv
    <2>1. now \in Nat /\ runner = [k \in Owners |-> NoRunner] /\ streak = [k \in Owners |-> NoStreak]
      BY DEF Init, LimiterInit
    <2> QED BY <2>1, NewRunner DEF StreakInv, Functions
  <1> QED BY <1>1, <1>2, <1>3 DEF ClocksInv

LEMMA WireType == ASSUME WireInv PROVE \A i \in 1..Len(wire) : wire[i].at \in Nat /\ wire[i].kind \in Kinds
  <1>1. \A m \in Messages : m.at \in Nat /\ m.kind \in Kinds
    BY DEF Messages
  <1>2. \A i \in 1..Len(wire) : wire[i] \in Messages
    <2> wire \in Seq(Messages)
      BY DEF WireInv
    <2> QED OBVIOUS
  <1> QED BY <1>1, <1>2

(* A message is sent, from the channel only while the bot is in it.           *)
LEMMA WireAppend ==
  ASSUME WireInv, Typed, NEW kind \in Kinds, Send(kind), UNCHANGED now,
         kind \in Local => bot = "in",
         IF kind = "KICKED" THEN bot' = "kicked" ELSE bot' = bot
  PROVE  WireInv'
  <1> DEFINE m == [kind |-> kind, at |-> now]
  <1>1. m \in Messages /\ m.at = now /\ m.kind = kind
    BY DEF Messages, Typed
  <1> HIDE DEF m
  <1>2. wire' = Append(wire, m)
    BY DEF Send, m
  <1>3. wire' \in Seq(Messages) /\ Len(wire') = Len(wire) + 1 /\ Len(wire) \in Nat
    BY <1>1, <1>2 DEF WireInv
  <1>4. ASSUME NEW i \in 1..Len(wire')
        PROVE  /\ i = Len(wire) + 1 => wire'[i] = m
               /\ i # Len(wire) + 1 => i \in 1..Len(wire) /\ wire'[i] = wire[i]
    BY <1>1, <1>2, <1>3 DEF WireInv
  <1>5. \A i \in 1..Len(wire) : wire[i].at \in Nat
    BY WireType
  <1>6. \A i \in 1..Len(wire') : wire'[i].at <= now'
    BY <1>1, <1>3, <1>4, <1>5 DEF WireInv, Typed
  <1>7. \A i, j \in 1..Len(wire') : i < j => wire'[i].at <= wire'[j].at
    BY <1>1, <1>3, <1>4, <1>5 DEF WireInv, Typed
  <1>8. Watching => Watching'
    BY DEF Watching
  <1>9. \A i \in 1..Len(wire') : wire'[i].kind \in Local => Watching'
    BY <1>1, <1>4, <1>8 DEF WireInv, Watching
  <1>10. \A i \in 1..Len(wire') : wire'[i].kind = "KICKED" => bot' = "kicked"
    BY <1>1, <1>4 DEF WireInv, Watching, Local, Kinds
  <1>11. ASSUME NEW i \in 1..Len(wire'), NEW j \in 1..Len(wire'), i < j, wire'[i].kind = "KICKED"
         PROVE  wire'[j].kind \notin Local
    <2>1. i # Len(wire) + 1 /\ i \in 1..Len(wire) /\ wire[i].kind = "KICKED"
      BY <1>3, <1>4, <1>11
    <2>2. bot = "kicked"
      BY <2>1 DEF WireInv
    <2>3. CASE j = Len(wire) + 1
      BY <2>2, <2>3, <1>1, <1>4
    <2>4. CASE j # Len(wire) + 1
      BY <2>1, <2>4, <1>4, <1>11 DEF WireInv
    <2> QED BY <2>3, <2>4
  <1> QED BY <1>3, <1>6, <1>7, <1>9, <1>10, <1>11 DEF WireInv

(* What a handler knows of the message it is given.                           *)
LEMMA WireHead ==
  ASSUME WireInv, wire # <<>>
  PROVE  /\ Head(wire).at \in Nat /\ Head(wire).at <= now
         /\ Head(wire) = wire[1] /\ 1 \in 1..Len(wire)
         /\ Head(wire).kind \in Local => Watching
  <1>1. wire \in Seq(Messages)
    BY DEF WireInv
  <1>2. Len(wire) \in Nat /\ 1 \in 1..Len(wire) /\ Head(wire) = wire[1]
    BY <1>1
  <1> QED BY <1>2, WireType DEF WireInv

LEMMA WireTail ==
  ASSUME WireInv, wire # <<>>, wire' = Tail(wire), UNCHANGED now,
         IF Head(wire).kind = "KICKED" THEN bot' = "out" ELSE UNCHANGED bot
  PROVE  WireInv'
  <1>1. wire' \in Seq(Messages) /\ Len(wire') = Len(wire) - 1 /\ Len(wire) \in Nat
    BY DEF WireInv
  <1>2. ASSUME NEW i \in 1..Len(wire')
        PROVE  i + 1 \in 1..Len(wire) /\ 1 < i + 1 /\ wire'[i] = wire[i + 1]
    BY <1>1 DEF WireInv
  <1>3. \A i, j \in 1..Len(wire') : i < j => i + 1 < j + 1
    BY <1>1
  <1>4. Head(wire) = wire[1] /\ 1 \in 1..Len(wire)
    BY WireHead
  <1>5. /\ \A i \in 1..Len(wire') : wire'[i].at <= now'
        /\ \A i, j \in 1..Len(wire') : i < j => wire'[i].at <= wire'[j].at
        /\ \A i, j \in 1..Len(wire') : i < j /\ wire'[i].kind = "KICKED" => wire'[j].kind \notin Local
    BY <1>2, <1>3 DEF WireInv
  <1>6. CASE Head(wire).kind = "KICKED"
    <2>1. \A i \in 1..Len(wire') : wire'[i].kind \notin Local
      BY <1>2, <1>4, <1>6 DEF WireInv
    <2>2. "KICKED" \in Local
      BY DEF Local, Kinds
    <2> QED BY <1>1, <1>5, <2>1, <2>2 DEF WireInv
  <1>7. CASE Head(wire).kind # "KICKED"
    <2>1. UNCHANGED bot
      BY <1>7
    <2>2. /\ \A i \in 1..Len(wire') : wire'[i].kind \in Local => Watching'
          /\ \A i \in 1..Len(wire') : wire'[i].kind = "KICKED" => bot' = "kicked"
      BY <1>2, <2>1 DEF WireInv, Watching
    <2> QED BY <1>1, <1>5, <2>2 DEF WireInv
  <1> QED BY <1>6, <1>7

(* Nothing is on the way.                                                     *)
LEMMA WireCut == ASSUME wire' = <<>> PROVE WireInv'
  BY DEF WireInv

-----------------------------------------------------------------------------
(* The engine.  What a call does at the time t of the message, or of the      *)
(* local clock, that it is given.                                             *)

LEMMA LaterType ==
  ASSUME NEW s \in Nat, NEW t \in Nat
  PROVE  Later(s, t) \in Nat /\ s <= Later(s, t) /\ t <= Later(s, t) /\ Later(s, t) \in {s, t}
  BY DEF Later

LEMMA AdvancedFields ==
  ASSUME NEW r \in Runners, NEW t \in Nat
  PROVE  /\ Advanced(r, t) \in Runners
         /\ Advanced(r, t).linked = r.linked /\ Advanced(r, t).since = r.since
         /\ Advanced(r, t).seenAt \in {t, r.seenAt}
         /\ ~r.linked => Advanced(r, t).seenAt = r.seenAt
         /\ Advanced(r, t).progressAt \in {t, r.progressAt}
         /\ Advanced(r, t).progress \in Nat
  <1>1. CASE r.linked
    <2>1. /\ Later(t, r.seenAt) \in Nat /\ Later(t, r.progressAt) \in Nat
          /\ Later(t, r.seenAt) \in {t, r.seenAt} /\ Later(t, r.progressAt) \in {t, r.progressAt}
          /\ r.progress + Later(t, r.progressAt) - r.progressAt \in Nat
      <3>1. /\ Later(t, r.seenAt) \in Nat /\ Later(t, r.progressAt) \in Nat /\ r.progressAt <= Later(t, r.progressAt)
            /\ Later(t, r.seenAt) \in {t, r.seenAt} /\ Later(t, r.progressAt) \in {t, r.progressAt}
        BY RunnerFields, LaterType
      <3> QED BY <3>1, RunnerFields
    <2> QED BY <1>1, <2>1 DEF Advanced, Runners
  <1>2. CASE ~r.linked
    BY <1>2 DEF Advanced, Runners
  <1> QED BY <1>1, <1>2

LEMMA LinkedFields ==
  ASSUME NEW r \in Runners, NEW t \in Nat
  PROVE  /\ Linked(r, t) \in Runners /\ Linked(r, t).linked
         /\ Linked(r, t).seenAt = t /\ Linked(r, t).progressAt = t /\ Linked(r, t).since = r.since
         /\ Linked(r, t).progress = r.progress
  BY DEF Linked, Runners

LEMMA GoodAdvanced ==
  ASSUME NEW r, NEW s, NEW n \in Nat, NEW t \in Nat, t <= n, Good(r, s, n)
  PROVE  Good(Advanced(r, t), s, n)
  <1> DEFINE a == Advanced(r, t)
  <1>1. /\ a \in Runners /\ a.linked = r.linked /\ a.since = r.since
        /\ a.seenAt \in {t, r.seenAt} /\ (~r.linked => a.seenAt = r.seenAt)
        /\ a.progressAt \in {t, r.progressAt}
    BY AdvancedFields DEF Good
  <1> HIDE DEF a
  <1>2. Good(a, s, n)
    BY <1>1 DEF Good
  <1> QED BY <1>2 DEF a

LEMMA GoodLinked ==
  ASSUME NEW r, NEW s, NEW n \in Nat, NEW t \in Nat, t <= n, Good(r, s, n)
  PROVE  Good(Linked(r, t), s, n)
  <1> DEFINE a == Linked(r, t)
  <1>1. a \in Runners /\ a.linked /\ a.since = r.since /\ a.seenAt = t /\ a.progressAt = t
    BY LinkedFields DEF Good
  <1> HIDE DEF a
  <1>2. Good(a, s, n)
    BY <1>1 DEF Good
  <1> QED BY <1>2 DEF a

(* A streak begins.                                                           *)
LEMMA GoodAnew ==
  ASSUME NEW r, NEW s, NEW n \in Nat, NEW t \in Nat, t <= n, Good(r, s, n), r.linked
  PROVE  Good([r EXCEPT !.since = t], Anew(s), n)
  <1>1. [r EXCEPT !.since = t] \in Runners /\ Anew(s) \in Streaks
    BY DEF Good, Runners, Streaks, Anew
  <1>2. /\ [r EXCEPT !.since = t].linked /\ [r EXCEPT !.since = t].progressAt = r.progressAt
        /\ [r EXCEPT !.since = t].seenAt = r.seenAt
        /\ Anew(s).left = s.left /\ Anew(s).worst = 0 /\ ~Anew(s).quit
    BY DEF Good, Runners, Streaks, Anew
  <1> QED BY <1>1, <1>2, Bounds DEF Good

(* A streak goes on after an absence within the grace.                        *)
LEMMA GoodResumed ==
  ASSUME NEW r, NEW s, NEW n \in Nat, NEW t \in Nat, t <= n, Good(r, s, n),
         ~r.linked, r.since # Never, ~GoneTooLong(r, t)
  PROVE  Good(Linked(r, t), [s EXCEPT !.worst = Later(@, t - s.left)], n)
  <1> DEFINE w == Later(s.worst, t - s.left)
             z == [s EXCEPT !.worst = w]
  <1>1. /\ s \in Streaks /\ r \in Runners
        /\ s.left \in Nat /\ s.worst \in Nat /\ s.quit \in BOOLEAN /\ s.kept \in BOOLEAN
        /\ r.seenAt \in Nat
    BY StreakFields, RunnerFields DEF Good
  <1>2. w \in Nat /\ (~s.kept => w <= Grace)
    <2>1. ~s.kept => t - s.left <= Grace /\ s.worst <= Grace
      BY <1>1, Bounds DEF GoneTooLong, Good
    <2> QED BY <1>1, <2>1, Bounds DEF Later
  <1> HIDE DEF w
  <1>3. z \in Streaks /\ z.left = s.left /\ z.worst = w /\ z.quit = s.quit /\ z.kept = s.kept
    BY <1>1, <1>2 DEF Streaks
  <1> HIDE DEF z
  <1>4. Good(Linked(r, t), s, n)
    BY GoodLinked
  <1>5. Linked(r, t).linked
    BY <1>1, LinkedFields
  <1>6. Good(Linked(r, t), z, n)
    BY <1>1, <1>2, <1>3, <1>4, <1>5 DEF Good
  <1> QED BY <1>6 DEF z, w

(* A runner leaves.                                                           *)
LEMMA GoodLeft ==
  ASSUME NEW r, NEW s, NEW n \in Nat, NEW t \in Nat, t <= n, Good(r, s, n), NEW kind
  PROVE  Good([Advanced(r, t) EXCEPT !.linked = FALSE, !.seenAt = t, !.progressAt = t,
                                     !.since = IF kind = "QUIT" THEN Never ELSE @],
              [s EXCEPT !.left = t, !.quit = @ \/ kind = "QUIT"], n)
  <1> DEFINE a == Advanced(r, t)
             q == [a EXCEPT !.linked = FALSE, !.seenAt = t, !.progressAt = t,
                            !.since = IF kind = "QUIT" THEN Never ELSE @]
             z == [s EXCEPT !.left = t, !.quit = @ \/ kind = "QUIT"]
  <1>1. a \in Runners /\ a.since = r.since
    BY AdvancedFields DEF Good
  <1> HIDE DEF a
  <1>2. /\ q \in Runners /\ ~q.linked /\ q.seenAt = t /\ q.progressAt = t
        /\ q.since = IF kind = "QUIT" THEN Never ELSE r.since
    BY <1>1 DEF Runners, Never
  <1>3. s \in Streaks /\ s.quit \in BOOLEAN
    BY StreakFields DEF Good
  <1>4. z \in Streaks
    BY <1>3 DEF Streaks
  <1>5. z.left = t /\ z.worst = s.worst /\ z.kept = s.kept
    BY <1>3 DEF Streaks
  <1>6. z.quit = (s.quit \/ kind = "QUIT")
    BY <1>3 DEF Streaks
  <1> HIDE DEF q, z
  <1>7. q.since # Never => kind # "QUIT" /\ r.since # Never
    BY <1>2
  <1>8. Good(q, z, n)
    BY <1>2, <1>4, <1>5, <1>6, <1>7 DEF Good
  <1> QED BY <1>8 DEF q, z, a

LEMMA GoodTouched ==
  ASSUME NEW r, NEW s, NEW n \in Nat, NEW t \in Nat, t <= n, Good(r, s, n)
  PROVE  Good([Advanced(r, t) EXCEPT !.seenAt = t], [s EXCEPT !.kept = @ \/ ~r.linked], n)
  <1> DEFINE a == Advanced(r, t)
             q == [a EXCEPT !.seenAt = t]
             z == [s EXCEPT !.kept = @ \/ ~r.linked]
  <1>1. /\ a \in Runners /\ a.linked = r.linked /\ a.since = r.since /\ a.progressAt \in {t, r.progressAt}
        /\ r \in Runners
    BY AdvancedFields DEF Good
  <1> HIDE DEF a
  <1>2. /\ q \in Runners /\ q.linked = r.linked /\ q.since = r.since /\ q.seenAt = t
        /\ q.progressAt = a.progressAt
    BY <1>1 DEF Runners
  <1>3. s \in Streaks /\ s.kept \in BOOLEAN
    BY StreakFields DEF Good
  <1>4. z \in Streaks /\ z.left = s.left /\ z.worst = s.worst /\ z.quit = s.quit
    BY <1>3 DEF Streaks
  <1>5. z.kept = (s.kept \/ ~r.linked)
    BY <1>3 DEF Streaks
  <1> HIDE DEF q, z
  <1>6. Good(q, z, n)
    BY <1>1, <1>2, <1>4, <1>5 DEF Good
  <1> QED BY <1>6 DEF q, z, a

(* The account's runner takes over the guest's, r.                            *)
LEMMA GoodMerged ==
  ASSUME NEW r, NEW s, NEW x \in Runners, NEW n \in Nat, NEW t \in Nat, t <= n, Good(r, s, n),
         NEW m, m = Advanced(r, t) \/ m = Merged(Advanced(r, t), x)
  PROVE  /\ Good(Linked(Advanced([m EXCEPT !.linked = TRUE], t), t), [s EXCEPT !.kept = @ \/ ~r.linked], n)
         /\ m \in Runners
  <1> DEFINE a == Advanced(r, t)
             c == [m EXCEPT !.linked = TRUE]
             q == Linked(Advanced(c, t), t)
             z == [s EXCEPT !.kept = @ \/ ~r.linked]
  <1>1. a \in Runners /\ a.since = r.since
    BY AdvancedFields DEF Good
  <1> HIDE DEF a
  <1>2. Merged(a, x) \in Runners /\ Merged(a, x).since = a.since
    <2>1. /\ Later(a.progress, x.progress) \in Nat /\ Later(a.seenAt, x.seenAt) \in Nat
          /\ Later(a.progressAt, x.progressAt) \in Nat /\ a.since \in Nat
      BY <1>1, RunnerFields, LaterType
    <2> QED BY <2>1 DEF Merged, Runners
  <1>3. m \in Runners /\ m.since = r.since
    BY <1>1, <1>2 DEF a
  <1>4. c \in Runners /\ c.since = r.since
    BY <1>3 DEF Runners
  <1> HIDE DEF c
  <1>5. q \in Runners /\ q.linked /\ q.since = r.since /\ q.seenAt = t /\ q.progressAt = t
    <2>1. Advanced(c, t) \in Runners /\ Advanced(c, t).since = r.since
      BY <1>4, AdvancedFields
    <2> QED BY <2>1, LinkedFields
  <1>6. s \in Streaks /\ s.kept \in BOOLEAN
    BY StreakFields DEF Good
  <1>7. z \in Streaks /\ z.left = s.left /\ z.worst = s.worst /\ z.quit = s.quit
    BY <1>6 DEF Streaks
  <1>8. z.kept = (s.kept \/ ~r.linked)
    BY <1>6 DEF Streaks
  <1> HIDE DEF q, z
  <1>9. Good(q, z, n)
    BY <1>5, <1>7, <1>8 DEF Good
  <1> QED BY <1>3, <1>9 DEF q, z, c

(* One runner changes.                                                        *)
LEMMA OneChanges ==
  ASSUME StreakInv, UNCHANGED now, NEW k \in Owners, NEW q, NEW z, Good(q, z, now),
         runner' = [runner EXCEPT ![k] = q], streak' = [streak EXCEPT ![k] = z]
  PROVE  StreakInv'
  <1>1. q \in Runners /\ z \in Streaks
    BY DEF Good
  <1>2. Functions'
    BY <1>1 DEF StreakInv, Functions
  <1>3. ASSUME NEW j \in Owners PROVE Good(runner'[j], streak'[j], now)
    <2>1. CASE j = k
      BY <2>1 DEF StreakInv, Functions
    <2>2. CASE j # k
      BY <2>2 DEF StreakInv, Functions
    <2> QED BY <2>1, <2>2
  <1> QED BY <1>2, <1>3 DEF StreakInv

(* Each does.                                                                 *)
LEMMA AllChange ==
  ASSUME UNCHANGED now, NEW q, NEW z, \A k \in Owners : Good(q[k], z[k], now),
         runner' = [k \in Owners |-> q[k]], streak' = [k \in Owners |-> z[k]]
  PROVE  StreakInv'
  <1>1. \A k \in Owners : q[k] \in Runners /\ z[k] \in Streaks
    BY DEF Good
  <1>2. runner' \in [Owners -> Runners] /\ streak' \in [Owners -> Streaks]
    BY <1>1
  <1>3. \A k \in Owners : runner'[k] = q[k] /\ streak'[k] = z[k]
    OBVIOUS
  <1> QED BY <1>2, <1>3 DEF StreakInv, Functions

LEMMA GoodNow == ASSUME StreakInv, NEW k \in Owners PROVE Good(runner[k], streak[k], now) /\ runner[k] \in Runners
  BY DEF StreakInv, Functions

Counters == links \in Nat /\ lost \in Nat /\ player \in Owners

LEMMA LaterThan == ASSUME NEW s \in Nat, NEW i \in Int PROVE Later(s, i) \in Nat
  BY DEF Later

LEMMA JoinStep ==
  ASSUME Typed, StreakInv, NEW k \in Owners, NEW t \in Nat, t <= now, Join(k, t), UNCHANGED now
  PROVE  StreakInv' /\ Counters'
  <1>0. now \in Nat
    BY DEF Typed
  <1>1. Counters'
    <2>1. runner[player].progress \in Nat /\ runner[k].progress \in Nat
      BY GoodNow, RunnerFields DEF Typed
    <2>2. lost + runner[player].progress - runner[k].progress \in Int
      BY <2>1 DEF Typed
    <2>3. Later(0, lost + runner[player].progress - runner[k].progress) \in Nat
      BY <2>2, LaterThan
    <2> QED BY <2>3 DEF Join, Counters, Typed
  <1>2. CASE StartOver(k, t)
    <2> DEFINE a == Linked(runner[k], t)
               q == [a EXCEPT !.since = t]
               z == Anew(streak[k])
    <2>1. runner' = [runner EXCEPT ![k] = q] /\ streak' = [streak EXCEPT ![k] = z]
      BY <1>2 DEF StartOver, StreakInv, Functions
    <2>2. Good(a, streak[k], now) /\ a.linked
      BY <1>0, GoodNow, GoodLinked, LinkedFields
    <2>3. Good(q, z, now)
      BY <1>0, <2>2, GoodAnew
    <2> HIDE DEF q, z
    <2> QED BY <1>1, <2>1, <2>3, OneChanges
  <1>3. CASE Resume(k, t)
    <2> DEFINE q == Linked(runner[k], t)
               z == [streak[k] EXCEPT !.worst = Later(@, t - streak[k].left)]
    <2>1. runner' = [runner EXCEPT ![k] = q] /\ streak' = [streak EXCEPT ![k] = z]
      BY <1>3 DEF Resume, StreakInv, Functions
    <2>2. Good(q, z, now)
      BY <1>0, <1>3, GoodNow, GoodResumed DEF Resume
    <2> HIDE DEF q, z
    <2> QED BY <1>1, <2>1, <2>2, OneChanges
  <1>4. CASE Rebind(k, t)
    <2> DEFINE q == Linked(Advanced(runner[k], t), t)
               z == streak[k]
    <2>1. runner' = [runner EXCEPT ![k] = q] /\ streak' = [streak EXCEPT ![k] = z]
      BY <1>4 DEF Rebind, StreakInv, Functions
    <2>2. Good(Advanced(runner[k], t), z, now)
      BY <1>0, GoodNow, GoodAdvanced
    <2>3. Good(q, z, now)
      BY <1>0, <2>2, GoodLinked
    <2> HIDE DEF q, z
    <2> QED BY <1>1, <2>1, <2>3, OneChanges
  <1> QED BY <1>2, <1>3, <1>4 DEF Join

LEMMA MigrateStep ==
  ASSUME Typed, StreakInv, NEW t \in Nat, t <= now, Migrate(t), UNCHANGED now
  PROVE  StreakInv' /\ Counters'
  <1>0. now \in Nat
    BY DEF Typed
  <1>1. Counters'
    <2>1. runner["account"].progress \in Nat
      BY GoodNow, RunnerFields DEF Owners
    <2>2. 0 \in Nat /\ spent - runner["account"].progress \in Int
      BY <2>1 DEF Typed
    <2>3. Lacks("account") \in Nat
      BY <2>2, LaterThan DEF Lacks
    <2> QED BY <2>3 DEF Migrate, Counters, Typed, Owners
  <1> DEFINE g == Advanced(runner["guest"], t)
             m == IF Exists("account") THEN Merged(g, runner["account"]) ELSE g
             a == Linked(Advanced([m EXCEPT !.linked = TRUE], t), t)
             s == [streak["guest"] EXCEPT !.kept = @ \/ ~runner["guest"].linked]
             q == [k \in Owners |-> IF k = "guest" THEN NoRunner ELSE a]
             z == [k \in Owners |-> IF k = "guest" THEN NoStreak ELSE s]
  <1>2. runner' = [k \in Owners |-> q[k]] /\ streak' = [k \in Owners |-> z[k]]
    BY DEF Migrate
  <1>3. m = g \/ m = Merged(g, runner["account"])
    OBVIOUS
  <1>4. Good(runner["guest"], streak["guest"], now) /\ runner["account"] \in Runners
    BY GoodNow DEF Owners
  <1> HIDE DEF m
  <1>5. Good(a, s, now)
    BY <1>0, <1>3, <1>4, GoodMerged
  <1> HIDE DEF a, s
  <1>6. \A k \in Owners : Good(q[k], z[k], now)
    BY <1>0, <1>5, NewRunner
  <1> HIDE DEF q, z
  <1>7. StreakInv'
    BY <1>2, <1>6, AllChange
  <1> QED BY <1>1, <1>7

LEMMA LogInStep ==
  ASSUME Typed, StreakInv, NEW t \in Nat, t <= now, LogIn(t), UNCHANGED now
  PROVE  StreakInv' /\ Counters'
  <1>1. "account" \in Owners
    BY DEF Owners
  <1> QED BY <1>1, JoinStep, MigrateStep DEF LogIn

LEMMA DisconnectStep ==
  ASSUME Typed, StreakInv, NEW k \in Owners, NEW kind, NEW t \in Nat, t <= now, Disconnect(k, kind, t), UNCHANGED now
  PROVE  StreakInv'
  <1>0. now \in Nat
    BY DEF Typed
  <1> DEFINE q == [Advanced(runner[k], t) EXCEPT !.linked = FALSE, !.seenAt = t, !.progressAt = t,
                                                 !.since = IF kind = "QUIT" THEN Never ELSE @]
             z == [streak[k] EXCEPT !.left = t, !.quit = @ \/ kind = "QUIT"]
  <1>2. runner' = [runner EXCEPT ![k] = q]
    BY DEF Disconnect
  <1>3. streak' = [streak EXCEPT ![k] = z]
    <2>1. streak' = [streak EXCEPT ![k].left = t, ![k].quit = @ \/ kind = "QUIT"]
      BY DEF Disconnect
    <2> QED BY <2>1 DEF StreakInv, Functions
  <1>4. Good(q, z, now)
    BY <1>0, GoodNow, GoodLeft
  <1> HIDE DEF q, z
  <1> QED BY <1>2, <1>3, <1>4, OneChanges

LEMMA TouchStep ==
  ASSUME Typed, StreakInv, NEW k \in Owners, NEW t \in Nat, t <= now, Touch(k, t), UNCHANGED now
  PROVE  StreakInv'
  <1> DEFINE q == [Advanced(runner[k], t) EXCEPT !.seenAt = t]
             z == [streak[k] EXCEPT !.kept = @ \/ ~runner[k].linked]
  <1>1. runner' = [runner EXCEPT ![k] = q] /\ streak' = [streak EXCEPT ![k] = z]
    BY DEF Touch, StreakInv, Functions
  <1>2. Good(q, z, now)
    BY GoodNow, GoodTouched DEF Typed
  <1> HIDE DEF q, z
  <1> QED BY <1>1, <1>2, OneChanges

LEMMA LookStep ==
  ASSUME Typed, StreakInv, NEW k \in Owners, NEW t \in Nat, t <= now, LookAt(k, t), UNCHANGED now
  PROVE  StreakInv'
  <1> DEFINE q == Advanced(runner[k], t)
             z == streak[k]
  <1>1. runner' = [runner EXCEPT ![k] = q] /\ streak' = [streak EXCEPT ![k] = z]
    BY DEF LookAt, StreakInv, Functions
  <1>2. Good(q, z, now)
    BY GoodNow, GoodAdvanced DEF Typed
  <1> HIDE DEF q, z
  <1> QED BY <1>1, <1>2, OneChanges

-----------------------------------------------------------------------------
(* Every action keeps the invariants.                                         *)

Inv == LimiterInv /\ ClocksInv

(* The clocks are left alone.                                                 *)
LEMMA Unmoved == ASSUME StreakInv, UNCHANGED <<now, runner, streak>> PROVE StreakInv'
  BY DEF StreakInv, Functions

LEMMA PersonStep == ASSUME Inv, Enter \/ Leave \/ Speak \/ Type \/ Answer PROVE Inv'
  <1>1. UNCHANGED <<now, table, bot, listed, runner, spent, links, player, lost, ghost, streak>>
    BY DEF Enter, Leave, Speak, Type, Answer, Quietly, history
  <1>2. there' \in BOOLEAN /\ asked' \in BOOLEAN
    BY DEF Enter, Leave, Speak, Type, Answer, Inv, ClocksInv, Typed
  <1>3. \/ UNCHANGED wire
        \/ \E kind \in Kinds \ {"KICKED"} : Send(kind) /\ (kind \in Local => bot = "in")
    BY DEF Enter, Leave, Speak, Type, Answer, Tell, Kinds, Local
  <1>4. WireInv'
    <2>1. CASE UNCHANGED wire
      BY <1>1, <2>1 DEF Inv, ClocksInv, WireInv, Watching
    <2>2. CASE \E kind \in Kinds \ {"KICKED"} : Send(kind) /\ (kind \in Local => bot = "in")
      <3>1. PICK kind \in Kinds : kind # "KICKED" /\ Send(kind) /\ (kind \in Local => bot = "in")
        BY <2>2
      <3>2. WireInv /\ Typed /\ UNCHANGED now /\ bot' = bot
        BY <1>1 DEF Inv, ClocksInv
      <3>3. IF kind = "KICKED" THEN bot' = "kicked" ELSE bot' = bot
        BY <3>1, <3>2
      <3> QED BY <3>1, <3>2, <3>3, WireAppend
    <2> QED BY <1>3, <2>1, <2>2
  <1>5. Typed'
    BY <1>1, <1>2 DEF Inv, ClocksInv, Typed, Watching
  <1> QED BY <1>1, <1>4, <1>5, Unmoved, LimiterIdle DEF Inv, ClocksInv

LEMMA KickBotStep == ASSUME Inv, KickBot PROVE Inv'
  <1>1. /\ bot = "in" /\ bot' = "kicked" /\ Send("KICKED")
        /\ UNCHANGED <<now, table, there, asked, listed, runner, spent, links, player, lost, ghost, streak>>
    BY DEF KickBot, history
  <1>2. WireInv'
    BY <1>1, WireAppend DEF Inv, ClocksInv, Kinds
  <1>3. Typed'
    BY <1>1 DEF Inv, ClocksInv, Typed, Watching
  <1> QED BY <1>1, <1>2, <1>3, Unmoved, LimiterIdle DEF Inv, ClocksInv

LEMMA PassesStep == ASSUME Inv, Passes PROVE Inv'
  <1>1. /\ now' = now + 1
        /\ UNCHANGED <<there, bot, wire, asked, listed, runner, links, player, lost, ghost, streak>>
        /\ Pass /\ spent' = spent + (IF there /\ bot = "in" THEN 1 ELSE 0)
    BY DEF Passes, Pass, server
  <1>2. now \in Nat
    BY DEF Inv, ClocksInv, Typed
  <1>3. Typed'
    <2>1. spent' \in Nat /\ now' \in Nat
      BY <1>1 DEF Inv, ClocksInv, Typed
    <2> QED BY <1>1, <2>1 DEF Inv, ClocksInv, Typed, Watching
  <1>4. WireInv'
    BY <1>1, <1>2, WireType DEF Inv, ClocksInv, WireInv, Watching
  <1>5. StreakInv'
    <2> SUFFICES ASSUME NEW k \in Owners PROVE Good(runner[k], streak[k], now + 1)
      BY <1>1 DEF Inv, ClocksInv, StreakInv, Functions
    <2>1. Good(runner[k], streak[k], now)
      BY DEF Inv, ClocksInv, StreakInv
    <2>2. /\ runner[k].progressAt \in Nat /\ runner[k].seenAt \in Nat
          /\ streak[k].left \in Nat
      BY <2>1, RunnerFields, StreakFields DEF Good
    <2> QED BY <1>2, <2>1, <2>2 DEF Good
  <1> QED BY <1>1, <1>3, <1>4, <1>5, LimiterPass DEF Inv, ClocksInv

(* A handler: what it does to the runners, and what to the limiter.           *)
LEMMA HandlerStep ==
  ASSUME Inv, NEW kind, Receive(kind), StreakInv', LimiterInv', Counters',
         asked' \in BOOLEAN, ghost' \in BOOLEAN, listed' \in BOOLEAN, listed' => Watching',
         IF kind = "KICKED" THEN bot' = "out" ELSE UNCHANGED bot
  PROVE  Inv'
  <1>1. wire # <<>> /\ Head(wire).kind = kind /\ wire' = Tail(wire) /\ UNCHANGED <<now, there, spent>>
    BY DEF Receive
  <1>2. WireInv'
    BY <1>1, WireTail DEF Inv, ClocksInv
  <1>3. Typed'
    BY <1>1 DEF Inv, ClocksInv, Typed, Counters
  <1> QED BY <1>2, <1>3 DEF Inv, ClocksInv

LEMMA Received ==
  ASSUME Inv, NEW kind, Receive(kind)
  PROVE  /\ Head(wire).at \in Nat /\ Head(wire).at <= now
         /\ kind \in Local => Watching
         /\ UNCHANGED now /\ Counters
         /\ asked \in BOOLEAN /\ ghost \in BOOLEAN /\ listed \in BOOLEAN /\ (listed => Watching)
  BY WireHead DEF Receive, Inv, ClocksInv, Typed, Counters

LEMMA HandleJoinStep == ASSUME Inv, HandleJoin PROVE Inv'
  <1> USE DEF Inv, ClocksInv
  <1>1. UNCHANGED <<table, bot>>
    BY DEF HandleJoin
  <1>2. PICK kind \in {"JOIN", "LOGIN", "LATE"} :
          /\ Receive(kind)
          /\ Join("guest", Head(wire).at) \/ LogIn(Head(wire).at)
          /\ IF kind = "LATE" THEN listed' = listed /\ ghost' = TRUE ELSE listed' = TRUE /\ ghost' = ghost
          /\ asked' = TRUE \/ asked' = asked
    BY DEF HandleJoin
  <1>3. StreakInv' /\ Counters'
    BY <1>2, Received, JoinStep, LogInStep DEF Owners
  <1>4. asked' \in BOOLEAN /\ ghost' \in BOOLEAN /\ listed' \in BOOLEAN
    BY <1>2, Received
  <1>5. listed' => Watching'
    <2>1. Watching' = Watching
      BY <1>1 DEF Watching
    <2>2. kind # "LATE" => kind \in Local
      BY DEF Local, Kinds
    <2> QED BY <1>2, <2>1, <2>2, Received
  <1>6. LimiterInv'
    BY <1>1, <1>2, Received, LimiterIdle
  <1>7. kind # "KICKED"
    OBVIOUS
  <1> QED BY <1>1, <1>2, <1>3, <1>4, <1>5, <1>6, <1>7, HandlerStep

LEMMA HandleQuitStep == ASSUME Inv, HandleQuit PROVE Inv'
  <1> USE DEF Inv, ClocksInv
  <1>1. PICK kind \in {"QUIT", "SPLIT"} :
          /\ Receive(kind)
          /\ \/ \E k \in Playing : Disconnect(k, kind, Head(wire).at)
             \/ Playing = {} /\ UNCHANGED <<runner, streak>>
    BY DEF HandleQuit
  <1>2. listed' = FALSE /\ UNCHANGED <<table, bot, asked, links, player, lost, ghost>>
    BY DEF HandleQuit
  <1>3. StreakInv'
    BY <1>1, Received, DisconnectStep, Unmoved DEF Playing
  <1>4. Counters'
    BY <1>1, <1>2, Received DEF Counters
  <1>5. LimiterInv'
    BY <1>1, <1>2, Received, LimiterIdle
  <1>6. kind # "KICKED"
    OBVIOUS
  <1> QED BY <1>1, <1>2, <1>3, <1>4, <1>5, <1>6, Received, HandlerStep

LEMMA RequestStep ==
  ASSUME Inv, NEW keys \in SUBSET Slots, Allowed(keys) \/ Denied(keys) \/ UNCHANGED table, UNCHANGED now
  PROVE  LimiterInv'
  BY LimiterAllowed, LimiterIdle DEF Inv, Denied

(* A message or a command changes a runner, if any, and the limiter.          *)
LEMMA ChatStep ==
  ASSUME Inv, NEW kind \in {"SAY", "COMMAND"}, Receive(kind),
         NEW keys \in SUBSET Slots, Allowed(keys) \/ Denied(keys) \/ UNCHANGED table,
         UNCHANGED <<bot, asked, listed, links, player, lost, ghost>>,
         \/ \E k \in Owners : Touch(k, Head(wire).at) \/ LookAt(k, Head(wire).at)
         \/ UNCHANGED <<runner, streak>>
  PROVE  Inv'
  <1> USE DEF Inv, ClocksInv
  <1>1. StreakInv'
    BY Received, TouchStep, LookStep, Unmoved
  <1>2. Counters' /\ Watching' = Watching
    BY Received DEF Counters, Watching
  <1>3. LimiterInv'
    BY Received, RequestStep
  <1>4. kind # "KICKED"
    OBVIOUS
  <1> QED BY <1>1, <1>2, <1>3, <1>4, Received, HandlerStep

LEMMA HandleMessageStep == ASSUME Inv, HandleMessage PROVE Inv'
  <1>1. Receive("SAY") /\ UNCHANGED <<bot, asked, listed, links, player, lost, ghost>>
    BY DEF HandleMessage
  <1>2. Allowed({Notice}) \/ UNCHANGED table
    BY DEF HandleMessage
  <1>3. \/ \E k \in Owners : Touch(k, Head(wire).at)
        \/ UNCHANGED <<runner, streak>>
    BY DEF HandleMessage, Addressed
  <1>4. {Notice} \in SUBSET Slots
    BY CommandsAssumption
  <1> QED BY <1>1, <1>2, <1>3, <1>4, ChatStep

LEMMA HandleCommandStep == ASSUME Inv, HandleCommand PROVE Inv'
  <1>1. Receive("COMMAND") /\ UNCHANGED <<bot, asked, listed, links, player, lost, ghost>>
    BY DEF HandleCommand
  <1>2. PICK keys \in Commands : Allowed(keys) \/ Denied(keys)
    BY DEF HandleCommand
  <1>3. \/ \E k \in Owners : Touch(k, Head(wire).at) \/ LookAt(k, Head(wire).at)
        \/ UNCHANGED <<runner, streak>>
    BY DEF HandleCommand, Addressed
  <1>4. keys \in SUBSET Slots
    BY CommandsAssumption
  <1> QED BY <1>1, <1>2, <1>3, <1>4, ChatStep

LEMMA TickStep == ASSUME Inv, Tick PROVE Inv'
  <1>1. UNCHANGED <<now, table, there, bot, wire, asked, listed, spent, links, player, lost, ghost>>
    BY DEF Tick, server
  <1>2. now \in Nat /\ StreakInv
    BY DEF Inv, ClocksInv, Typed
  <1> DEFINE q == [k \in Owners |-> IF k \in Playing THEN Ghosted(runner[k]) ELSE runner[k]]
             z == [k \in Owners |-> IF k \in Playing /\ runner[k].since = Never THEN Anew(streak[k]) ELSE streak[k]]
  <1>3. ASSUME NEW k \in Owners PROVE Good(q[k], z[k], now)
    <2>1. Good(runner[k], streak[k], now) /\ runner[k] \in Runners
      BY <1>2, GoodNow
    <2>2. CASE k \notin Playing
      BY <2>1, <2>2
    <2>3. CASE k \in Playing
      <3> DEFINE a == Advanced(runner[k], now)
      <3>1. Good(a, streak[k], now) /\ a \in Runners /\ a.linked /\ a.since = runner[k].since
        BY <1>2, <2>1, <2>3, GoodAdvanced, AdvancedFields DEF Playing
      <3>2. q[k] = [a EXCEPT !.since = IF a.since = Never THEN now ELSE a.since]
        BY <2>3 DEF Ghosted
      <3> HIDE DEF a
      <3>3. CASE runner[k].since = Never
        <4>1. q[k] = [a EXCEPT !.since = now] /\ z[k] = Anew(streak[k])
          BY <2>3, <3>1, <3>2, <3>3
        <4>2. Good([a EXCEPT !.since = now], Anew(streak[k]), now)
          BY <1>2, <3>1, GoodAnew
        <4> QED BY <4>1, <4>2
      <3>4. CASE runner[k].since # Never
        <4>1. q[k] = a /\ z[k] = streak[k]
          BY <3>1, <3>2, <3>4 DEF Runners
        <4> QED BY <3>1, <4>1
      <3> QED BY <3>3, <3>4
    <2> QED BY <2>2, <2>3
  <1>4. runner' = [k \in Owners |-> q[k]] /\ streak' = [k \in Owners |-> z[k]]
    BY DEF Tick
  <1> HIDE DEF q, z
  <1>5. StreakInv'
    BY <1>1, <1>3, <1>4, AllChange
  <1>6. WireInv' /\ Typed'
    BY <1>1 DEF Inv, ClocksInv, WireInv, Typed, Watching
  <1> QED BY <1>1, <1>5, <1>6, LimiterIdle DEF Inv, ClocksInv

LEMMA ReconcileStep == ASSUME Inv, NEW k \in Owners, Reconcile(k) PROVE Inv'
  <1>1. UNCHANGED <<now, table, there, bot, wire, asked, listed, spent, links, player, lost, ghost>>
    BY DEF Reconcile, server
  <1>2. now \in Nat /\ StreakInv
    BY DEF Inv, ClocksInv, Typed
  <1> DEFINE a == Advanced(runner[k], now)
             q == [a EXCEPT !.linked = FALSE, !.seenAt = now, !.since = Never]
             z == [streak[k] EXCEPT !.left = now, !.quit = TRUE]
  <1>3. runner' = [runner EXCEPT ![k] = q]
    BY DEF Reconcile
  <1>4. streak' = [streak EXCEPT ![k] = z]
    BY <1>2 DEF Reconcile, StreakInv, Functions
  <1>5. Good(q, z, now)
    <2>1. Good(runner[k], streak[k], now)
      BY <1>2, GoodNow
    <2>2. Good(a, streak[k], now)
      BY <1>2, <2>1, GoodAdvanced
    <2> HIDE DEF a
    <2>3. a \in Runners /\ streak[k] \in Streaks /\ a.progressAt <= now
      BY <2>2 DEF Good
    <2>4. q \in Runners /\ q.since = Never /\ q.seenAt = now /\ q.progressAt = a.progressAt
      BY <1>2, <2>3 DEF Runners, Never
    <2>5. z \in Streaks /\ z.left = now
      BY <1>2, <2>3 DEF Streaks
    <2> HIDE DEF q, z
    <2> QED BY <1>2, <2>3, <2>4, <2>5 DEF Good
  <1> HIDE DEF q, z
  <1>6. StreakInv'
    BY <1>1, <1>2, <1>3, <1>4, <1>5, OneChanges
  <1>7. WireInv' /\ Typed'
    BY <1>1 DEF Inv, ClocksInv, WireInv, Typed, Watching
  <1> QED BY <1>1, <1>6, <1>7, LimiterIdle DEF Inv, ClocksInv

LEMMA DisconnectedStep ==
  ASSUME Typed, StreakInv, Disconnected, UNCHANGED now PROVE StreakInv' /\ ghost' \in BOOLEAN
  <1>1. ghost' \in BOOLEAN
    BY DEF Disconnected, Typed
  <1>2. CASE DisconnectAll
    <2> DEFINE q == [k \in Owners |-> IF k \in Playing
                                      THEN [Advanced(runner[k], now) EXCEPT !.linked = FALSE, !.progressAt = now]
                                      ELSE runner[k]]
               z == [k \in Owners |-> IF k \in Playing THEN [streak[k] EXCEPT !.left = now] ELSE streak[k]]
    <2>1. ASSUME NEW k \in Owners PROVE Good(q[k], z[k], now)
      <3>1. now \in Nat /\ Good(runner[k], streak[k], now) /\ runner[k] \in Runners
        BY GoodNow DEF Typed
      <3>2. CASE k \notin Playing
        BY <3>1, <3>2
      <3>3. CASE k \in Playing
        <4> DEFINE a == Advanced(runner[k], now)
        <4>1. Good(a, streak[k], now) /\ a \in Runners /\ streak[k] \in Streaks
          BY <3>1, GoodAdvanced DEF Good
        <4>2. a.seenAt = now
          <5>1. runner[k].seenAt \in Nat /\ runner[k].seenAt <= now
            BY <3>1, RunnerFields DEF Good
          <5>2. Later(now, runner[k].seenAt) = now
            BY <3>1, <5>1 DEF Later
          <5> QED BY <3>1, <3>3, <5>2 DEF Advanced, Playing, Runners
        <4>3. q[k] = [a EXCEPT !.linked = FALSE, !.progressAt = now] /\ z[k] = [streak[k] EXCEPT !.left = now]
          BY <3>3
        <4> HIDE DEF a, q, z
        <4>4. /\ q[k] \in Runners /\ q[k].seenAt = now /\ q[k].progressAt = now /\ q[k].since = a.since
          BY <3>1, <4>1, <4>2, <4>3 DEF Runners
        <4>5. /\ z[k] \in Streaks /\ z[k].left = now /\ z[k].worst = streak[k].worst
              /\ z[k].quit = streak[k].quit /\ z[k].kept = streak[k].kept
          BY <3>1, <4>1, <4>3 DEF Streaks
        <4> QED BY <3>1, <4>1, <4>4, <4>5 DEF Good
      <3> QED BY <3>2, <3>3
    <2>2. runner' = [k \in Owners |-> q[k]] /\ streak' = [k \in Owners |-> z[k]]
      BY <1>2 DEF DisconnectAll
    <2> HIDE DEF q, z
    <2>3. StreakInv'
      BY <2>1, <2>2, AllChange
    <2> QED BY <1>1, <2>3
  <1>3. CASE UNCHANGED <<runner, streak>>
    BY <1>1, <1>3, Unmoved
  <1> QED BY <1>2, <1>3 DEF Disconnected

LEMMA HandleKickedStep == ASSUME Inv, HandleKicked PROVE Inv'
  <1> USE DEF Inv, ClocksInv
  <1>1. /\ Receive("KICKED") /\ bot' = "out" /\ listed' = FALSE /\ Disconnected
        /\ UNCHANGED <<table, asked, links, player, lost>>
    BY DEF HandleKicked
  <1>2. StreakInv' /\ ghost' \in BOOLEAN
    BY <1>1, Received, DisconnectedStep
  <1>3. Counters' /\ asked' \in BOOLEAN /\ listed' \in BOOLEAN
    BY <1>1, Received DEF Counters
  <1>4. LimiterInv'
    BY <1>1, Received, LimiterIdle
  <1> QED BY <1>1, <1>2, <1>3, <1>4, HandlerStep

LEMMA LoseConnectionStep == ASSUME Inv, LoseConnection PROVE Inv'
  <1> USE DEF Inv, ClocksInv
  <1>1. /\ GoesOff /\ DisconnectAll
        /\ lost' = Later(lost, spent - runner'[player].progress)
        /\ UNCHANGED <<now, table, there, spent, links, player, ghost>>
    BY DEF LoseConnection
  <1>2. StreakInv' /\ ghost' \in BOOLEAN
    <2>1. Disconnected
      BY <1>1 DEF Disconnected
    <2> QED BY <1>1, <2>1, DisconnectedStep
  <1>3. lost' \in Nat
    <2>1. runner'[player].progress \in Nat
      BY <1>2, RunnerFields DEF StreakInv, Functions, Typed
    <2>2. spent - runner'[player].progress \in Int
      BY <2>1 DEF Typed
    <2> QED BY <1>1, <2>2 DEF Later, Typed
  <1>4. Typed'
    BY <1>1, <1>2, <1>3 DEF Typed, GoesOff
  <1>5. WireInv'
    BY <1>1, WireCut DEF GoesOff
  <1> QED BY <1>1, <1>2, <1>4, <1>5, LimiterIdle

LEMMA RestartStep == ASSUME Inv, Restart PROVE Inv'
  <1> USE DEF Inv, ClocksInv
  <1>1. /\ GoesOff /\ lost' = Later(lost, spent - runner[player].progress)
        /\ UNCHANGED <<now, early, there, spent, links, player, ghost>>
    BY DEF Restart
  <1> DEFINE q == [k \in Owners |-> IF Exists(k) THEN [runner[k] EXCEPT !.linked = FALSE, !.progressAt = now]
                                    ELSE runner[k]]
             z == [k \in Owners |-> IF k \in Playing THEN [streak[k] EXCEPT !.left = runner[k].seenAt] ELSE streak[k]]
  <1>2. ASSUME NEW k \in Owners PROVE Good(q[k], z[k], now)
    <2>1. /\ now \in Nat /\ Good(runner[k], streak[k], now) /\ runner[k] \in Runners /\ streak[k] \in Streaks
          /\ runner[k].seenAt \in Nat
      BY GoodNow, RunnerFields DEF Typed, Good
    <2>2. /\ q[k] \in Runners /\ q[k].seenAt = runner[k].seenAt /\ q[k].since = runner[k].since
          /\ q[k].progressAt \in {now, runner[k].progressAt}
      BY <2>1 DEF Runners
    <2>3. /\ z[k] \in Streaks /\ z[k].worst = streak[k].worst
          /\ z[k].quit = streak[k].quit /\ z[k].kept = streak[k].kept
          /\ z[k].left = IF k \in Playing THEN runner[k].seenAt ELSE streak[k].left
      BY <2>1 DEF Streaks
    <2>4. k \notin Playing => ~runner[k].linked
      BY DEF Playing
    <2> HIDE DEF q, z
    <2> QED BY <2>1, <2>2, <2>3, <2>4 DEF Good
  <1>3. runner' = [k \in Owners |-> q[k]] /\ streak' = [k \in Owners |-> z[k]]
    BY DEF Restart
  <1> HIDE DEF q, z
  <1>4. StreakInv'
    BY <1>1, <1>2, <1>3, AllChange
  <1>5. lost' \in Nat
    <2>1. spent - runner[player].progress \in Int
      BY GoodNow, RunnerFields DEF Typed
    <2> QED BY <1>1, <2>1 DEF Later, Typed
  <1>6. Typed'
    BY <1>1, <1>5 DEF Typed, GoesOff
  <1>7. WireInv'
    BY <1>1, WireCut DEF GoesOff
  <1>8. LimiterInv'
    BY <1>1, LimiterReset DEF Restart
  <1> QED BY <1>4, <1>6, <1>7, <1>8

LEMMA ReturnStep == ASSUME Inv, Return PROVE Inv'
  <1> USE DEF Inv, ClocksInv
  <1>1. /\ ~Watching /\ bot' = "in" /\ (Send("JOIN") \/ UNCHANGED wire)
        /\ UNCHANGED <<now, table, there, asked, listed, runner, spent, links, player, lost, ghost, streak>>
    BY DEF Return, history, Watching
  <1>2. WireInv'
    <2>1. CASE Send("JOIN")
      <3>1. wire' = Append(wire, [kind |-> "JOIN", at |-> now])
        BY <2>1 DEF Send
      <3>2. \A i \in 1..Len(wire) : wire[i].kind \notin Local
        BY <1>1 DEF WireInv
      <3> DEFINE m == [kind |-> "JOIN", at |-> now]
      <3>3. m \in Messages /\ m.at = now /\ m.kind = "JOIN"
        BY DEF Messages, Typed, Kinds
      <3> HIDE DEF m
      <3>4. wire' = Append(wire, m)
        BY <3>1 DEF m
      <3>5. wire' \in Seq(Messages) /\ Len(wire') = Len(wire) + 1 /\ Len(wire) \in Nat
        BY <3>3, <3>4 DEF WireInv
      <3>6. ASSUME NEW i \in 1..Len(wire')
            PROVE  /\ i = Len(wire) + 1 => wire'[i] = m
                   /\ i # Len(wire) + 1 => i \in 1..Len(wire) /\ wire'[i] = wire[i]
        BY <3>3, <3>4, <3>5 DEF WireInv
      <3>7. \A i \in 1..Len(wire) : wire[i].at \in Nat
        BY WireType
      <3>8. \A i \in 1..Len(wire') : wire'[i].kind # "KICKED"
        BY <3>2, <3>3, <3>6 DEF Local, Kinds
      <3>9. \A i \in 1..Len(wire') : wire'[i].at <= now'
        BY <1>1, <3>3, <3>6 DEF WireInv, Typed
      <3>10. \A i, j \in 1..Len(wire') : i < j => wire'[i].at <= wire'[j].at
        BY <3>3, <3>5, <3>6, <3>7 DEF WireInv, Typed
      <3>11. Watching'
        BY <1>1 DEF Watching
      <3> QED BY <3>5, <3>8, <3>9, <3>10, <3>11 DEF WireInv
    <2>2. CASE UNCHANGED wire
      <3>1. /\ \A i \in 1..Len(wire) : wire[i].kind # "KICKED"
            /\ Watching'
        BY <1>1 DEF WireInv, Watching
      <3> QED BY <1>1, <2>2, <3>1 DEF WireInv
    <2> QED BY <1>1, <2>1, <2>2
  <1>3. Typed'
    BY <1>1 DEF Typed, Watching
  <1> QED BY <1>1, <1>2, <1>3, Unmoved, LimiterIdle

LEMMA Inductive == Inv /\ [Next]_vars => Inv'
  <1> SUFFICES ASSUME Inv, [Next]_vars PROVE Inv'
    OBVIOUS
  <1>1. CASE UNCHANGED vars
    <2>1. UNCHANGED <<now, table, there, bot, wire, asked, listed, runner,
                      spent, links, player, lost, ghost, streak>>
      BY <1>1 DEF vars, history, server
    <2>2. WireInv' /\ Typed'
      BY <2>1 DEF Inv, ClocksInv, Typed, WireInv, Watching
    <2> QED BY <2>1, <2>2, Unmoved, LimiterIdle DEF Inv, ClocksInv
  <1> QED BY <1>1, PersonStep, KickBotStep, PassesStep, HandleJoinStep, HandleQuitStep, HandleMessageStep,
             HandleCommandStep, HandleKickedStep, TickStep, ReconcileStep, LoseConnectionStep, RestartStep,
             ReturnStep DEF Next

LEMMA Always == Spec => []Inv
  <1>1. Init => Inv
    BY ClocksStart, LimiterStart DEF Init, Inv
  <1> QED BY <1>1, Inductive, PTL DEF Spec

-----------------------------------------------------------------------------
(* Factions.  What a command sent during a system crash has chosen, it has    *)
(* chosen no earlier than the crash began.                                    *)

FactionsInv ==
    /\ started \in Nat /\ until \in Nat /\ swappedAt \in Nat
    /\ started <= now /\ until <= now + Window /\ swappedAt <= now
    /\ chosen \in BOOLEAN /\ picks \in {0, 1}
    /\ picks = 1 => chosen /\ started <= swappedAt

LEMMA WindowType == Window \in Nat
  BY FactionsAssumption

LEMMA StillAhead ==
  ASSUME NEW end \in Nat, NEW t \in Nat, NEW u \in Nat, t <= u, end <= t + Window PROVE end <= u + Window
  BY WindowType

LEMMA SetFactionStep ==
  ASSUME FactionsInv, now \in Nat, NEW t \in Nat, t <= now, SetFaction(t), UNCHANGED now
  PROVE  FactionsInv'
  <1>1. CASE SwapOpen(t)
    <2>1. picks = 0
      BY <1>1 DEF FactionsInv, SetFaction, Unspent
    <2> QED BY <1>1, <2>1 DEF FactionsInv, SetFaction
  <1>2. CASE ~SwapOpen(t)
    BY <1>2 DEF FactionsInv, SetFaction
  <1> QED BY <1>1, <1>2

LEMMA FactionSwapStep ==
  ASSUME FactionsInv, now \in Nat, FactionSwapTick(now), UNCHANGED now PROVE FactionsInv'
  <1>1. CASE SystemRestored(now)
    BY <1>1, FactionsAssumption DEF SystemRestored, FactionsInv, Zero
  <1>2. CASE SystemCrash(now)
    BY <1>2, FactionsAssumption DEF SystemCrash, FactionsInv
  <1>3. CASE UNCHANGED factions
    BY <1>3 DEF factions, FactionsInv
  <1> QED BY <1>1, <1>2, <1>3 DEF FactionSwapTick

LEMMA FactionsNext == Inv /\ FactionsInv /\ [Next]_vars => FactionsInv'
  <1> SUFFICES ASSUME Inv, FactionsInv, [Next]_vars PROVE FactionsInv'
    OBVIOUS
  <1>0. now \in Nat
    BY DEF Inv, ClocksInv, Typed
  <1>1. ASSUME UNCHANGED factions, now' \in {now, now + 1} PROVE FactionsInv'
    <2>1. now' \in Nat /\ now <= now'
      BY <1>0, <1>1
    <2>2. UNCHANGED <<started, until, chosen, swappedAt, picks>>
      BY <1>1 DEF factions
    <2>3. until <= now' + Window
      BY <1>0, <2>1, StillAhead DEF FactionsInv
    <2> QED BY <1>0, <2>1, <2>2, <2>3 DEF FactionsInv
  <1>2. CASE UNCHANGED vars \/ Enter \/ Leave \/ Speak \/ Type \/ Answer \/ KickBot \/ Passes
    BY <1>1, <1>2 DEF vars, Enter, Leave, Speak, Type, Answer, Quietly, KickBot, Passes, Pass
  <1>3. CASE HandleJoin \/ HandleQuit \/ HandleMessage \/ HandleKicked
    BY <1>1, <1>3 DEF HandleJoin, HandleQuit, HandleMessage, HandleKicked, Receive
  <1>4. CASE HandleCommand
    <2>1. Receive("COMMAND") /\ (SetFaction(Head(wire).at) \/ UNCHANGED factions)
      BY <1>4 DEF HandleCommand
    <2> QED BY <1>0, <1>1, <2>1, Received, SetFactionStep
  <1>5. CASE Tick
    BY <1>0, <1>5, FactionSwapStep DEF Tick
  <1>6. CASE (\E k \in Owners : Reconcile(k)) \/ LoseConnection \/ Restart \/ Return
    BY <1>1, <1>6 DEF Reconcile, LoseConnection, Restart, Return
  <1> QED BY <1>2, <1>3, <1>4, <1>5, <1>6 DEF Next

LEMMA AlwaysFactions == Spec => []FactionsInv
  <1>1. Init => FactionsInv
    <2> SUFFICES ASSUME Init PROVE FactionsInv
      OBVIOUS
    <2>1. now = 1 /\ started = 0 /\ until = 0 /\ swappedAt = 0 /\ picks = 0
      BY DEF Init, LimiterInit, FactionsInit, Zero
    <2>2. chosen \in BOOLEAN
      BY DEF Init, FactionsInit
    <2>3. 0 <= 1 + Window
      BY WindowType
    <2> QED BY <2>1, <2>2, <2>3 DEF FactionsInv
  <1> QED BY <1>1, FactionsNext, Always, PTL DEF Spec


-----------------------------------------------------------------------------
(* Only a join or a login links a runner.                                     *)

LEMMA OnlyJoinLinks ==
  ASSUME Inv, Next, NEW k \in Owners, ~runner[k].linked, runner'[k].linked PROVE HandleJoin
  <1> USE DEF Inv, ClocksInv
  <1>0. /\ runner \in [Owners -> Runners] /\ \A j \in Owners : runner[j] \in Runners
        /\ \A t \in Nat, j \in Owners : Advanced(runner[j], t) \in Runners /\ Advanced(runner[j], t).linked = runner[j].linked
        /\ now \in Nat
    BY AdvancedFields DEF StreakInv, Functions, Typed
  <1>1. ~(UNCHANGED runner)
    OBVIOUS
  <1>2. ~(Enter \/ Leave \/ Speak \/ Type \/ Answer \/ KickBot \/ Passes \/ Return)
    BY <1>1 DEF Enter, Leave, Speak, Type, Answer, Quietly, KickBot, Passes, Return
  <1>3. ASSUME NEW j \in Owners, NEW q \in Runners, q.linked => runner[j].linked,
               runner' = [runner EXCEPT ![j] = q]
        PROVE  FALSE
    <2>1. j = k
      BY <1>0, <1>3
    <2>2. runner'[k] = q
      BY <1>0, <1>3, <2>1
    <2> QED BY <1>3, <2>1, <2>2
  <1>4. ASSUME HandleQuit PROVE FALSE
    <2>1. PICK kind \in {"QUIT", "SPLIT"}, j \in Owners : Receive(kind) /\ Disconnect(j, kind, Head(wire).at)
      BY <1>1, <1>4 DEF HandleQuit, Playing
    <2> DEFINE t == Head(wire).at
               a == Advanced(runner[j], t)
               q == [a EXCEPT !.linked = FALSE, !.seenAt = t, !.progressAt = t,
                              !.since = IF kind = "QUIT" THEN Never ELSE @]
    <2>2. t \in Nat
      BY <2>1, Received
    <2>3. a \in Runners
      BY <1>0, <2>2
    <2>4. runner' = [runner EXCEPT ![j] = q]
      BY <2>1 DEF Disconnect
    <2> HIDE DEF a, t
    <2>5. q \in Runners /\ ~q.linked
      BY <2>2, <2>3 DEF Runners, Never
    <2> QED BY <1>3, <2>4, <2>5
  <1>5. ASSUME HandleMessage \/ HandleCommand PROVE FALSE
    <2>1. PICK j \in Owners : Head(wire).at \in Nat /\ (Touch(j, Head(wire).at) \/ LookAt(j, Head(wire).at))
      BY <1>1, <1>5, Received DEF HandleMessage, HandleCommand, Addressed
    <2>2. PICK a \in Runners : a = Advanced(runner[j], Head(wire).at) /\ a.linked = runner[j].linked
      BY <1>0, <2>1
    <2>3. CASE Touch(j, Head(wire).at)
      <3>1. runner' = [runner EXCEPT ![j] = [a EXCEPT !.seenAt = Head(wire).at]]
        BY <2>2, <2>3 DEF Touch
      <3>2. /\ [a EXCEPT !.seenAt = Head(wire).at] \in Runners
            /\ [a EXCEPT !.seenAt = Head(wire).at].linked = runner[j].linked
        BY <2>1, <2>2 DEF Runners
      <3> QED BY <1>3, <3>1, <3>2
    <2>4. CASE LookAt(j, Head(wire).at)
      BY <1>3, <2>2, <2>4 DEF LookAt
    <2> QED BY <2>1, <2>3, <2>4
  <1>6. ASSUME Tick PROVE FALSE
    BY <1>0, <1>6 DEF Tick, Playing
  <1>7. ASSUME NEW j \in Owners, Reconcile(j) PROVE FALSE
    <2>1. PICK a \in Runners : a = Advanced(runner[j], now)
      BY <1>0
    <2> DEFINE q == [a EXCEPT !.linked = FALSE, !.seenAt = now, !.since = Never]
    <2>2. runner' = [runner EXCEPT ![j] = q]
      BY <1>7, <2>1 DEF Reconcile
    <2>3. q \in Runners /\ ~q.linked
      BY <1>0 DEF Runners, Never
    <2> QED BY <1>3, <2>2, <2>3
  <1>8. ASSUME Disconnected \/ DisconnectAll PROVE FALSE
    BY <1>0, <1>1, <1>8 DEF Disconnected, DisconnectAll, Playing
  <1>9. ASSUME Restart PROVE FALSE
    <2>1. runner'[k] = IF Exists(k) THEN [runner[k] EXCEPT !.linked = FALSE, !.progressAt = now] ELSE runner[k]
      BY <1>9 DEF Restart
    <2>2. ~[runner[k] EXCEPT !.linked = FALSE, !.progressAt = now].linked
      BY <1>0 DEF Runners
    <2> QED BY <2>1, <2>2
  <1> QED BY <1>2, <1>4, <1>5, <1>6, <1>7, <1>8, <1>9 DEF Next, HandleKicked, LoseConnection

(* A runner that is joined within the grace resumes its streak.               *)
LEMMA JoinResumes ==
  ASSUME Inv, NEW k \in Owners, NEW j \in Owners, NEW t \in Nat, Join(j, t), BackInTime(k)
  PROVE  runner'[k].since = runner[k].since
  <1>1. /\ runner \in [Owners -> Runners] /\ runner[k] \in Runners
        /\ runner[k].seenAt \in Nat /\ streak[k].left = runner[k].seenAt
    BY RunnerFields DEF Inv, ClocksInv, StreakInv, Functions, Good, BackInTime
  <1>2. j = k
    BY <1>1 DEF BackInTime, Join, StartOver, Resume, Rebind
  <1> DEFINE a == Linked(runner[k], t)
  <1>3. a \in Runners /\ a.progressAt = t /\ a.since = runner[k].since
    BY <1>1, LinkedFields
  <1> HIDE DEF a
  <1>4. CASE StartOver(k, t)
    <2>1. runner'[k] = [a EXCEPT !.since = t] /\ t - runner[k].seenAt > Grace
      BY <1>1, <1>4 DEF StartOver, BackInTime, GoneTooLong, a
    <2>2. runner'[k].progressAt = t
      BY <1>3, <2>1 DEF Runners
    <2>3. t - runner[k].seenAt <= Grace
      BY <1>1, <2>2 DEF BackInTime
    <2> QED BY <1>1, <2>1, <2>3, Bounds
  <1>5. CASE Resume(k, t)
    BY <1>1, <1>3, <1>5 DEF Resume, a
  <1> QED BY <1>2, <1>4, <1>5 DEF Join, Rebind, BackInTime

-----------------------------------------------------------------------------
(* The theorems.                                                              *)

(* No command or notice is let through twice within its cooldown, whatever    *)
(* the limiter has forgotten in between (allowAll), except across a restart.  *)
THEOREM CooldownsKept == Spec => []Spaced
  <1>1. Inv => Spaced
    BY DEF Inv, LimiterInv, LimiterType, Spaced
  <1> QED BY <1>1, Always, PTL

(* A runner's faction is set once at most by the commands sent during one     *)
(* system crash, for crashes of any length and messages of any delay          *)
(* (SetFaction, factionSwapTickLocked).                                       *)
THEOREM OneRespec == Spec => []RespecOnce
  <1>1. FactionsInv => RespecOnce
    BY DEF FactionsInv, RespecOnce
  <1> QED BY <1>1, AlwaysFactions, PTL

(* A streak has seen no quit and no absence beyond the grace, whatever the    *)
(* order in which messages, Ticks, merges, outages and restarts come, and     *)
(* whether or not saves of other people fail.                                 *)
THEOREM StreaksEarned == Spec => []StreakEarned
  <1>1. Inv => StreakEarned
    <2> SUFFICES ASSUME Inv, NEW k \in Owners, runner[k].since # Never, ~streak[k].kept
                 PROVE  ~streak[k].quit /\ streak[k].worst <= Grace
      BY DEF StreakEarned, Playing
    <2>1. Good(runner[k], streak[k], now)
      BY DEF Inv, ClocksInv, StreakInv
    <2> QED BY <2>1 DEF Good
  <1> QED BY <1>1, Always, PTL

(* A runner that is linked again within the grace has kept its streak, unless *)
(* it took over the guest that its person came back as: a netsplit, an outage *)
(* or a restart does not itself end one (joinLocked, MigrateGuest).           *)
THEOREM StreaksResume == Spec => StreakResumes
  <1> DEFINE Resumes == \A k \in Owners : BackInTime(k) => \/ runner'[k].since = runner[k].since
                                                           \/ Exists("guest") /\ runner'["guest"] = NoRunner
  <1>1. ASSUME Inv, Next, NEW k \in Owners, BackInTime(k)
        PROVE  \/ runner'[k].since = runner[k].since
               \/ Exists("guest") /\ runner'["guest"] = NoRunner
    <2>1. HandleJoin
      BY <1>1, OnlyJoinLinks DEF BackInTime
    <2>2. PICK kind \in {"JOIN", "LOGIN", "LATE"} :
             Receive(kind) /\ (Join("guest", Head(wire).at) \/ LogIn(Head(wire).at))
      BY <2>1 DEF HandleJoin
    <2>3. Head(wire).at \in Nat
      BY <1>1, <2>2, Received
    <2>4. CASE \E j \in Owners : Join(j, Head(wire).at)
      BY <1>1, <2>3, <2>4, JoinResumes
    <2>5. CASE Migrate(Head(wire).at)
      BY <2>5 DEF Migrate, Owners
    <2> QED BY <2>2, <2>4, <2>5 DEF LogIn, Owners
  <1>2. Inv /\ [Next]_vars => [Resumes]_vars
    BY <1>1
  <1> QED BY <1>2, Always, PTL DEF Spec, StreakResumes

=============================================================================
