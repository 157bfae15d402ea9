--------------------------- MODULE ProgressProofs ---------------------------
(***************************************************************************)
(* What TLAPS proves of the time that Clocks counts, for every delay and   *)
(* for a clock and a wire of any bounds: none of it is invented but what   *)
(* messages on their way hide, and none is forgotten but by an outage, a   *)
(* restart or a change of runner, until a late reply or a failed save      *)
(* leaves a runner linked that nobody plays.                               *)
(***************************************************************************)
EXTENDS ClocksProofs

-----------------------------------------------------------------------------
(* The invariant.                                                             *)

(* When the i-th message was sent; the next one would be sent now.            *)
Stamp(i) == IF i <= Len(wire) THEN wire[i].at ELSE now

(* Whether the person is listed once the bot has heard of a message.          *)
Heard(kind, before) ==
    CASE kind \in {"JOIN", "LOGIN"}           -> TRUE
      [] kind \in {"QUIT", "SPLIT", "KICKED"} -> FALSE
      [] OTHER                                -> before

Together == there /\ bot = "in"

(* The person's comings and goings, as the wire tells them (here), and the    *)
(* time spent when each message was sent (e).                                 *)
Story(here, e) ==
    /\ here[0] = listed
    /\ here[Len(wire)] = Together
    /\ e[Len(wire) + 1] = spent
    /\ \A i \in 1..Len(wire) :
          /\ here[i] = Heard(wire[i].kind, here[i-1])
          /\ wire[i].kind = "JOIN" => ~here[i-1]
          /\ e[i+1] = e[i] + (IF here[i] THEN Stamp(i+1) - Stamp(i) ELSE 0)
    /\ \A i \in 1..(Len(wire)+1) : spent <= e[i] + (now - Stamp(i))

(* Of the time b spent up to t all has been counted, but for what has passed  *)
(* since progressAt and what is gone; and no more, but for what messages on   *)
(* their way hid, hidden, and the delay that is left for a runner that is     *)
(* linked.                                                                    *)
Balanced(r, hidden, gone, b, t) ==
    IF r.linked
    THEN /\ b + r.progressAt <= r.progress + gone + t
         /\ r.progress + t + Lag <= b + r.progressAt + hidden
    ELSE /\ b <= r.progress + gone
         /\ r.progress <= b + hidden

(* The other runner has been linked before, and counted no more either.       *)
Fair(b, t) ==
    /\ Balanced(runner[player], Lag * links, lost, b, t)
    /\ \A k \in Owners : k # player => runner[k].progress <= b + Lag * links

Reckoned ==
    \E here \in [0..Len(wire) -> BOOLEAN], e \in [1..(Len(wire)+1) -> 0..spent] :
        Story(here, e) /\ Fair(e[1], Stamp(1))

Single == \A k \in Owners : runner[k].linked = (listed /\ k = player)

(* The runner that is played exists.                                          *)
Played == listed \/ player = "account" => runner[player].seenAt # Never

Timely == \A i \in 1..Len(wire) : wire[i].at # Never /\ now <= wire[i].at + Lag

ProgressInv == ghost \/ (Timely /\ Single /\ Played /\ Reckoned)

-----------------------------------------------------------------------------
(* The engine.  What a call does to the balance at the stamp t of a message   *)
(* that is no older than Lag.                                                 *)

LEMMA HiddenGrows == ASSUME NEW k \in Nat PROVE Lag * (k + 1) = Lag * k + Lag /\ Lag * k \in Nat
  BY Bounds

LEMMA AdvancedCounts ==
  ASSUME NEW r \in Runners, NEW t \in Nat
  PROVE  LET a == Advanced(r, t)
         IN  /\ a \in Runners /\ a.linked = r.linked
             /\ a.progress \in Nat /\ a.progressAt \in Nat
             /\ a.seenAt \in {t, r.seenAt}
             /\ r.linked => /\ a.progress + r.progressAt = r.progress + a.progressAt
                            /\ a.progressAt \in {t, r.progressAt} /\ t <= a.progressAt
             /\ ~r.linked => a.progress = r.progress /\ a.progressAt = t
  <1> DEFINE a == Advanced(r, t)
             s == Later(t, r.progressAt)
  <1>1. s \in Nat /\ t <= s /\ s \in {t, r.progressAt} /\ r.progress \in Nat /\ r.progressAt \in Nat
    BY RunnerFields, LaterType
  <1>2. a \in Runners /\ a.linked = r.linked /\ a.seenAt \in {t, r.seenAt}
    BY AdvancedFields
  <1>3. r.linked => a.progress = r.progress + s - r.progressAt /\ a.progressAt = s
    BY DEF Advanced, Runners
  <1>4. ~r.linked => a.progress = r.progress /\ a.progressAt = t
    BY DEF Advanced, Runners
  <1> HIDE DEF a, s
  <1>5. a.progress \in Nat /\ a.progressAt \in Nat
    BY <1>2, RunnerFields
  <1>6. r.linked => /\ a.progress + r.progressAt = r.progress + a.progressAt
                    /\ a.progressAt \in {t, r.progressAt} /\ t <= a.progressAt
    BY <1>1, <1>3, <1>5
  <1>7. /\ a \in Runners /\ a.linked = r.linked
        /\ a.progress \in Nat /\ a.progressAt \in Nat
        /\ a.seenAt \in {t, r.seenAt}
        /\ r.linked => /\ a.progress + r.progressAt = r.progress + a.progressAt
                       /\ a.progressAt \in {t, r.progressAt} /\ t <= a.progressAt
        /\ ~r.linked => a.progress = r.progress /\ a.progressAt = t
    BY <1>2, <1>4, <1>5, <1>6
  <1> QED BY <1>7 DEF a

(* Advancing changes nothing that the balance says.                           *)
LEMMA AdvancedBalanced ==
  ASSUME NEW r \in Runners, NEW q \in Runners, NEW s \in Nat,
         q.linked = r.linked, q.progress = Advanced(r, s).progress, q.progressAt = Advanced(r, s).progressAt,
         NEW hidden \in Nat, NEW gone \in Nat, NEW b \in Nat, NEW t \in Nat,
         Balanced(r, hidden, gone, b, t)
  PROVE  Balanced(q, hidden, gone, b, t)
  <1>1. /\ r.linked => q.progress + r.progressAt = r.progress + q.progressAt
        /\ ~r.linked => q.progress = r.progress
    <2>1. PICK a : a = Advanced(r, s)
      OBVIOUS
    <2>2. /\ r.linked => a.progress + r.progressAt = r.progress + a.progressAt
          /\ ~r.linked => a.progress = r.progress
      BY <2>1, AdvancedCounts
    <2> QED BY <2>1, <2>2
  <1>2. /\ r.progress \in Nat /\ r.progressAt \in Nat /\ q.progress \in Nat /\ q.progressAt \in Nat
    BY RunnerFields
  <1> QED BY <1>1, <1>2, Bounds DEF Balanced

(* A runner that is paused between t and Lag later uses up the delay that was *)
(* left for it.                                                               *)
LEMMA UnlinkedBalanced ==
  ASSUME NEW r \in Runners, NEW q \in Runners, NEW s \in Nat,
         NEW hidden \in Nat, NEW gone \in Nat, NEW b \in Nat, NEW t \in Nat,
         r.linked, r.progressAt <= t + Lag, t <= s, s <= t + Lag, Balanced(r, hidden, gone, b, t),
         ~q.linked, q.progress = Advanced(r, s).progress
  PROVE  Balanced(q, hidden, gone, b, t)
  <1> DEFINE a == Advanced(r, s)
  <1>1. /\ a.progress \in Nat /\ a.progressAt \in Nat
        /\ a.progress + r.progressAt = r.progress + a.progressAt
        /\ a.progressAt \in {s, r.progressAt} /\ s <= a.progressAt
    BY AdvancedCounts
  <1> HIDE DEF a
  <1>2. q.progress = a.progress
    BY DEF a
  <1>3. r.progress \in Nat /\ r.progressAt \in Nat
    BY RunnerFields
  <1>4. t <= a.progressAt /\ a.progressAt <= t + Lag
    BY <1>1, <1>3, Bounds
  <1> QED BY <1>1, <1>2, <1>3, <1>4, Bounds DEF Balanced

(* What passes while the runner is linked as the person is there changes      *)
(* nothing.                                                                   *)
LEMMA BalancedLater ==
  ASSUME NEW r \in Runners, NEW hidden \in Nat, NEW gone \in Nat, NEW b \in Nat, NEW t \in Nat,
         NEW c \in Nat, NEW u \in Nat, c = b + (IF r.linked THEN u - t ELSE 0),
         Balanced(r, hidden, gone, b, t)
  PROVE  Balanced(r, hidden, gone, c, u)
  <1>1. r.progress \in Nat /\ r.progressAt \in Nat
    BY RunnerFields
  <1> QED BY <1>1, Bounds DEF Balanced

(* A runner that is linked at t, with no more than it may have and lacking no *)
(* more than what is gone: the link pays for the delay of its message.        *)
LEMMA LinkedBalanced ==
  ASSUME NEW q \in Runners, NEW hidden \in Nat, NEW gone \in Nat, NEW b \in Nat, NEW t \in Nat,
         q.linked, q.progressAt = t, q.progress <= b + hidden, b <= q.progress + gone
  PROVE  Balanced(q, hidden + Lag, gone, b, t)
  <1>1. q.progress \in Nat
    BY RunnerFields
  <1> QED BY <1>1, Bounds DEF Balanced

(* What a runner has, once it has been advanced to t.                         *)
LEMMA AdvancedFair ==
  ASSUME NEW r \in Runners, NEW hidden \in Nat, NEW gone \in Nat, NEW b \in Nat, NEW t \in Nat,
         r.progressAt <= t + Lag, Balanced(r, hidden, gone, b, t)
  PROVE  Advanced(r, t).progress <= b + hidden /\ b <= Advanced(r, t).progress + gone
  <1> DEFINE a == Advanced(r, t)
  <1>1. /\ a.progress \in Nat /\ a.progressAt \in Nat
        /\ r.linked => /\ a.progress + r.progressAt = r.progress + a.progressAt
                       /\ a.progressAt \in {t, r.progressAt} /\ t <= a.progressAt
        /\ ~r.linked => a.progress = r.progress
    BY AdvancedCounts
  <1> HIDE DEF a
  <1>2. r.progress \in Nat /\ r.progressAt \in Nat
    BY RunnerFields
  <1>3. a.progress <= b + hidden /\ b <= a.progress + gone
    BY <1>1, <1>2, Bounds DEF Balanced
  <1> QED BY <1>3 DEF a

-----------------------------------------------------------------------------
(* The wire.                                                                  *)

LEMMA Stamps ==
  ASSUME Inv
  PROVE  /\ Len(wire) \in Nat
         /\ \A i \in 1..Len(wire) : Stamp(i) = wire[i].at
         /\ \A i \in 1..(Len(wire)+1) : Stamp(i) \in Nat /\ Stamp(i) <= now
         /\ \A i \in 1..Len(wire) : Stamp(i) <= Stamp(i+1)
         /\ Stamp(Len(wire)+1) = now /\ now \in Nat
  <1>1. Len(wire) \in Nat /\ now \in Nat
    BY DEF Inv, ClocksInv, WireInv, Typed
  <1>2. \A i \in 1..Len(wire) : wire[i].at \in Nat /\ wire[i].at <= now
    BY WireType DEF Inv, ClocksInv, WireInv
  <1>3. \A i \in 1..Len(wire) : i <= Len(wire)
    BY <1>1
  <1>4. \A i \in 1..(Len(wire)+1) : (i \in 1..Len(wire)) \/ (i = Len(wire)+1 /\ ~(i <= Len(wire)))
    BY <1>1
  <1>5. /\ \A i \in 1..Len(wire) : Stamp(i) = wire[i].at
        /\ Stamp(Len(wire)+1) = now
    BY <1>1, <1>3 DEF Stamp
  <1>6. \A i \in 1..(Len(wire)+1) : Stamp(i) \in Nat /\ Stamp(i) <= now
    BY <1>1, <1>2, <1>4, <1>5
  <1>7. ASSUME NEW i \in 1..Len(wire) PROVE Stamp(i) <= Stamp(i+1)
    <2>1. CASE i + 1 \in 1..Len(wire)
      <3>1. i < i + 1
        BY <1>1
      <3>2. wire[i].at <= wire[i+1].at
        BY <2>1, <3>1 DEF Inv, ClocksInv, WireInv
      <3> QED BY <2>1, <3>2, <1>5
    <2>2. CASE i = Len(wire)
      BY <2>2, <1>2, <1>5
    <2> QED BY <1>1, <2>1, <2>2
  <1> QED BY <1>1, <1>5, <1>6, <1>7

LEMMA HeardType == ASSUME NEW kind \in Kinds, NEW before \in BOOLEAN PROVE Heard(kind, before) \in BOOLEAN
  BY DEF Heard, Kinds

LEMMA Numbers ==
  ASSUME Inv
  PROVE  /\ now \in Nat /\ now # Never
         /\ spent \in Nat /\ links \in Nat /\ lost \in Nat /\ player \in Owners
         /\ listed \in BOOLEAN /\ Together \in BOOLEAN
         /\ runner \in [Owners -> Runners] /\ runner[player] \in Runners
         /\ \A k \in Owners : runner[k] \in Runners /\ runner[k].progress \in Nat
                              /\ runner[k].progressAt \in Nat /\ runner[k].progressAt <= now
  <1>1. Typed /\ StreakInv /\ now # Never
    BY DEF Inv, ClocksInv, LimiterInv, LimiterType, Moments
  <1>2. /\ runner \in [Owners -> Runners]
        /\ \A k \in Owners : runner[k] \in Runners /\ runner[k].progressAt <= now
    BY <1>1 DEF StreakInv, Functions, Good
  <1>3. \A k \in Owners : runner[k].progress \in Nat /\ runner[k].progressAt \in Nat
    BY <1>2, RunnerFields
  <1> QED BY <1>1, <1>2, <1>3 DEF Typed, Together

(* A message is sent: it is the last that the story tells of.                 *)
LEMMA Sent ==
  ASSUME Inv, ProgressInv, ~ghost, NEW kind \in Kinds, Send(kind),
         Together' = Heard(kind, Together), kind = "JOIN" => ~Together,
         UNCHANGED <<now, runner, spent, links, lost, listed, player>>
  PROVE  ProgressInv'
  <1> DEFINE m == [kind |-> kind, at |-> now]
  <1>0. PICK n : n = Len(wire)
    OBVIOUS
  <1>1. n \in Nat /\ spent \in Nat
    BY <1>0, Stamps DEF Inv, ClocksInv, Typed
  <1>2. /\ Len(wire') = n + 1 /\ wire'[n+1] = m
        /\ \A i \in 1..n : wire'[i] = wire[i]
    <2>1. wire \in Seq(Messages) /\ m \in Messages
      BY Stamps DEF Inv, ClocksInv, WireInv, Messages, Kinds
    <2> HIDE DEF m
    <2>2. wire' = Append(wire, m)
      BY DEF m, Send
    <2> QED BY <1>0, <2>1, <2>2
  <1>3. m.at = now /\ m.kind = kind
    OBVIOUS
  <1> HIDE DEF m
  <1>4. PICK here \in [0..n -> BOOLEAN], e \in [1..(n+1) -> 0..spent] :
            Story(here, e) /\ Fair(e[1], Stamp(1))
    BY <1>0 DEF ProgressInv, Reckoned
  <1>5. /\ Len(wire') \in Nat
        /\ \A i \in 1..(n+1) : Stamp(i)' = Stamp(i)
        /\ Stamp(n+2)' = now /\ Stamp(n+1) = now /\ now \in Nat
    <2>1. Len(wire') \in Nat /\ now \in Nat /\ Stamp(n+1) = now
      BY <1>0, <1>1, <1>2, Stamps
    <2>2. ASSUME NEW i \in 1..n PROVE Stamp(i)' = Stamp(i)
      <3>1. i <= n /\ i <= n + 1
        BY <1>1
      <3>2. Stamp(i) = wire[i].at
        BY <1>0, <3>1 DEF Stamp
      <3>3. Stamp(i)' = wire'[i].at
        BY <3>1, <1>2 DEF Stamp
      <3> QED BY <3>2, <3>3, <1>2
    <2>3. Stamp(n+1)' = now
      BY <1>1, <1>2, <1>3 DEF Stamp
    <2>4. Stamp(n+2)' = now
      BY <1>1, <1>2 DEF Stamp
    <2>5. \A i \in 1..(n+1) : i \in 1..n \/ i = n + 1
      BY <1>1
    <2> QED BY <2>1, <2>2, <2>3, <2>4, <2>5
  <1>6. PICK there2 : there2 = [i \in 0..(n+1) |-> IF i = n + 1 THEN Heard(kind, here[n]) ELSE here[i]]
    OBVIOUS
  <1>7. PICK e2 : e2 = [i \in 1..(n+2) |-> IF i = n + 2 THEN spent ELSE e[i]]
    OBVIOUS
  <1> \A i \in 1..(n+1) : i \in 1..n \/ i = n + 1
    BY <1>1
  <1> \A i \in 1..(n+2) : i \in 1..(n+1) \/ i = n + 2
    BY <1>1
  <1>8. here[n] \in BOOLEAN /\ here[n] = Together
    BY <1>0, <1>1, <1>4 DEF Story
  <1>9. there2 \in [0..(n+1) -> BOOLEAN] /\ e2 \in [1..(n+2) -> 0..spent]
    <2>1. Heard(kind, here[n]) \in BOOLEAN /\ spent \in 0..spent
      BY <1>1, <1>8, HeardType
    <2>2. \A i \in 0..(n+1) : i = n + 1 \/ i \in 0..n
      BY <1>1
    <2>3. \A i \in 1..(n+2) : i = n + 2 \/ i \in 1..(n+1)
      BY <1>1
    <2>4. there2 \in [0..(n+1) -> BOOLEAN]
      BY <1>6, <2>1, <2>2
    <2>5. e2 \in [1..(n+2) -> 0..spent]
      BY <1>7, <2>1, <2>3
    <2> QED BY <2>4, <2>5
  <1>10. /\ \A i \in 0..n : there2[i] = here[i]
         /\ there2[n+1] = Heard(kind, here[n])
         /\ \A i \in 1..(n+1) : e2[i] = e[i]
         /\ e2[n+2] = spent
    BY <1>1, <1>6, <1>7
  <1>11. Story(there2, e2)'
    <2>1. there2[0] = listed'
      BY <1>1, <1>4, <1>10 DEF Story
    <2>2. there2[n+1] = Together'
      BY <1>8, <1>10
    <2>3. e2[n+2] = spent'
      BY <1>10
    <2>4. ASSUME NEW i \in 1..(n+1)
          PROVE  /\ there2[i] = Heard(wire'[i].kind, there2[i-1])
                 /\ wire'[i].kind = "JOIN" => ~there2[i-1]
                 /\ e2[i+1] = e2[i] + (IF there2[i] THEN Stamp(i+1)' - Stamp(i)' ELSE 0)
      <3>1. CASE i \in 1..n
        <4>1. /\ here[i] = Heard(wire[i].kind, here[i-1])
              /\ wire[i].kind = "JOIN" => ~here[i-1]
              /\ e[i+1] = e[i] + (IF here[i] THEN Stamp(i+1) - Stamp(i) ELSE 0)
          BY <1>0, <3>1, <1>4 DEF Story
        <4>2. i - 1 \in 0..n /\ i \in 0..n /\ i + 1 \in 1..(n+1)
          BY <3>1, <1>1
        <4>3. wire'[i] = wire[i] /\ Stamp(i)' = Stamp(i) /\ Stamp(i+1)' = Stamp(i+1)
          BY <3>1, <4>2, <1>2, <1>5
        <4>4. there2[i] = here[i] /\ there2[i-1] = here[i-1] /\ e2[i] = e[i] /\ e2[i+1] = e[i+1]
          BY <4>2, <1>10
        <4> QED BY <4>1, <4>3, <4>4
      <3>2. CASE i = n + 1
        <4>1. e[n+1] = spent
          BY <1>0, <1>4 DEF Story
        <4>2. i - 1 = n /\ n \in 0..n /\ i + 1 = n + 2
          BY <3>2, <1>1
        <4>3. there2[i] = Heard(wire'[i].kind, there2[i-1])
          BY <3>2, <4>2, <1>2, <1>3, <1>10
        <4>7. wire'[i].kind = "JOIN" => ~there2[i-1]
          BY <3>2, <4>2, <1>2, <1>3, <1>8, <1>10
        <4>4. e2[i] = spent /\ e2[i+1] = spent
          BY <3>2, <4>1, <4>2, <1>10
        <4>5. Stamp(n+1)' = now
          <5>1. n + 1 \in 1..(n+1)
            BY <1>1
          <5> QED BY <5>1, <1>5
        <4>6. Stamp(i)' = now /\ Stamp(i+1)' = now
          BY <3>2, <4>2, <4>5, <1>5
        <4> QED BY <4>3, <4>4, <4>6, <4>7, <1>1, <1>5
      <3> QED BY <3>1, <3>2
    <2>5. ASSUME NEW i \in 1..(n+2) PROVE spent' <= e2[i] + (now' - Stamp(i)')
      <3>1. CASE i \in 1..(n+1)
        BY <1>0, <3>1, <1>4, <1>5, <1>10 DEF Story
      <3>2. CASE i = n + 2
        <4>1. e2[i] = spent /\ Stamp(i)' = now
          BY <3>2, <1>5, <1>10
        <4> QED BY <4>1, <1>1, <1>5
      <3> QED BY <3>1, <3>2
    <2>6. n + 1 + 1 = n + 2
      BY <1>1
    <2> QED BY <2>1, <2>2, <2>3, <2>4, <2>5, <2>6, <1>2 DEF Story
  <1>12. e2[1] = e[1] /\ Stamp(1)' = Stamp(1)
    BY <1>1, <1>5, <1>10
  <1>13. n + 1 + 1 = n + 2
    BY <1>1
  <1>14. Reckoned'
    <2>1. Fair(e2[1], Stamp(1))'
      BY <1>4, <1>12 DEF Fair
    <2>2. there2 \in [0..Len(wire') -> BOOLEAN] /\ e2 \in [1..(Len(wire')+1) -> 0..spent']
      BY <1>2, <1>9, <1>13
    <2> QED BY <2>1, <2>2, <1>11 DEF Reckoned
  <1>15. Timely'
    <2>1. ASSUME NEW i \in 1..(n+1) PROVE wire'[i].at # Never /\ now <= wire'[i].at + Lag
      <3>1. CASE i \in 1..n
        BY <1>0, <3>1, <1>2 DEF ProgressInv, Timely
      <3>2. CASE i = n + 1
        BY <3>2, <1>2, <1>3, <1>5, Bounds, Numbers
      <3> QED BY <3>1, <3>2
    <2> QED BY <2>1, <1>2 DEF Timely
  <1>16. Single' /\ Played'
    BY DEF ProgressInv, Single, Played
  <1> QED BY <1>14, <1>15, <1>16 DEF ProgressInv

(* What a handler knows of the message and the runners.                       *)
LEMMA Arrived ==
  ASSUME Inv, ProgressInv, ~ghost, NEW kind, Receive(kind)
  PROVE  /\ Head(wire).at \in Nat /\ Head(wire).at <= now /\ Head(wire).at # Never
         /\ now <= Head(wire).at + Lag
         /\ \A k \in Owners : runner[k].progressAt <= Head(wire).at + Lag
         /\ kind = "JOIN" => ~listed
         /\ Single /\ Played
  <1>1. wire # <<>> /\ Head(wire).kind = kind /\ WireInv
    BY DEF Receive, Inv, ClocksInv
  <1>2. /\ Head(wire).at \in Nat /\ Head(wire).at <= now
        /\ Head(wire) = wire[1] /\ 1 \in 1..Len(wire)
    BY <1>1, WireHead
  <1>3. now <= Head(wire).at + Lag /\ Head(wire).at # Never
    BY <1>2 DEF ProgressInv, Timely
  <1>4. \A k \in Owners : runner[k].progressAt <= Head(wire).at + Lag
    BY <1>2, <1>3, Numbers, Bounds
  <1>5. kind = "JOIN" => ~listed
    <2>1. PICK here \in [0..Len(wire) -> BOOLEAN], e \in [1..(Len(wire)+1) -> 0..spent] :
             Story(here, e) /\ Fair(e[1], Stamp(1))
      BY DEF ProgressInv, Reckoned
    <2>2. wire[1].kind = "JOIN" => ~here[1-1]
      BY <1>2, <2>1 DEF Story
    <2>3. here[1-1] = listed
      BY <2>1 DEF Story
    <2> QED BY <1>1, <1>2, <2>2, <2>3
  <1> QED BY <1>2, <1>3, <1>4, <1>5 DEF ProgressInv

LEMMA Tidy ==
  ASSUME Inv'
  PROVE  /\ links' \in Nat /\ lost' \in Nat /\ player' \in Owners
         /\ runner' \in [Owners -> Runners] /\ runner'[player'] \in Runners
         /\ \A k \in Owners : runner'[k] \in Runners /\ runner'[k].progress \in Nat
  <1>1. /\ links' \in Nat /\ lost' \in Nat /\ player' \in Owners
        /\ runner' \in [Owners -> Runners]
    BY DEF Inv, ClocksInv, Typed, StreakInv, Functions
  <1>2. \A k \in Owners : runner'[k] \in Runners /\ runner'[k].progress \in Nat
    BY <1>1, RunnerFields
  <1> QED BY <1>1, <1>2

(* A message is received: the story begins with the next.                     *)
LEMMA Delivered ==
  ASSUME Inv, ProgressInv, ~ghost, NEW kind, Receive(kind), Together' = Together,
         Single', Played', listed' = Heard(kind, listed),
         Inv', \A b, t \in Nat : t = Head(wire).at /\ b <= spent /\ Fair(b, t) => Fair(b, t)'
  PROVE  ProgressInv'
  <1>1. /\ wire # <<>> /\ Head(wire).kind = kind /\ wire' = Tail(wire)
        /\ UNCHANGED <<now, spent>>
    BY DEF Receive
  <1>2. PICK n : n = Len(wire)
    OBVIOUS
  <1>3. /\ n \in Nat /\ n >= 1 /\ Head(wire) = wire[1]
        /\ Len(wire') = n - 1 /\ \A i \in 1..(n-1) : wire'[i] = wire[i+1]
    <2>1. wire \in Seq(Messages)
      BY DEF Inv, ClocksInv, WireInv
    <2> QED BY <1>1, <1>2, <2>1
  <1>4. PICK here \in [0..n -> BOOLEAN], e \in [1..(n+1) -> 0..spent] :
            Story(here, e) /\ Fair(e[1], Stamp(1))
    BY <1>2 DEF ProgressInv, Reckoned
  <1>5. /\ \A i \in 1..n : i + 1 \in 1..(n+1) /\ i \in 0..n
        /\ \A i \in 1..(n-1) : i + 1 \in 1..n /\ i \in 1..n
        /\ \A i \in 0..(n-1) : i + 1 \in 0..n
        /\ \A i \in 1..(n-1) : i \in 0..(n-1) /\ i - 1 \in 0..(n-1) /\ (i - 1) + 1 = i /\ (i + 1) - 1 = i
        /\ 0 \in 0..(n-1) /\ n - 1 \in 0..(n-1) /\ (n - 1) + 1 = n
        /\ 1 \in 1..n /\ n \in 1..n /\ 0 + 1 = 1
    BY <1>3
  <1>6. \A i \in 1..n : Stamp(i)' = Stamp(i+1)
    <2> SUFFICES ASSUME NEW i \in 1..n PROVE Stamp(i)' = Stamp(i+1)
      OBVIOUS
    <2>1. CASE i = n
      <3>1. ~(i <= n - 1) /\ ~(i + 1 <= n)
        BY <2>1, <1>3
      <3> QED BY <3>1, <1>1, <1>2, <1>3 DEF Stamp
    <2>2. CASE i # n
      <3>1. i <= n - 1 /\ i + 1 <= n /\ i \in 1..(n-1)
        BY <2>2, <1>3
      <3> QED BY <3>1, <1>1, <1>2, <1>3 DEF Stamp
    <2> QED BY <2>1, <2>2
  <1>7. PICK there2 : there2 = [i \in 0..(n-1) |-> here[i+1]]
    OBVIOUS
  <1>8. PICK e2 : e2 = [i \in 1..n |-> e[i+1]]
    OBVIOUS
  <1>9. there2 \in [0..(n-1) -> BOOLEAN] /\ e2 \in [1..n -> 0..spent]
    <2>1. there2 \in [0..(n-1) -> BOOLEAN]
      BY <1>5, <1>7
    <2>2. e2 \in [1..n -> 0..spent]
      BY <1>5, <1>8
    <2> QED BY <2>1, <2>2
  <1>10. /\ \A i \in 0..(n-1) : there2[i] = here[i+1]
         /\ \A i \in 1..n : e2[i] = e[i+1]
    BY <1>7, <1>8
  <1>11. /\ \A i \in 1..n : /\ here[i] = Heard(wire[i].kind, here[i-1])
                            /\ wire[i].kind = "JOIN" => ~here[i-1]
                            /\ e[i+1] = e[i] + (IF here[i] THEN Stamp(i+1) - Stamp(i) ELSE 0)
         /\ \A i \in 1..(n+1) : spent <= e[i] + (now - Stamp(i))
         /\ here[0] = listed /\ here[n] = Together /\ e[n+1] = spent
    BY <1>2, <1>4 DEF Story
  <1>12. here[1] = listed'
    <2>1. 1 - 1 = 0
      OBVIOUS
    <2>2. here[1] = Heard(wire[1].kind, here[1-1])
      BY <1>5, <1>11
    <2>3. wire[1].kind = kind /\ here[1-1] = listed
      BY <2>1, <1>1, <1>3, <1>11
    <2> QED BY <2>2, <2>3, Zenon
  <1>13. Story(there2, e2)'
    <2>1. there2[0] = listed'
      BY <1>5, <1>10, <1>12
    <2>2. there2[n-1] = Together'
      BY <1>5, <1>10, <1>11
    <2>3. e2[n] = spent'
      BY <1>1, <1>5, <1>10, <1>11
    <2>4. ASSUME NEW i \in 1..(n-1)
          PROVE  /\ there2[i] = Heard(wire'[i].kind, there2[i-1])
                 /\ wire'[i].kind = "JOIN" => ~there2[i-1]
                 /\ e2[i+1] = e2[i] + (IF there2[i] THEN Stamp(i+1)' - Stamp(i)' ELSE 0)
      <3>1. there2[i] = here[i+1] /\ there2[i-1] = here[i] /\ e2[i] = e[i+1] /\ e2[i+1] = e[(i+1)+1]
        BY <1>5, <1>10
      <3>2. wire'[i] = wire[i+1] /\ Stamp(i)' = Stamp(i+1) /\ Stamp(i+1)' = Stamp((i+1)+1)
        BY <1>3, <1>5, <1>6
      <3>3. /\ here[i+1] = Heard(wire[i+1].kind, here[i])
            /\ wire[i+1].kind = "JOIN" => ~here[i]
            /\ e[(i+1)+1] = e[i+1] + (IF here[i+1] THEN Stamp((i+1)+1) - Stamp(i+1) ELSE 0)
        BY <1>5, <1>11
      <3> QED BY <3>1, <3>2, <3>3
    <2>5. ASSUME NEW i \in 1..n PROVE spent' <= e2[i] + (now' - Stamp(i)')
      BY <1>1, <1>5, <1>6, <1>10, <1>11
    <2> QED BY <2>1, <2>2, <2>3, <2>4, <2>5, <1>3, <1>5 DEF Story
  <1>14. Fair(e2[1], Stamp(1))'
    <2>1. PICK b \in Nat, c \in Nat, t \in Nat, u \in Nat :
             b = e[1] /\ c = e[2] /\ t = Stamp(1) /\ u = Stamp(2) /\ b <= spent
      <3>1. spent \in Nat /\ 1 \in 1..(n+1) /\ 2 \in 1..(n+1)
        BY <1>3, Numbers
      <3>2. Stamp(1) \in Nat /\ Stamp(2) \in Nat
        BY <1>2, <3>1, Stamps
      <3>3. e[1] \in 0..spent /\ e[2] \in 0..spent
        BY <3>1
      <3> QED BY <3>1, <3>2, <3>3
    <2>2. t = Head(wire).at
      BY <1>2, <1>3, <2>1 DEF Stamp
    <2>3. Fair(b, t)
      BY <1>4, <2>1
    <2>4. Fair(b, t)'
      BY <2>1, <2>2, <2>3
    <2>5. c = b + (IF listed' THEN u - t ELSE 0) /\ b <= c
      <3>1. 1 + 1 = 2
        OBVIOUS
      <3>2. c = b + (IF listed' THEN u - t ELSE 0)
        BY <3>1, <1>5, <1>11, <1>12, <2>1
      <3>3. t <= u
        BY <3>1, <1>2, <1>5, <2>1, Stamps
      <3> QED BY <3>2, <3>3, <2>1
    <2>6. PICK r \in Runners, hidden \in Nat, gone \in Nat :
             r = runner'[player'] /\ hidden = Lag * links' /\ gone = lost'
      BY HiddenGrows, Tidy
    <2>7. r.linked = listed'
      <3>1. runner'[player'].linked = (listed' /\ player' = player')
        BY Tidy DEF Single
      <3>2. listed' \in BOOLEAN
        BY DEF Inv, ClocksInv, Typed
      <3> QED BY <2>6, <3>1, <3>2
    <2>9. Balanced(r, hidden, gone, c, u)
      <3>1. Balanced(r, hidden, gone, b, t)
        BY <2>4, <2>6, Zenon DEF Fair
      <3>2. c = b + (IF r.linked THEN u - t ELSE 0)
        BY <2>5, <2>7
      <3> QED BY <3>1, <3>2, BalancedLater
    <2>10. ASSUME NEW k \in Owners, k # player' PROVE runner'[k].progress <= c + hidden
      <3>1. runner'[k].progress <= b + hidden
        BY <2>4, <2>6, <2>10, Zenon DEF Fair
      <3>2. runner'[k].progress \in Nat
        BY <2>10, Tidy
      <3> QED BY <2>5, <3>1, <3>2
    <2>11. Fair(c, u)'
      BY <2>6, <2>9, <2>10, Zenon DEF Fair
    <2>12. e2[1] = c /\ Stamp(1)' = u
      <3>1. 1 + 1 = 2
        OBVIOUS
      <3> QED BY <3>1, <1>5, <1>6, <1>10, <2>1
    <2> QED BY <2>11, <2>12 DEF Fair
  <1>15. Reckoned'
    <2>1. there2 \in [0..Len(wire') -> BOOLEAN] /\ e2 \in [1..(Len(wire')+1) -> 0..spent']
      BY <1>1, <1>3, <1>5, <1>9
    <2> QED BY <2>1, <1>13, <1>14 DEF Reckoned
  <1>16. Timely'
    <2>1. ASSUME NEW i \in 1..(n-1) PROVE wire'[i].at # Never /\ now <= wire'[i].at + Lag
      BY <1>2, <1>3, <1>5 DEF ProgressInv, Timely
    <2> QED BY <2>1, <1>1, <1>3 DEF Timely
  <1> QED BY <1>15, <1>16 DEF ProgressInv

(* Nothing is sent or received, and no time passes.                           *)
LEMMA Silent ==
  ASSUME Inv, ProgressInv, ~ghost, UNCHANGED <<now, wire, spent, listed>>, Together' = Together,
         Single', Played', \A b, t \in Nat : Fair(b, t) => Fair(b, t)'
  PROVE  ProgressInv'
  <1>1. PICK n : n = Len(wire) /\ n \in Nat /\ n = Len(wire')
    BY Stamps
  <1>2. PICK here \in [0..n -> BOOLEAN], e \in [1..(n+1) -> 0..spent] :
            Story(here, e) /\ Fair(e[1], Stamp(1))
    BY <1>1 DEF ProgressInv, Reckoned
  <1>3. \A i \in 1..(n+1) : Stamp(i)' = Stamp(i)
    BY DEF Stamp
  <1>4. Story(here, e)'
    <2>1. /\ here[0] = listed' /\ e[n+1] = spent' /\ here[n] = Together'
          /\ \A i \in 1..(n+1) : spent' <= e[i] + (now' - Stamp(i)')
      BY <1>1, <1>2, <1>3 DEF Story
    <2>2. ASSUME NEW i \in 1..n
          PROVE  /\ here[i] = Heard(wire'[i].kind, here[i-1])
                 /\ wire'[i].kind = "JOIN" => ~here[i-1]
                 /\ e[i+1] = e[i] + (IF here[i] THEN Stamp(i+1)' - Stamp(i)' ELSE 0)
      <3>1. i \in 1..(n+1) /\ i + 1 \in 1..(n+1)
        BY <1>1
      <3> QED BY <3>1, <1>1, <1>2, <1>3 DEF Story
    <2> QED BY <1>1, <2>1, <2>2 DEF Story
  <1>5. Fair(e[1], Stamp(1))'
    <2>1. PICK b \in Nat, t \in Nat : b = e[1] /\ t = Stamp(1)
      <3>1. 1 \in 1..(n+1) /\ spent \in Nat
        BY <1>1, Numbers
      <3> QED BY <1>1, <3>1, Stamps
    <2>2. Fair(b, t)'
      BY <1>2, <2>1
    <2>3. t = Stamp(1)'
      BY <1>1, <1>3, <2>1
    <2> QED BY <2>1, <2>2, <2>3 DEF Fair
  <1>6. Reckoned'
    <2>1. here \in [0..Len(wire') -> BOOLEAN] /\ e \in [1..(Len(wire')+1) -> 0..spent']
      BY <1>1
    <2> QED BY <2>1, <1>4, <1>5 DEF Reckoned
  <1>7. Timely'
    BY DEF ProgressInv, Timely
  <1> QED BY <1>6, <1>7 DEF ProgressInv

(* The bot goes: the books are closed on what has been spent.                 *)
LEMMA Closed ==
  ASSUME Inv, wire' = <<>>, bot' = "off", listed' = FALSE, UNCHANGED <<now, spent, links, player>>,
         \A k \in Owners : runner'[k].linked = FALSE /\ runner'[k].progress <= spent + Lag * links,
         player = "account" => runner'[player].seenAt # Never,
         spent <= runner'[player].progress + lost'
  PROVE  ProgressInv'
  <1>1. now \in Nat /\ spent \in Nat /\ player \in Owners
    BY Numbers
  <1>2. PICK here : here = [i \in 0..0 |-> FALSE]
    OBVIOUS
  <1>3. PICK e : e = [i \in 1..1 |-> spent]
    OBVIOUS
  <1>4. Len(wire') = 0 /\ 0 + 1 = 1 /\ 1..0 = {} /\ 1..1 = {1} /\ 0..0 = {0} /\ spent \in 0..spent
    BY <1>1
  <1>5. Stamp(1)' = now
    BY <1>4 DEF Stamp
  <1>6. here[0] = FALSE /\ e[1] = spent
    BY <1>2, <1>3, <1>4
  <1>7. here \in [0..0 -> BOOLEAN] /\ e \in [1..1 -> 0..spent]
    <2>1. here \in [0..0 -> BOOLEAN]
      BY <1>2
    <2>2. e \in [1..1 -> 0..spent]
      BY <1>3, <1>4
    <2> QED BY <2>1, <2>2
  <1>8. Story(here, e)'
    <2>1. spent' <= e[1] + (now' - Stamp(1)')
      BY <1>1, <1>5, <1>6
    <2>2. Together' = FALSE
      BY DEF Together
    <2> QED BY <1>4, <1>6, <2>1, <2>2 DEF Story
  <1>9. Fair(e[1], Stamp(1))'
    BY <1>1, <1>6 DEF Fair, Balanced
  <1>10. Reckoned'
    <2>1. here \in [0..Len(wire') -> BOOLEAN] /\ e \in [1..(Len(wire')+1) -> 0..spent']
      BY <1>4, <1>7
    <2> QED BY <2>1, <1>8, <1>9 DEF Reckoned
  <1>11. Timely' /\ Single' /\ Played'
    BY <1>4 DEF Timely, Single, Played
  <1> QED BY <1>10, <1>11 DEF ProgressInv

(* What the invariant says of now: a linked runner, had it been advanced      *)
(* now, would have progressed no further than it may.                         *)
LEMMA Accounted ==
  ASSUME Inv, ProgressInv, ~ghost
  PROVE  /\ listed => /\ runner[player].progress + now <= spent + runner[player].progressAt + Lag * links
                      /\ spent + runner[player].progressAt <= runner[player].progress + lost + now
         /\ \A k \in Owners : ~runner[k].linked => runner[k].progress <= spent + Lag * links
         /\ runner[player].linked = listed
  <1>1. PICK n : n = Len(wire) /\ n \in Nat
    BY Stamps
  <1>2. PICK here \in [0..n -> BOOLEAN], e \in [1..(n+1) -> 0..spent] :
            Story(here, e) /\ Fair(e[1], Stamp(1))
    BY <1>1 DEF ProgressInv, Reckoned
  <1>3. 1 \in 1..(n+1)
    BY <1>1
  <1>4. PICK b \in Nat, t \in Nat, hidden \in Nat :
           /\ b = e[1] /\ t = Stamp(1) /\ hidden = Lag * links
           /\ b <= spent /\ t <= now
    <2>1. e[1] \in 0..spent /\ spent \in Nat /\ Lag * links \in Nat
      BY <1>3, Numbers, HiddenGrows
    <2>2. Stamp(1) \in Nat /\ Stamp(1) <= now
      BY <1>1, <1>3, Stamps
    <2>3. e[1] \in Nat /\ e[1] <= spent
      BY <2>1
    <2> QED BY <2>1, <2>2, <2>3, Zenon
  <1>5. spent <= b + (now - t)
    BY <1>1, <1>2, <1>3, <1>4 DEF Story
  <1>6. now <= t + Lag
    <2>1. CASE n = 0
      BY <2>1, <1>1, <1>4, Numbers, Stamps, Bounds
    <2>2. CASE n # 0
      <3>1. 1 \in 1..n
        BY <2>2, <1>1
      <3>2. t = wire[1].at
        BY <3>1, <1>1, <1>4, Stamps
      <3> QED BY <3>1, <3>2, <1>1 DEF ProgressInv, Timely
    <2> QED BY <2>1, <2>2
  <1>7. PICK r \in Runners : r = runner[player]
    BY Numbers
  <1>8. r.progress \in Nat /\ r.progressAt \in Nat /\ now \in Nat /\ spent \in Nat /\ lost \in Nat
    BY Numbers, RunnerFields
  <1>9. r.linked = listed
    <2>1. runner[player].linked = (listed /\ player = player) /\ listed \in BOOLEAN
      BY Numbers DEF ProgressInv, Single
    <2> QED BY <1>7, <2>1
  <1>10. Balanced(r, hidden, lost, b, t)
    BY <1>2, <1>4, <1>7, Zenon DEF Fair
  <1>11. ASSUME listed
         PROVE  /\ runner[player].progress + now <= spent + runner[player].progressAt + Lag * links
                /\ spent + runner[player].progressAt <= runner[player].progress + lost + now
    <2>1. b + r.progressAt <= r.progress + lost + t /\ r.progress + t + Lag <= b + r.progressAt + hidden
      BY <1>9, <1>10, <1>11 DEF Balanced
    <2>2. PICK p \in Nat, a \in Nat, m \in Nat, s \in Nat, l \in Nat :
             p = r.progress /\ a = r.progressAt /\ m = now /\ s = spent /\ l = lost
      BY <1>8
    <2>3. /\ b + a <= p + l + t /\ p + t + Lag <= b + a + hidden
          /\ s <= b + (m - t) /\ m <= t + Lag /\ b <= s /\ t <= m
      BY <1>4, <1>5, <1>6, <2>1, <2>2
    <2>4. p + m <= s + a + hidden /\ s + a <= p + l + m
      BY <2>3, Bounds
    <2>5. /\ r.progress + now <= spent + r.progressAt + hidden
          /\ spent + r.progressAt <= r.progress + lost + now
      BY <2>2, <2>4
    <2> QED BY <1>4, <1>7, <2>5, Zenon
  <1>12. ASSUME ~r.linked PROVE r.progress <= spent + hidden
    <2>1. r.progress <= b + hidden
      BY <1>10, <1>12 DEF Balanced
    <2> QED BY <1>4, <1>8, <2>1
  <1>13. ASSUME NEW k \in Owners, k # player PROVE runner[k].progress <= spent + hidden
    <2>1. runner[k].progress <= b + hidden
      BY <1>2, <1>4, <1>13, Zenon DEF Fair
    <2> QED BY <1>4, <1>8, <2>1, Numbers
  <1>14. \A k \in Owners : ~runner[k].linked => runner[k].progress <= spent + Lag * links
    BY <1>4, <1>7, <1>12, <1>13
  <1>15. runner[player].linked = listed
    BY <1>7, <1>9
  <1> QED BY <1>11, <1>14, <1>15

-----------------------------------------------------------------------------
(* Every action keeps the invariant.                                          *)

LEMMA PersonProgress ==
  ASSUME Inv, ProgressInv, ~ghost, Enter \/ Leave \/ Speak \/ Type \/ Answer \/ KickBot \/ Return PROVE ProgressInv'
  <1>1. UNCHANGED <<now, listed, runner, spent, links, player, lost>>
    BY DEF Enter, Leave, Speak, Type, Answer, KickBot, Return, Quietly, history
  <1>2. there \in BOOLEAN
    BY DEF Inv, ClocksInv, Typed
  <1>3. \/ \E kind \in Kinds : Send(kind) /\ Together' = Heard(kind, Together) /\ (kind = "JOIN" => ~Together)
        \/ UNCHANGED wire /\ Together' = Together
    <2>1. CASE Enter \/ Leave
      BY <2>1, <1>2 DEF Enter, Leave, Tell, Quietly, Kinds, Heard, Together
    <2>2. CASE Speak
      BY <2>2, <1>2 DEF Speak, Tell, Quietly, Kinds, Heard, Together
    <2>3. CASE Answer
      BY <2>3, <1>2 DEF Answer, Quietly, Kinds, Heard, Together
    <2>4. CASE Type
      <3>1. Send("COMMAND") /\ Together' = Heard("COMMAND", Together) /\ "COMMAND" \in Kinds
        BY <2>4 DEF Type, Quietly, Kinds, Heard, Together
      <3> QED BY <3>1
    <2>5. CASE KickBot
      <3>1. Send("KICKED") /\ Together' = Heard("KICKED", Together) /\ "KICKED" \in Kinds
        BY <2>5, <1>2 DEF KickBot, Kinds, Heard, Together
      <3> QED BY <3>1
    <2>6. CASE Return /\ there
      <3>1. Send("JOIN") /\ Together' = Heard("JOIN", Together) /\ "JOIN" \in Kinds /\ ~Together
        BY <2>6, <1>2 DEF Return, Kinds, Heard, Together
      <3> QED BY <3>1
    <2>7. CASE Return /\ ~there
      BY <2>7, <1>2 DEF Return, Together
    <2> QED BY <2>1, <2>2, <2>3, <2>4, <2>5, <2>6, <2>7
  <1>4. CASE UNCHANGED wire /\ Together' = Together
    <2>1. Single' /\ Played' /\ \A b, t \in Nat : Fair(b, t) => Fair(b, t)'
      BY <1>1 DEF ProgressInv, Single, Played, Fair
    <2> QED BY <1>1, <1>4, <2>1, Silent
  <1> QED BY <1>1, <1>3, <1>4, Sent


LEMMA PassesProgress == ASSUME Inv, ProgressInv, ~ghost, Passes PROVE ProgressInv'
  <1>1. /\ now' = now + 1 /\ UNCHANGED <<there, bot, wire, listed, runner, links, player, lost>>
        /\ spent' = spent + (IF Together THEN 1 ELSE 0)
        /\ wire # <<>> => now < Head(wire).at + Lag
    BY DEF Passes, Pass, server, Together
  <1>2. PICK n \in Nat : n = Len(wire) /\ n = Len(wire')
    BY <1>1, Stamps
  <1>3. PICK here \in [0..n -> BOOLEAN], e \in [1..(n+1) -> 0..spent] :
            Story(here, e) /\ Fair(e[1], Stamp(1))
    BY <1>2 DEF ProgressInv, Reckoned
  <1>4. /\ now \in Nat /\ now # Never /\ spent \in Nat /\ spent' \in Nat /\ Together \in BOOLEAN
        /\ spent <= spent' /\ spent' <= spent + 1
    BY <1>1, Numbers
  <1>5. /\ \A i \in 1..n : Stamp(i)' = Stamp(i)
        /\ Stamp(n+1)' = now + 1 /\ Stamp(n+1) = now
        /\ \A i \in 1..(n+1) : Stamp(i) \in Nat
    <2>1. \A i \in 1..n : i <= n
      OBVIOUS
    <2>2. ~(n + 1 <= n)
      OBVIOUS
    <2> QED BY <1>1, <1>2, <2>1, <2>2, Stamps DEF Stamp
  <1>6. /\ \A i \in 1..(n+1) : i \in 1..n \/ i = n + 1
        /\ \A i \in 1..n : i \in 1..(n+1) /\ i + 1 \in 1..(n+1) /\ i # n + 1
        /\ n + 1 \in 1..(n+1) /\ n \in 0..n
    OBVIOUS
  <1>7. /\ \A i \in 1..n : /\ here[i] = Heard(wire[i].kind, here[i-1])
                           /\ wire[i].kind = "JOIN" => ~here[i-1]
                           /\ e[i+1] = e[i] + (IF here[i] THEN Stamp(i+1) - Stamp(i) ELSE 0)
        /\ \A i \in 1..(n+1) : e[i] \in Nat /\ e[i] <= spent /\ spent <= e[i] + (now - Stamp(i))
        /\ here[0] = listed /\ here[n] = Together /\ e[n+1] = spent
    <2>1. \A i \in 1..(n+1) : e[i] \in Nat /\ e[i] <= spent
      BY <1>4
    <2> QED BY <1>2, <1>3, <2>1 DEF Story
  <1>8. PICK e2 : e2 = [i \in 1..(n+1) |-> IF i = n + 1 THEN spent' ELSE e[i]]
    OBVIOUS
  <1>9. /\ e2[n+1] = spent' /\ \A i \in 1..n : e2[i] = e[i]
    BY <1>6, <1>8
  <1>10. e2 \in [1..(n+1) -> 0..spent']
    <2>1. \A i \in 1..(n+1) : e[i] \in 0..spent'
      BY <1>4, <1>7
    <2>2. spent' \in 0..spent'
      BY <1>4
    <2> QED BY <1>8, <2>1, <2>2
  <1>11. Story(here, e2)'
    <2>1. ASSUME NEW i \in 1..n
          PROVE  e2[i+1] = e2[i] + (IF here[i] THEN Stamp(i+1)' - Stamp(i)' ELSE 0)
      <3>1. CASE i + 1 \in 1..n
        BY <3>1, <1>5, <1>7, <1>9
      <3>2. CASE i = n
        <4>1. here[n] = Together /\ n \in 1..n /\ n \in 1..(n+1)
          BY <3>2, <1>6, <1>7
        <4>2. spent = e[n] + (IF Together THEN now - Stamp(n) ELSE 0)
          BY <4>1, <1>5, <1>7
        <4>3. e[n] \in Nat /\ Stamp(n) \in Nat
          BY <4>1, <1>5, <1>7
        <4>4. spent' = e[n] + (IF Together THEN (now + 1) - Stamp(n) ELSE 0)
          BY <4>2, <4>3, <1>1, <1>4
        <4>5. e2[i+1] = spent' /\ e2[i] = e[n] /\ Stamp(i+1)' = now + 1 /\ Stamp(i)' = Stamp(n)
          BY <3>2, <4>1, <1>5, <1>9
        <4> QED BY <3>2, <4>1, <4>4, <4>5
      <3>3. i + 1 \in 1..n \/ i = n
        OBVIOUS
      <3> QED BY <3>1, <3>2, <3>3
    <2>2. ASSUME NEW i \in 1..(n+1) PROVE spent' <= e2[i] + (now' - Stamp(i)')
      <3>1. CASE i \in 1..n
        <4>1. /\ e2[i] = e[i] /\ Stamp(i)' = Stamp(i) /\ e[i] \in Nat /\ Stamp(i) \in Nat
              /\ spent <= e[i] + (now - Stamp(i))
          BY <3>1, <1>5, <1>6, <1>7, <1>9
        <4> QED BY <4>1, <1>1, <1>4
      <3>2. CASE i = n + 1
        <4>1. e2[i] = spent' /\ Stamp(i)' = now'
          BY <3>2, <1>1, <1>5, <1>9
        <4> QED BY <4>1, <1>1, <1>4
      <3> QED BY <1>6, <3>1, <3>2
    <2>3. \A i \in 1..n : here[i] = Heard(wire'[i].kind, here[i-1]) /\ (wire'[i].kind = "JOIN" => ~here[i-1])
      BY <1>1, <1>7
    <2>4. here[0] = listed' /\ here[n] = Together'
      BY <1>1, <1>7 DEF Together
    <2> QED BY <2>1, <2>2, <2>3, <2>4, <1>2, <1>9 DEF Story
  <1>12. Fair(e2[1], Stamp(1))'
    <2>1. CASE n = 0
      <3>1. e2[1] = spent' /\ Stamp(1)' = now + 1 /\ e[1] = spent /\ Stamp(1) = now
        BY <2>1, <1>5, <1>7, <1>9
      <3>2. PICK r \in Runners, hidden \in Nat, gone \in Nat, u \in Nat, c \in Nat :
               r = runner[player] /\ hidden = Lag * links /\ gone = lost /\ u = now + 1 /\ c = spent'
        <4>1. links \in Nat /\ now + 1 \in Nat /\ lost \in Nat /\ runner[player] \in Runners
          BY <1>4, Numbers
        <4>2. Lag * links \in Nat
          BY <4>1, HiddenGrows, Zenon
        <4> QED BY <4>1, <4>2, <1>4, Zenon
      <3>3. c = spent + (IF r.linked THEN u - now ELSE 0)
        <4>1. listed = Together
          BY <2>1, <1>7
        <4>2. r.linked = listed
          BY <3>2, Accounted
        <4> QED BY <4>1, <4>2, <3>2, <1>1, <1>4
      <3>4. Balanced(r, hidden, gone, spent, now)
        BY <1>3, <3>1, <3>2, Zenon DEF Fair
      <3>5. Balanced(r, hidden, gone, c, u)
        BY <1>4, <3>3, <3>4, BalancedLater, Zenon
      <3>6. ASSUME NEW k \in Owners, k # player PROVE runner[k].progress <= c + hidden
        <4>1. runner[k].progress <= spent + hidden
          BY <1>3, <3>1, <3>2, <3>6, Zenon DEF Fair
        <4>2. spent <= c /\ runner[k].progress \in Nat
          BY <3>2, <1>4, Numbers
        <4> QED BY <4>1, <4>2, <1>4
      <3>7. Fair(c, u)'
        BY <1>1, <3>2, <3>5, <3>6, Zenon DEF Fair
      <3>8. e2[1] = c /\ Stamp(1)' = u
        BY <3>1, <3>2
      <3> QED BY <3>7, <3>8 DEF Fair
    <2>2. CASE n # 0
      <3>1. 1 \in 1..n
        BY <2>2
      <3>2. e2[1] = e[1] /\ Stamp(1)' = Stamp(1)
        BY <3>1, <1>5, <1>9
      <3> QED BY <1>1, <1>3, <3>2 DEF Fair
    <2> QED BY <2>1, <2>2
  <1>13. Reckoned'
    <2>1. here \in [0..Len(wire') -> BOOLEAN] /\ e2 \in [1..(Len(wire')+1) -> 0..spent']
      BY <1>2, <1>10
    <2> QED BY <2>1, <1>11, <1>12 DEF Reckoned
  <1>14. Timely'
    <2>1. ASSUME NEW i \in 1..n PROVE wire[i].at # Never /\ now + 1 <= wire[i].at + Lag
      <3>1. wire # <<>> /\ 1 \in 1..n /\ wire[1] = Head(wire)
        <4>1. wire \in Seq(Messages) /\ n >= 1
          BY DEF Inv, ClocksInv, WireInv
        <4> QED BY <4>1, <1>2
      <3>2. wire[1].at \in Nat /\ wire[i].at \in Nat
        BY <3>1, <1>2, WireType DEF Inv, ClocksInv
      <3>3. wire[1].at <= wire[i].at
        <4>1. CASE i = 1
          BY <4>1, <3>2
        <4>2. CASE i # 1
          <5>1. 1 < i
            BY <4>2
          <5> QED BY <5>1, <3>1, <1>2 DEF Inv, ClocksInv, WireInv
        <4> QED BY <4>1, <4>2
      <3>4. wire[i].at # Never
        BY <1>2 DEF ProgressInv, Timely
      <3> QED BY <3>1, <3>2, <3>3, <3>4, <1>1, <1>4, Bounds
    <2> QED BY <2>1, <1>1, <1>2 DEF Timely
  <1>15. Single' /\ Played'
    BY <1>1 DEF ProgressInv, Single, Played
  <1> QED BY <1>13, <1>14, <1>15 DEF ProgressInv

(* A runner is advanced, and seen perhaps.                                    *)
LEMMA OneAdvanced ==
  ASSUME Inv, Single, Played, NEW s \in Nat, s # Never, NEW k \in Owners, NEW q \in Runners,
         q.linked = runner[k].linked, q.seenAt \in {s, runner[k].seenAt},
         q.progress = Advanced(runner[k], s).progress, q.progressAt = Advanced(runner[k], s).progressAt,
         runner' = [runner EXCEPT ![k] = q], UNCHANGED <<listed, player, links, lost>>
  PROVE  Single' /\ Played' /\ \A b, t \in Nat : Fair(b, t) => Fair(b, t)'
  <1>1. /\ runner'[k] = q /\ \A j \in Owners \ {k} : runner'[j] = runner[j]
        /\ player \in Owners /\ listed \in BOOLEAN
    BY Numbers
  <1>2. Single'
    BY <1>1 DEF Single
  <1>3. Played'
    BY <1>1 DEF Played
  <1>4. PICK r \in Runners, hidden \in Nat, gone \in Nat :
           r = runner[k] /\ hidden = Lag * links /\ gone = lost
    <2>1. links \in Nat /\ lost \in Nat /\ runner[k] \in Runners
      BY Numbers
    <2>2. Lag * links \in Nat
      BY <2>1, HiddenGrows, Zenon
    <2> QED BY <2>1, <2>2, Zenon
  <1>5. \A b, t \in Nat : Balanced(r, hidden, gone, b, t) => Balanced(q, hidden, gone, b, t)
    BY <1>4, AdvancedBalanced
  <1>6. k # player => q.progress = r.progress
    <2> SUFFICES ASSUME k # player PROVE q.progress = r.progress
      OBVIOUS
    <2>1. ~r.linked
      BY <1>4 DEF Single
    <2>2. q.progress = Advanced(r, s).progress
      BY <1>4
    <2> QED BY <2>1, <2>2, AdvancedCounts
  <1>7. ASSUME NEW b \in Nat, NEW t \in Nat, Fair(b, t) PROVE Fair(b, t)'
    <2>1. Balanced(runner[player], hidden, gone, b, t)
      BY <1>4, <1>7, Zenon DEF Fair
    <2>2. PICK p : p = runner'[player]
      OBVIOUS
    <2>3. Balanced(p, hidden, gone, b, t)
      <3>1. CASE k = player
        BY <3>1, <2>1, <2>2, <1>1, <1>4, <1>5
      <3>2. CASE k # player
        BY <3>2, <2>1, <2>2, <1>1
      <3> QED BY <3>1, <3>2
    <2>4. ASSUME NEW j \in Owners, j # player PROVE runner'[j].progress = runner[j].progress
      BY <2>4, <1>1, <1>4, <1>6
    <2> QED BY <2>2, <2>3, <2>4, <1>4, <1>7, Zenon DEF Fair
  <1> QED BY <1>2, <1>3, <1>7

(* A command or a line of chat.                                               *)
LEMMA Handled ==
  ASSUME Inv, Inv', ProgressInv, ~ghost, NEW kind \in {"SAY", "COMMAND"}, Receive(kind),
         UNCHANGED <<bot, listed, player, links, lost>>,
         \/ UNCHANGED runner
         \/ \E k \in Owners : Touch(k, Head(wire).at) \/ LookAt(k, Head(wire).at)
  PROVE  ProgressInv'
  <1>1. PICK t \in Nat : t = Head(wire).at /\ t # Never
    BY Arrived
  <1>2. Single /\ Played
    BY DEF ProgressInv
  <1>3. Single' /\ Played' /\ \A b, u \in Nat : Fair(b, u) => Fair(b, u)'
    <2>1. CASE UNCHANGED runner
      BY <2>1, <1>2 DEF Single, Played, Fair
    <2>2. ASSUME NEW k \in Owners, Touch(k, t) \/ LookAt(k, t) PROVE Single' /\ Played' /\ \A b, u \in Nat : Fair(b, u) => Fair(b, u)'
      <3>1. PICK a \in Runners : a = Advanced(runner[k], t) /\ a.linked = runner[k].linked /\ a.seenAt \in {t, runner[k].seenAt}
        BY Numbers, AdvancedCounts
      <3>2. PICK q \in Runners :
               /\ runner' = [runner EXCEPT ![k] = q] /\ q.linked = a.linked
               /\ q.progress = a.progress /\ q.progressAt = a.progressAt
               /\ q.seenAt \in {t, a.seenAt}
        <4>1. CASE Touch(k, t)
          <5>1. runner' = [runner EXCEPT ![k] = [a EXCEPT !.seenAt = t]]
            BY <3>1, <4>1 DEF Touch
          <5>2. [a EXCEPT !.seenAt = t] \in Runners
            BY DEF Runners
          <5> QED BY <5>1, <5>2 DEF Runners
        <4>2. CASE LookAt(k, t)
          BY <3>1, <4>2 DEF LookAt
        <4> QED BY <2>2, <4>1, <4>2
      <3> QED BY <1>1, <1>2, <3>1, <3>2, OneAdvanced
    <2> QED BY <2>1, <2>2, <1>1
  <1>4. Together' = Together /\ listed' = Heard(kind, listed)
    BY DEF Receive, Together, Heard
  <1> QED BY <1>3, <1>4, Delivered

LEMMA HandleMessageProgress == ASSUME Inv, Inv', ProgressInv, ~ghost, HandleMessage PROVE ProgressInv'
  <1>1. /\ Receive("SAY") /\ UNCHANGED <<bot, listed, player, links, lost>>
        /\ UNCHANGED runner \/ \E k \in Owners : Touch(k, Head(wire).at)
    BY DEF HandleMessage, Addressed
  <1> QED BY <1>1, Handled

LEMMA HandleCommandProgress == ASSUME Inv, Inv', ProgressInv, ~ghost, HandleCommand PROVE ProgressInv'
  <1>1. /\ Receive("COMMAND") /\ UNCHANGED <<bot, listed, player, links, lost>>
        /\ UNCHANGED runner \/ \E k \in Owners : Touch(k, Head(wire).at) \/ LookAt(k, Head(wire).at)
    BY DEF HandleCommand, Addressed
  <1> QED BY <1>1, Handled

LEMMA TickProgress == ASSUME Inv, ProgressInv, ~ghost, Tick PROVE ProgressInv'
  <1>1. UNCHANGED <<now, there, bot, wire, listed, spent, links, player, lost>>
    BY DEF Tick, server
  <1>2. Single /\ Played /\ now \in Nat /\ now # Never /\ player \in Owners /\ listed \in BOOLEAN
    BY Numbers DEF ProgressInv
  <1>3. Single' /\ Played' /\ \A b, t \in Nat : Fair(b, t) => Fair(b, t)'
    <2>1. CASE listed
      <3>1. Playing = {player}
        BY <2>1, <1>2 DEF Single, Playing
      <3>2. PICK a \in Runners : /\ a = Advanced(runner[player], now) /\ a.linked = runner[player].linked
                                 /\ a.seenAt \in {now, runner[player].seenAt}
        BY <1>2, Numbers, AdvancedCounts
      <3>3. PICK q \in Runners : /\ q = Ghosted(runner[player]) /\ q.linked = a.linked /\ q.seenAt = a.seenAt
                                 /\ q.progress = a.progress /\ q.progressAt = a.progressAt
        <4>1. Ghosted(runner[player]) = [a EXCEPT !.since = IF @ = Never THEN now ELSE @]
          BY <3>2 DEF Ghosted
        <4> QED BY <4>1, <1>2 DEF Runners
      <3>4. runner' = [runner EXCEPT ![player] = q]
        BY <3>1, <3>3, <1>2, Numbers DEF Tick
      <3> QED BY <1>1, <1>2, <3>2, <3>3, <3>4, OneAdvanced
    <2>2. CASE ~listed
      <3>1. Playing = {}
        BY <2>2, <1>2 DEF Single, Playing
      <3>2. runner' = runner
        BY <3>1, Numbers DEF Tick
      <3> QED BY <1>1, <1>2, <3>2 DEF Single, Played, Fair
    <2> QED BY <2>1, <2>2
  <1>4. Together' = Together
    BY <1>1 DEF Together
  <1> QED BY <1>1, <1>3, <1>4, Silent

(* The runner that is played is paused.                                       *)
LEMMA OneUnlinked ==
  ASSUME Inv, ProgressInv, ~ghost, NEW kind, Receive(kind), listed,
         NEW s \in Nat, Head(wire).at <= s, s <= now, NEW q \in Runners,
         ~q.linked, q.seenAt # Never, q.progress = Advanced(runner[player], s).progress,
         runner' = [runner EXCEPT ![player] = q], UNCHANGED <<player, links, lost>>, listed' = FALSE
  PROVE  Single' /\ Played' /\ \A b, t \in Nat : t = Head(wire).at /\ b <= spent /\ Fair(b, t) => Fair(b, t)'
  <1>1. /\ runner'[player] = q /\ \A j \in Owners \ {player} : runner'[j] = runner[j]
        /\ player \in Owners /\ now \in Nat
    BY Numbers
  <1>2. PICK t \in Nat : t = Head(wire).at /\ t <= s /\ s <= t + Lag /\ runner[player].progressAt <= t + Lag
    BY <1>1, Arrived, Bounds
  <1>3. Single'
    <2>1. q.linked = FALSE
      BY RunnerFields
    <2>2. ASSUME NEW j \in Owners PROVE runner'[j].linked = FALSE
      <3>1. CASE j = player
        BY <3>1, <1>1, <2>1
      <3>2. CASE j # player
        BY <3>2, <1>1 DEF ProgressInv, Single
      <3> QED BY <3>1, <3>2
    <2> QED BY <2>2 DEF Single
  <1>4. Played'
    BY <1>1 DEF Played
  <1>5. PICK r \in Runners, hidden \in Nat, gone \in Nat :
           r = runner[player] /\ hidden = Lag * links /\ gone = lost
    <2>1. links \in Nat /\ lost \in Nat /\ runner[player] \in Runners
      BY Numbers
    <2>2. Lag * links \in Nat
      BY <2>1, HiddenGrows, Zenon
    <2> QED BY <2>1, <2>2, Zenon
  <1>6. r.linked
    BY <1>5, Accounted
  <1>7. \A b \in Nat : Balanced(r, hidden, gone, b, t) => Balanced(q, hidden, gone, b, t)
    BY <1>2, <1>5, <1>6, UnlinkedBalanced
  <1>8. ASSUME NEW b \in Nat, Fair(b, t) PROVE Fair(b, t)'
    <2>1. Balanced(q, hidden, gone, b, t)
      BY <1>5, <1>7, <1>8, Zenon DEF Fair
    <2> QED BY <2>1, <1>1, <1>5, <1>8 DEF Fair
  <1> QED BY <1>2, <1>3, <1>4, <1>8

LEMMA HandleQuitProgress == ASSUME Inv, Inv', ProgressInv, ~ghost, HandleQuit PROVE ProgressInv'
  <1>1. PICK kind \in {"QUIT", "SPLIT"} :
           /\ Receive(kind)
           /\ \/ \E k \in Playing : Disconnect(k, kind, Head(wire).at)
              \/ Playing = {} /\ UNCHANGED runner
    BY DEF HandleQuit
  <1>2. listed' = FALSE /\ UNCHANGED <<bot, player, links, lost>>
    BY DEF HandleQuit
  <1>3. Together' = Together /\ listed' = Heard(kind, listed)
    BY <1>1, <1>2 DEF Receive, Together, Heard
  <1>4. PICK t \in Nat : t = Head(wire).at /\ t # Never /\ t <= now
    BY <1>1, Arrived
  <1>5. Single /\ Played /\ player \in Owners /\ listed \in BOOLEAN
    BY Numbers DEF ProgressInv
  <1>6. Single' /\ Played' /\ \A b, u \in Nat : u = Head(wire).at /\ b <= spent /\ Fair(b, u) => Fair(b, u)'
    <2>1. ASSUME NEW k \in Playing, Disconnect(k, kind, t)
          PROVE  Single' /\ Played' /\ \A b, u \in Nat : u = Head(wire).at /\ b <= spent /\ Fair(b, u) => Fair(b, u)'
      <3>1. k = player /\ listed
        BY <1>5 DEF Single, Playing
      <3>2. PICK a \in Runners : a = Advanced(runner[player], t)
        BY <1>5, Numbers, AdvancedCounts
      <3>3. PICK q \in Runners : /\ runner' = [runner EXCEPT ![player] = q]
                                 /\ ~q.linked /\ q.seenAt # Never /\ q.progress = a.progress
        <4> DEFINE w == [a EXCEPT !.linked = FALSE, !.seenAt = t, !.progressAt = t,
                                  !.since = IF kind = "QUIT" THEN Never ELSE @]
        <4>1. runner' = [runner EXCEPT ![player] = w]
          BY <2>1, <3>1, <3>2 DEF Disconnect
        <4>2. w \in Runners /\ ~w.linked /\ w.seenAt = t /\ w.progress = a.progress
          BY DEF Runners, Never
        <4> QED BY <1>4, <4>1, <4>2
      <3>4. /\ Receive(kind) /\ listed /\ Head(wire).at <= t /\ t <= now
            /\ q.progress = Advanced(runner[player], t).progress
            /\ UNCHANGED <<player, links, lost>> /\ listed' = FALSE
        BY <1>1, <1>2, <1>4, <3>1, <3>2, <3>3
      <3> QED BY <3>3, <3>4, OneUnlinked
    <2>2. CASE Playing = {} /\ UNCHANGED runner
      <3>1. listed = FALSE
        BY <2>2, <1>5 DEF Single, Playing
      <3> QED BY <2>2, <3>1, <1>2, <1>5 DEF Single, Played, Fair
    <2> QED BY <1>1, <1>4, <2>1, <2>2
  <1> QED BY <1>1, <1>3, <1>6, Delivered

LEMMA HandleKickedProgress == ASSUME Inv, Inv', ProgressInv, ~ghost, HandleKicked PROVE ProgressInv'
  <1>1. /\ Receive("KICKED") /\ bot' = "out" /\ listed' = FALSE
        /\ UNCHANGED <<player, links, lost>> /\ Disconnected
    BY DEF HandleKicked
  <1>2. Together' = Together /\ listed' = Heard("KICKED", listed)
    <2>1. bot = "kicked"
      <3>1. wire # <<>> /\ Head(wire).kind = "KICKED"
        BY <1>1 DEF Receive
      <3>2. Head(wire) = wire[1] /\ 1 \in 1..Len(wire)
        BY <3>1, WireHead DEF Inv, ClocksInv
      <3> QED BY <3>1, <3>2 DEF Inv, ClocksInv, WireInv
    <2> QED BY <1>1, <2>1 DEF Together, Heard
  <1>3. CASE ghost' = TRUE
    BY <1>3 DEF ProgressInv
  <1>4. CASE DisconnectAll
    <2>1. PICK t \in Nat : t = Head(wire).at /\ t <= now
      BY <1>1, Arrived
    <2>2. Single /\ Played /\ player \in Owners /\ listed \in BOOLEAN /\ now \in Nat /\ now # Never
      BY Numbers DEF ProgressInv
    <2>3. CASE listed
      <3>1. Playing = {player}
        BY <2>2, <2>3 DEF Single, Playing
      <3>2. PICK a \in Runners : a = Advanced(runner[player], now) /\ a.seenAt \in {now, runner[player].seenAt}
        BY <2>2, Numbers, AdvancedCounts
      <3>3. PICK q \in Runners : /\ q = [a EXCEPT !.linked = FALSE, !.progressAt = now]
                                 /\ ~q.linked /\ q.seenAt = a.seenAt /\ q.progress = a.progress
        <4> DEFINE w == [a EXCEPT !.linked = FALSE, !.progressAt = now]
        <4>1. w \in Runners /\ ~w.linked /\ w.seenAt = a.seenAt /\ w.progress = a.progress
          BY <2>2 DEF Runners
        <4> QED BY <4>1
      <3>4. runner' = [runner EXCEPT ![player] = q]
        BY <1>4, <2>2, <3>1, <3>2, <3>3, Numbers DEF DisconnectAll
      <3>5. q.seenAt # Never
        BY <2>2, <2>3, <3>2, <3>3 DEF Played
      <3>6. Single' /\ Played' /\ \A b, u \in Nat : u = Head(wire).at /\ b <= spent /\ Fair(b, u) => Fair(b, u)'
        <4>1. PICK s \in Nat : s = now
          BY <2>2
        <4>2. /\ Receive("KICKED") /\ listed /\ Head(wire).at <= s /\ s <= now
              /\ q.progress = Advanced(runner[player], s).progress
              /\ UNCHANGED <<player, links, lost>> /\ listed' = FALSE
          BY <1>1, <2>1, <2>2, <2>3, <3>2, <3>3, <4>1
        <4> QED BY <3>3, <3>4, <3>5, <4>2, OneUnlinked
      <3> QED BY <1>1, <1>2, <3>6, Delivered
    <2>4. CASE ~listed
      <3>1. Playing = {}
        BY <2>2, <2>4 DEF Single, Playing
      <3>2. runner' = runner
        BY <1>4, <3>1, Numbers DEF DisconnectAll
      <3>3. Single' /\ Played' /\ \A b, u \in Nat : u = Head(wire).at /\ b <= spent /\ Fair(b, u) => Fair(b, u)'
        BY <1>1, <2>2, <2>4, <3>2 DEF Single, Played, Fair
      <3> QED BY <1>1, <1>2, <3>3, Delivered
    <2> QED BY <2>2, <2>3, <2>4
  <1>5. CASE UNCHANGED ghost /\ ~DisconnectAll
    BY <1>1, <1>5 DEF Disconnected
  <1> QED BY <1>1, <1>3, <1>4 DEF Disconnected

(* A runner is linked while none is: what the other had more than it is gone. *)
LEMMA JoinFair ==
  ASSUME Inv, ProgressInv, ~ghost, NEW kind, Receive(kind), NEW k \in Owners,
         Join(k, Head(wire).at), Playing = {}, listed' = TRUE
  PROVE  Single' /\ Played' /\ \A b, t \in Nat : t = Head(wire).at /\ b <= spent /\ Fair(b, t) => Fair(b, t)'
  <1>1. PICK t \in Nat : t = Head(wire).at /\ t # Never
    BY Arrived
  <1>2. PICK r \in Runners, p \in Runners, n \in Nat, hidden \in Nat, gone \in Nat :
           r = runner[k] /\ p = runner[player] /\ n = links /\ hidden = Lag * links /\ gone = lost
    <2>1. links \in Nat /\ lost \in Nat /\ runner[k] \in Runners /\ runner[player] \in Runners
      BY Numbers
    <2>2. Lag * links \in Nat
      BY <2>1, HiddenGrows, Zenon
    <2> QED BY <2>1, <2>2, Zenon
  <1>3. links' = n + 1 /\ player' = k /\ lost' = Later(0, gone + p.progress - r.progress)
    BY <1>2 DEF Join
  <1>4. \A j \in Owners : runner[j].linked = FALSE
    <2>1. \A j \in Owners : runner[j].linked \in BOOLEAN
      BY Numbers, RunnerFields
    <2> QED BY <2>1 DEF Playing
  <1>5. PICK q \in Runners : /\ runner' = [runner EXCEPT ![k] = q]
                             /\ q.linked = TRUE /\ q.progress = r.progress /\ q.progressAt = t /\ q.seenAt = t
    <2>1. PICK w \in Runners : /\ w = Linked(r, t) /\ w.linked /\ w.progress = r.progress
                               /\ w.progressAt = t /\ w.seenAt = t
      BY LinkedFields
    <2>2. CASE StartOver(k, t)
      <3>1. runner' = [runner EXCEPT ![k] = [w EXCEPT !.since = t]]
        BY <1>2, <2>1, <2>2 DEF StartOver
      <3>2. [w EXCEPT !.since = t] \in Runners
        BY DEF Runners
      <3> QED BY <2>1, <3>1, <3>2 DEF Runners
    <2>3. CASE Resume(k, t)
      BY <1>2, <2>1, <2>3, RunnerFields DEF Resume
    <2> QED BY <1>1, <1>4, <2>2, <2>3 DEF Join, Rebind
  <1>6. runner'[k] = q /\ \A j \in Owners \ {k} : runner'[j] = runner[j]
    BY <1>5, Numbers
  <1>7. Single'
    <2> SUFFICES ASSUME NEW j \in Owners PROVE runner'[j].linked = (j = k)
      BY <1>3 DEF Single
    <2>1. CASE j = k
      BY <2>1, <1>5, <1>6
    <2>2. CASE j # k
      BY <2>2, <1>4, <1>6
    <2> QED BY <2>1, <2>2
  <1>8. Played'
    BY <1>1, <1>3, <1>5, <1>6 DEF Played
  <1>9. Lag * links' = hidden + Lag
    BY <1>2, <1>3, HiddenGrows
  <1>10. ASSUME NEW b \in Nat, Fair(b, t) PROVE Fair(b, t)'
    <2>1. b <= p.progress + gone /\ p.progress <= b + hidden
      <3>1. Balanced(p, hidden, gone, b, t)
        BY <1>2, <1>10, Zenon DEF Fair
      <3>2. ~p.linked
        BY <1>2, <1>4, Numbers
      <3> QED BY <3>1, <3>2 DEF Balanced
    <2>2. \A j \in Owners : runner[j].progress <= b + hidden
      <3>1. \A j \in Owners : j # player => runner[j].progress <= b + hidden
        BY <1>2, <1>10, Zenon DEF Fair
      <3> QED BY <2>1, <3>1, <1>2
    <2>3. PICK left \in Nat : left = lost' /\ b <= q.progress + left
      <3>1. p.progress \in Nat /\ r.progress \in Nat
        BY RunnerFields
      <3> QED BY <2>1, <3>1, <1>3, <1>5 DEF Later
    <2>4. q.progress <= b + hidden
      BY <2>2, <1>2, <1>5
    <2>5. Balanced(q, hidden + Lag, left, b, t)
      BY <2>3, <2>4, <1>5, LinkedBalanced
    <2>6. ASSUME NEW j \in Owners, j # k PROVE runner'[j].progress <= b + (hidden + Lag)
      <3>1. runner[j].progress \in Nat /\ runner[j].progress <= b + hidden
        BY <2>2, Numbers
      <3> QED BY <2>6, <3>1, <1>6, Bounds
    <2> QED BY <2>3, <2>5, <2>6, <1>3, <1>6, <1>9 DEF Fair
  <1> QED BY <1>1, <1>7, <1>8, <1>10

(* The account's runner is linked again.                                      *)
LEMMA RebindFair ==
  ASSUME Inv, ProgressInv, ~ghost, NEW kind, Receive(kind), NEW k \in Owners,
         Join(k, Head(wire).at), runner[k].linked, listed' = TRUE
  PROVE  Single' /\ Played' /\ \A b, t \in Nat : t = Head(wire).at /\ b <= spent /\ Fair(b, t) => Fair(b, t)'
  <1>1. PICK t \in Nat : t = Head(wire).at /\ t # Never
    BY Arrived
  <1>2. listed /\ k = player
    BY DEF ProgressInv, Single
  <1>3. PICK r \in Runners, n \in Nat, hidden \in Nat, gone \in Nat :
           r = runner[k] /\ n = links /\ hidden = Lag * links /\ gone = lost
    <2>1. links \in Nat /\ lost \in Nat /\ runner[k] \in Runners
      BY Numbers
    <2>2. Lag * links \in Nat
      BY <2>1, HiddenGrows, Zenon
    <2> QED BY <2>1, <2>2, Zenon
  <1>4. links' = n + 1 /\ player' = k /\ lost' = Later(0, gone + r.progress - r.progress)
    BY <1>2, <1>3 DEF Join
  <1>5. lost' = gone
    <2>1. r.progress \in Nat
      BY RunnerFields
    <2> QED BY <2>1, <1>4 DEF Later
  <1>6. PICK a \in Runners : a = Advanced(r, t)
    BY AdvancedCounts
  <1>7. PICK q \in Runners : /\ runner' = [runner EXCEPT ![k] = q]
                             /\ q.linked = TRUE /\ q.progress = a.progress /\ q.progressAt = t /\ q.seenAt = t
    <2>1. runner' = [runner EXCEPT ![k] = Linked(a, t)]
      BY <1>1, <1>3, <1>6 DEF Join, StartOver, Resume, Rebind
    <2>2. PICK w \in Runners : /\ w = Linked(a, t) /\ w.linked /\ w.progress = a.progress
                               /\ w.progressAt = t /\ w.seenAt = t
      BY LinkedFields
    <2> QED BY <2>1, <2>2, RunnerFields
  <1>8. runner'[k] = q /\ \A j \in Owners \ {k} : runner'[j] = runner[j]
    BY <1>7, Numbers
  <1>9. Single'
    <2> SUFFICES ASSUME NEW j \in Owners PROVE runner'[j].linked = (j = k)
      BY <1>4 DEF Single
    <2>1. CASE j = k
      BY <2>1, <1>7, <1>8
    <2>2. CASE j # k
      BY <2>2, <1>2, <1>8 DEF ProgressInv, Single
    <2> QED BY <2>1, <2>2
  <1>10. Played'
    BY <1>1, <1>4, <1>7, <1>8 DEF Played
  <1>11. Lag * links' = hidden + Lag
    BY <1>3, <1>4, HiddenGrows
  <1>12. r.progressAt <= t + Lag
    BY <1>1, <1>3, Arrived
  <1>13. ASSUME NEW b \in Nat, Fair(b, t) PROVE Fair(b, t)'
    <2>1. Balanced(r, hidden, gone, b, t)
      BY <1>2, <1>3, <1>13, Zenon DEF Fair
    <2>2. a.progress <= b + hidden /\ b <= a.progress + gone
      BY <2>1, <1>6, <1>12, AdvancedFair
    <2>3. Balanced(q, hidden + Lag, gone, b, t)
      BY <2>2, <1>7, LinkedBalanced
    <2>4. ASSUME NEW j \in Owners, j # k PROVE runner'[j].progress <= b + (hidden + Lag)
      <3>1. runner[j].progress \in Nat
        BY Numbers
      <3>2. runner[j].progress <= b + hidden
        BY <2>4, <1>2, <1>3, <1>13, Zenon DEF Fair
      <3> QED BY <2>4, <3>1, <3>2, <1>8, Bounds
    <2> QED BY <2>3, <2>4, <1>4, <1>5, <1>8, <1>11 DEF Fair
  <1> QED BY <1>1, <1>9, <1>10, <1>13

(* The account takes over the guest, with the higher progress of the two.     *)
LEMMA MigrateFair ==
  ASSUME Inv, ProgressInv, ~ghost, NEW kind, Receive(kind), Migrate(Head(wire).at),
         runner["guest"].linked \/ Playing = {}, listed' = TRUE
  PROVE  Single' /\ Played' /\ \A b, t \in Nat : t = Head(wire).at /\ b <= spent /\ Fair(b, t) => Fair(b, t)'
  <1>1. PICK t \in Nat : t = Head(wire).at /\ t # Never
    BY Arrived
  <1>2. PICK h \in Runners, o \in Runners, n \in Nat, hidden \in Nat, gone \in Nat, s \in Nat :
           h = runner["guest"] /\ o = runner["account"] /\ n = links /\ hidden = Lag * links /\ gone = lost /\ s = spent
    <2>1. /\ links \in Nat /\ lost \in Nat /\ spent \in Nat
          /\ runner["guest"] \in Runners /\ runner["account"] \in Runners
      BY Numbers DEF Owners
    <2>2. Lag * links \in Nat
      BY <2>1, HiddenGrows, Zenon
    <2> QED BY <2>1, <2>2, Zenon
  <1>3. /\ player \in {"guest", "account"} /\ Owners = {"guest", "account"}
        /\ h.progress \in Nat /\ o.progress \in Nat
    BY <1>2, Numbers, RunnerFields DEF Owners
  <1>4. /\ player = "guest" => ~o.linked
        /\ player = "account" => ~h.linked /\ ~o.linked
    BY <1>2, <1>3 DEF ProgressInv, Single, Playing
  <1>5. PICK g \in Runners : /\ g = Advanced(h, t) /\ g.progress \in Nat /\ t <= g.progressAt
                             /\ ~h.linked => g.progress = h.progress
    <2>1. PICK a : a = Advanced(h, t)
      OBVIOUS
    <2>2. /\ a \in Runners /\ a.progress \in Nat /\ a.progressAt \in Nat
          /\ h.linked => t <= a.progressAt
          /\ ~h.linked => a.progress = h.progress /\ a.progressAt = t
      BY <2>1, AdvancedCounts
    <2> QED BY <2>1, <2>2
  <1>6. PICK m \in Runners : /\ m = IF Exists("account") THEN Merged(g, o) ELSE g
                             /\ m.progress = IF Exists("account") THEN Later(g.progress, o.progress) ELSE g.progress
                             /\ t <= m.progressAt
    <2>1. CASE Exists("account")
      <3>1. PICK w : w = Merged(g, o)
        OBVIOUS
      <3>2. /\ Later(g.progress, o.progress) \in Nat /\ Later(g.seenAt, o.seenAt) \in Nat
            /\ Later(g.progressAt, o.progressAt) \in Nat /\ g.progressAt <= Later(g.progressAt, o.progressAt)
            /\ g.progressAt \in Nat /\ g.since \in Nat
        BY RunnerFields, LaterType
      <3>3. /\ w \in Runners /\ w.progress = Later(g.progress, o.progress)
            /\ w.progressAt = Later(g.progressAt, o.progressAt)
        BY <3>1, <3>2 DEF Merged, Runners
      <3>4. t <= w.progressAt
        BY <3>2, <3>3, <1>5
      <3> QED BY <2>1, <3>1, <3>3, <3>4
    <2>2. CASE ~Exists("account")
      BY <2>2, <1>5
    <2> QED BY <2>1, <2>2
  <1>7. PICK q \in Runners : /\ q = Linked(Advanced([m EXCEPT !.linked = TRUE], t), t)
                             /\ q.linked = TRUE /\ q.progress = m.progress /\ q.progressAt = t /\ q.seenAt = t
    <2>1. PICK w \in Runners : /\ w = [m EXCEPT !.linked = TRUE] /\ w.linked
                               /\ w.progress = m.progress /\ w.progressAt = m.progressAt
      <3> DEFINE x == [m EXCEPT !.linked = TRUE]
      <3>1. x \in Runners /\ x.linked /\ x.progress = m.progress /\ x.progressAt = m.progressAt
        BY DEF Runners
      <3> QED BY <3>1
    <2>2. PICK a \in Runners : a = Advanced(w, t) /\ a.progress = w.progress
      <3>1. w.progress \in Nat /\ w.progressAt \in Nat /\ t <= w.progressAt
        BY <2>1, <1>6, RunnerFields
      <3>2. Later(t, w.progressAt) = w.progressAt
        BY <3>1 DEF Later
      <3>3. Advanced(w, t).progress = w.progress + w.progressAt - w.progressAt
        BY <2>1, <3>2 DEF Advanced, Runners
      <3>4. Advanced(w, t).progress = w.progress
        BY <3>1, <3>3
      <3> QED BY <3>4, AdvancedCounts
    <2>3. PICK x \in Runners : /\ x = Linked(a, t) /\ x.linked /\ x.progress = a.progress
                               /\ x.progressAt = t /\ x.seenAt = t
      BY LinkedFields
    <2>4. x.linked = TRUE
      BY <2>3, RunnerFields
    <2> QED BY <2>1, <2>2, <2>3, <2>4, Zenon
  <1>8. /\ runner' = [k \in Owners |-> IF k = "guest" THEN NoRunner ELSE q]
        /\ links' = n + 1 /\ player' = "account"
        /\ lost' = IF Exists("account") /\ Lacks("account") < gone THEN Lacks("account") ELSE gone
    <2>1. runner' = [k \in Owners |-> IF k = "guest" THEN NoRunner ELSE q]
      BY <1>1, <1>2, <1>5, <1>6, <1>7, Zenon DEF Migrate
    <2> QED BY <2>1, <1>2 DEF Migrate
  <1>9. runner'["guest"] = NoRunner /\ runner'["account"] = q
    BY <1>3, <1>8
  <1>10. Single'
    BY <1>3, <1>7, <1>8, <1>9 DEF Single, NoRunner
  <1>11. Played'
    BY <1>1, <1>7, <1>8, <1>9 DEF Played
  <1>12. Lag * links' = hidden + Lag
    BY <1>2, <1>8, HiddenGrows
  <1>13. ASSUME NEW b \in Nat, b <= spent, Fair(b, t) PROVE Fair(b, t)'
    <2>1. /\ \A k \in Owners : k # player => runner[k].progress <= b + hidden
          /\ Balanced(runner[player], hidden, gone, b, t)
      BY <1>2, <1>13, Zenon DEF Fair
    <2>2. ASSUME player = "guest" PROVE g.progress <= b + hidden /\ o.progress <= b + hidden /\ b <= m.progress + gone
      <3>1. h.progressAt <= t + Lag
        BY <1>1, <1>2, <1>3, Arrived
      <3>2. g.progress <= b + hidden /\ b <= g.progress + gone
        BY <2>1, <2>2, <3>1, <1>2, <1>5, AdvancedFair
      <3>3. o.progress <= b + hidden
        BY <2>1, <2>2, <1>2, <1>3
      <3> QED BY <3>2, <3>3, <1>3, <1>5, <1>6 DEF Later
    <2>3. ASSUME player = "account" PROVE g.progress <= b + hidden /\ o.progress <= b + hidden /\ b <= m.progress + gone
      <3>1. o.progress <= b + hidden /\ b <= o.progress + gone
        BY <2>1, <2>3, <1>2, <1>4 DEF Balanced
      <3>2. g.progress <= b + hidden
        BY <2>1, <2>3, <1>2, <1>3, <1>4, <1>5
      <3>3. Exists("account")
        BY <2>3 DEF ProgressInv, Played, Exists
      <3> QED BY <3>1, <3>2, <3>3, <1>3, <1>5, <1>6 DEF Later
    <2>4. g.progress <= b + hidden /\ o.progress <= b + hidden /\ b <= m.progress + gone
      BY <2>2, <2>3, <1>3
    <2>5. PICK left \in Nat : left = lost' /\ b <= m.progress + left
      <3>1. CASE lost' = gone
        BY <2>4, <3>1
      <3>2. CASE Exists("account") /\ lost' = Lacks("account")
        <4>1. Lacks("account") \in Nat /\ s <= o.progress + Lacks("account")
          BY <1>2, <1>3 DEF Lacks, Later
        <4>2. o.progress <= m.progress /\ m.progress \in Nat
          BY <3>2, <1>3, <1>5, <1>6 DEF Later
        <4>3. b <= m.progress + Lacks("account")
          BY <4>1, <4>2, <1>2, <1>3, <1>13
        <4> QED BY <3>2, <4>1, <4>3
      <3> QED BY <3>1, <3>2, <1>8
    <2>6. q.progress <= b + hidden
      BY <2>4, <1>3, <1>5, <1>6, <1>7 DEF Later
    <2>7. Balanced(q, hidden + Lag, left, b, t)
      BY <2>5, <2>6, <1>7, LinkedBalanced
    <2>8. ASSUME NEW k \in Owners, k # "account" PROVE runner'[k].progress <= b + (hidden + Lag)
      BY <2>8, <1>3, <1>9, Bounds DEF NoRunner
    <2> QED BY <2>5, <2>7, <2>8, <1>8, <1>9, <1>12 DEF Fair
  <1> QED BY <1>1, <1>10, <1>11, <1>13

LEMMA HandleJoinProgress == ASSUME Inv, Inv', ProgressInv, ~ghost, HandleJoin PROVE ProgressInv'
  <1>1. CASE Receive("LATE") /\ ghost' = TRUE
    BY <1>1 DEF ProgressInv
  <1>2. CASE Receive("JOIN") /\ Join("guest", Head(wire).at) /\ listed' = TRUE
    <2>1. ~listed /\ Single
      BY <1>2, Arrived
    <2>2. Playing = {}
      BY <2>1 DEF Single, Playing
    <2>3. /\ Single' /\ Played'
          /\ \A b, t \in Nat : t = Head(wire).at /\ b <= spent /\ Fair(b, t) => Fair(b, t)'
      BY <1>2, <2>2, JoinFair DEF Owners
    <2>4. Together' = Together /\ listed' = Heard("JOIN", listed)
      BY <1>2 DEF HandleJoin, Receive, Together, Heard
    <2> QED BY <1>2, <2>3, <2>4, Delivered
  <1>3. CASE Receive("LOGIN") /\ LogIn(Head(wire).at) /\ listed' = TRUE
    <2>1. ASSUME Migrate(Head(wire).at), runner["guest"].linked \/ Playing = {}
          PROVE  Single' /\ Played' /\ \A b, t \in Nat : t = Head(wire).at /\ b <= spent /\ Fair(b, t) => Fair(b, t)'
      BY <1>3, <2>1, MigrateFair
    <2>2. ASSUME Join("account", Head(wire).at), Playing = {}
          PROVE  Single' /\ Played' /\ \A b, t \in Nat : t = Head(wire).at /\ b <= spent /\ Fair(b, t) => Fair(b, t)'
      BY <1>3, <2>2, JoinFair DEF Owners
    <2>3. ASSUME Join("account", Head(wire).at), runner["account"].linked
          PROVE  Single' /\ Played' /\ \A b, t \in Nat : t = Head(wire).at /\ b <= spent /\ Fair(b, t) => Fair(b, t)'
      BY <1>3, <2>3, RebindFair DEF Owners
    <2>4. /\ Single' /\ Played'
          /\ \A b, t \in Nat : t = Head(wire).at /\ b <= spent /\ Fair(b, t) => Fair(b, t)'
      BY <1>3, <2>1, <2>2, <2>3 DEF LogIn
    <2>5. Together' = Together /\ listed' = Heard("LOGIN", listed)
      BY <1>3 DEF HandleJoin, Receive, Together, Heard
    <2> QED BY <1>3, <2>4, <2>5, Delivered
  <1> QED BY <1>1, <1>2, <1>3 DEF HandleJoin

LEMMA ReconcileProgress == ASSUME Inv, ProgressInv, ~ghost, NEW k \in Owners, Reconcile(k) PROVE FALSE
  BY DEF Reconcile, Playing, ProgressInv, Single

LEMMA LoseConnectionProgress == ASSUME Inv, Inv', ProgressInv, ~ghost, LoseConnection PROVE ProgressInv'
  <1>1. /\ wire' = <<>> /\ bot' = "off" /\ listed' = FALSE /\ UNCHANGED <<now, spent, links, player>>
        /\ DisconnectAll /\ lost' = Later(lost, spent - runner'[player].progress)
    BY DEF LoseConnection, GoesOff
  <1>2. PICK hidden \in Nat, m \in Nat, s \in Nat, l \in Nat : hidden = Lag * links /\ m = now /\ s = spent /\ l = lost
    <2>1. links \in Nat /\ now \in Nat /\ spent \in Nat /\ lost \in Nat
      BY Numbers
    <2>2. Lag * links \in Nat
      BY <2>1, HiddenGrows, Zenon
    <2> QED BY <2>1, <2>2, Zenon
  <1>3. Single /\ Played /\ player \in Owners /\ listed \in BOOLEAN /\ now # Never
    BY Numbers DEF ProgressInv
  <1>4. ASSUME NEW k \in Owners
        PROVE  /\ runner'[k].linked = FALSE /\ runner'[k].progress <= s + hidden
               /\ runner[k].seenAt # Never => runner'[k].seenAt # Never
    <2>1. PICK r \in Runners : r = runner[k] /\ r.progress \in Nat /\ r.progressAt \in Nat /\ r.progressAt <= m
      BY <1>2, Numbers
    <2>2. CASE r.linked
      <3>1. k = player /\ listed
        BY <2>1, <2>2, <1>3 DEF Single
      <3>2. r.progress + m <= s + r.progressAt + hidden
        BY <2>1, <3>1, <1>2, Accounted, Zenon
      <3>3. PICK a \in Runners : /\ a = Advanced(r, m)
                                 /\ a.progress \in Nat /\ a.progressAt \in Nat /\ a.seenAt \in {m, r.seenAt}
                                 /\ a.progress + r.progressAt = r.progress + a.progressAt
                                 /\ a.progressAt \in {m, r.progressAt}
        BY <2>2, AdvancedCounts
      <3>4. PICK q : q = [a EXCEPT !.linked = FALSE, !.progressAt = m]
        OBVIOUS
      <3>5. q.linked = FALSE /\ q.progress = a.progress /\ q.seenAt = a.seenAt
        BY <3>4 DEF Runners
      <3>6. runner'[k] = q
        BY <2>1, <2>2, <3>3, <3>4, <1>1, <1>2 DEF DisconnectAll, Playing
      <3>7. a.progress <= s + hidden
        BY <2>1, <3>2, <3>3
      <3> QED BY <2>1, <3>3, <3>5, <3>6, <3>7, <1>2, <1>3
    <2>3. CASE ~r.linked
      <3>1. runner'[k] = r
        BY <2>1, <2>3, <1>1 DEF DisconnectAll, Playing
      <3>2. r.progress <= s + hidden
        BY <2>1, <2>3, <1>2, Accounted, Zenon
      <3>3. r.linked = FALSE
        BY <2>3, RunnerFields
      <3> QED BY <2>1, <3>1, <3>2, <3>3
    <2> QED BY <2>2, <2>3
  <1>5. spent <= runner'[player].progress + lost'
    <2>1. PICK p \in Nat : p = runner'[player].progress
      BY <1>3, Tidy
    <2>2. s <= p + Later(l, s - p)
      BY <1>2 DEF Later
    <2> QED BY <2>1, <2>2, <1>1, <1>2
  <1>6. player = "account" => runner'[player].seenAt # Never
    BY <1>3, <1>4 DEF Played
  <1>7. \A k \in Owners : runner'[k].linked = FALSE /\ runner'[k].progress <= spent + Lag * links
    BY <1>2, <1>4
  <1> QED BY <1>1, <1>5, <1>6, <1>7, Closed

LEMMA RestartProgress == ASSUME Inv, Inv', ProgressInv, ~ghost, Restart PROVE ProgressInv'
  <1>1. /\ wire' = <<>> /\ bot' = "off" /\ listed' = FALSE /\ UNCHANGED <<now, spent, links, player>>
        /\ lost' = Later(lost, spent - runner[player].progress)
        /\ runner' = [k \in Owners |-> IF Exists(k) THEN [runner[k] EXCEPT !.linked = FALSE, !.progressAt = now]
                                       ELSE runner[k]]
    BY DEF Restart, GoesOff
  <1>2. PICK hidden \in Nat, m \in Nat, s \in Nat, l \in Nat : hidden = Lag * links /\ m = now /\ s = spent /\ l = lost
    <2>1. links \in Nat /\ now \in Nat /\ spent \in Nat /\ lost \in Nat
      BY Numbers
    <2>2. Lag * links \in Nat
      BY <2>1, HiddenGrows, Zenon
    <2> QED BY <2>1, <2>2, Zenon
  <1>3. Single /\ Played /\ player \in Owners /\ listed \in BOOLEAN
    BY Numbers DEF ProgressInv
  <1>4. ASSUME NEW k \in Owners
        PROVE  /\ runner'[k].linked = FALSE /\ runner'[k].progress <= s + hidden
               /\ runner'[k].progress = runner[k].progress /\ runner'[k].seenAt = runner[k].seenAt
    <2>1. PICK r \in Runners : r = runner[k] /\ r.progress \in Nat /\ r.progressAt \in Nat /\ r.progressAt <= m
      BY <1>2, Numbers
    <2>2. r.progress <= s + hidden
      <3>1. CASE r.linked
        <4>1. k = player /\ listed
          BY <2>1, <3>1, <1>3 DEF Single
        <4>2. r.progress + m <= s + r.progressAt + hidden
          BY <2>1, <4>1, <1>2, Accounted, Zenon
        <4> QED BY <2>1, <4>2
      <3>2. CASE ~r.linked
        BY <2>1, <3>2, <1>2, Accounted, Zenon
      <3> QED BY <3>1, <3>2
    <2>3. CASE Exists(k)
      <3>1. PICK q : q = [r EXCEPT !.linked = FALSE, !.progressAt = m]
        OBVIOUS
      <3>2. q.linked = FALSE /\ q.progress = r.progress /\ q.seenAt = r.seenAt
        BY <3>1 DEF Runners
      <3>3. runner'[k] = q
        BY <2>1, <2>3, <3>1, <1>1, <1>2
      <3> QED BY <2>1, <2>2, <3>2, <3>3
    <2>4. CASE ~Exists(k)
      <3>1. runner'[k] = r
        BY <2>1, <2>4, <1>1
      <3>2. r.linked = FALSE
        BY <2>1, <2>4, <1>3, RunnerFields DEF Single, Played, Exists
      <3> QED BY <2>1, <2>2, <3>1, <3>2
    <2> QED BY <2>3, <2>4
  <1>5. spent <= runner'[player].progress + lost'
    <2>1. PICK p \in Nat : p = runner[player].progress
      BY <1>3, Numbers
    <2>2. s <= p + Later(l, s - p)
      BY <1>2 DEF Later
    <2> QED BY <2>1, <2>2, <1>1, <1>2, <1>3, <1>4
  <1>6. player = "account" => runner'[player].seenAt # Never
    BY <1>3, <1>4 DEF Played
  <1>7. \A k \in Owners : runner'[k].linked = FALSE /\ runner'[k].progress <= spent + Lag * links
    BY <1>2, <1>4
  <1> QED BY <1>1, <1>5, <1>6, <1>7, Closed

LEMMA GhostStays == ASSUME Inv, [Next]_vars PROVE ghost' \in {ghost, TRUE}
  <1>1. CASE UNCHANGED vars
    BY <1>1 DEF vars, history
  <1>2. CASE Enter \/ Leave \/ Speak \/ Type \/ Answer \/ KickBot \/ Passes \/ Return
    BY <1>2 DEF Enter, Leave, Speak, Type, Answer, KickBot, Passes, Return, Quietly, history
  <1>3. CASE HandleJoin \/ HandleQuit \/ HandleMessage \/ HandleCommand \/ HandleKicked
    BY <1>3 DEF HandleJoin, HandleQuit, HandleMessage, HandleCommand, HandleKicked, Disconnected
  <1>4. CASE Tick \/ (\E k \in Owners : Reconcile(k)) \/ LoseConnection \/ Restart
    BY <1>4 DEF Tick, Reconcile, LoseConnection, Restart
  <1> QED BY <1>1, <1>2, <1>3, <1>4 DEF Next

LEMMA ProgressStart == Init => ProgressInv
  <1> SUFFICES ASSUME Init PROVE ProgressInv
    OBVIOUS
  <1>1. /\ wire = <<>> /\ bot = "in" /\ there = FALSE /\ listed = FALSE
        /\ spent = 0 /\ links = 0 /\ lost = 0 /\ player = "guest"
        /\ runner = [k \in Owners |-> NoRunner] /\ now \in Nat
    BY DEF Init, LimiterInit
  <1>2. Len(wire) = 0 /\ 0 + 1 = 1 /\ 1..0 = {} /\ 1..1 = {1} /\ 0..0 = {0} /\ 0..spent = {0}
    BY <1>1
  <1>3. PICK here : here = [i \in 0..0 |-> FALSE]
    OBVIOUS
  <1>4. PICK e : e = [i \in 1..1 |-> 0]
    OBVIOUS
  <1>5. here[0] = FALSE /\ e[1] = 0 /\ Stamp(1) = now
    BY <1>1, <1>2, <1>3, <1>4 DEF Stamp
  <1>6. here \in [0..Len(wire) -> BOOLEAN] /\ e \in [1..(Len(wire)+1) -> 0..spent]
    <2>1. here \in [0..0 -> BOOLEAN]
      BY <1>3
    <2>2. e \in [1..1 -> {0}]
      BY <1>4
    <2> QED BY <1>2, <2>1, <2>2
  <1>7. Story(here, e)
    <2>1. spent <= e[1] + (now - Stamp(1))
      BY <1>1, <1>5
    <2>2. here[0] = listed /\ e[1] = spent /\ here[0] = Together
      BY <1>1, <1>5 DEF Together
    <2> QED BY <1>2, <2>1, <2>2 DEF Story
  <1>8. \A k \in Owners : runner[k].linked = FALSE /\ runner[k].progress = 0
    BY <1>1 DEF NoRunner
  <1>9. Fair(e[1], Stamp(1))
    <2>1. Lag * links = 0
      BY <1>1, Bounds
    <2>2. player \in Owners
      BY <1>1 DEF Owners
    <2> QED BY <1>1, <1>5, <1>8, <2>1, <2>2 DEF Fair, Balanced
  <1>10. Timely /\ Single /\ Played
    BY <1>1, <1>2, <1>8 DEF Timely, Single, Played
  <1> QED BY <1>6, <1>7, <1>9, <1>10 DEF ProgressInv, Reckoned

LEMMA ProgressNext == Inv /\ ProgressInv /\ [Next]_vars => ProgressInv'
  <1> SUFFICES ASSUME Inv, ProgressInv, [Next]_vars PROVE ProgressInv'
    OBVIOUS
  <1>1. Inv'
    BY Inductive
  <1>2. CASE ghost
    <2>1. ghost' = TRUE
      <3>1. ghost \in BOOLEAN
        BY DEF Inv, ClocksInv, Typed
      <3> QED BY <1>2, <3>1, GhostStays
    <2> QED BY <2>1 DEF ProgressInv
  <1>3. CASE ~ghost
    <2>1. CASE UNCHANGED vars
      <3>1. UNCHANGED <<now, there, bot, wire, listed, runner, spent, links, player, lost>>
        BY <2>1 DEF vars, server, history
      <3>2. Single' /\ Played' /\ (\A b, t \in Nat : Fair(b, t) => Fair(b, t)') /\ Together' = Together
        BY <1>3, <3>1 DEF ProgressInv, Single, Played, Fair, Together
      <3> QED BY <1>3, <3>1, <3>2, Silent
    <2> QED BY <1>1, <1>3, <2>1, PersonProgress, PassesProgress, HandleJoinProgress, HandleQuitProgress,
               HandleMessageProgress, HandleCommandProgress, HandleKickedProgress, TickProgress,
               ReconcileProgress, LoseConnectionProgress, RestartProgress DEF Next
  <1> QED BY <1>2, <1>3

LEMMA AlwaysProgress == Spec => [](Inv /\ ProgressInv)
  <1>1. Init => ProgressInv
    BY ProgressStart
  <1> QED BY <1>1, ProgressNext, Always, PTL DEF Spec

-----------------------------------------------------------------------------
(* The theorems.                                                              *)

(* At most one runner is linked, for a person on the user list of a channel   *)
(* the bot thinks it is in, for every delay and order of messages, until a    *)
(* late WHOIS reply or a failed save leaves one linked that nobody plays      *)
(* (handleWhoisAccount, DisconnectAll).                                       *)
THEOREM ClocksTypes == Spec => []TypeOK
  <1>1. Inv /\ ProgressInv /\ FactionsInv => TypeOK
    <2> SUFFICES ASSUME Inv, ProgressInv, FactionsInv PROVE TypeOK
      OBVIOUS
    <2>1. /\ now \in Nat \ {Never} /\ Known \subseteq Slots /\ last \in [Known -> Nat]
          /\ granted \in [Slots -> Nat] /\ early \in BOOLEAN
      BY DEF Inv, LimiterInv, LimiterType, Moments
    <2>2. /\ there \in BOOLEAN /\ bot \in {"in", "kicked", "out", "off"} /\ asked \in BOOLEAN
          /\ listed \in BOOLEAN /\ (listed => Watching)
          /\ {spent, links, lost} \subseteq Nat /\ player \in Owners /\ ghost \in BOOLEAN
      BY DEF Inv, ClocksInv, Typed
    <2>3. \A i \in DOMAIN wire : wire[i].at <= now
      <3>1. DOMAIN wire = 1..Len(wire)
        BY DEF Inv, ClocksInv, WireInv
      <3> QED BY <3>1 DEF Inv, ClocksInv, WireInv
    <2>4. runner \in [Owners -> Runners] /\ streak \in [Owners -> Streaks]
      BY DEF Inv, ClocksInv, StreakInv, Functions
    <2>5. ghost \/ \A k \in Playing : listed /\ Playing = {k} /\ k = player
      BY <2>2 DEF ProgressInv, Single, Playing
    <2>6. {started, until, swappedAt, picks} \subseteq 0..(now + Window) /\ chosen \in BOOLEAN
      <3>1. now \in Nat /\ now >= 1 /\ Window \in Nat
        BY <2>1, WindowType DEF Never
      <3>2. \A x \in {started, until, swappedAt, picks} : x \in Nat /\ x <= now + Window
        BY <3>1 DEF FactionsInv
      <3> QED BY <3>1, <3>2 DEF FactionsInv
    <2> QED BY <2>1, <2>2, <2>3, <2>4, <2>5, <2>6 DEF TypeOK
  <1> QED BY <1>1, AlwaysProgress, AlwaysFactions, PTL

(* No runner progresses by more than the time its person spent in the channel *)
(* with the bot, and a message's delay for each time one was linked, through  *)
(* merges, splits, outages and restarts: what advancePlayer, joinLocked and   *)
(* merge count is never counted twice.  It holds until a late WHOIS reply or  *)
(* a failed save leaves a runner linked that nobody plays.                    *)
THEOREM ProgressReal == Spec => []IdleTimeIsReal
  <1>1. Inv /\ ProgressInv => IdleTimeIsReal
    <2> SUFFICES ASSUME Inv, ProgressInv, ~ghost, NEW k \in Owners
                 PROVE  runner[k].progress <= spent + Lag * links
      BY DEF IdleTimeIsReal
    <2>1. PICK r \in Runners, hidden \in Nat, m \in Nat, s \in Nat :
             /\ r = runner[k] /\ hidden = Lag * links /\ m = now /\ s = spent
             /\ r.progress \in Nat /\ r.progressAt \in Nat /\ r.progressAt <= m
      <3>1. /\ links \in Nat /\ now \in Nat /\ spent \in Nat /\ runner[k] \in Runners
            /\ runner[k].progress \in Nat /\ runner[k].progressAt \in Nat /\ runner[k].progressAt <= now
        BY Numbers
      <3>2. Lag * links \in Nat
        BY <3>1, HiddenGrows, Zenon
      <3> QED BY <3>1, <3>2, Zenon
    <2>2. CASE r.linked
      <3>1. k = player /\ listed
        BY <2>1, <2>2, Numbers DEF ProgressInv, Single
      <3>2. r.progress + m <= s + r.progressAt + hidden
        BY <2>1, <3>1, Accounted, Zenon
      <3>3. r.progress <= s + hidden
        BY <2>1, <3>2
      <3> QED BY <2>1, <3>3
    <2>3. CASE ~r.linked
      BY <2>1, <2>3, Accounted, Zenon
    <2> QED BY <2>2, <2>3
  <1> QED BY <1>1, AlwaysProgress, PTL

(* And none of that time is forgotten: while a runner is linked, what was     *)
(* spent is progress, or has passed since its last advance, or was lost to an *)
(* outage or a restart, or left with the other runner when this one was       *)
(* linked (advancePlayer, joinLocked); a merge leaves the account lacking no  *)
(* more than the runner of the two that lacked least (merge).                 *)
THEOREM ProgressCounted == Spec => []TimeIsCounted
  <1>1. Inv /\ ProgressInv => TimeIsCounted
    <2> SUFFICES ASSUME Inv, ProgressInv, ~ghost, NEW k \in Owners, runner[k].linked
                 PROVE  spent <= runner[k].progress + lost + (now - runner[k].progressAt)
      BY DEF TimeIsCounted, Playing
    <2>1. k = player /\ listed
      BY Numbers DEF ProgressInv, Single
    <2>2. /\ runner[k].progress \in Nat /\ runner[k].progressAt \in Nat
          /\ now \in Nat /\ spent \in Nat /\ lost \in Nat
      BY Numbers
    <2>3. spent + runner[k].progressAt <= runner[k].progress + lost + now
      BY <2>1, Accounted
    <2> QED BY <2>2, <2>3
  <1> QED BY <1>1, AlwaysProgress, PTL
=============================================================================
