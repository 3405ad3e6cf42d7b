-------------------------- MODULE ReleaseLoopProofs --------------------------
(***************************************************************************)
(* No row is released before its second and none is forgotten.  The text   *)
(* order agrees with the clock from one second to the next; with that, the *)
(* sweep, the timer and the backstop are each shown to cover the rows they *)
(* are responsible for.                                                    *)
(***************************************************************************)
EXTENDS ReleaseLoop, Integers, TLAPS, WellFoundedInduction

\* The moment at which the second of a moment is over.
SecondEnd(m) == (SecondOf(m) + 1) * Second

\* The ticker is on time: its next tick is ahead, by one interval at most.
TickAhead == now < tickAt /\ tickAt <= now + Backstop

\* A timer that was set at this reading of the clock is not in the past.
FreshAhead == fresh /\ timerAt # Off => now <= timerAt

\* Only arm aims the timer, and nothing is left to send by then.
Sweeping == pc = "rearm" => arming /\ work = {}

\* The backstop: a row whose second was over at the last tick, and whose agent
\* has a session, is in the running sweep, or the tick is still to be served.
TickCovers ==
    \A t \in Tasks :
        row[t] = "queued" /\ link[Target[t]] # "down" /\ SecondEnd(at[t]) <= tickAt - Backstop
            => ticked \/ (pc = "sweep" /\ t \in work)

\* arm runs, from its clock reading to the new setting of the timer.
Arming == pc # "select" /\ arming

\* The timer, as long as nothing fails: a row that was nudged is in the running
\* arm or ahead of its clock reading, or the timer fires in its second at the
\* latest, or a wake-up is pending.
TimerCovers ==
    faults = 0 =>
        /\ \A a \in Agents : link[a] = "up"
        /\ pc # "select" => snow = now
        /\ \A t \in Tasks : row[t] = "queued" /\ t \notin nudging =>
            \/ wake
            \/ Arming /\ (t \in work \/ Text(at[t]) > Text(snow))
            \/ ~Arming /\ timerAt # Off /\ timerAt < SecondEnd(at[t])

\* The inductive invariant.
Inv ==
    /\ TypeOK /\ SweepInSecond
    /\ TickAhead /\ FreshAhead /\ Sweeping
    /\ TickCovers /\ TimerCovers

-----------------------------------------------------------------------------
(***************************************************************************)
(* Arithmetic.                                                             *)
(***************************************************************************)

\* The order of the naturals as a relation.
NatLess == {p \in Nat \X Nat : p[1] < p[2]}

\* A non-empty set of naturals has a least element.
LEMMA NatLeast ==
    ASSUME NEW S \in SUBSET Nat, S # {}
    PROVE  \E x \in S : \A y \in S : x <= y
<1>1. IsWellFoundedOn(NatLess, Nat)
  <2>1. OpToRel(<, Nat) = NatLess
    BY Zenon DEF OpToRel, NatLess
  <2> QED BY <2>1, NatLessThanWellFounded, Zenon
<1>2. PICK x \in S : \A y \in S : ~(<<y, x>> \in NatLess)
  BY <1>1, WFMin
<1>3. ASSUME NEW y \in S PROVE x <= y
  <2>1. <<y, x>> \notin NatLess
    BY <1>2
  <2>2. x \in Nat /\ y \in Nat
    OBVIOUS
  <2> QED BY <2>1, <2>2 DEF NatLess
<1> QED BY <1>3

\* Division with a remainder.
LEMMA DivMod ==
    ASSUME NEW m \in Nat, NEW d \in Nat \ {0}
    PROVE  /\ m \div d \in Nat /\ m % d \in 0..(d - 1)
           /\ m = d * (m \div d) + (m % d)
BY Z3

\* Multiplication keeps the order, and a step more is at least one factor more.
LEMMA TimesMonotone ==
    ASSUME NEW m \in Nat, NEW n \in Nat, NEW k \in Nat
    PROVE  /\ m <= n => m * k <= n * k
           /\ m < n => m * k + k <= n * k
           /\ m * k \in Nat
BY Z3

LEMMA SecondType == Second \in Nat \ {0}
<1>1. Base \in Nat \ {0}
  BY ReleaseAssumption
<1> QED BY <1>1, Z3 DEF Second

\* A moment lies in its second, ...
LEMMA SecondOfType ==
    ASSUME NEW m \in Nat
    PROVE  SecondOf(m) \in Nat /\ SecondEnd(m) \in Nat /\ m < SecondEnd(m)
<1> DEFINE q == m \div Second
           r == m % Second
<1>1. q \in Nat /\ r \in 0..(Second - 1) /\ m = Second * q + r
  BY DivMod, SecondType
<1>2. (q + 1) * Second = Second * q + Second
  BY <1>1, SecondType, Z3
<1>3. (q + 1) * Second \in Nat
  BY <1>1, SecondType, TimesMonotone
<1> HIDE DEF q, r
<1>4. m < (q + 1) * Second
  <2> DEFINE p == Second * q
  <2>1. p \in Nat
    BY <1>1, SecondType, Z3
  <2> HIDE DEF p
  <2>2. p + r < p + Second
    BY <1>1, <2>1, SecondType
  <2> QED BY <2>2, <1>1, <1>2 DEF p
<1> QED BY <1>1, <1>3, <1>4 DEF SecondOf, SecondEnd, q

\* ... later seconds end later, ...
LEMMA SecondEndMonotone ==
    ASSUME NEW a \in Nat, NEW b \in Nat, SecondOf(a) <= SecondOf(b)
    PROVE  SecondEnd(a) <= SecondEnd(b)
<1>1. SecondOf(a) + 1 \in Nat /\ SecondOf(b) + 1 \in Nat /\ SecondOf(a) + 1 <= SecondOf(b) + 1
  BY SecondOfType
<1> QED BY <1>1, SecondType, TimesMonotone DEF SecondEnd

\* ... and a moment at or after the end of a second belongs to a later one.
LEMMA SecondPassed ==
    ASSUME NEW a \in Nat, NEW b \in Nat, SecondEnd(a) <= b
    PROVE  SecondOf(a) < SecondOf(b)
BY SecondOfType, SecondEndMonotone

\* The clock does not go back to an earlier second.
LEMMA SecondMonotone ==
    ASSUME NEW a \in Nat, NEW b \in Nat, a <= b
    PROVE  SecondOf(a) <= SecondOf(b)
<1> SUFFICES ASSUME SecondOf(b) < SecondOf(a) PROVE FALSE
  BY SecondOfType
<1> DEFINE qa == a \div Second
           qb == b \div Second
<1>1. /\ qa \in Nat /\ a % Second \in 0..(Second - 1) /\ a = Second * qa + (a % Second)
      /\ qb \in Nat /\ b % Second \in 0..(Second - 1) /\ b = Second * qb + (b % Second)
      /\ qb < qa
  BY DivMod, SecondType DEF SecondOf
<1> HIDE DEF qa, qb
<1>2. qb * Second + Second <= qa * Second /\ qa * Second \in Nat /\ qb * Second \in Nat
  BY <1>1, SecondType, TimesMonotone
<1>3. Second * qa = qa * Second /\ Second * qb = qb * Second
  BY <1>1, SecondType, Z3
<1> QED BY <1>1, <1>2, <1>3, SecondType

(***************************************************************************)
(* The texts of two seconds never interleave, whatever digits were         *)
(* dropped: what follows the seconds is less than (Base + 1) squared.      *)
(***************************************************************************)
LEMMA TextParts ==
    ASSUME NEW m \in Nat
    PROVE  \E r \in 0..((Base + 1) * (Base + 1) - 1) :
                Text(m) = SecondOf(m) * ((Base + 1) * (Base + 1)) + r
<1> DEFINE first  == IF m % Second = 0 THEN Base ELSE (m \div Base) % Base
           second == IF m % Base = 0 THEN Base ELSE m % Base
           q == m \div Second
<1>1. Base \in Nat \ {0}
  BY ReleaseAssumption
<1>2. first \in 0..Base
  BY <1>1, DivMod
<1>3. second \in 0..Base
  BY <1>1, DivMod
<1>4. q \in Nat
  BY SecondType, DivMod
<1>5. Text(m) = q * (Base + 1) * (Base + 1) + first * (Base + 1) + second
  BY DEF Text
<1> HIDE DEF first, second, q
<1>6. q * (Base + 1) * (Base + 1) = q * ((Base + 1) * (Base + 1))
  BY <1>1, <1>4, Z3
<1>7. first * (Base + 1) \in Nat /\ first * (Base + 1) <= Base * (Base + 1)
  BY <1>1, <1>2, TimesMonotone
<1>8. (Base + 1) * (Base + 1) = Base * (Base + 1) + Base + 1 /\ Base * (Base + 1) \in Nat
  BY <1>1, Z3
<1> DEFINE r == first * (Base + 1) + second
<1>9. r \in 0..((Base + 1) * (Base + 1) - 1)
  BY <1>1, <1>3, <1>7, <1>8
<1>10. q * ((Base + 1) * (Base + 1)) \in Nat
  BY <1>1, <1>4, <1>8, TimesMonotone
<1>11. Text(m) = q * ((Base + 1) * (Base + 1)) + r
  BY <1>3, <1>5, <1>6, <1>7, <1>10
<1> QED BY <1>9, <1>11 DEF SecondOf, q

LEMMA TextType == ASSUME NEW m \in Nat PROVE Text(m) \in Nat
<1> DEFINE K == (Base + 1) * (Base + 1)
<1>1. K \in Nat
  BY ReleaseAssumption, Z3
<1>2. PICK r \in 0..(K - 1) : Text(m) = SecondOf(m) * K + r
  BY TextParts
<1> HIDE DEF K
<1>3. SecondOf(m) * K \in Nat
  BY <1>1, SecondOfType, TimesMonotone
<1> QED BY <1>1, <1>2, <1>3

\* The text of a moment of an earlier second is the smaller one.
LEMMA TextOrder ==
    ASSUME NEW a \in Nat, NEW b \in Nat, SecondOf(a) < SecondOf(b)
    PROVE  Text(a) < Text(b)
<1> DEFINE K == (Base + 1) * (Base + 1)
<1>1. K \in Nat
  BY ReleaseAssumption, Z3
<1>2. PICK r \in 0..(K - 1) : Text(a) = SecondOf(a) * K + r
  BY TextParts
<1>3. PICK s \in 0..(K - 1) : Text(b) = SecondOf(b) * K + s
  BY TextParts
<1> HIDE DEF K
<1>4. /\ SecondOf(a) * K \in Nat /\ SecondOf(b) * K \in Nat
      /\ SecondOf(a) * K + K <= SecondOf(b) * K
  BY <1>1, SecondOfType, TimesMonotone
<1> QED BY <1>1, <1>2, <1>3, <1>4

-----------------------------------------------------------------------------
(***************************************************************************)
(* The operators of the loop.                                              *)
(***************************************************************************)

LEMMA FirstOfType ==
    ASSUME NEW S \in SUBSET Tasks, S # {}
    PROVE  FirstOf(S) \in S
<1>1. S \in SUBSET Nat
  BY ReleaseAssumption
<1>2. \E t \in S : \A u \in S : t <= u
  BY <1>1, NatLeast
<1> QED BY <1>2 DEF FirstOf

\* What the store returns for a clock reading: queued rows of its second or of
\* an earlier one, and all of the earlier ones.
LEMMA ReadyRows ==
    ASSUME TypeOK, NEW m \in Nat
    PROVE  /\ ReadyQueuedTasks(m) \subseteq Tasks
           /\ \A t \in ReadyQueuedTasks(m) : row[t] = "queued" /\ SecondOf(at[t]) <= SecondOf(m)
           /\ \A t \in Tasks : row[t] = "queued" /\ SecondOf(at[t]) < SecondOf(m)
                                => t \in ReadyQueuedTasks(m)
           /\ \A t \in Tasks : row[t] = "queued" /\ t \notin ReadyQueuedTasks(m)
                                => Text(at[t]) > Text(m)
<1>1. \A t \in Tasks : row[t] = "queued" => at[t] \in Nat
  BY DEF TypeOK
<1>2. \A t \in Tasks : row[t] = "queued" =>
        /\ Text(at[t]) \in Nat /\ SecondOf(at[t]) \in Nat
        /\ SecondOf(m) < SecondOf(at[t]) => Text(m) < Text(at[t])
        /\ SecondOf(at[t]) < SecondOf(m) => Text(at[t]) < Text(m)
  BY <1>1, TextType, TextOrder, SecondOfType
<1>3. Text(m) \in Nat /\ SecondOf(m) \in Nat
  BY TextType, SecondOfType
<1> QED BY <1>2, <1>3 DEF ReadyQueuedTasks

\* The timer is aimed at a row whose second is no later than that of any row
\* the sweep did not find.
LEMMA NextRelease ==
    ASSUME TypeOK, NEW m \in Nat
    PROVE  /\ NextDeferredRelease(m) \in Nat \cup {Off}
           /\ NextDeferredRelease(m) # Off => Text(NextDeferredRelease(m)) > Text(m)
           /\ \A t \in Tasks : row[t] = "queued" /\ Text(at[t]) > Text(m) =>
                /\ NextDeferredRelease(m) # Off
                /\ SecondOf(NextDeferredRelease(m)) <= SecondOf(at[t])
<1> DEFINE later == {t \in Tasks : row[t] = "queued" /\ Text(at[t]) > Text(m)}
           u == CHOOSE t \in later : \A v \in later : Text(at[t]) <= Text(at[v])
<1>1. \A t \in later : t \in Tasks /\ row[t] = "queued" /\ at[t] \in Nat /\ Text(at[t]) \in Nat
                       /\ SecondOf(at[t]) \in Nat
  BY TextType, SecondOfType DEF TypeOK
<1>2. Off \notin Nat
  BY ReleaseAssumption
<1>3. CASE later = {}
  BY <1>3 DEF NextDeferredRelease
<1>4. CASE later # {}
  <2>1. NextDeferredRelease(m) = at[u]
    BY <1>4 DEF NextDeferredRelease
  <2>2. u \in later /\ \A v \in later : Text(at[u]) <= Text(at[v])
    <3> DEFINE texts == {Text(at[t]) : t \in later}
    <3>1. texts \in SUBSET Nat /\ texts # {}
      BY <1>1, <1>4
    <3>2. PICK x \in texts : \A y \in texts : x <= y
      BY <3>1, NatLeast
    <3>3. PICK t \in later : x = Text(at[t])
      BY <3>2
    <3>4. \A v \in later : Text(at[t]) <= Text(at[v])
      BY <3>2, <3>3
    <3> QED BY <3>4
  <2> HIDE DEF u
  <2>3. at[u] \in Nat /\ Text(at[u]) > Text(m)
    BY <1>1, <2>2
  <2>4. \A t \in later : SecondOf(at[u]) <= SecondOf(at[t])
    <3> SUFFICES ASSUME NEW t \in later, SecondOf(at[t]) < SecondOf(at[u]) PROVE FALSE
      BY <1>1, <2>2
    <3>1. Text(at[t]) < Text(at[u])
      BY <1>1, <2>3, TextOrder
    <3> QED BY <1>1, <2>2, <3>1
  <2> QED BY <1>2, <2>1, <2>3, <2>4
<1> QED BY <1>3, <1>4

-----------------------------------------------------------------------------
(***************************************************************************)
(* Types.                                                                  *)
(***************************************************************************)

LEMMA SweepType ==
    ASSUME TypeOK, NEW arm \in BOOLEAN, BeginSweep(arm)
    PROVE  /\ pc' = "sweep" /\ arming' \in BOOLEAN /\ snow' \in Nat
           /\ work' \subseteq Tasks /\ \A t \in work' : row[t] = "queued"
<1>1. now \in Nat
  BY DEF TypeOK
<1> QED BY <1>1, ReadyRows DEF BeginSweep

\* Rows that are sent keep the relation of state and moment.
LEMMA SentType ==
    ASSUME TypeOK, NEW S, Sent(S)
    PROVE  /\ row' \in [Tasks -> {"none", "queued", "sent"}]
           /\ at' \in [Tasks -> Nat \cup {Off}]
           /\ \A t \in Tasks : /\ row'[t] = "queued" <=> at'[t] # Off
                               /\ row[t] # "none" => row'[t] # "none"
BY DEF TypeOK, Sent

LEMMA LoopType ==
    ASSUME TypeOK, Loop
    PROVE  TypeOK'
<1> USE DEF rowVars
<1>1. CASE OnTimer
  <2>1. BeginSweep(TRUE)
    BY <1>1 DEF OnTimer
  <2> QED BY <1>1, <2>1, SweepType DEF OnTimer, TypeOK
<1>2. CASE OnWake
  <2>1. BeginSweep(TRUE)
    BY <1>2 DEF OnWake
  <2> QED BY <1>2, <2>1, SweepType DEF OnWake, TypeOK
<1>3. CASE OnTick
  <2>1. BeginSweep(FALSE)
    BY <1>3 DEF OnTick
  <2> QED BY <1>3, <2>1, SweepType DEF OnTick, TypeOK
<1>4. CASE SweepRow
  <2>1. PICK S : Sent(S)
    BY <1>4 DEF SweepRow
  <2>2. /\ row' \in [Tasks -> {"none", "queued", "sent"}]
        /\ at' \in [Tasks -> Nat \cup {Off}]
        /\ \A t \in Tasks : /\ row'[t] = "queued" <=> at'[t] # Off
                            /\ row[t] # "none" => row'[t] # "none"
    BY <2>1, SentType
  <2>3. work' \subseteq work
    BY <1>4 DEF SweepRow
  <2> QED BY <1>4, <2>2, <2>3 DEF SweepRow, TypeOK
<1>5. CASE SweepEnd
  BY <1>5 DEF SweepEnd, TypeOK
<1>6. CASE Rearm
  <2>1. snow \in Nat /\ now \in Nat /\ Off \notin Nat
    BY ReleaseAssumption DEF TypeOK
  <2>2. NextDeferredRelease(snow) \in Nat \cup {Off}
    BY <2>1, NextRelease
  <2>3. timerAt' \in Nat \cup {Off}
    BY <1>6, <2>1, <2>2 DEF Rearm
  <2> QED BY <1>6, <2>3 DEF Rearm, TypeOK
<1> QED BY <1>1, <1>2, <1>3, <1>4, <1>5, <1>6 DEF Loop

LEMMA TypeStep ==
    ASSUME TypeOK, [Next]_vars
    PROVE  TypeOK'
<1> USE DEF rowVars, loopVars
<1>0. Backstop \in Nat /\ Off \notin Nat
  BY ReleaseAssumption
<1>1. ASSUME NEW t \in Tasks, NEW m \in 0..MaxAt, Defer(t, m) PROVE TypeOK'
  <2>1. m \in Nat
    BY ReleaseAssumption
  <2> QED BY <1>0, <1>1, <2>1 DEF Defer, TypeOK
<1>2. ASSUME NEW t \in Tasks, Nudge(t) PROVE TypeOK'
  BY <1>2 DEF Nudge, TypeOK
<1>3. CASE Loop
  BY <1>3, LoopType
<1>4. ASSUME NEW a \in Agents, Stall(a) PROVE TypeOK'
  BY <1>4 DEF Stall, Fault, TypeOK
<1>5. ASSUME NEW a \in Agents, StallEnds(a) PROVE TypeOK'
  BY <1>5 DEF StallEnds, TypeOK
<1>6. ASSUME NEW a \in Agents, Disconnect(a) PROVE TypeOK'
  BY <1>6 DEF Disconnect, Fault, TypeOK
<1>7. ASSUME NEW a \in Agents, Reconnect(a) PROVE TypeOK'
  <2>1. PICK S : Sent(S)
    BY <1>7 DEF Reconnect
  <2>2. /\ row' \in [Tasks -> {"none", "queued", "sent"}]
        /\ at' \in [Tasks -> Nat \cup {Off}]
        /\ \A t \in Tasks : /\ row'[t] = "queued" <=> at'[t] # Off
                            /\ row[t] # "none" => row'[t] # "none"
    BY <2>1, SentType
  <2> QED BY <1>7, <2>2 DEF Reconnect, TypeOK
<1>8. CASE Restart
  <2>1. BeginSweep(TRUE)
    BY <1>8 DEF Restart
  <2>2. /\ pc' = "sweep" /\ arming' \in BOOLEAN /\ snow' \in Nat
        /\ work' \subseteq Tasks /\ \A t \in work' : row[t] = "queued"
    BY <2>1, SweepType
  <2>3. link' \in [Agents -> {"up", "full", "down"}] /\ full' \in [Agents -> Nat]
    BY <1>8 DEF Restart, Started
  <2>4. tickAt' \in Nat /\ timerAt' = Off /\ faults' \in Nat /\ wake' = FALSE /\ ticked' = FALSE
        /\ fresh' = FALSE /\ nudging' = {} /\ UNCHANGED <<now, row, at>>
    BY <1>0, <1>8 DEF Restart, Started, Fault, TypeOK
  <2> QED BY <2>2, <2>3, <2>4 DEF TypeOK
<1>9. CASE Tick
  <2>1. full' \in [Agents -> Nat]
    BY <1>9 DEF Tick, TypeOK
  <2>2. tickAt' \in Nat /\ now' \in Nat
    BY <1>0, <1>9 DEF Tick, TypeOK
  <2>3. ticked' \in BOOLEAN
    BY <1>9 DEF Tick, TypeOK
  <2> QED BY <1>9, <2>1, <2>2, <2>3 DEF Tick, TypeOK
<1>10. CASE UNCHANGED vars
  BY <1>10 DEF vars, TypeOK
<1> QED BY <1>1, <1>2, <1>3, <1>4, <1>5, <1>6, <1>7, <1>8, <1>9, <1>10 DEF Next

-----------------------------------------------------------------------------
(***************************************************************************)
(* The clock, the ticker and the timer.                                    *)
(***************************************************************************)

LEMMA ClockStep ==
    ASSUME TypeOK, TickAhead, FreshAhead, Sweeping, [Next]_vars
    PROVE  (TickAhead /\ FreshAhead /\ Sweeping)'
<1> USE DEF rowVars, loopVars, TickAhead, FreshAhead, Sweeping
<1>0. Backstop \in Nat \ {0} /\ Off \notin Nat /\ now \in Nat /\ tickAt \in Nat /\ snow \in Nat
      /\ timerAt \in Nat \cup {Off}
  BY ReleaseAssumption DEF TypeOK
<1>1. ASSUME NEW t \in Tasks, NEW m \in 0..MaxAt, Defer(t, m) PROVE (TickAhead /\ FreshAhead /\ Sweeping)'
  BY <1>1 DEF Defer
<1>2. ASSUME NEW t \in Tasks, Nudge(t) PROVE (TickAhead /\ FreshAhead /\ Sweeping)'
  BY <1>2 DEF Nudge
<1>3. CASE OnTimer \/ OnWake \/ OnTick
  BY <1>3 DEF OnTimer, OnWake, OnTick, BeginSweep
<1>4. CASE SweepRow
  BY <1>4 DEF SweepRow
<1>5. CASE SweepEnd
  BY <1>5 DEF SweepEnd
<1>6. CASE Rearm
  <2>1. NextDeferredRelease(snow) \in Nat \cup {Off}
    BY <1>0, NextRelease
  <2>2. timerAt' # Off => now <= timerAt'
    BY <1>0, <1>6, <2>1 DEF Rearm
  <2> QED BY <1>6, <2>2 DEF Rearm
<1>7. ASSUME NEW a \in Agents, Stall(a) \/ StallEnds(a) \/ Disconnect(a) \/ Reconnect(a)
      PROVE  (TickAhead /\ FreshAhead /\ Sweeping)'
  BY <1>7 DEF Stall, StallEnds, Disconnect, Reconnect
<1>8. CASE Restart
  BY <1>0, <1>8 DEF Restart, Started, BeginSweep
<1>9. CASE Tick
  <2>1. now' = now + 1 /\ fresh' = FALSE /\ UNCHANGED <<pc, work, arming>>
        /\ tickAt' = IF now + 1 = tickAt THEN tickAt + Backstop ELSE tickAt
    BY <1>9 DEF Tick
  <2> QED BY <1>0, <2>1
<1>10. CASE UNCHANGED vars
  BY <1>10 DEF vars
<1> QED BY <1>1, <1>2, <1>3, <1>4, <1>5, <1>6, <1>7, <1>8, <1>9, <1>10 DEF Next, Loop

-----------------------------------------------------------------------------
(***************************************************************************)
(* A row is released in its second, or later.                              *)
(***************************************************************************)

\* What is still queued after rows were sent.
LEMMA SentRest ==
    ASSUME TypeOK, NEW S, Sent(S)
    PROVE  \A t \in Tasks :
                /\ row'[t] = "queued" => row[t] = "queued" /\ at'[t] = at[t] /\ t \notin S
                /\ row[t] = "queued" /\ row'[t] = "sent" => t \in S
BY DEF Sent, TypeOK

LEMMA NewSweepInSecond ==
    ASSUME TypeOK, NEW arm, BeginSweep(arm), UNCHANGED <<now, row, at>>
    PROVE  SweepInSecond'
<1>1. now \in Nat
  BY DEF TypeOK
<1>2. \A t \in ReadyQueuedTasks(now) : t \in Tasks /\ at[t] \in Nat
                                       /\ SecondOf(at[t]) <= SecondOf(now)
  BY <1>1, ReadyRows DEF TypeOK
<1>3. \A t \in ReadyQueuedTasks(now) : SecondOf(at[t]) \in Nat /\ SecondOf(now) \in Nat
  BY <1>1, <1>2, SecondOfType
<1> QED BY <1>2, <1>3 DEF BeginSweep, SweepInSecond, SecondOf

LEMMA SweepInSecondStep ==
    ASSUME TypeOK, SweepInSecond, [Next]_vars
    PROVE  SweepInSecond'
<1> USE DEF rowVars, loopVars
<1>0. work \subseteq Tasks /\ now \in Nat
  BY DEF TypeOK
<1>1. ASSUME NEW t \in Tasks, NEW m \in 0..MaxAt, Defer(t, m) PROVE SweepInSecond'
  <2>1. t \notin work
    BY <1>1 DEF Defer, TypeOK
  <2>2. \A u \in work : row'[u] = row[u] /\ at'[u] = at[u]
    BY <1>0, <1>1, <2>1 DEF Defer, TypeOK
  <2>3. work' = work /\ now' = now
    BY <1>1 DEF Defer
  <2> QED BY <2>2, <2>3 DEF SweepInSecond, SecondOf
<1>2. ASSUME NEW t \in Tasks, Nudge(t) PROVE SweepInSecond'
  BY <1>2 DEF Nudge, SweepInSecond, SecondOf
<1>3. CASE OnTimer \/ OnWake \/ OnTick \/ Restart
  <2>1. (\E arm \in BOOLEAN : BeginSweep(arm)) /\ UNCHANGED <<now, row, at>>
    BY <1>3 DEF OnTimer, OnWake, OnTick, Restart
  <2> QED BY <2>1, NewSweepInSecond
<1>4. CASE SweepRow
  <2>1. (\E S : Sent(S)) /\ work' \subseteq work /\ now' = now
    BY <1>4 DEF SweepRow
  <2> QED BY <1>0, <2>1, SentRest DEF SweepInSecond, SecondOf
<1>5. CASE SweepEnd \/ Rearm
  BY <1>5 DEF SweepEnd, Rearm, SweepInSecond, SecondOf
<1>6. ASSUME NEW a \in Agents, Stall(a) \/ StallEnds(a) \/ Disconnect(a) PROVE SweepInSecond'
  BY <1>6 DEF Stall, StallEnds, Disconnect, SweepInSecond, SecondOf
<1>7. ASSUME NEW a \in Agents, Reconnect(a) PROVE SweepInSecond'
  <2>1. (\E S : Sent(S)) /\ work' = work /\ now' = now
    BY <1>7 DEF Reconnect
  <2> QED BY <1>0, <2>1, SentRest DEF SweepInSecond, SecondOf
<1>8. CASE Tick
  <2>1. now' = now + 1 /\ UNCHANGED <<work, row, at>>
    BY <1>8 DEF Tick
  <2>2. \A t \in work : row[t] = "queued" => at[t] \in Nat
    BY <1>0 DEF TypeOK
  <2>3. SecondOf(now) <= SecondOf(now + 1) /\ SecondOf(now) \in Nat /\ SecondOf(now + 1) \in Nat
    BY <1>0, SecondMonotone, SecondOfType
  <2>4. \A t \in work : row[t] = "queued" => SecondOf(at[t]) \in Nat
    BY <2>2, SecondOfType
  <2>5. \A t \in work : row[t] = "queued" => SecondOf(now + 1) >= SecondOf(at[t])
    BY <2>3, <2>4 DEF SweepInSecond
  <2> QED BY <2>1, <2>5 DEF SweepInSecond, SecondOf
<1>9. CASE UNCHANGED vars
  BY <1>9 DEF vars, SweepInSecond, SecondOf
<1> QED BY <1>1, <1>2, <1>3, <1>4, <1>5, <1>6, <1>7, <1>8, <1>9 DEF Next, Loop

LEMMA EarlyStep ==
    ASSUME TypeOK, SweepInSecond, [Next]_vars,
           NEW t \in Tasks, row[t] = "queued", row'[t] = "sent"
    PROVE  SecondOf(now) >= SecondOf(at[t])
<1> USE DEF rowVars, loopVars
<1>1. ASSUME NEW u \in Tasks, NEW m \in 0..MaxAt, Defer(u, m) PROVE FALSE
  BY <1>1 DEF Defer, TypeOK
<1>2. CASE SweepRow
  <2>1. FirstOf(work) \in work
    BY <1>2, FirstOfType DEF SweepRow, TypeOK
  <2>2. PICK S \in {{FirstOf(work)}, {}} : Sent(S)
    BY <1>2 DEF SweepRow
  <2>3. t \in work
    BY <2>1, <2>2, SentRest
  <2> QED BY <2>3 DEF SweepInSecond
<1>3. ASSUME NEW a \in Agents, Reconnect(a) PROVE SecondOf(now) >= SecondOf(at[t])
  <2>1. now \in Nat /\ at[t] \in Nat
    BY DEF TypeOK
  <2>2. t \in ReadyQueuedTasks(now)
    BY <1>3, SentRest DEF Reconnect
  <2> QED BY <2>1, <2>2, ReadyRows, SecondOfType
<1>4. row'[t] = row[t] \/ SweepRow \/ (\E a \in Agents : Reconnect(a))
                       \/ (\E u \in Tasks, m \in 0..MaxAt : Defer(u, m))
  BY DEF Next, Loop, Nudge, OnTimer, OnWake, OnTick, SweepEnd, Rearm, Stall, StallEnds,
         Disconnect, Restart, Tick, vars
<1> QED BY <1>1, <1>2, <1>3, <1>4

-----------------------------------------------------------------------------
(***************************************************************************)
(* The backstop.                                                           *)
(***************************************************************************)

\* A row whose second was over at the last tick.
Overdue(t) == row[t] = "queued" /\ SecondEnd(at[t]) <= tickAt - Backstop

\* Every sweep and every backlog finds such a row.
LEMMA OverdueReady ==
    ASSUME TypeOK, TickAhead, NEW t \in Tasks, Overdue(t)
    PROVE  t \in ReadyQueuedTasks(now)
<1>1. now \in Nat /\ at[t] \in Nat /\ tickAt \in Nat /\ Backstop \in Nat
  BY ReleaseAssumption DEF TypeOK, Overdue
<1>2. SecondEnd(at[t]) \in Nat
  BY <1>1, SecondOfType
<1>3. SecondEnd(at[t]) <= now
  BY <1>1, <1>2 DEF Overdue, TickAhead
<1>4. SecondOf(at[t]) < SecondOf(now)
  BY <1>1, <1>3, SecondPassed
<1> QED BY <1>1, <1>4, ReadyRows DEF Overdue

LEMMA TickCoversStep ==
    ASSUME TypeOK, TickAhead, TickCovers, [Next]_vars
    PROVE  TickCovers'
<1> USE DEF rowVars, loopVars
<1>0. now \in Nat /\ tickAt \in Nat /\ Backstop \in Nat \ {0} /\ Target \in [Tasks -> Agents]
      /\ work \subseteq Tasks
  BY ReleaseAssumption DEF TypeOK
<1> SUFFICES ASSUME NEW t \in Tasks, Overdue(t)', link'[Target[t]] # "down"
             PROVE  ticked' \/ (pc' = "sweep" /\ t \in work')
  BY DEF TickCovers, Overdue, SecondEnd, SecondOf
<1> DEFINE Covered == ticked \/ (pc = "sweep" /\ t \in work)
<1>a. Overdue(t) /\ link[Target[t]] # "down" => Covered
  BY DEF TickCovers, Overdue
\* Most steps leave the row and the ticker alone.
<1>b. UNCHANGED <<row, at, tickAt>> => Overdue(t)
  BY DEF Overdue, SecondEnd, SecondOf
<1>1. ASSUME NEW u \in Tasks, NEW m \in 0..MaxAt, Defer(u, m) PROVE Covered'
  <2>1. CASE u = t
    <3>1. m \in Nat /\ m > now /\ at'[t] = m /\ tickAt' = tickAt
      BY <1>1, <2>1, ReleaseAssumption DEF Defer, TypeOK
    <3>2. SecondEnd(m) \in Nat /\ m < SecondEnd(m)
      BY <3>1, SecondOfType
    <3>3. SecondEnd(m) <= tickAt - Backstop
      BY <3>1 DEF Overdue, SecondEnd, SecondOf
    <3> QED BY <1>0, <3>1, <3>2, <3>3 DEF TickAhead
  <2>2. CASE u # t
    <3>1. row'[t] = row[t] /\ at'[t] = at[t] /\ tickAt' = tickAt
      BY <1>1, <2>2 DEF Defer, TypeOK
    <3>2. Overdue(t)
      BY <3>1 DEF Overdue, SecondEnd, SecondOf
    <3> QED BY <1>1, <1>a, <3>2 DEF Defer
  <2> QED BY <2>1, <2>2
<1>2. ASSUME NEW u \in Tasks, Nudge(u) PROVE Covered'
  BY <1>2, <1>a, <1>b DEF Nudge
<1>3. CASE OnTimer \/ OnWake
  <2>1. UNCHANGED <<row, at, tickAt, link, ticked>> /\ pc = "select"
    BY <1>3 DEF OnTimer, OnWake
  <2>2. ticked
    BY <1>a, <1>b, <2>1
  <2> QED BY <2>1, <2>2
<1>4. CASE OnTick
  <2>1. Overdue(t)
    BY <1>4, <1>b DEF OnTick
  <2> QED BY <1>4, <2>1, OverdueReady DEF OnTick, BeginSweep
<1>5. CASE SweepRow
  <2>1. FirstOf(work) \in work
    BY <1>5, FirstOfType DEF SweepRow, TypeOK
  <2> DEFINE u == FirstOf(work)
  <2>2. PICK S : S = (IF link[Target[u]] = "up" THEN {u} ELSE {}) /\ Sent(S)
    BY <1>5 DEF SweepRow
  <2>3. row[t] = "queued" /\ at'[t] = at[t] /\ t \notin S
    BY <2>2, SentRest DEF Overdue
  <2>4. tickAt' = tickAt /\ ticked' = ticked /\ pc' = pc /\ link' = link /\ work' = work \ {u}
    BY <1>5 DEF SweepRow
  <2>5. Overdue(t)
    BY <2>3, <2>4 DEF Overdue, SecondEnd, SecondOf
  <2>6. Covered
    BY <1>a, <2>4, <2>5
  <2>7. t # u
    <3> SUFFICES ASSUME t = u PROVE FALSE
      OBVIOUS
    <3>1. link[Target[u]] \notin {"up", "full"}
      BY <1>5, <2>2, <2>3 DEF SweepRow, Blocked
    <3>2. link[Target[u]] \in {"up", "full", "down"}
      BY <1>0 DEF TypeOK
    <3> QED BY <2>4, <3>1, <3>2
  <2> QED BY <2>4, <2>6, <2>7
<1>6. CASE SweepEnd \/ Rearm
  BY <1>6, <1>a, <1>b DEF SweepEnd, Rearm
<1>7. ASSUME NEW a \in Agents, Stall(a) \/ StallEnds(a) \/ Disconnect(a) PROVE Covered'
  <2>1. Overdue(t)
    BY <1>7, <1>b DEF Stall, StallEnds, Disconnect
  <2>2. link[Target[t]] # "down"
    BY <1>0, <1>7 DEF Stall, StallEnds, Disconnect, TypeOK
  <2> QED BY <1>7, <1>a, <2>1, <2>2 DEF Stall, StallEnds, Disconnect
<1>8. ASSUME NEW a \in Agents, Reconnect(a) PROVE Covered'
  <2>1. row[t] = "queued" /\ at'[t] = at[t] /\ ~(t \in ReadyQueuedTasks(now) /\ Target[t] = a)
    BY <1>8, SentRest DEF Reconnect, Overdue
  <2>2. Overdue(t)
    BY <1>8, <2>1 DEF Reconnect, Overdue, SecondEnd, SecondOf
  <2>3. Target[t] # a
    BY <2>1, <2>2, OverdueReady
  <2>4. link'[Target[t]] = link[Target[t]]
    BY <1>0, <1>8, <2>3 DEF Reconnect, TypeOK
  <2> QED BY <1>8, <1>a, <2>2, <2>4 DEF Reconnect
<1>9. CASE Restart
  BY <1>0, <1>9 DEF Restart, Started
<1>10. CASE Tick
  <2>1. CASE now + 1 = tickAt
    BY <1>10, <2>1 DEF Tick
  <2>2. CASE now + 1 # tickAt
    <3>1. UNCHANGED <<row, at, tickAt, link, pc, work>> /\ (ticked => ticked')
      BY <1>10, <2>2 DEF Tick
    <3> QED BY <1>a, <1>b, <3>1
  <2> QED BY <2>1, <2>2
<1>11. CASE UNCHANGED vars
  BY <1>11, <1>a, <1>b DEF vars
<1> QED BY <1>1, <1>2, <1>3, <1>4, <1>5, <1>6, <1>7, <1>8, <1>9, <1>10, <1>11 DEF Next, Loop

-----------------------------------------------------------------------------
(***************************************************************************)
(* The timer.                                                              *)
(***************************************************************************)

\* arm begins: every queued row is swept now or is ahead of the reading.
LEMMA ArmCovers ==
    ASSUME TypeOK, BeginSweep(TRUE), NEW t \in Tasks, row[t] = "queued",
           UNCHANGED <<row, at>>
    PROVE  Arming' /\ snow' = now /\ (t \in work' \/ Text(at'[t]) > Text(now))
<1>1. now \in Nat
  BY DEF TypeOK
<1> QED BY <1>1, ReadyRows DEF BeginSweep, Arming

\* arm ends: the timer fires before the second of a row that is ahead is over,
\* although it may be aimed at another row, and from a moment the clock has passed.
LEMMA AimCovers ==
    ASSUME TypeOK, Rearm, snow = now, NEW t \in Tasks, row[t] = "queued",
           Text(at[t]) > Text(snow)
    PROVE  timerAt' # Off /\ timerAt' < SecondEnd(at[t])
<1> DEFINE next == NextDeferredRelease(snow)
<1>1. snow \in Nat /\ now \in Nat /\ at[t] \in Nat /\ Off \notin Nat
  BY ReleaseAssumption DEF TypeOK
<1>2. next \in Nat /\ Text(next) > Text(snow) /\ SecondOf(next) <= SecondOf(at[t])
  BY <1>1, NextRelease
<1>3. timerAt' = now + (IF next > snow THEN next - snow ELSE 0)
  BY <1>1, <1>2 DEF Rearm
<1> HIDE DEF next
<1>4. SecondOf(snow) <= SecondOf(next)
  <2> SUFFICES ASSUME SecondOf(next) < SecondOf(snow) PROVE FALSE
    BY <1>1, <1>2, SecondOfType
  <2>1. Text(next) < Text(snow)
    BY <1>1, <1>2, TextOrder
  <2> QED BY <1>1, <1>2, <2>1, TextType
<1>5. SecondEnd(snow) <= SecondEnd(at[t]) /\ SecondEnd(next) <= SecondEnd(at[t])
  <2>1. SecondOf(snow) \in Nat /\ SecondOf(next) \in Nat /\ SecondOf(at[t]) \in Nat
    BY <1>1, <1>2, SecondOfType
  <2>2. SecondOf(snow) <= SecondOf(at[t])
    BY <1>2, <1>4, <2>1
  <2> QED BY <1>1, <1>2, <2>2, SecondEndMonotone
<1>6. /\ snow < SecondEnd(snow) /\ next < SecondEnd(next)
      /\ SecondEnd(snow) \in Nat /\ SecondEnd(next) \in Nat /\ SecondEnd(at[t]) \in Nat
  BY <1>1, <1>2, SecondOfType
<1> QED BY <1>1, <1>2, <1>3, <1>5, <1>6

\* Where the timer's responsibility for a row stands.
Cared(t) ==
    \/ wake
    \/ Arming /\ (t \in work \/ Text(at[t]) > Text(snow))
    \/ ~Arming /\ timerAt # Off /\ timerAt < SecondEnd(at[t])

LEMMA TimerCoversStep ==
    ASSUME TypeOK, Sweeping, TimerCovers, [Next]_vars
    PROVE  TimerCovers'
<1> USE DEF rowVars, loopVars
<1>0. /\ now \in Nat /\ faults \in Nat /\ Target \in [Tasks -> Agents] /\ work \subseteq Tasks
      /\ Off \notin Nat
  BY ReleaseAssumption DEF TypeOK
<1> SUFFICES ASSUME faults' = 0
             PROVE  /\ \A a \in Agents : link'[a] = "up"
                    /\ pc' # "select" => snow' = now'
                    /\ \A t \in Tasks : row'[t] = "queued" /\ t \notin nudging' => Cared(t)'
  BY DEF TimerCovers, Cared, Arming, SecondEnd, SecondOf, Text
<1>a. faults = 0
  <2>1. ASSUME NEW u \in Tasks, (\E m \in 0..MaxAt : Defer(u, m)) \/ Nudge(u)
        PROVE  faults' = faults
    BY <2>1 DEF Defer, Nudge
  <2>2. Loop \/ Tick \/ UNCHANGED vars => faults' = faults
    BY DEF Loop, OnTimer, OnWake, OnTick, SweepRow, SweepEnd, Rearm, Tick, vars
  <2>3. ASSUME NEW a \in Agents, StallEnds(a) \/ Reconnect(a) PROVE faults' = faults
    BY <2>3 DEF StallEnds, Reconnect
  <2>4. ASSUME NEW a \in Agents, Stall(a) \/ Disconnect(a) PROVE faults' = faults + 1
    BY <2>4 DEF Stall, Disconnect, Fault
  <2>5. Restart => faults' = faults + 1
    BY DEF Restart, Fault
  <2>6. faults' = faults \/ faults' = faults + 1
    BY <2>1, <2>2, <2>3, <2>4, <2>5 DEF Next
  <2> QED BY <1>0, <2>6
<1>b. /\ \A a \in Agents : link[a] = "up"
      /\ pc # "select" => snow = now
      /\ \A t \in Tasks : row[t] = "queued" /\ t \notin nudging => Cared(t)
  BY <1>a DEF TimerCovers, Cared
<1> DEFINE Goal == /\ \A a \in Agents : link[a] = "up"
                   /\ pc # "select" => snow = now
                   /\ \A t \in Tasks : row[t] = "queued" /\ t \notin nudging => Cared(t)
<1>c. /\ \A a \in Agents : ~Stall(a) /\ ~StallEnds(a) /\ ~Disconnect(a) /\ ~Reconnect(a)
      /\ ~Restart
  BY <1>a, <1>b DEF Stall, StallEnds, Disconnect, Reconnect, Restart, Fault
\* A row that a step leaves alone is cared for as before.
<1>d. ASSUME NEW t \in Tasks, Cared(t), at'[t] = at[t],
             UNCHANGED <<wake, pc, arming, work, snow, timerAt>>
      PROVE  Cared(t)'
  BY <1>d DEF Cared, Arming, SecondEnd, SecondOf, Text
<1>1. ASSUME NEW u \in Tasks, NEW m \in 0..MaxAt, Defer(u, m) PROVE Goal'
  <2>1. UNCHANGED <<now, link, wake, pc, arming, work, snow, timerAt>>
    BY <1>1 DEF Defer
  <2>2. \A t \in Tasks : t \notin nudging' =>
            t \notin nudging /\ row'[t] = row[t] /\ at'[t] = at[t]
    BY <1>1 DEF Defer, TypeOK
  <2> QED BY <1>b, <1>d, <2>1, <2>2
<1>2. ASSUME NEW u \in Tasks, Nudge(u) PROVE Goal'
  <2>1. wake' /\ UNCHANGED <<now, link, pc, snow>>
    BY <1>2 DEF Nudge
  <2>2. \A t \in Tasks : Cared(t)'
    BY <2>1 DEF Cared
  <2> QED BY <1>b, <2>1, <2>2
<1>3. CASE OnTimer \/ OnWake
  <2>1. BeginSweep(TRUE) /\ UNCHANGED <<now, link, row, at, nudging>>
    BY <1>3 DEF OnTimer, OnWake
  <2>2. ASSUME NEW t \in Tasks, row'[t] = "queued" PROVE Cared(t)'
    <3>1. Arming' /\ snow' = now /\ (t \in work' \/ Text(at'[t]) > Text(now))
      BY <2>1, <2>2, ArmCovers
    <3> QED BY <3>1 DEF Cared, Text
  <2> QED BY <1>b, <2>1, <2>2 DEF BeginSweep
<1>4. CASE OnTick
  <2>1. /\ BeginSweep(FALSE) /\ pc = "select"
        /\ UNCHANGED <<now, link, row, at, nudging, wake, timerAt>>
    BY <1>4 DEF OnTick
  <2>2. ~Arming /\ ~Arming'
    BY <2>1 DEF Arming, BeginSweep
  <2>3. ASSUME NEW t \in Tasks, Cared(t) PROVE Cared(t)'
    BY <2>1, <2>2, <2>3 DEF Cared, SecondEnd, SecondOf
  <2> QED BY <1>b, <2>1, <2>3 DEF BeginSweep
<1>5. CASE SweepRow
  <2> DEFINE u == FirstOf(work)
  <2>1. u \in work
    BY <1>5, FirstOfType DEF SweepRow, TypeOK
  <2>2. link[Target[u]] = "up"
    BY <1>0, <1>b, <2>1
  <2>3. Sent({u}) /\ work' = work \ {u} /\ UNCHANGED <<now, link, nudging, wake, timerAt, pc, arming, snow>>
    BY <1>5, <2>2 DEF SweepRow
  <2>4. ASSUME NEW t \in Tasks, row'[t] = "queued", t \notin nudging' PROVE Cared(t)'
    <3>1. row[t] = "queued" /\ at'[t] = at[t] /\ t # u
      BY <2>3, <2>4, SentRest
    <3>2. Cared(t)
      BY <1>b, <2>3, <2>4, <3>1
    <3> QED BY <2>3, <3>1, <3>2 DEF Cared, Arming, SecondEnd, SecondOf, Text
  <2> QED BY <1>b, <2>3, <2>4
<1>6. CASE SweepEnd
  <2>1. /\ pc = "sweep" /\ work = {}
        /\ UNCHANGED <<now, link, row, at, nudging, wake, timerAt, arming, work>>
        /\ IF arming THEN pc' = "rearm" /\ snow' = snow ELSE pc' = "select"
    BY <1>6 DEF SweepEnd
  <2>2. (Arming' <=> Arming) /\ (Arming' => snow' = snow)
    BY <2>1 DEF Arming
  <2>3. ASSUME NEW t \in Tasks, Cared(t) PROVE Cared(t)'
    BY <2>1, <2>2, <2>3 DEF Cared, SecondEnd, SecondOf, Text
  <2>4. pc' # "select" => snow' = now'
    BY <1>b, <2>1
  <2> QED BY <1>b, <2>1, <2>3, <2>4
<1>7. CASE Rearm
  <2>1. pc = "rearm" /\ pc' = "select" /\ work = {} /\ snow = now
        /\ UNCHANGED <<now, link, row, at, nudging, wake>>
    BY <1>7, <1>b DEF Rearm, Sweeping
  <2>2. ~Arming'
    BY <2>1 DEF Arming
  <2>3. ASSUME NEW t \in Tasks, row[t] = "queued", Cared(t), ~wake PROVE Cared(t)'
    <3>1. Arming
      BY <2>1 DEF Arming, Sweeping
    <3>2. Text(at[t]) > Text(snow)
      BY <2>1, <2>3, <3>1 DEF Cared
    <3>3. timerAt' # Off /\ timerAt' < SecondEnd(at[t])
      BY <1>7, <2>1, <2>3, <3>2, AimCovers
    <3> QED BY <2>1, <2>2, <3>3 DEF Cared, SecondEnd, SecondOf
  <2>4. ASSUME NEW t \in Tasks, wake PROVE Cared(t)'
    BY <2>1, <2>4 DEF Cared
  <2> QED BY <1>b, <2>1, <2>3, <2>4
<1>8. CASE Tick
  <2>1. pc = "select"
    <3>1. ~Blocked
      <4> SUFFICES ASSUME work # {} PROVE link[Target[FirstOf(work)]] = "up"
        BY DEF Blocked
      <4>1. FirstOf(work) \in Tasks
        BY <1>0, FirstOfType
      <4> QED BY <1>0, <1>b, <4>1
    <3> QED BY <1>8, <3>1 DEF Tick, Idle
  <2>2. UNCHANGED <<link, row, at, nudging, wake, timerAt, pc, arming, snow, work>>
    BY <1>8 DEF Tick
  <2> QED BY <1>b, <1>d, <2>1, <2>2
<1>9. CASE UNCHANGED vars
  <2>1. UNCHANGED <<now, link, row, at, nudging, wake, timerAt, pc, arming, snow, work>>
    BY <1>9 DEF vars
  <2> QED BY <1>b, <1>d, <2>1
<1> QED BY <1>c, <1>1, <1>2, <1>3, <1>4, <1>5, <1>6, <1>7, <1>8, <1>9 DEF Next, Loop

-----------------------------------------------------------------------------
(***************************************************************************)
(* The theorems.                                                           *)
(***************************************************************************)

LEMMA InitInv == Init => Inv
<1> SUFFICES ASSUME Init PROVE Inv
  OBVIOUS
<1>1. Backstop \in Nat \ {0} /\ Off \notin Nat /\ Second \in Nat \ {0}
  BY ReleaseAssumption, SecondType
<1>2. now \in Nat /\ tickAt = now + Backstop /\ tickAt \in Nat
  BY <1>1 DEF Init
<1>3. TypeOK
  BY <1>1, <1>2 DEF Init, TypeOK
<1>4. SweepInSecond /\ FreshAhead /\ Sweeping /\ TickAhead
  BY <1>1, <1>2 DEF Init, SweepInSecond, FreshAhead, Sweeping, TickAhead
<1>5. TickCovers /\ TimerCovers
  BY DEF Init, TickCovers, TimerCovers
<1> QED BY <1>3, <1>4, <1>5 DEF Inv

LEMMA InvStep ==
    ASSUME Inv, [Next]_vars
    PROVE  Inv'
<1>1. TypeOK'
  BY TypeStep DEF Inv
<1>2. SweepInSecond'
  BY SweepInSecondStep DEF Inv
<1>3. (TickAhead /\ FreshAhead /\ Sweeping)'
  BY ClockStep DEF Inv
<1>4. TickCovers'
  BY TickCoversStep DEF Inv
<1>5. TimerCovers'
  BY TimerCoversStep DEF Inv
<1> QED BY <1>1, <1>2, <1>3, <1>4, <1>5 DEF Inv

LEMMA Invariance == Spec => []Inv
<1>1. Inv /\ [Next]_vars => Inv'
  BY InvStep
<1> QED BY <1>1, InitInv, PTL DEF Spec

\* Type correctness of the loop, its timer and its rows.
THEOREM TypeCorrect == Spec => []TypeOK
<1>1. Inv => TypeOK
  BY DEF Inv
<1> QED BY <1>1, Invariance, PTL

\* No row is released before the second of its moment has begun: by the sweep,
\* the backlog of a reconnect or the sweep of a restart, for every base of the
\* fraction and every moment, although the store compares texts.
THEOREM NeverBeforeItsSecond == Spec => EarlyBySameSecond
<1>1. Inv /\ [Next]_vars =>
        [\A t \in Tasks : row[t] = "queued" /\ row'[t] = "sent" =>
            SecondOf(now) >= SecondOf(at[t])]_vars
  BY EarlyStep DEF Inv
<1> QED BY <1>1, Invariance, PTL DEF Spec, EarlyBySameSecond

\* While the loop sleeps no row of a connected agent is left over: without a
\* fault the one timer fires in every row's second, and after any number of
\* stalls, disconnects and restarts the backstop finds the row one interval later.
THEOREM NoReleaseForgotten == Spec => []ReleasedInTime
<1>1. Inv => ReleasedInTime
  <2> SUFFICES ASSUME Inv, Idle, NEW t \in Tasks, Waiting(t)
               PROVE  now < (SecondOf(at[t]) + 1) * Second + (IF faults = 0 THEN 0 ELSE Backstop)
    BY DEF ReleasedInTime
  <2>1. /\ now \in Nat /\ at[t] \in Nat /\ tickAt \in Nat /\ Backstop \in Nat
        /\ timerAt \in Nat \cup {Off} /\ Off \notin Nat
    BY ReleaseAssumption DEF Inv, TypeOK, Waiting
  <2>2. SecondEnd(at[t]) \in Nat
    BY <2>1, SecondOfType
  <2>3. CASE faults = 0
    <3>1. timerAt # Off /\ timerAt < SecondEnd(at[t])
      BY <2>3 DEF Inv, TimerCovers, Arming, Idle, Waiting
    <3>2. now <= timerAt
      BY <2>1, <3>1 DEF Inv, FreshAhead, Idle, TimerFires
    <3> QED BY <2>1, <2>2, <2>3, <3>1, <3>2 DEF SecondEnd
  <2>4. CASE faults # 0
    <3>1. ~(SecondEnd(at[t]) <= tickAt - Backstop)
      BY DEF Inv, TickCovers, Idle, Waiting
    <3>2. now < SecondEnd(at[t]) + Backstop
      BY <2>1, <2>2, <3>1 DEF Inv, TickAhead
    <3> QED BY <2>4, <3>2 DEF SecondEnd
  <2> QED BY <2>3, <2>4
<1> QED BY <1>1, Invariance, PTL
=============================================================================
