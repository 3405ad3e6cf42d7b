---------------------------- MODULE PluginProofs ----------------------------
(***************************************************************************)
(* No path of a call loses or doubles a hook slot or a runtime, and what   *)
(* Decide returns is what the plugins said.  The event store counts its    *)
(* bytes, stays within its limit and evicts neither too early nor too late.*)
(***************************************************************************)
EXTENDS PluginHooks, PluginEvents, Integers, TLAPS, FiniteSetTheorems, WellFoundedInduction

\* The hooks that hold a slot.
Busy == {c \in Calls : InHook(c)}

\* A script runs on a runtime.
OnRuntime == \A c \in Calls : pc[c] \in {"load", "call"} => rt[c] \in Runtimes

\* How the run of a decision at its plugin may have ended.
Answered(c, o) ==
    \/ o = "timeout"
    \/ o = "error" /\ (opinion[c][plug[c]] = "throw" \/ plug[c] \in broken)
    \/ o = opinion[c][plug[c]] /\ o # "throw"

\* What a decision has heard: its last run failed or said what the plugin
\* thinks, the plugins before it answered without a veto, and it returns once.
Heard(c) ==
    /\ pc[c] \in {"stop", "leave"} => Answered(c, outcome[c])
    /\ pc[c] \notin {"new", "end"} =>
        /\ plug[c] \in targets[c]
        /\ \A p \in targets[c] : p < plug[c] => opinion[c][p] \in {"allow", "unknown"}
    /\ pc[c] # "end" => decision[c] = "none"
    /\ decision[c] = "deny" => opinion[c][plug[c]] = "deny"
    /\ decision[c] = "allow" =>
        \A p \in targets[c] :
            \/ opinion[c][p] = "allow"
            \/ opinion[c][p] = "unknown"
               /\ \E q \in targets[c] : q > p /\ opinion[c][q] = "allow"
    /\ decision[c] = "malformed" =>
        opinion[c][plug[c]] \in {"unknown", "throw"} \/ plug[c] \in broken

\* The inductive invariant.
Inv ==
    /\ ResourcesExact /\ OnRuntime
    /\ opinion \in [Decisions -> [Order -> Answers]]
    /\ \A c \in Decisions : Heard(c)

-----------------------------------------------------------------------------
(***************************************************************************)
(* Sets.                                                                   *)
(***************************************************************************)

\* The order of the naturals as a relation.
NatLess == {p \in Nat \X Nat : p[1] < p[2]}

\* A set of numbers has a least element ...
LEMMA LeastNumber ==
    ASSUME NEW S \in SUBSET Nat, S # {}
    PROVE  \E x \in S : \A y \in S : x <= y
<1>1. IsWellFoundedOn(NatLess, Nat)
  <2>1. OpToRel(<, Nat) = NatLess
    BY Zenon DEF OpToRel, NatLess
  <2> QED BY <2>1, NatLessThanWellFounded, Zenon
<1>2. PICK x \in S : \A y \in S : ~(<<y, x>> \in NatLess)
  BY <1>1, WFMin
<1>3. ASSUME NEW y \in S PROVE x <= y
  <2>1. <<y, x>> \notin NatLess /\ x \in Nat /\ y \in Nat
    BY <1>2
  <2> QED BY <2>1 DEF NatLess
<1> QED BY <1>3

\* ... so one that contains every number all of whose predecessors it contains
\* contains them all: induction, for a set.
LEMMA InductiveSet ==
    ASSUME NEW P, \A n \in Nat : (\A m \in Nat : m < n => m \in P) => n \in P
    PROVE  Nat \subseteq P
<1> SUFFICES ASSUME Nat \ P # {} PROVE FALSE
  OBVIOUS
<1>1. PICK n \in Nat \ P : \A m \in Nat \ P : n <= m
  BY LeastNumber
<1>2. \A m \in Nat : m < n => m \in P
  BY <1>1
<1> QED BY <1>1, <1>2

\* A decision asks the first of the plugins that are left.
LEMMA FirstIsLeast ==
    ASSUME NEW S \in SUBSET Order, S # {}
    PROVE  First(S) \in S /\ \A q \in S : First(S) <= q
<1>1. S \in SUBSET Nat
  BY HooksAssumption DEF Order
<1> QED BY <1>1, LeastNumber DEF First

\* The calls of one kind, one more and one less.
LEMMA OneMore ==
    ASSUME NEW S \in SUBSET Calls, NEW T, NEW c \in Calls, c \notin S, T = S \cup {c}
    PROVE  Cardinality(T) = Cardinality(S) + 1 /\ Cardinality(S) \in Nat
BY HooksAssumption, FS_Subset, FS_AddElement, FS_CardinalityType

LEMMA OneLess ==
    ASSUME NEW S \in SUBSET Calls, NEW T, NEW c \in S, T = S \ {c}
    PROVE  Cardinality(T) = Cardinality(S) - 1 /\ Cardinality(S) \in Nat \ {0}
                                               /\ Cardinality(T) \in Nat
<1>1. IsFiniteSet(S) /\ IsFiniteSet(T)
  BY HooksAssumption, FS_Subset
<1>2. Cardinality(T) = Cardinality(S) - 1
  BY <1>1, FS_RemoveElement
<1>3. Cardinality(S) \in Nat /\ Cardinality(T) \in Nat
  BY <1>1, FS_CardinalityType
<1> QED BY <1>2, <1>3

\* The same for the runtimes of a pool.
LEMMA PoolMore ==
    ASSUME NEW S \in SUBSET Runtimes, NEW r \in Runtimes, r \notin S
    PROVE  Cardinality(S \cup {r}) = Cardinality(S) + 1 /\ Cardinality(S) \in Nat
<1>1. IsFiniteSet(Runtimes)
  BY HooksAssumption, FS_Interval DEF Runtimes
<1> QED BY <1>1, FS_Subset, FS_AddElement, FS_CardinalityType

LEMMA PoolLess ==
    ASSUME NEW S \in SUBSET Runtimes, NEW r \in S
    PROVE  Cardinality(S \ {r}) = Cardinality(S) - 1 /\ Cardinality(S) \in Nat
<1>1. IsFiniteSet(Runtimes)
  BY HooksAssumption, FS_Interval DEF Runtimes
<1> QED BY <1>1, FS_Subset, FS_RemoveElement, FS_CardinalityType

-----------------------------------------------------------------------------
(***************************************************************************)
(* Hook slots.                                                             *)
(***************************************************************************)
LEMMA SlotSame ==
    ASSUME SlotsExact, TypeOK, sem' = sem, NEW c \in Calls, NEW to, Goes(c, to),
           InHook(c) <=> to \in {"run", "wait", "load", "call", "stop", "leave"}
    PROVE  SlotsExact'
<1>1. Busy' = Busy
  BY DEF Busy, InHook, Goes, TypeOK
<1> QED BY <1>1 DEF SlotsExact, Busy

LEMMA SlotTaken ==
    ASSUME SlotsExact, TypeOK, sem < MaxHooks, sem' = sem + 1, NEW c \in Calls, ~InHook(c),
           Goes(c, "run")
    PROVE  SlotsExact'
<1>1. Busy' = Busy \cup {c} /\ c \notin Busy /\ Busy \subseteq Calls
  BY DEF Busy, InHook, Goes, TypeOK
<1>2. Cardinality(Busy') = Cardinality(Busy) + 1
  BY <1>1, OneMore
<1>3. sem + 1 <= MaxHooks
  BY HooksAssumption DEF TypeOK
<1> QED BY <1>2, <1>3 DEF SlotsExact, Busy

LEMMA SlotFreed ==
    ASSUME SlotsExact, TypeOK, sem' = sem - 1, NEW c \in Calls, InHook(c),
           NEW to \in {"admit", "end"}, Goes(c, to)
    PROVE  SlotsExact' /\ sem' \in 0..MaxHooks
<1>1. Busy' = Busy \ {c} /\ c \in Busy /\ Busy \subseteq Calls
  BY DEF Busy, InHook, Goes, TypeOK
<1>2. Cardinality(Busy') = Cardinality(Busy) - 1 /\ Cardinality(Busy) \in Nat \ {0}
  BY <1>1, OneLess
<1>3. sem = Cardinality(Busy) /\ sem <= MaxHooks /\ MaxHooks \in Nat
  BY HooksAssumption DEF SlotsExact, Busy
<1>4. sem' = Cardinality(Busy') /\ sem' \in 0..MaxHooks /\ sem' <= MaxHooks
  BY <1>2, <1>3
<1> QED BY <1>4 DEF SlotsExact, Busy

\* Where each action leaves its call.
LEMMA SlotStep ==
    ASSUME SlotsExact, TypeOK, [Next]_vars
    PROVE  SlotsExact'
<1> USE DEF Returns, RunFails, RunStarts, Drop
<1>1. CASE UNCHANGED <<sem, pc>>
  BY <1>1 DEF SlotsExact, InHook
<1>2. ASSUME NEW c \in Calls, NEW p \in Order, Trigger(c, p) PROVE SlotsExact'
  <2>1. ~InHook(c)
    BY <1>2 DEF Trigger, InHook
  <2> QED BY <1>2, <2>1, SlotTaken, SlotSame DEF Trigger
<1>3. ASSUME NEW c \in Calls, Decide(c) \/ Admit(c) PROVE SlotsExact'
  <2>1. ~InHook(c)
    BY <1>3 DEF Decide, Admit, InHook
  <2> QED BY <1>3, <2>1, SlotTaken, SlotSame DEF Decide, Admit
<1>4. ASSUME NEW c \in Calls, Expire(c) \/ Fire(c) PROVE SlotsExact'
  BY <1>1, <1>4 DEF Expire, Fire
<1>5. ASSUME NEW c \in Calls,
             \/ AcquireIdle(c) \/ AcquireWaits(c) \/ AcquireNew(c) \/ AcquireFails(c)
             \/ Script(c) \/ CallInterrupted(c) \/ Stop(c)
      PROVE  SlotsExact'
  <2>1. InHook(c) /\ sem' = sem
    BY <1>5 DEF AcquireIdle, AcquireWaits, AcquireNew, AcquireFails, Script, LoadReturns, LoadFails,
                CallInterrupted, CallThrows, CallReturns, Stop, InHook
  <2>2. \E to \in {"run", "wait", "load", "call", "stop", "leave"} : Goes(c, to)
    BY <1>5 DEF AcquireIdle, AcquireWaits, AcquireNew, AcquireFails, Script, LoadReturns, LoadFails,
                CallInterrupted, CallThrows, CallReturns, Stop
  <2> QED BY <2>1, <2>2, SlotSame
<1>6. ASSUME NEW c \in Calls, Leave(c) PROVE SlotsExact'
  <2>1. InHook(c) /\ sem' = sem - 1 /\ \E to \in {"admit", "end"} : Goes(c, to)
    BY <1>6 DEF Leave, InHook
  <2> QED BY <2>1, SlotFreed
<1> QED BY <1>1, <1>2, <1>3, <1>4, <1>5, <1>6 DEF Next, Run, vars, callVars

-----------------------------------------------------------------------------
(***************************************************************************)
(* The pools of runtimes.                                                  *)
(***************************************************************************)
PoolOK(p) ==
    /\ slots[p] = Cardinality(idle[p]) + Cardinality(Users(p))
    /\ \A c, d \in Users(p) : rt[c] \notin idle[p] /\ (rt[c] = rt[d] => c = d)

\* A step that leaves a pool and the scripts on its runtimes alone.
LEMMA PoolSame ==
    ASSUME NEW p \in Order, PoolOK(p), idle'[p] = idle[p], slots'[p] = slots[p],
           Users(p)' = Users(p), \A c \in Users(p) : rt'[c] = rt[c]
    PROVE  PoolOK(p)'
BY DEF PoolOK

\* A step of a call that neither starts nor ends a script.
LEMMA NoScript ==
    ASSUME TypeOK, PoolExact, NEW c \in Calls, UNCHANGED <<idle, slots>>,
           pc[c] \notin {"load", "call"}, pc'[c] \notin {"load", "call"},
           \A d \in Calls \ {c} : pc'[d] = pc[d] /\ plug'[d] = plug[d] /\ rt'[d] = rt[d]
    PROVE  PoolExact'
<1>1. ASSUME NEW p \in Order PROVE PoolOK(p)'
  <2>1. Users(p)' = Users(p) /\ \A d \in Users(p) : rt'[d] = rt[d]
    BY DEF Users
  <2>2. PoolOK(p)
    BY DEF PoolExact, PoolOK
  <2> QED BY <2>1, <2>2, PoolSame
<1> QED BY <1>1 DEF PoolExact, PoolOK

\* A script, of a hook or of a module, starts on a runtime, idle or new.
LEMMA StartsScript ==
    ASSUME TypeOK, PoolExact, NEW c \in Calls, AcquireIdle(c) \/ AcquireNew(c)
    PROVE  PoolExact' /\ rt'[c] \in Runtimes /\ slots' \in [Order -> 0..MaxRuntimes]
           /\ idle' \in [Order -> SUBSET Runtimes]
<1> DEFINE q == plug[c]
<1>0. /\ q \in Order /\ idle[q] \in SUBSET Runtimes /\ plug' = plug
      /\ slots[q] \in 0..MaxRuntimes /\ MaxRuntimes \in Nat
      /\ idle \in [Order -> SUBSET Runtimes] /\ slots \in [Order -> 0..MaxRuntimes]
  BY HooksAssumption DEF TypeOK, AcquireIdle, AcquireNew
<1>1. PICK r \in Runtimes :
        /\ rt' = [rt EXCEPT ![c] = r]
        /\ \/ /\ r \in idle[q] /\ idle' = [idle EXCEPT ![q] = @ \ {r}] /\ slots' = slots
           \/ /\ r \in Unused(q) /\ slots[q] < MaxRuntimes
              /\ slots' = [slots EXCEPT ![q] = @ + 1] /\ idle' = idle
  <2>1. CASE AcquireIdle(c)
    BY <1>0, <2>1 DEF AcquireIdle, RunStarts
  <2>2. CASE AcquireNew(c)
    BY <1>0, <2>2 DEF AcquireNew, Unused
  <2> QED BY <2>1, <2>2
<1>a. pc[c] \in {"run", "wait"} /\ \E to \in {"load", "call"} : pc' = [pc EXCEPT ![c] = to]
  BY DEF AcquireIdle, AcquireNew, RunStarts, Goes
<1>2. /\ Users(q)' = Users(q) \cup {c} /\ c \notin Users(q) /\ Users(q) \subseteq Calls
      /\ \A p \in Order \ {q} : Users(p)' = Users(p)
      /\ rt'[c] = r /\ \A d \in Calls \ {c} : rt'[d] = rt[d]
  BY <1>0, <1>1, <1>a DEF Users, TypeOK
<1>3. Cardinality(Users(q)') = Cardinality(Users(q)) + 1 /\ Cardinality(Users(q)) \in Nat
  BY <1>2, OneMore
<1>4. PoolOK(q)
  BY <1>0 DEF PoolExact, PoolOK
<1>5. PoolOK(q)' /\ slots'[q] \in 0..MaxRuntimes /\ idle'[q] \in SUBSET Runtimes
  <2>1. CASE r \in idle[q] /\ idle' = [idle EXCEPT ![q] = @ \ {r}] /\ slots' = slots
    <3>1. idle'[q] = idle[q] \ {r}
      BY <1>0, <2>1
    <3>2. Cardinality(idle'[q]) = Cardinality(idle[q]) - 1 /\ Cardinality(idle[q]) \in Nat
      BY <1>0, <2>1, <3>1, PoolLess
    <3>3. slots'[q] = Cardinality(idle'[q]) + Cardinality(Users(q)')
      BY <1>3, <1>4, <2>1, <3>2 DEF PoolOK
    <3>4. \A d, e \in Users(q)' : rt'[d] \notin idle'[q] /\ (rt'[d] = rt'[e] => d = e)
      BY <1>2, <1>4, <2>1, <3>1 DEF PoolOK, Users
    <3> QED BY <1>0, <2>1, <3>1, <3>3, <3>4 DEF PoolOK
  <2>2. CASE /\ r \in Unused(q) /\ slots[q] < MaxRuntimes
             /\ slots' = [slots EXCEPT ![q] = @ + 1] /\ idle' = idle
    <3>1. slots'[q] = slots[q] + 1
      BY <1>0, <2>2
    <3>2. Cardinality(idle[q]) \in Nat
      <4>1. IsFiniteSet(Runtimes)
        BY HooksAssumption, FS_Interval DEF Runtimes
      <4> QED BY <1>0, <4>1, FS_Subset, FS_CardinalityType
    <3>3. slots'[q] = Cardinality(idle'[q]) + Cardinality(Users(q)')
      BY <1>0, <1>3, <1>4, <2>2, <3>1, <3>2 DEF PoolOK
    <3>4. r \notin idle[q] /\ \A d \in Users(q) : rt[d] # r
      BY <2>2 DEF Unused, Users
    <3>5. \A d, e \in Users(q)' : rt'[d] \notin idle'[q] /\ (rt'[d] = rt'[e] => d = e)
      BY <1>2, <1>4, <2>2, <3>4 DEF PoolOK, Users
    <3> QED BY <1>0, <2>2, <3>1, <3>3, <3>5 DEF PoolOK
  <2> QED BY <1>1, <2>1, <2>2
<1>6. ASSUME NEW p \in Order \ {q} PROVE PoolOK(p)'
  <2>1. PoolOK(p) /\ idle'[p] = idle[p] /\ slots'[p] = slots[p]
    BY <1>0, <1>1 DEF PoolExact, PoolOK
  <2>2. \A d \in Users(p) : rt'[d] = rt[d]
    BY <1>0, <1>2 DEF Users
  <2> QED BY <1>2, <2>1, <2>2, PoolSame
<1>7. PoolExact'
  BY <1>0, <1>5, <1>6 DEF PoolExact, PoolOK
<1>8. slots' \in [Order -> 0..MaxRuntimes] /\ idle' \in [Order -> SUBSET Runtimes]
  <2>1. \A p \in Order : slots'[p] \in 0..MaxRuntimes
    BY <1>0, <1>1, <1>5
  <2> QED BY <1>0, <1>1, <2>1
<1> QED BY <1>2, <1>7, <1>8

\* A script ends: its runtime is dropped or put back.
LEMMA EndsScript ==
    ASSUME TypeOK, PoolExact, OnRuntime, NEW c \in Calls,
           LoadFails(c) \/ CallInterrupted(c) \/ CallThrows(c) \/ CallReturns(c)
    PROVE  PoolExact' /\ slots' \in [Order -> 0..MaxRuntimes]
           /\ idle' \in [Order -> SUBSET Runtimes]
<1> DEFINE q == plug[c]
<1>0. /\ q \in Order /\ idle[q] \in SUBSET Runtimes /\ plug' = plug
      /\ slots[q] \in 0..MaxRuntimes /\ MaxRuntimes \in Nat
      /\ idle \in [Order -> SUBSET Runtimes] /\ slots \in [Order -> 0..MaxRuntimes]
      /\ rt[c] \in Runtimes /\ pc[c] \in {"load", "call"}
      /\ \E to \in {"stop", "leave"} : pc' = [pc EXCEPT ![c] = to]
  BY HooksAssumption DEF TypeOK, OnRuntime, LoadFails, RunFails, CallInterrupted, CallThrows,
                         CallReturns, Drop, Goes
<1>1. \/ /\ slots' = [slots EXCEPT ![q] = @ - 1] /\ rt' = [rt EXCEPT ![c] = None] /\ idle' = idle
      \/ /\ idle' = [idle EXCEPT ![q] = @ \cup {rt[c]}] /\ rt' = rt /\ slots' = slots
  BY DEF LoadFails, CallInterrupted, CallThrows, CallReturns, Drop
<1>2. /\ Users(q)' = Users(q) \ {c} /\ c \in Users(q) /\ Users(q) \subseteq Calls
      /\ \A p \in Order \ {q} : Users(p)' = Users(p)
      /\ \A d \in Calls \ {c} : rt'[d] = rt[d]
  BY <1>0, <1>1 DEF Users, TypeOK
<1>3. /\ Cardinality(Users(q)') = Cardinality(Users(q)) - 1
      /\ Cardinality(Users(q)) \in Nat \ {0} /\ Cardinality(Users(q)') \in Nat
  BY <1>2, OneLess
<1>4. PoolOK(q)
  BY <1>0 DEF PoolExact, PoolOK
<1>5. rt[c] \notin idle[q]
  BY <1>2, <1>4 DEF PoolOK
<1>6. Cardinality(idle[q] \cup {rt[c]}) = Cardinality(idle[q]) + 1 /\ Cardinality(idle[q]) \in Nat
  BY <1>0, <1>5, PoolMore
<1>7. PoolOK(q)' /\ slots'[q] \in 0..MaxRuntimes /\ idle'[q] \in SUBSET Runtimes
  <2>1. CASE slots' = [slots EXCEPT ![q] = @ - 1] /\ idle' = idle
    <3>1. slots'[q] = slots[q] - 1 /\ slots[q] = Cardinality(idle[q]) + Cardinality(Users(q))
      BY <1>0, <1>4, <2>1 DEF PoolOK
    <3>2. slots'[q] = Cardinality(idle[q]) + Cardinality(Users(q)') /\ slots'[q] \in 0..MaxRuntimes
      BY <1>0, <1>3, <1>6, <3>1
    <3>3. \A d, e \in Users(q)' : rt'[d] \notin idle'[q] /\ (rt'[d] = rt'[e] => d = e)
      BY <1>2, <1>4, <2>1 DEF PoolOK, Users
    <3> QED BY <1>0, <2>1, <3>2, <3>3 DEF PoolOK
  <2>2. CASE idle' = [idle EXCEPT ![q] = @ \cup {rt[c]}] /\ rt' = rt /\ slots' = slots
    <3>1. idle'[q] = idle[q] \cup {rt[c]} /\ slots[q] = Cardinality(idle[q]) + Cardinality(Users(q))
      BY <1>0, <1>4, <2>2 DEF PoolOK
    <3>0. /\ Cardinality(idle'[q]) = Cardinality(idle[q]) + 1
          /\ slots'[q] = Cardinality(idle[q]) + Cardinality(Users(q))
      BY <1>6, <2>2, <3>1
    <3>2. slots'[q] = Cardinality(idle'[q]) + Cardinality(Users(q)')
      BY <1>3, <1>6, <3>0
    <3>3. \A d, e \in Users(q)' : rt'[d] \notin idle'[q] /\ (rt'[d] = rt'[e] => d = e)
      BY <1>2, <1>4, <2>2, <3>1 DEF PoolOK
    <3> QED BY <1>0, <2>2, <3>1, <3>2, <3>3 DEF PoolOK
  <2> QED BY <1>1, <2>1, <2>2
<1>8. ASSUME NEW p \in Order \ {q} PROVE PoolOK(p)'
  <2>1. PoolOK(p) /\ idle'[p] = idle[p] /\ slots'[p] = slots[p]
    BY <1>0, <1>1 DEF PoolExact, PoolOK
  <2>2. \A d \in Users(p) : rt'[d] = rt[d]
    BY <1>0, <1>2 DEF Users
  <2> QED BY <1>2, <2>1, <2>2, PoolSame
<1>9. PoolExact'
  BY <1>0, <1>7, <1>8 DEF PoolExact, PoolOK
<1>10. slots' \in [Order -> 0..MaxRuntimes] /\ idle' \in [Order -> SUBSET Runtimes]
  <2>1. \A p \in Order : slots'[p] \in 0..MaxRuntimes
    BY <1>0, <1>1, <1>7
  <2> QED BY <1>0, <1>1, <2>1
<1> QED BY <1>9, <1>10

\* The script of a hook follows that of its module.
LEMMA GoesOnScript ==
    ASSUME TypeOK, PoolExact, OnRuntime, NEW c \in Calls, LoadReturns(c)
    PROVE  PoolExact' /\ OnRuntime' /\ UNCHANGED <<idle, slots>>
<1>1. /\ pc[c] = "load" /\ pc' = [pc EXCEPT ![c] = "call"] /\ plug' = plug
      /\ \A d \in Calls : rt'[d] = rt[d]
      /\ UNCHANGED <<idle, slots>>
  BY DEF LoadReturns, RunStarts, Goes, TypeOK, pluginVars
<1>2. ASSUME NEW p \in Order PROVE PoolOK(p)'
  <2>1. PoolOK(p)
    BY DEF PoolExact, PoolOK
  <2>2. Users(p)' = Users(p) /\ Users(p) \subseteq Calls
    BY <1>1 DEF Users, TypeOK
  <2> QED BY <1>1, <2>1, <2>2, PoolSame
<1>3. OnRuntime'
  BY <1>1 DEF OnRuntime, TypeOK
<1> QED BY <1>1, <1>2, <1>3 DEF PoolExact, PoolOK

\* What the steps do to the pools, and their types with them.
PoolGoal ==
    /\ PoolExact' /\ OnRuntime'
    /\ slots' \in [Order -> 0..MaxRuntimes] /\ idle' \in [Order -> SUBSET Runtimes]

LEMMA PoolStep ==
    ASSUME TypeOK, PoolExact, OnRuntime, [Next]_vars
    PROVE  PoolGoal
<1> USE DEF callVars, pluginVars
<1>0. slots \in [Order -> 0..MaxRuntimes] /\ idle \in [Order -> SUBSET Runtimes]
  BY DEF TypeOK
<1>1. CASE UNCHANGED <<pc, plug, rt, idle, slots>>
  <2>1. ASSUME NEW p \in Order PROVE PoolOK(p)'
    <3>1. PoolOK(p) /\ Users(p)' = Users(p)
      BY <1>1 DEF PoolExact, PoolOK, Users
    <3> QED BY <1>1, <3>1, PoolSame
  <2>2. PoolExact' /\ OnRuntime'
    BY <1>1, <2>1 DEF PoolExact, PoolOK, OnRuntime
  <2> QED BY <1>0, <1>1, <2>2 DEF PoolGoal
<1>2. ASSUME NEW c \in Calls, pc[c] \notin {"load", "call"}, pc'[c] \notin {"load", "call"},
             UNCHANGED <<idle, slots>>,
             \A d \in Calls \ {c} : pc'[d] = pc[d] /\ plug'[d] = plug[d] /\ rt'[d] = rt[d]
      PROVE  PoolGoal
  <2>1. PoolExact'
    BY <1>2, NoScript
  <2>2. OnRuntime'
    BY <1>2 DEF OnRuntime
  <2> QED BY <1>0, <1>2, <2>1, <2>2 DEF PoolGoal
<1>3. ASSUME NEW c \in Calls, NEW p \in Order, Trigger(c, p) PROVE PoolGoal
  BY <1>2, <1>3 DEF Trigger, Goes, TypeOK
<1>4. ASSUME NEW c \in Calls,
             \/ Decide(c) \/ Admit(c) \/ AcquireWaits(c) \/ AcquireFails(c) \/ Stop(c) \/ Leave(c)
      PROVE  PoolGoal
  <2>1. pc[c] \notin {"load", "call"} /\ UNCHANGED <<idle, slots>>
    BY <1>4 DEF Decide, Admit, AcquireWaits, AcquireFails, Stop, Leave
  <2>2. \E to \in {"admit", "run", "wait", "leave", "end"} : pc' = [pc EXCEPT ![c] = to]
    BY <1>4 DEF Decide, Admit, AcquireWaits, AcquireFails, Stop, Leave, Returns, RunFails, Goes
  <2>3. plug' = plug \/ \E p : plug' = [plug EXCEPT ![c] = p]
    BY <1>4 DEF Decide, Admit, AcquireWaits, AcquireFails, Stop, Leave
  <2>4. rt' = rt \/ rt' = [rt EXCEPT ![c] = None]
    BY <1>4 DEF Decide, Admit, AcquireWaits, AcquireFails, Stop, Leave
  <2>5. /\ pc'[c] \notin {"load", "call"}
        /\ \A d \in Calls \ {c} : pc'[d] = pc[d] /\ plug'[d] = plug[d] /\ rt'[d] = rt[d]
    BY <2>2, <2>3, <2>4 DEF TypeOK
  <2> QED BY <1>2, <2>1, <2>5
<1>5. ASSUME NEW c \in Calls, AcquireIdle(c) \/ AcquireNew(c) PROVE PoolGoal
  <2>1. /\ PoolExact' /\ rt'[c] \in Runtimes
        /\ slots' \in [Order -> 0..MaxRuntimes] /\ idle' \in [Order -> SUBSET Runtimes]
    BY <1>5, StartsScript
  <2>2. \A d \in Calls \ {c} : pc'[d] = pc[d] /\ rt'[d] = rt[d]
    BY <1>5 DEF AcquireIdle, AcquireNew, RunStarts, Goes, TypeOK
  <2> QED BY <2>1, <2>2 DEF PoolGoal, OnRuntime
<1>6. ASSUME NEW c \in Calls, Script(c) \/ CallInterrupted(c) PROVE PoolGoal
  <2>1. CASE LoadReturns(c)
    BY <1>0, <2>1, GoesOnScript DEF PoolGoal
  <2>2. CASE LoadFails(c) \/ CallInterrupted(c) \/ CallThrows(c) \/ CallReturns(c)
    <3>1. /\ PoolExact' /\ slots' \in [Order -> 0..MaxRuntimes]
          /\ idle' \in [Order -> SUBSET Runtimes]
      BY <2>2, EndsScript
    <3>2. /\ pc'[c] \in {"stop", "leave"}
          /\ \A d \in Calls \ {c} : pc'[d] = pc[d] /\ rt'[d] = rt[d]
      BY <2>2 DEF LoadFails, RunFails, CallInterrupted, CallThrows, CallReturns, Drop, Goes, TypeOK
    <3> QED BY <3>1, <3>2 DEF PoolGoal, OnRuntime
  <2> QED BY <1>6, <2>1, <2>2 DEF Script
<1>7. ASSUME NEW c \in Calls, Expire(c) \/ Fire(c) PROVE PoolGoal
  BY <1>1, <1>7 DEF Expire, Fire
<1> QED BY <1>1, <1>3, <1>4, <1>5, <1>6, <1>7 DEF Next, Run, vars

-----------------------------------------------------------------------------
(***************************************************************************)
(* Types.                                                                  *)
(***************************************************************************)

\* The part of TypeOK that the resources do not decide.
CallsTyped ==
    /\ pc \in [Calls -> {"new", "admit", "run", "wait", "load", "call", "stop", "leave", "end"}]
    /\ targets \in [Calls -> SUBSET Order] /\ plug \in [Calls -> Order]
    /\ rt \in [Calls -> Runtimes \cup {None}]
    /\ timer \in [Calls -> {"off", "armed", "firing", "fired"}]
    /\ late \subseteq Calls /\ broken \subseteq Order
    /\ outcome \in [Calls -> Answers \cup {"none", "dropped", "error", "timeout"}]
    /\ decision \in [Calls -> {"none", "allow", "deny", "timeout", "malformed"}]
    /\ flag \subseteq Order \X Runtimes

LEMMA CallsStep ==
    ASSUME CallsTyped, opinion \in [Decisions -> [Order -> Answers]], OnRuntime,
           \A p \in Order : idle[p] \subseteq Runtimes, [Next]_vars
    PROVE  CallsTyped'
<1> USE DEF callVars, pluginVars, Goes, Ends
<1>1. CASE UNCHANGED vars
  BY <1>1 DEF vars, CallsTyped
<1>2. ASSUME NEW c \in Calls, NEW p \in Order, Trigger(c, p) PROVE CallsTyped'
  BY <1>2 DEF Trigger, CallsTyped
<1>3. ASSUME NEW c \in Calls, Decide(c) PROVE CallsTyped'
  <2>1. Order \ broken # {} => First(Order \ broken) \in Order
    BY FirstIsLeast
  <2> QED BY <1>3, <2>1 DEF Decide, Returns, CallsTyped
<1>4. ASSUME NEW c \in Calls, Admit(c) PROVE CallsTyped'
  BY <1>4 DEF Admit, Returns, CallsTyped
<1>5. ASSUME NEW c \in Calls, Expire(c) PROVE CallsTyped'
  BY <1>5 DEF Expire, CallsTyped
<1>6. ASSUME NEW c \in Calls, Fire(c) PROVE CallsTyped'
  <2>1. flag' \subseteq Order \X Runtimes
    BY <1>6 DEF Fire, CallsTyped
  <2> QED BY <1>6, <2>1 DEF Fire, CallsTyped
<1>7. ASSUME NEW c \in Calls, AcquireIdle(c) PROVE CallsTyped'
  <2>1. PICK r \in Runtimes : RunStarts(c, r)
    BY <1>7 DEF AcquireIdle, CallsTyped
  <2> QED BY <1>7, <2>1 DEF AcquireIdle, RunStarts, CallsTyped
<1>8. ASSUME NEW c \in Calls, AcquireNew(c) PROVE CallsTyped'
  <2>1. PICK r \in Runtimes : rt' = [rt EXCEPT ![c] = r] /\ flag' = flag \ {<<plug[c], r>>}
    BY <1>8 DEF AcquireNew, Unused
  <2> QED BY <1>8, <2>1 DEF AcquireNew, CallsTyped
<1>9. ASSUME NEW c \in Calls, AcquireWaits(c) \/ AcquireFails(c) \/ LoadReturns(c) \/ LoadFails(c)
      PROVE  CallsTyped'
  <2>1. CASE AcquireWaits(c) \/ AcquireFails(c)
    BY <2>1 DEF AcquireWaits, AcquireFails, RunFails, CallsTyped
  <2>2. CASE LoadReturns(c)
    BY <2>2 DEF LoadReturns, RunStarts, CallsTyped
  <2>3. CASE LoadFails(c)
    BY <2>3 DEF LoadFails, RunFails, MarkBroken, CallsTyped
  <2> QED BY <1>9, <2>1, <2>2, <2>3
<1>10. ASSUME NEW c \in Calls, CallInterrupted(c) \/ CallThrows(c) PROVE CallsTyped'
  BY <1>10 DEF CallInterrupted, CallThrows, Drop, CallsTyped
<1>11. ASSUME NEW c \in Calls, CallReturns(c) PROVE CallsTyped'
  <2>1. Says(c) \subseteq Answers
    BY DEF Says, Answers, CallsTyped
  <2>2. PICK a \in Answers : outcome' = [outcome EXCEPT ![c] = a]
    BY <1>11, <2>1 DEF CallReturns
  <2>3. flag' \subseteq flag
    BY <1>11 DEF CallReturns
  <2> QED BY <1>11, <2>2, <2>3 DEF CallReturns, CallsTyped
<1>12. ASSUME NEW c \in Calls, Stop(c) PROVE CallsTyped'
  BY <1>12 DEF Stop, CallsTyped
<1>13. ASSUME NEW c \in Calls, Leave(c) PROVE CallsTyped'
  <2> DEFINE after == {p \in targets[c] : p > plug[c]}
  <2>1. after \subseteq Order /\ (after # {} => First(after) \in Order)
    <3>1. after \in SUBSET Order
      BY DEF CallsTyped
    <3> HIDE DEF after
    <3> QED BY <3>1, FirstIsLeast
  <2>2. /\ Verdict(c) # "next" => Verdict(c) \in {"timeout", "malformed", "deny"}
        /\ LastAnswer(c) \in {"malformed", "allow"}
    BY DEF Verdict, LastAnswer
  <2>3. \/ plug' = plug
        \/ \E p \in Order : plug' = [plug EXCEPT ![c] = p]
    BY <1>13, <2>1 DEF Leave
  <2>4. \E to \in {"admit", "end"} : pc' = [pc EXCEPT ![c] = to]
    BY <1>13 DEF Leave, Returns
  <2>5. decision' = decision \/ \E d \in {"timeout", "malformed", "deny", "allow"} :
                                  decision' = [decision EXCEPT ![c] = d]
    BY <1>13, <2>2 DEF Leave, Returns
  <2>6. (outcome' = outcome \/ outcome' = [outcome EXCEPT ![c] = "none"]) /\ late' \subseteq late
    BY <1>13 DEF Leave
  <2>7. UNCHANGED <<targets, rt, timer, broken, flag>>
    BY <1>13 DEF Leave
  <2> QED BY <2>3, <2>4, <2>5, <2>6, <2>7 DEF CallsTyped
<1> QED BY <1>1, <1>2, <1>3, <1>4, <1>5, <1>6, <1>7, <1>8, <1>9, <1>10, <1>11, <1>12, <1>13
        DEF Next, Run, Script

\* The steps keep slots, pools and types exact together.
LEMMA ResourcesStep ==
    ASSUME ResourcesExact, OnRuntime, opinion \in [Decisions -> [Order -> Answers]], [Next]_vars
    PROVE  ResourcesExact' /\ OnRuntime'
<1>1. SlotsExact'
  BY SlotStep DEF ResourcesExact
<1>2. PoolGoal
  BY PoolStep DEF ResourcesExact
<1>3. CallsTyped'
  BY CallsStep DEF ResourcesExact, TypeOK, CallsTyped
<1>4. sem' \in 0..MaxHooks
  <2>1. Busy' \subseteq Calls
    BY DEF Busy
  <2>2. IsFiniteSet(Busy')
    BY <2>1, HooksAssumption, FS_Subset
  <2>3. Cardinality(Busy') \in Nat
    BY <2>2, FS_CardinalityType
  <2>4. sem' = Cardinality(Busy') /\ sem' <= MaxHooks
    BY <1>1 DEF SlotsExact, Busy
  <2> QED BY <2>3, <2>4, HooksAssumption
<1>5. TypeOK'
  BY <1>2, <1>3, <1>4 DEF TypeOK, CallsTyped, PoolGoal
<1> QED BY <1>1, <1>2, <1>5 DEF ResourcesExact, PoolGoal

-----------------------------------------------------------------------------
(***************************************************************************)
(* What a decision has heard.                                              *)
(***************************************************************************)

\* A step of another call.
LEMMA HeardSame ==
    ASSUME NEW d \in Decisions, Heard(d), opinion' = opinion, broken \subseteq broken',
           pc'[d] = pc[d], outcome'[d] = outcome[d], plug'[d] = plug[d],
           targets'[d] = targets[d], decision'[d] = decision[d]
    PROVE  Heard(d)'
<1>1. Answered(d, outcome[d]) => Answered(d, outcome[d])'
  BY DEF Answered
<1> QED BY <1>1 DEF Heard

\* An action changes nothing of the calls it is not about.
LEMMA OnlyItsCall ==
    ASSUME TypeOK, NEW c \in Calls, NEW d \in Calls \ {c},
           \/ Decide(c) \/ Admit(c) \/ Expire(c) \/ Fire(c) \/ Run(c)
           \/ Script(c) \/ \E p \in Order : Trigger(c, p)
    PROVE  /\ pc'[d] = pc[d] /\ outcome'[d] = outcome[d] /\ plug'[d] = plug[d]
           /\ targets'[d] = targets[d] /\ decision'[d] = decision[d]
<1> USE DEF callVars, pluginVars, Goes, Ends, TypeOK
<1>1. CASE Decide(c) \/ Admit(c) \/ \E p \in Order : Trigger(c, p)
  BY <1>1 DEF Decide, Admit, Trigger, Returns
<1>2. CASE Expire(c) \/ Fire(c) \/ Stop(c)
  BY <1>2 DEF Expire, Fire, Stop
<1>3. CASE AcquireIdle(c) \/ AcquireWaits(c) \/ AcquireNew(c) \/ AcquireFails(c)
  BY <1>3 DEF AcquireIdle, AcquireWaits, AcquireNew, AcquireFails, RunStarts, RunFails
<1>4. CASE Script(c) \/ CallInterrupted(c)
  BY <1>4 DEF Script, LoadReturns, LoadFails, RunStarts, RunFails, CallInterrupted, CallThrows,
              CallReturns, Drop
<1>5. CASE Leave(c)
  BY <1>5 DEF Leave, Returns
<1> QED BY <1>1, <1>2, <1>3, <1>4, <1>5 DEF Run

\* A step of the decision itself that stays with its plugin and returns nothing.
LEMMA HeardOn ==
    ASSUME NEW c \in Decisions, Heard(c), opinion' = opinion, plug'[c] = plug[c],
           targets'[c] = targets[c], decision'[c] = decision[c],
           pc[c] \notin {"new", "end"}, pc'[c] \notin {"new", "end"},
           pc'[c] \in {"stop", "leave"} => Answered(c, outcome[c])'
    PROVE  Heard(c)'
<1>1. decision[c] = "none" /\ decision'[c] = "none"
  BY DEF Heard
<1> QED BY <1>1 DEF Heard

\* The plugins before the next one are those that were asked.
LEMMA HeardStep ==
    ASSUME TypeOK, opinion \in [Decisions -> [Order -> Answers]],
           \A d \in Decisions : Heard(d), [Next]_vars
    PROVE  opinion' = opinion /\ \A d \in Decisions : Heard(d)'
<1> USE DEF callVars, pluginVars, Goes, Ends
<1>0. opinion' = opinion /\ broken \subseteq broken'
  BY DEF Next, Run, Script, vars, Trigger, Decide, Admit, Expire, Fire, AcquireIdle, AcquireWaits,
         AcquireNew, AcquireFails, LoadReturns, LoadFails, MarkBroken, CallInterrupted,
         CallThrows, CallReturns, Stop, Leave
<1>1. CASE UNCHANGED vars
  BY <1>1 DEF vars, Heard, Answered
<1>2. ASSUME NEW c \in Decisions,
             \/ Decide(c) \/ Admit(c) \/ Expire(c) \/ Fire(c) \/ Run(c)
             \/ Script(c) \/ \E p \in Order : Trigger(c, p)
      PROVE  Heard(c)'
  <2>0. c \in Calls /\ Heard(c) /\ plug[c] \in Order /\ targets[c] \subseteq Order
    BY DEF Calls, TypeOK
  <2>1. CASE \E p \in Order : Trigger(c, p)
    BY <2>1, HooksAssumption DEF Trigger
  <2>2. CASE Decide(c)
    <3> DEFINE S == Order \ broken
    <3>1. /\ pc[c] = "new" /\ targets'[c] = S /\ outcome' = outcome /\ decision[c] = "none"
      BY <2>0, <2>2 DEF Decide, TypeOK, Heard
    <3>2. CASE S = {}
      <4>1. pc'[c] = "end" /\ decision'[c] = "allow"
        BY <2>0, <2>2, <3>2 DEF Decide, Returns, TypeOK
      <4> QED BY <3>1, <3>2, <4>1 DEF Heard
    <3>3. CASE S # {}
      <4>1. pc'[c] = "admit" /\ decision'[c] = "none" /\ plug'[c] = First(S)
        BY <2>0, <2>2, <3>1, <3>3 DEF Decide, TypeOK
      <4>0. First(S) \in S
        BY <3>3, FirstIsLeast
      <4>2. \A q \in S : First(S) <= q /\ q \in Nat /\ First(S) \in Nat
        <5>1. S \subseteq Nat
          BY HooksAssumption DEF Order
        <5> QED BY <3>3, <5>1, FirstIsLeast
      <4>3. ASSUME NEW q \in targets'[c] PROVE ~(q < plug'[c])
        <5>1. q \in S
          BY <3>1
        <5>2. First(S) <= q /\ q \in Nat /\ First(S) \in Nat /\ plug'[c] = First(S)
          BY <4>1, <4>2, <5>1
        <5> QED BY <5>2
      <4> QED BY <3>1, <4>0, <4>1, <4>3 DEF Heard
    <3> QED BY <3>2, <3>3
  <2>3. CASE Admit(c)
    <3>1. CASE pc'[c] = "run" /\ decision' = decision
      <4>1. plug' = plug /\ targets' = targets /\ pc[c] = "admit"
        BY <2>3 DEF Admit
      <4> QED BY <1>0, <2>0, <3>1, <4>1, HeardOn
    <3>2. CASE pc'[c] = "end" /\ decision'[c] = "timeout"
      BY <3>2 DEF Heard
    <3> QED BY <2>0, <2>3, <3>1, <3>2 DEF Admit, Returns, TypeOK
  <2>4. CASE Expire(c) \/ Fire(c)
    BY <1>0, <2>0, <2>4, HeardSame DEF Expire, Fire
  <2>5. CASE AcquireIdle(c) \/ AcquireWaits(c) \/ AcquireNew(c) \/ AcquireFails(c) \/ LoadReturns(c)
    <3>1. pc[c] \in {"run", "wait", "load"} /\ UNCHANGED <<plug, targets, decision, broken>>
      BY <2>5 DEF AcquireIdle, AcquireWaits, AcquireNew, AcquireFails, LoadReturns
    <3>2. \/ pc'[c] \in {"wait", "load", "call"}
          \/ pc'[c] = "leave" /\ outcome'[c] = "timeout"
          \/ pc'[c] = "leave" /\ outcome'[c] = "error" /\ plug[c] \in broken
      BY <2>0, <2>5 DEF AcquireIdle, AcquireWaits, AcquireNew, AcquireFails, LoadReturns, RunStarts,
                        RunFails, TypeOK
    <3>3. pc'[c] \in {"stop", "leave"} => Answered(c, outcome[c])'
      BY <3>1, <3>2 DEF Answered
    <3> QED BY <1>0, <2>0, <3>1, <3>2, <3>3, HeardOn
  <2>6. CASE LoadFails(c) \/ CallInterrupted(c) \/ CallThrows(c) \/ CallReturns(c)
    <3>1. pc[c] \in {"load", "call"} /\ UNCHANGED <<plug, targets, decision>>
      BY <2>6 DEF LoadFails, CallInterrupted, CallThrows, CallReturns
    <3>2. pc'[c] \in {"stop", "leave"}
      BY <2>0, <2>6 DEF LoadFails, RunFails, CallInterrupted, CallThrows, CallReturns, Drop, TypeOK
    <3>3. \/ outcome'[c] = "error" /\ plug[c] \in broken'
          \/ outcome'[c] = "timeout"
          \/ outcome'[c] = "error" /\ "throw" \in Says(c)
          \/ outcome'[c] \in Says(c) \ {"throw"}
      BY <2>0, <2>6 DEF LoadFails, RunFails, MarkBroken, CallInterrupted, CallThrows, CallReturns, Drop, TypeOK
    <3>4. Says(c) = {opinion[c][plug[c]]}
      BY DEF Says
    <3>5. Answered(c, outcome[c])'
      BY <1>0, <3>1, <3>3, <3>4 DEF Answered
    <3> QED BY <1>0, <2>0, <3>1, <3>2, <3>5, HeardOn
  <2>7. CASE Stop(c)
    <3>1. /\ pc[c] = "stop" /\ UNCHANGED <<plug, targets, decision, outcome>>
          /\ pc'[c] = "leave"
      BY <2>0, <2>7 DEF Stop, TypeOK
    <3>2. Answered(c, outcome[c])
      BY <2>0, <3>1 DEF Heard
    <3>3. Answered(c, outcome[c])'
      BY <1>0, <3>1, <3>2 DEF Answered
    <3> QED BY <1>0, <2>0, <3>1, <3>3, HeardOn
  <2>8. CASE Leave(c)
    <3> DEFINE after == {p \in targets[c] : p > plug[c]}
    <3>1. /\ pc[c] = "leave" /\ targets' = targets /\ decision[c] = "none"
          /\ Answered(c, outcome[c]) /\ plug[c] \in targets[c] /\ broken' = broken
          /\ \A p \in targets[c] : p < plug[c] => opinion[c][p] \in {"allow", "unknown"}
          /\ opinion[c][plug[c]] \in Answers
      BY <2>0, <2>8 DEF Leave, Heard
    <3>2. c \notin Notices
      BY HooksAssumption
    <3>3. CASE Verdict(c) # "next" /\ Returns(c, Verdict(c)) /\ plug' = plug
      <4>1. pc'[c] = "end" /\ decision'[c] = Verdict(c)
        BY <2>0, <3>3 DEF Returns, TypeOK
      <4>2. /\ Verdict(c) # "allow"
            /\ Verdict(c) = "deny" => opinion[c][plug[c]] = "deny"
            /\ Verdict(c) = "malformed" => opinion[c][plug[c]] = "throw" \/ plug[c] \in broken
        <5>1. /\ Verdict(c) # "allow"
              /\ Verdict(c) = "deny" => outcome[c] = "deny"
              /\ Verdict(c) = "malformed" => outcome[c] = "error"
          BY DEF Verdict
        <5>2. Answered(c, outcome[c])
          BY <3>1
        <5>3. ASSUME outcome[c] = "deny" PROVE opinion[c][plug[c]] = "deny"
          BY <5>2, <5>3 DEF Answered
        <5>4. ASSUME outcome[c] = "error", opinion[c][plug[c]] # "throw" PROVE plug[c] \in broken
          <6>1. opinion[c][plug[c]] # "error"
            BY <3>1 DEF Answers
          <6> QED BY <5>2, <5>4, <6>1 DEF Answered
        <5> QED BY <5>1, <5>3, <5>4
      <4> QED BY <1>0, <3>1, <3>3, <4>1, <4>2 DEF Heard
    <3>4. Verdict(c) = "next" =>
            outcome[c] = opinion[c][plug[c]] /\ opinion[c][plug[c]] \in {"allow", "unknown"}
      BY <3>1 DEF Verdict, Answered, Answers
    <3>5. CASE /\ Verdict(c) = "next" /\ after = {} /\ Returns(c, LastAnswer(c)) /\ plug' = plug
      <4>1. pc'[c] = "end" /\ decision'[c] = LastAnswer(c)
        BY <2>0, <3>5 DEF Returns, TypeOK
      <4>2. /\ LastAnswer(c) = "allow" => opinion[c][plug[c]] = "allow"
            /\ LastAnswer(c) = "malformed" => opinion[c][plug[c]] = "unknown"
            /\ LastAnswer(c) \in {"allow", "malformed"}
        BY <3>4, <3>5 DEF LastAnswer
      <4>3. ASSUME NEW p \in targets[c], LastAnswer(c) = "allow"
            PROVE  \/ opinion[c][p] = "allow"
                   \/ opinion[c][p] = "unknown"
                      /\ \E q \in targets[c] : q > p /\ opinion[c][q] = "allow"
        <5>1. p \in Nat /\ plug[c] \in Nat
          BY <2>0, HooksAssumption DEF Order
        <5>2. p < plug[c] \/ p = plug[c]
          <6>1. ~(p > plug[c])
            BY <3>5
          <6> QED BY <5>1, <6>1
        <5>3. CASE p = plug[c]
          BY <4>2, <4>3, <5>3
        <5>4. CASE p < plug[c]
          <6>1. plug[c] > p /\ opinion[c][plug[c]] = "allow" /\ plug[c] \in targets[c]
            BY <3>1, <4>2, <4>3, <5>1, <5>4
          <6> QED BY <3>1, <5>4, <6>1
        <5> QED BY <5>2, <5>3, <5>4
      <4> QED BY <1>0, <3>1, <3>5, <4>1, <4>2, <4>3 DEF Heard
    <3>6. CASE /\ Verdict(c) = "next" /\ after # {} /\ pc' = [pc EXCEPT ![c] = "admit"]
               /\ plug' = [plug EXCEPT ![c] = First(after)] /\ decision' = decision
      <4>1. pc'[c] = "admit" /\ decision'[c] = "none" /\ plug'[c] = First(after)
        BY <2>0, <3>1, <3>6 DEF TypeOK
      <4>0. First(after) \in targets[c]
        <5>1. after \in SUBSET Order /\ after \subseteq targets[c]
          BY <2>0
        <5> HIDE DEF after
        <5> QED BY <3>6, <5>1, FirstIsLeast
      <4>2. ASSUME NEW p \in targets[c], p < First(after)
            PROVE  opinion[c][p] \in {"allow", "unknown"}
        <5>1. after \in SUBSET Order
          BY <2>0
        <5>2. p \notin after
          <6> HIDE DEF after
          <6>1. \A q \in after : First(after) <= q
            BY <3>6, <5>1, FirstIsLeast
          <6>2. First(after) \in Nat /\ p \in Nat
            <7>1. First(after) \in Order /\ p \in Order
              BY <2>0, <3>6, <5>1, FirstIsLeast
            <7> QED BY <7>1, HooksAssumption DEF Order
          <6> QED BY <4>2, <6>1, <6>2
        <5>3. p < plug[c] \/ p = plug[c]
          BY <2>0, <5>2, HooksAssumption DEF Order
        <5> QED BY <3>1, <3>4, <3>6, <5>3
      <4> QED BY <1>0, <3>1, <4>0, <4>1, <4>2 DEF Heard
    <3> QED BY <2>8, <3>2, <3>3, <3>5, <3>6 DEF Leave
  <2> QED BY <1>2, <2>1, <2>2, <2>3, <2>4, <2>5, <2>6, <2>7, <2>8 DEF Run, Script
<1>3. CASE Next
  <2>1. PICK c \in Calls :
          \/ Decide(c) \/ Admit(c) \/ Expire(c) \/ Fire(c) \/ Run(c)
          \/ Script(c) \/ \E p \in Order : Trigger(c, p)
    BY <1>3 DEF Next
  <2>2. ASSUME NEW d \in Decisions, d # c PROVE Heard(d)'
    <3>1. d \in Calls \ {c}
      BY <2>2 DEF Calls
    <3>2. /\ pc'[d] = pc[d] /\ outcome'[d] = outcome[d] /\ plug'[d] = plug[d]
          /\ targets'[d] = targets[d] /\ decision'[d] = decision[d]
      BY <2>1, <3>1, OnlyItsCall
    <3> QED BY <1>0, <3>2, HeardSame
  <2> QED BY <1>0, <1>2, <2>1, <2>2
<1> QED BY <1>0, <1>1, <1>3

-----------------------------------------------------------------------------
(***************************************************************************)
(* The theorems.                                                           *)
(***************************************************************************)
LEMMA InitInv ==
    ASSUME Init
    PROVE  Inv
<1>1. Len(Plugins) \in Nat \ {0} /\ MaxHooks \in Nat \ {0} /\ MaxRuntimes \in Nat \ {0}
  BY HooksAssumption
<1>2. TypeOK
  BY <1>1 DEF Init, TypeOK, Order, Runtimes
<1>3. SlotsExact
  <2>1. {c \in Calls : InHook(c)} = {}
    BY DEF Init, InHook
  <2>2. Cardinality({c \in Calls : InHook(c)}) = 0
    BY <2>1, FS_EmptySet
  <2>3. sem = 0
    BY DEF Init
  <2> QED BY <1>1, <2>2, <2>3 DEF SlotsExact
<1>4. PoolExact
  <2>1. ASSUME NEW p \in Order PROVE Users(p) = {} /\ idle[p] = {1} /\ slots[p] = 1
    BY DEF Init, Users
  <2>2. Cardinality({1}) = 1 /\ Cardinality({}) = 0
    BY FS_EmptySet, FS_Singleton
  <2>3. ASSUME NEW p \in Order PROVE slots[p] = Cardinality(idle[p]) + Cardinality(Users(p))
    BY <2>1, <2>2
  <2> QED BY <2>1, <2>3 DEF PoolExact
<1>5. OnRuntime /\ \A c \in Decisions : Heard(c)
  <2>1. \A c \in Calls : pc[c] = "new" /\ decision[c] = "none"
    BY DEF Init
  <2> QED BY <2>1 DEF OnRuntime, Heard, Calls
<1> QED BY <1>2, <1>3, <1>4, <1>5 DEF Inv, ResourcesExact, Init

LEMMA InvStep ==
    ASSUME Inv, [Next]_vars
    PROVE  Inv'
<1>1. ResourcesExact' /\ OnRuntime'
  BY ResourcesStep DEF Inv
<1>2. opinion' = opinion /\ \A d \in Decisions : Heard(d)'
  BY HeardStep DEF Inv, ResourcesExact
<1> QED BY <1>1, <1>2 DEF Inv

\* Every step of every interleaving keeps the inductive invariant.
THEOREM Invariance == Spec => []Inv
BY InitInv, InvStep, PTL DEF Spec

\* ResourcesExact for any number of plugins, calls, hook slots and runtimes: the
\* semaphore of Trigger and Decide counts exactly the hooks that run and stays
\* within PluginMaxConcurrentHooks, and acquire and release account for every
\* runtime of a plugin, none of which two calls use at once.
THEOREM NothingLeaks == Spec => []ResourcesExact
<1>1. Inv => ResourcesExact
  BY DEF Inv
<1> QED BY <1>1, Invariance, PTL

\* DecisionIsHeard for any number of plugins and calls: Decide denies only on the
\* veto of the plugin it is at, allows plainly only when each of its targets answered
\* without a veto and the last one with 'allow', and blames only a plugin that failed.
THEOREM OnlyWhatWasSaid == Spec => []DecisionIsHeard
<1>1. Inv => DecisionIsHeard
  BY DEF Inv, Heard, DecisionIsHeard
<1> QED BY <1>1, Invariance, PTL

-----------------------------------------------------------------------------
(***************************************************************************)
(* Bytes: the sum over a set of events.  The library folds a set by a      *)
(* recursive function on its subsets, which takes an arbitrary element at  *)
(* a time.                                                                 *)
(***************************************************************************)

\* The element that a fold takes.
Any(s) == CHOOSE x \in s : TRUE

\* One turn of the fold, with f for what comes after.
Turn(f, s) == IF s = {} THEN 0 ELSE Size[Any(s)] + f[s \ {Any(s)}]

\* f does what a turn does, for every subset of S.
Solves(f, S) == f = [s \in SUBSET S |-> Turn(f, s)]

\* The function that the library's fold defines.
Fold(S) == CHOOSE f : Solves(f, S)

\* Finite sets of events.
Finite == {S \in SUBSET Events : IsFiniteSet(S)}

LEMMA BytesIsFold == ASSUME NEW S PROVE Bytes(S) = Fold(S)[S]
BY Zenon DEF Bytes, MapThenSumSet, MapThenFoldSet, Fold, Solves, Turn, Any

LEMMA Parts ==
    ASSUME NEW S \in Finite
    PROVE  /\ Cardinality(S) \in Nat
           /\ \A T \in SUBSET S : T \in Finite /\ Cardinality(T) <= Cardinality(S)
           /\ \A x \in S : Cardinality(S \ {x}) = Cardinality(S) - 1
           /\ \A x \in Events : S \cup {x} \in Finite
BY FS_Subset, FS_CardinalityType, FS_RemoveElement, FS_AddElement DEF Finite

\* A turn takes one event out.
LEMMA TurnTakes ==
    ASSUME NEW S \in Finite, S # {}
    PROVE  /\ Any(S) \in S /\ Size[Any(S)] \in Nat
           /\ S \ {Any(S)} \in Finite
           /\ Cardinality(S \ {Any(S)}) = Cardinality(S) - 1 /\ Cardinality(S) \in Nat
<1>1. Any(S) \in S
  BY DEF Any
<1> QED BY <1>1, Parts, StoreAssumption DEF Finite

\* The equation of the fold has a solution ...
LEMMA FoldExists ==
    ASSUME NEW S \in Finite
    PROVE  \E f : Solves(f, S)
<1> DEFINE Upto(n) == {f \in [SUBSET S -> Nat] :
                         \A s \in SUBSET S : Cardinality(s) < n => f[s] = Turn(f, s)}
           P == {n \in Nat : Upto(n) # {}}
<1>0. \A s \in SUBSET S : s \in Finite /\ Cardinality(s) \in Nat /\ Cardinality(s) <= Cardinality(S)
  BY Parts
<1>1. ASSUME NEW n \in Nat, \A m \in Nat : m < n => m \in P PROVE n \in P
  <2>1. CASE n = 0
    <3>1. [s \in SUBSET S |-> 0] \in Upto(n)
      BY <1>0, <2>1
    <3> QED BY <3>1
  <2>2. CASE n # 0
    <3>1. n - 1 \in P
      <4> HIDE DEF P
      <4>1. n - 1 \in Nat /\ n - 1 < n
        BY <2>2
      <4> QED BY <1>1, <4>1
    <3>2. PICK f \in [SUBSET S -> Nat] :
              \A s \in SUBSET S : Cardinality(s) < n - 1 => f[s] = Turn(f, s)
      BY <3>1
    <3> DEFINE g == [s \in SUBSET S |-> Turn(f, s)]
    <3>3. ASSUME NEW s \in SUBSET S PROVE Turn(f, s) \in Nat
      <4>1. CASE s = {}
        BY <4>1 DEF Turn
      <4>2. CASE s # {}
        <5>1. Size[Any(s)] \in Nat /\ s \ {Any(s)} \in SUBSET S
          BY <1>0, <4>2, TurnTakes
        <5>2. f[s \ {Any(s)}] \in Nat
          BY <3>2, <5>1
        <5> QED BY <4>2, <5>1, <5>2 DEF Turn
      <4> QED BY <4>1, <4>2
    <3>4. ASSUME NEW s \in SUBSET S, Cardinality(s) < n PROVE g[s] = Turn(g, s)
      <4>1. CASE s = {}
        BY <4>1 DEF Turn
      <4>2. CASE s # {}
        <5> DEFINE t == s \ {Any(s)}
        <5>1. t \in SUBSET S /\ Cardinality(t) < n - 1
          BY <1>0, <3>4, <4>2, TurnTakes
        <5>2. f[t] = Turn(f, t) /\ g[t] = Turn(f, t)
          BY <3>2, <5>1
        <5>3. Turn(f, s) = Size[Any(s)] + f[t] /\ Turn(g, s) = Size[Any(s)] + g[t]
          BY <4>2 DEF Turn
        <5> QED BY <5>2, <5>3
      <4> QED BY <4>1, <4>2
    <3>5. g \in Upto(n)
      BY <3>3, <3>4
    <3> QED BY <3>5
  <2> QED BY <2>1, <2>2
<1>2. Cardinality(S) + 1 \in P
  <2>1. Nat \subseteq P
    <3> HIDE DEF P
    <3> QED BY <1>1, InductiveSet
  <2>2. Cardinality(S) + 1 \in Nat
    BY Parts
  <2> HIDE DEF P
  <2> QED BY <2>1, <2>2
<1>3. PICK f \in [SUBSET S -> Nat] :
          \A s \in SUBSET S : Cardinality(s) < Cardinality(S) + 1 => f[s] = Turn(f, s)
  BY <1>2
<1>4. \A s \in SUBSET S : f[s] = Turn(f, s)
  BY <1>0, <1>3
<1>5. Solves(f, S)
  BY <1>3, <1>4 DEF Solves
<1> QED BY <1>5

\* ... and, where two sets overlap, only one.
LEMMA FoldsAgree ==
    ASSUME NEW S \in Finite, NEW T \in Finite,
           NEW f, Solves(f, S), NEW g, Solves(g, T)
    PROVE  \A s \in SUBSET (S \cap T) : f[s] = g[s] /\ f[s] \in Nat
<1> DEFINE P == {n \in Nat : \A s \in SUBSET (S \cap T) :
                               Cardinality(s) = n => f[s] = g[s] /\ f[s] \in Nat}
<1>1. ASSUME NEW n \in Nat, \A m \in Nat : m < n => m \in P PROVE n \in P
  <2> SUFFICES ASSUME NEW s \in SUBSET (S \cap T), Cardinality(s) = n
               PROVE  f[s] = g[s] /\ f[s] \in Nat
    OBVIOUS
  <2>1. f[s] = Turn(f, s) /\ g[s] = Turn(g, s) /\ s \in Finite
    BY Parts DEF Solves
  <2>2. CASE s = {}
    BY <2>1, <2>2 DEF Turn
  <2>3. CASE s # {}
    <3> DEFINE t == s \ {Any(s)}
    <3>1. Size[Any(s)] \in Nat /\ t \in SUBSET (S \cap T) /\ Cardinality(t) = n - 1 /\ n - 1 \in Nat
      <4>1. Cardinality(s) - 1 = Cardinality(t) /\ t \in Finite /\ Size[Any(s)] \in Nat
        BY <2>1, <2>3, TurnTakes
      <4> QED BY <4>1, Parts
    <3>2. n - 1 \in P
      <4> HIDE DEF P
      <4>1. n - 1 < n
        OBVIOUS
      <4> QED BY <1>1, <3>1, <4>1
    <3>3. f[t] = g[t] /\ f[t] \in Nat
      <4>1. \A u \in SUBSET (S \cap T) : Cardinality(u) = n - 1 => f[u] = g[u] /\ f[u] \in Nat
        BY <3>2
      <4> HIDE DEF t
      <4> QED BY <3>1, <4>1
    <3> QED BY <2>1, <2>3, <3>1, <3>3 DEF Turn
  <2> QED BY <2>2, <2>3
<1>2. Nat \subseteq P
  <2> HIDE DEF P
  <2> QED BY <1>1, InductiveSet
<1>3. ASSUME NEW s \in SUBSET (S \cap T) PROVE f[s] = g[s] /\ f[s] \in Nat
  <2>1. Cardinality(s) \in P
    BY <1>2, Parts
  <2> QED BY <2>1
<1> QED BY <1>3

LEMMA FoldIsFold ==
    ASSUME NEW S \in Finite
    PROVE  Solves(Fold(S), S)
BY FoldExists, Zenon DEF Fold

\* The number of bytes, event by event.
LEMMA BytesTurn ==
    ASSUME NEW S \in Finite
    PROVE  /\ Bytes(S) \in Nat
           /\ S = {} => Bytes(S) = 0
           /\ S # {} => Bytes(S) = Size[Any(S)] + Bytes(S \ {Any(S)})
<1>1. Bytes(S) = Fold(S)[S] /\ Fold(S)[S] \in Nat
  <2>1. Fold(S)[S] \in Nat
    BY FoldIsFold, FoldsAgree
  <2> QED BY <2>1, BytesIsFold
<1>2. Fold(S)[S] = Turn(Fold(S), S)
  <2>1. PICK f : f = Fold(S)
    OBVIOUS
  <2>2. f = [s \in SUBSET S |-> Turn(f, s)]
    BY <2>1, FoldIsFold DEF Solves
  <2>3. f[S] = Turn(f, S)
    BY <2>2
  <2> QED BY <2>1, <2>3
<1>3. ASSUME S # {} PROVE Bytes(S) = Size[Any(S)] + Bytes(S \ {Any(S)})
  <2> DEFINE T == S \ {Any(S)}
  <2>1. T \in Finite
    BY <1>3, TurnTakes
  <2>2. Fold(S)[T] = Fold(T)[T]
    <3>1. T \in SUBSET (S \cap T)
      OBVIOUS
    <3> HIDE DEF T
    <3>2. Solves(Fold(S), S) /\ Solves(Fold(T), T)
      BY <2>1, FoldIsFold
    <3> QED BY <2>1, <3>1, <3>2, FoldsAgree
  <2>3. Bytes(T) = Fold(T)[T]
    BY BytesIsFold
  <2> QED BY <1>1, <1>2, <1>3, <2>2, <2>3 DEF Turn
<1> QED BY <1>1, <1>2, <1>3 DEF Turn

\* It does not matter which event the fold takes first.
LEMMA BytesAdd ==
    ASSUME NEW S \in Finite, NEW x \in Events \ S
    PROVE  Bytes(S \cup {x}) = Size[x] + Bytes(S)
<1> DEFINE P == {n \in Nat : \A T \in Finite : Cardinality(T) = n =>
                    \A y \in Events \ T : Bytes(T \cup {y}) = Size[y] + Bytes(T)}
<1>1. ASSUME NEW n \in Nat, \A m \in Nat : m < n => m \in P PROVE n \in P
  <2> SUFFICES ASSUME NEW T \in Finite, Cardinality(T) = n, NEW y \in Events \ T
               PROVE  Bytes(T \cup {y}) = Size[y] + Bytes(T)
    OBVIOUS
  <2> DEFINE U == T \cup {y}
             z == Any(U)
             V == T \ {z}
  <2>1. U \in Finite /\ U # {} /\ z \in U /\ Bytes(U) = Size[z] + Bytes(U \ {z})
    <3>1. U \in Finite /\ U # {}
      BY Parts
    <3> HIDE DEF U
    <3> QED BY <3>1, TurnTakes, BytesTurn
  <2>2. CASE z = y
    <3>1. U \ {z} = T
      BY <2>2
    <3> QED BY <2>1, <2>2, <3>1
  <2>3. CASE z # y
    <3>1. z \in T /\ U \ {z} = V \cup {y} /\ V \cup {z} = T
      BY <2>1, <2>3
    <3>2. V \in Finite /\ Cardinality(V) = n - 1 /\ n - 1 \in Nat
      <4>1. V \in Finite /\ Cardinality(V) = Cardinality(T) - 1 /\ Cardinality(V) \in Nat
        <5>1. V \in SUBSET T
          OBVIOUS
        <5>2. V \in Finite /\ Cardinality(V) = Cardinality(T) - 1
          <6> HIDE DEF z
          <6> QED BY <3>1, <5>1, Parts
        <5> HIDE DEF V
        <5> QED BY <5>2, Parts
      <4> QED BY <4>1
    <3>3. y \in Events \ V /\ z \in Events \ V
      BY <3>1 DEF Finite
    <3>4. n - 1 \in P
      BY <1>1, <3>2
    <3>5. /\ Bytes(V \cup {y}) = Size[y] + Bytes(V)
          /\ Bytes(V \cup {z}) = Size[z] + Bytes(V)
      BY <3>2, <3>3, <3>4
    <3>6. Bytes(V) \in Nat /\ Size[y] \in Nat /\ Size[z] \in Nat
      BY <3>2, <3>3, BytesTurn, StoreAssumption
    <3>7. Bytes(U) = Size[z] + (Size[y] + Bytes(V)) /\ Bytes(T) = Size[z] + Bytes(V)
      BY <2>1, <3>1, <3>5
    <3> HIDE DEF U, V, z
    <3>8. Bytes(U) = Size[y] + Bytes(T)
      BY <3>6, <3>7
    <3> QED BY <3>8 DEF U
  <2> QED BY <2>2, <2>3
<1>2. Nat \subseteq P
  <2> HIDE DEF P
  <2> QED BY <1>1, InductiveSet
<1>3. Cardinality(S) \in P
  BY <1>2, Parts
<1> QED BY <1>3

\* Bytes of two sets that have no event in common.
LEMMA BytesUnion ==
    ASSUME NEW A \in Finite, NEW B \in Finite, A \cap B = {}
    PROVE  A \cup B \in Finite /\ Bytes(A \cup B) = Bytes(A) + Bytes(B)
<1> DEFINE P == {n \in Nat : \A T \in Finite : Cardinality(T) = n /\ A \cap T = {} =>
                    A \cup T \in Finite /\ Bytes(A \cup T) = Bytes(A) + Bytes(T)}
<1>1. ASSUME NEW n \in Nat, \A m \in Nat : m < n => m \in P PROVE n \in P
  <2> SUFFICES ASSUME NEW T \in Finite, Cardinality(T) = n, A \cap T = {}
               PROVE  A \cup T \in Finite /\ Bytes(A \cup T) = Bytes(A) + Bytes(T)
    OBVIOUS
  <2>1. Bytes(A) \in Nat /\ Bytes(T) \in Nat
    BY BytesTurn
  <2>2. CASE T = {}
    <3>1. Bytes(T) = 0 /\ A \cup T = A
      BY <2>2, BytesTurn
    <3> QED BY <2>1, <3>1
  <2>3. CASE T # {}
    <3>1. PICK x \in T : TRUE
      BY <2>3
    <3> DEFINE V == T \ {x}
    <3>2. V \in Finite /\ Cardinality(V) = n - 1 /\ n - 1 \in Nat
      BY Parts
    <3>3. n - 1 \in P
      BY <1>1, <3>2
    <3>4. A \cup V \in Finite /\ Bytes(A \cup V) = Bytes(A) + Bytes(V)
      BY <3>2, <3>3
    <3>5. x \in Events /\ x \notin V /\ x \notin A \cup V /\ V \cup {x} = T
          /\ (A \cup V) \cup {x} = A \cup T
      BY DEF Finite
    <3>6. Bytes(T) = Size[x] + Bytes(V) /\ Bytes(A \cup T) = Size[x] + Bytes(A \cup V)
      BY <3>2, <3>4, <3>5, BytesAdd
    <3>7. A \cup T \in Finite
      BY <3>4, <3>5, Parts
    <3>8. Size[x] \in Nat /\ Bytes(V) \in Nat
      BY <3>2, <3>5, BytesTurn, StoreAssumption
    <3> HIDE DEF V
    <3> QED BY <2>1, <3>4, <3>6, <3>7, <3>8
  <2> QED BY <2>2, <2>3
<1>2. Nat \subseteq P
  <2> HIDE DEF P
  <2> QED BY <1>1, InductiveSet
<1>3. Cardinality(B) \in P
  BY <1>2, Parts
<1> QED BY <1>3

\* Bytes of a part and of the rest.
LEMMA BytesPart ==
    ASSUME NEW A \in Finite, NEW B \in SUBSET A
    PROVE  /\ Bytes(A) \in Nat /\ Bytes(B) \in Nat /\ Bytes(A \ B) \in Nat
           /\ Bytes(A \ B) = Bytes(A) - Bytes(B)
           /\ Bytes(B) <= Bytes(A)
<1>1. B \in Finite /\ A \ B \in Finite /\ B \cap (A \ B) = {} /\ B \cup (A \ B) = A
  BY Parts
<1>2. Bytes(A) = Bytes(B) + Bytes(A \ B)
  BY <1>1, BytesUnion
<1>3. A \in Finite /\ B \in Finite /\ A \ B \in Finite
  BY <1>1
<1>4. Bytes(A) \in Nat /\ Bytes(B) \in Nat /\ Bytes(A \ B) \in Nat
  BY <1>3, BytesTurn
<1> QED BY <1>2, <1>4

-----------------------------------------------------------------------------
(***************************************************************************)
(* The queue.                                                              *)
(***************************************************************************)

\* s is what is left of t after some ids have gone from its front.
Suffix(s, t) ==
    /\ Len(s) <= Len(t)
    /\ \A i \in 1..Len(s) : s[i] = t[Len(t) - Len(s) + i]

\* No id twice.
Once(s) == \A i, j \in 1..Len(s) : s[i] = s[j] => i = j

LEMMA RestOf ==
    ASSUME NEW s \in Seq(Events), NEW n \in 0..Len(s)
    PROVE  /\ Rest(s, n) \in Seq(Events) /\ Len(Rest(s, n)) = Len(s) - n
           /\ \A i \in 1..(Len(s) - n) : Rest(s, n)[i] = s[n + i]
BY DEF Rest

LEMMA EvictedOf ==
    ASSUME NEW s \in Seq(Events), NEW n \in 0..Len(s)
    PROVE  Evicted(s, n) = {s[i] : i \in 1..n}
<1> DEFINE f == SubSeq(s, 1, n)
<1>1. DOMAIN f = 1..n /\ \A i \in 1..n : f[i] = s[i]
  OBVIOUS
<1>2. Evicted(s, n) = {f[i] : i \in DOMAIN f}
  BY DEF Evicted, Ids
<1> HIDE DEF f
<1> QED BY <1>1, <1>2

LEMMA IdsOf ==
    ASSUME NEW s \in Seq(Events)
    PROVE  Ids(s) = {s[i] : i \in 1..Len(s)}
BY DEF Ids

LEMMA IdsFinite ==
    ASSUME NEW s \in Seq(Events)
    PROVE  Ids(s) \in Finite
<1>1. s \in Surjection(1..Len(s), Ids(s))
  BY DEF Surjection, Ids
<1>2. IsFiniteSet(1..Len(s))
  BY FS_Interval
<1>3. IsFiniteSet(Ids(s))
  BY <1>1, <1>2, FS_Surjection
<1>4. Ids(s) \subseteq Events
  BY DEF Ids
<1> QED BY <1>3, <1>4 DEF Finite

\* What leaves a queue without duplicates, and what stays.
LEMMA RestIsRest ==
    ASSUME NEW s \in Seq(Events), NEW n \in 0..Len(s), Once(s)
    PROVE  /\ Ids(Rest(s, n)) = Ids(s) \ Evicted(s, n)
           /\ Once(Rest(s, n))
           /\ Evicted(s, n) \subseteq Ids(s)
<1> DEFINE r == Rest(s, n)
<1>1. /\ r \in Seq(Events) /\ Len(r) = Len(s) - n /\ Len(s) \in Nat
      /\ \A i \in 1..(Len(s) - n) : r[i] = s[n + i]
      /\ Evicted(s, n) = {s[i] : i \in 1..n} /\ Ids(s) = {s[i] : i \in 1..Len(s)}
  <2>1. r \in Seq(Events) /\ Len(r) = Len(s) - n /\ \A i \in 1..(Len(s) - n) : r[i] = s[n + i]
    BY RestOf
  <2>2. Len(s) \in Nat
    OBVIOUS
  <2> QED BY <2>1, <2>2, EvictedOf, IdsOf, Zenon
<1>2. Ids(r) = {r[i] : i \in 1..Len(r)}
  BY <1>1 DEF Ids
<1> HIDE DEF r
<1>3. Once(r)
  <2> SUFFICES ASSUME NEW i \in 1..Len(r), NEW j \in 1..Len(r), r[i] = r[j] PROVE i = j
    BY DEF Once
  <2>1. n + i \in 1..Len(s) /\ n + j \in 1..Len(s) /\ s[n + i] = s[n + j]
    BY <1>1
  <2>2. n + i = n + j
    BY <2>1 DEF Once
  <2> QED BY <2>2
<1>4. ASSUME NEW x \in Ids(r) PROVE x \in Ids(s) /\ x \notin Evicted(s, n)
  <2>1. PICK i \in 1..(Len(s) - n) : x = s[n + i]
    BY <1>1, <1>2
  <2>2. n + i \in 1..Len(s)
    BY <1>1
  <2>3. ASSUME NEW j \in 1..n, s[j] = x PROVE FALSE
    <3>1. j \in 1..Len(s)
      BY <1>1
    <3>2. j = n + i
      BY <2>1, <2>2, <2>3, <3>1 DEF Once
    <3> QED BY <3>2
  <2> QED BY <1>1, <2>1, <2>2, <2>3
<1>5. ASSUME NEW x \in Ids(s), x \notin Evicted(s, n) PROVE x \in Ids(r)
  <2>1. PICK i \in 1..Len(s) : x = s[i]
    BY <1>1
  <2>2. i \notin 1..n
    BY <1>1, <1>5, <2>1
  <2>3. i - n \in 1..(Len(s) - n) /\ n + (i - n) = i
    BY <1>1, <2>2
  <2>4. r[i - n] = x
    BY <1>1, <2>1, <2>3
  <2> QED BY <1>1, <1>2, <2>3, <2>4
<1>6. Evicted(s, n) \subseteq Ids(s)
  <2> SUFFICES ASSUME NEW i \in 1..n PROVE s[i] \in Ids(s)
    BY <1>1
  <2>1. i \in 1..Len(s)
    BY <1>1
  <2> QED BY <1>1, <2>1
<1> QED BY <1>3, <1>4, <1>5, <1>6 DEF r

LEMMA SuffixRest ==
    ASSUME NEW s \in Seq(Events), NEW t \in Seq(Events), Suffix(s, t), NEW n \in 0..Len(s)
    PROVE  Suffix(Rest(s, n), t)
<1> DEFINE r == Rest(s, n)
<1>1. /\ Len(r) = Len(s) - n /\ Len(s) \in Nat /\ Len(t) \in Nat
      /\ \A i \in 1..(Len(s) - n) : r[i] = s[n + i]
  BY RestOf
<1> HIDE DEF r
<1>2. ASSUME NEW i \in 1..Len(r) PROVE r[i] = t[Len(t) - Len(r) + i]
  <2>1. n + i \in 1..Len(s) /\ Len(t) - Len(s) + (n + i) = Len(t) - Len(r) + i
    BY <1>1
  <2>2. s[n + i] = t[Len(t) - Len(s) + (n + i)]
    BY <2>1 DEF Suffix
  <2> QED BY <1>1, <2>1, <2>2
<1>3. Len(r) <= Len(t)
  BY <1>1 DEF Suffix
<1>4. Suffix(r, t)
  BY <1>2, <1>3 DEF Suffix
<1> QED BY <1>4 DEF r

LEMMA SuffixAppend ==
    ASSUME NEW s \in Seq(Events), NEW t \in Seq(Events), Suffix(s, t), NEW e \in Events
    PROVE  Suffix(Append(s, e), Append(t, e))
<1> DEFINE s1 == Append(s, e)
           t1 == Append(t, e)
<1>1. /\ Len(s) \in Nat /\ Len(t) \in Nat /\ Len(s1) = Len(s) + 1 /\ Len(t1) = Len(t) + 1
      /\ \A i \in 1..Len(s) : s1[i] = s[i]
      /\ \A i \in 1..Len(t) : t1[i] = t[i]
      /\ s1[Len(s) + 1] = e /\ t1[Len(t) + 1] = e
  OBVIOUS
<1> HIDE DEF s1, t1
<1>2. ASSUME NEW i \in 1..Len(s1) PROVE s1[i] = t1[Len(t1) - Len(s1) + i]
  <2>0. Len(t1) - Len(s1) + i = Len(t) - Len(s) + i
    BY <1>1
  <2>1. CASE i = Len(s) + 1
    <3>1. Len(t1) - Len(s1) + i = Len(t) + 1
      BY <1>1, <2>1
    <3> QED BY <1>1, <2>1, <3>1
  <2>2. CASE i # Len(s) + 1
    <3>1. i \in 1..Len(s)
      BY <1>1, <2>2
    <3>2. Len(t) - Len(s) + i \in 1..Len(t)
      BY <1>1, <3>1 DEF Suffix
    <3>3. s[i] = t[Len(t) - Len(s) + i]
      BY <3>1 DEF Suffix
    <3> QED BY <1>1, <2>0, <3>1, <3>2, <3>3
  <2> QED BY <2>1, <2>2
<1>3. Len(s1) <= Len(t1)
  BY <1>1 DEF Suffix
<1>4. Suffix(s1, t1)
  BY <1>2, <1>3 DEF Suffix
<1> QED BY <1>4 DEF s1, t1

LEMMA OnceSuffix ==
    ASSUME NEW s \in Seq(Events), NEW t \in Seq(Events), Suffix(s, t), Once(t)
    PROVE  Once(s) /\ Ids(s) \subseteq Ids(t)
<1>1. Len(s) \in Nat /\ Len(t) \in Nat /\ Len(s) <= Len(t)
  BY DEF Suffix
<1>2. ASSUME NEW i \in 1..Len(s)
      PROVE  /\ Len(t) - Len(s) + i \in 1..Len(t)
             /\ s[i] = t[Len(t) - Len(s) + i]
  BY <1>1 DEF Suffix
<1>3. ASSUME NEW i \in 1..Len(s), NEW j \in 1..Len(s), s[i] = s[j] PROVE i = j
  <2>1. Len(t) - Len(s) + i = Len(t) - Len(s) + j
    BY <1>2, <1>3 DEF Once
  <2> QED BY <1>1, <2>1
<1>4. Ids(s) \subseteq Ids(t)
  BY <1>2 DEF Ids
<1> QED BY <1>3, <1>4 DEF Once

LEMMA OnceAppend ==
    ASSUME NEW s \in Seq(Events), Once(s), NEW e \in Events, e \notin Ids(s)
    PROVE  Once(Append(s, e)) /\ Ids(Append(s, e)) = Ids(s) \cup {e}
<1> DEFINE s1 == Append(s, e)
<1>1. /\ Len(s) \in Nat /\ Len(s1) = Len(s) + 1 /\ s1[Len(s) + 1] = e
      /\ \A i \in 1..Len(s) : s1[i] = s[i]
      /\ DOMAIN s = 1..Len(s) /\ DOMAIN s1 = 1..(Len(s) + 1)
  OBVIOUS
<1> HIDE DEF s1
<1>2. \A i \in 1..Len(s) : s[i] # e
  BY <1>1 DEF Ids
<1>3. ASSUME NEW i \in 1..Len(s1), NEW j \in 1..Len(s1), s1[i] = s1[j] PROVE i = j
  <2>1. (i \in 1..Len(s) \/ i = Len(s) + 1) /\ (j \in 1..Len(s) \/ j = Len(s) + 1)
    BY <1>1
  <2> QED BY <1>1, <1>2, <1>3, <2>1 DEF Once
<1>4. Ids(s1) = Ids(s) \cup {e}
  <2>1. \A i \in 1..Len(s1) : i \in 1..Len(s) \/ i = Len(s) + 1
    BY <1>1
  <2>2. \A i \in 1..Len(s) : i \in 1..(Len(s) + 1)
    BY <1>1
  <2>3. Len(s) + 1 \in 1..(Len(s) + 1)
    BY <1>1
  <2> QED BY <1>1, <2>1, <2>2, <2>3 DEF Ids
<1> QED BY <1>3, <1>4 DEF Once, s1

-----------------------------------------------------------------------------
(***************************************************************************)
(* What a sweep takes.                                                     *)
(***************************************************************************)

LEMMA MinOf ==
    ASSUME NEW S \in SUBSET Nat, S # {}
    PROVE  Min(S) \in S /\ \A y \in S : Min(S) <= y
BY LeastNumber DEF Min

LEMMA MaxOf ==
    ASSUME NEW S \in SUBSET Nat, S # {}, NEW b \in Nat, \A y \in S : y <= b
    PROVE  Max(S) \in S /\ \A y \in S : y <= Max(S)
<1> DEFINE U == {u \in Nat : \A y \in S : y <= u}
<1>1. PICK u \in U : \A v \in U : u <= v
  <2>1. b \in U
    OBVIOUS
  <2> QED BY <2>1, LeastNumber
<1>2. u \in S
  <2> SUFFICES ASSUME u \notin S PROVE FALSE
    OBVIOUS
  <2>1. PICK y \in S : TRUE
    OBVIOUS
  <2>2. u \in Nat /\ \A x \in S : x <= u
    BY <1>1
  <2>3. \A x \in S : x \in Nat /\ x <= u - 1
    BY <2>2
  <2>4. u - 1 \in U
    BY <2>1, <2>2, <2>3
  <2> QED BY <1>1, <2>2, <2>4
<1>3. \E x \in S : \A y \in S : x >= y
  BY <1>1, <1>2
<1> QED BY <1>3 DEF Max

\* evictOverCapLocked takes ids until the bodies fit, and no more.
LEMMA OverCapTakes ==
    ASSUME NEW s \in Seq(Events), NEW K \in Finite, K \subseteq Ids(s),
           NEW n, n = OverCap(s, K, Bytes(K))
    PROVE  /\ n \in 0..Len(s)
           /\ Bytes(K) - Bytes(Evicted(s, n) \cap K) = Bytes(K \ Evicted(s, n))
           /\ Bytes(K \ Evicted(s, n)) <= MaxBytes
           /\ \A m \in 0..Len(s) : m < n => Bytes(K \ Evicted(s, m)) > MaxBytes
<1> DEFINE N == {m \in 0..Len(s) : Bytes(K) - Bytes(Evicted(s, m) \cap K) <= MaxBytes \/ m = Len(s)}
<1>0. Len(s) \in Nat
  OBVIOUS
<1>1. ASSUME NEW E
      PROVE  /\ Bytes(K) - Bytes(E \cap K) = Bytes(K \ E)
             /\ Bytes(K \ E) \in Nat
  <2>1. E \cap K \in SUBSET K /\ K \ E = K \ (E \cap K)
    OBVIOUS
  <2>2. Bytes(K \ (E \cap K)) = Bytes(K) - Bytes(E \cap K) /\ Bytes(K \ (E \cap K)) \in Nat
    BY <2>1, BytesPart
  <2> QED BY <2>1, <2>2
<1>2. n \in N /\ \A m \in N : n <= m
  <2>1. N \in SUBSET Nat /\ Len(s) \in N
    BY <1>0
  <2>2. n = Min(N)
    BY DEF OverCap
  <2> HIDE DEF N
  <2> QED BY <2>1, <2>2, MinOf
<1>3. n \in 0..Len(s)
  BY <1>2
<1>6. MaxBytes \in Nat
  BY StoreAssumption
<1>4. Bytes(K \ Evicted(s, n)) <= MaxBytes
  <2>1. CASE n = Len(s)
    <3>1. Evicted(s, n) = Ids(s)
      BY <2>1, <1>3, EvictedOf, IdsOf
    <3>2. K \ Evicted(s, n) = {}
      BY <3>1
    <3>3. {} \in Finite
      BY Parts
    <3>4. Bytes({}) = 0
      BY <3>3, BytesTurn
    <3>5. Bytes(K \ Evicted(s, n)) = 0
      BY <3>2, <3>4, Zenon
    <3> QED BY <1>6, <3>5
  <2>2. CASE n # Len(s)
    BY <1>1, <1>2, <2>2
  <2> QED BY <2>1, <2>2
<1>5. ASSUME NEW m \in 0..Len(s), m < n PROVE Bytes(K \ Evicted(s, m)) > MaxBytes
  <2>1. m \notin N
    BY <1>0, <1>2, <1>3, <1>5
  <2>2. ~(Bytes(K) - Bytes(Evicted(s, m) \cap K) <= MaxBytes)
    BY <2>1
  <2>3. ~(Bytes(K \ Evicted(s, m)) <= MaxBytes)
    BY <1>1, <2>2
  <2>4. Bytes(K \ Evicted(s, m)) \in Nat
    BY <1>1
  <2> QED BY <1>6, <2>3, <2>4
<1> QED BY <1>1, <1>3, <1>4, <1>5

\* evictExpiredLocked takes what is gone or expired, and stops at a body that is
\* neither.
LEMMA ExpiredPrefixTakes ==
    ASSUME order \in Seq(Events), NEW t, NEW n, n = ExpiredPrefix(t)
    PROVE  /\ n \in 0..Len(order)
           /\ \A x \in Evicted(order, n) : x \notin kept \/ Expired(x, t)
           /\ n < Len(order) => order[n + 1] \in kept /\ ~Expired(order[n + 1], t)
<1> DEFINE Gone(i) == order[i] \notin kept \/ Expired(order[i], t)
           N == {m \in 0..Len(order) : \A i \in 1..m : Gone(i)}
<1>0. Len(order) \in Nat
  OBVIOUS
<1>1. n \in N /\ \A m \in N : m <= n
  <2>1. N \in SUBSET Nat /\ 0 \in N /\ \A m \in N : m <= Len(order)
    BY <1>0
  <2>2. n = Max(N)
    BY DEF ExpiredPrefix
  <2> HIDE DEF N
  <2> QED BY <1>0, <2>1, <2>2, MaxOf
<1>2. n \in 0..Len(order) /\ \A i \in 1..n : Gone(i)
  BY <1>1
<1>3. ASSUME NEW x \in Evicted(order, n) PROVE x \notin kept \/ Expired(x, t)
  <2>1. PICK i \in 1..n : x = order[i]
    BY <1>2, <1>3, EvictedOf
  <2> QED BY <1>2, <2>1
<1>4. ASSUME n < Len(order) PROVE ~Gone(n + 1)
  <2> SUFFICES ASSUME Gone(n + 1) PROVE FALSE
    OBVIOUS
  <2>1. n + 1 \in 0..Len(order) /\ \A i \in 1..(n + 1) : i \in 1..n \/ i = n + 1
    BY <1>0, <1>2, <1>4
  <2> HIDE DEF Gone
  <2>2. \A i \in 1..(n + 1) : Gone(i)
    BY <1>2, <2>1
  <2>3. n + 1 \in N
    BY <2>1, <2>2
  <2> HIDE DEF N
  <2>4. n + 1 <= n
    BY <1>1, <2>3
  <2> QED BY <1>2, <2>4
<1> QED BY <1>2, <1>3, <1>4

-----------------------------------------------------------------------------
(***************************************************************************)
(* The event store.                                                        *)
(***************************************************************************)

\* The variables of the store have their types.
StoreTypes ==
    /\ now \in Nat /\ stamp \in [Events -> Nat \cup {NoTime}]
    /\ order \in Seq(Events) /\ issued \in Seq(Events)

\* The clock was read before an event was stored, and not in the future.
Stamped ==
    /\ \A e \in Events : stamp[e] # NoTime => stamp[e] <= now
    /\ \A e \in Ids(issued) : stamp[e] # NoTime

\* The queue is what was stored last, and holds every body.
Queued == Suffix(order, issued) /\ Once(issued) /\ kept \subseteq Ids(order)

\* The inductive invariant.
StoreInv == StoreTypes /\ Stamped /\ Queued /\ BytesExact /\ NotEvictedEarly

\* The ids from place i on.
LEMMA LaterIds ==
    ASSUME NEW s \in Seq(Events), NEW i \in 1..Len(s)
    PROVE  Ids(SubSeq(s, i, Len(s))) = {s[k] : k \in i..Len(s)}
<1> DEFINE f == SubSeq(s, i, Len(s))
<1>1. /\ Len(s) \in Nat /\ DOMAIN f = 1..(Len(s) - i + 1)
      /\ \A k \in 1..(Len(s) - i + 1) : f[k] = s[i + k - 1]
  OBVIOUS
<1> HIDE DEF f
<1>2. ASSUME NEW k \in DOMAIN f PROVE i + k - 1 \in i..Len(s) /\ f[k] = s[i + k - 1]
  BY <1>1
<1>3. ASSUME NEW k \in i..Len(s) PROVE k - i + 1 \in DOMAIN f /\ f[k - i + 1] = s[k]
  <2>1. k - i + 1 \in 1..(Len(s) - i + 1) /\ i + (k - i + 1) - 1 = k
    BY <1>1
  <2> QED BY <1>1, <2>1
<1>4. Ids(f) = {s[k] : k \in i..Len(s)}
  BY <1>2, <1>3 DEF Ids
<1> QED BY <1>4 DEF f

\* What add does under the lock: e is stored behind what the first sweep left, and
\* the second takes as little as it can.
LEMMA AddStores ==
    ASSUME StoreInv, NEW e \in Events, Add(e)
    PROVE  \E s \in Seq(Events), K \in Finite : \E n \in 0..Len(s) :
            /\ issued' = Append(issued, e) /\ Suffix(s, issued') /\ Once(issued') /\ Once(s)
            /\ K = (kept \ Evicted(order, ExpiredPrefix(stamp[e]))) \cup {e}
            /\ K \subseteq Ids(s)
            /\ order' = Rest(s, n) /\ kept' = K \ Evicted(s, n)
            /\ bytes' = Bytes(kept') /\ bytes' <= MaxBytes
            /\ \A m \in 0..Len(s) : m < n => Bytes(K \ Evicted(s, m)) > MaxBytes
<1>0. /\ order \in Seq(Events) /\ issued \in Seq(Events) /\ e \notin Ids(issued)
      /\ Suffix(order, issued) /\ Once(issued) /\ kept \subseteq Ids(order) /\ bytes = Bytes(kept)
  BY DEF StoreInv, StoreTypes, Queued, BytesExact, Add
<1>1. PICK n1 : n1 = ExpiredPrefix(stamp[e])
  OBVIOUS
<1>2. n1 \in 0..Len(order)
  BY <1>0, <1>1, ExpiredPrefixTakes
<1>3. PICK r : r = Rest(order, n1)
  OBVIOUS
<1>4. PICK k : k = kept \ Evicted(order, n1)
  OBVIOUS
<1>5. Once(order) /\ Ids(order) \subseteq Ids(issued)
  BY <1>0, OnceSuffix
<1>6. /\ r \in Seq(Events) /\ Suffix(r, issued) /\ Once(r)
      /\ Ids(r) = Ids(order) \ Evicted(order, n1)
  BY <1>0, <1>2, <1>3, <1>5, RestOf, RestIsRest, SuffixRest
<1>7. kept \in Finite /\ k \in Finite /\ e \notin k /\ e \notin Ids(r) /\ k \subseteq Ids(r)
  <2>1. Ids(order) \in Finite
    BY <1>0, IdsFinite
  <2>2. kept \in Finite
    BY <1>0, <2>1, Parts
  <2>3. k \in SUBSET kept
    BY <1>4
  <2> QED BY <1>0, <1>4, <1>5, <1>6, <2>2, <2>3, Parts
<1>8. bytes - Bytes(Evicted(order, n1) \cap kept) + Size[e] = Bytes(k \cup {e})
  <2>1. Evicted(order, n1) \cap kept \in SUBSET kept
        /\ k = kept \ (Evicted(order, n1) \cap kept)
    BY <1>4
  <2>2. Bytes(k) = Bytes(kept) - Bytes(Evicted(order, n1) \cap kept) /\ Bytes(k) \in Nat
    BY <1>7, <2>1, BytesPart
  <2>3. Bytes(k \cup {e}) = Size[e] + Bytes(k)
    BY <1>7, BytesAdd
  <2>4. Size[e] \in Nat
    BY StoreAssumption
  <2> QED BY <1>0, <2>2, <2>3, <2>4
<1>9. PICK s : s = Append(r, e)
  OBVIOUS
<1>10. PICK K : K = k \cup {e}
  OBVIOUS
<1>11. /\ s \in Seq(Events) /\ Suffix(s, Append(issued, e)) /\ Once(s)
       /\ Once(Append(issued, e)) /\ Ids(s) = Ids(r) \cup {e}
  <2>1. Suffix(s, Append(issued, e))
    BY <1>0, <1>6, <1>9, SuffixAppend
  <2>2. Once(s) /\ Ids(s) = Ids(r) \cup {e}
    BY <1>6, <1>7, <1>9, OnceAppend
  <2>3. Once(Append(issued, e))
    BY <1>0, OnceAppend
  <2>4. s \in Seq(Events)
    BY <1>6, <1>9
  <2> QED BY <2>1, <2>2, <2>3, <2>4
<1>12. K \in Finite /\ K \subseteq Ids(s)
  BY <1>7, <1>10, <1>11, Parts
<1>13. PICK n : n = OverCap(s, K, Bytes(K))
  OBVIOUS
<1>14. /\ n \in 0..Len(s)
       /\ Bytes(K) - Bytes(Evicted(s, n) \cap K) = Bytes(K \ Evicted(s, n))
       /\ Bytes(K \ Evicted(s, n)) <= MaxBytes
       /\ \A m \in 0..Len(s) : m < n => Bytes(K \ Evicted(s, m)) > MaxBytes
  BY <1>11, <1>12, <1>13, OverCapTakes
<1>15. /\ order' = Rest(s, n) /\ kept' = K \ Evicted(s, n)
       /\ bytes' = Bytes(K) - Bytes(Evicted(s, n) \cap K)
       /\ issued' = Append(issued, e)
  BY <1>1, <1>3, <1>4, <1>8, <1>9, <1>10, <1>13, Zenon DEF Add
<1>16. K = (kept \ Evicted(order, ExpiredPrefix(stamp[e]))) \cup {e}
  BY <1>1, <1>4, <1>10
<1>17. bytes' = Bytes(kept') /\ bytes' <= MaxBytes
  BY <1>14, <1>15
<1>18. Suffix(s, issued') /\ Once(issued')
  BY <1>11, <1>15
<1> QED BY <1>11, <1>12, <1>14, <1>15, <1>16, <1>17, <1>18

LEMMA InitStore == StoreInit => StoreInv
<1> SUFFICES ASSUME StoreInit PROVE StoreInv
  OBVIOUS
<1>1. StoreTypes /\ Stamped
  BY DEF StoreInit, StoreTypes, Stamped, Ids
<1>2. Queued
  BY DEF StoreInit, Queued, Suffix, Once, Ids
<1>3. BytesExact
  <2>1. {} \in Finite
    BY FS_EmptySet DEF Finite
  <2>2. Bytes({}) = 0
    BY <2>1, BytesTurn
  <2>3. bytes = 0 /\ kept = {} /\ MaxBytes \in Nat
    BY StoreAssumption DEF StoreInit
  <2>4. bytes = Bytes(kept)
    BY <2>2, <2>3, Zenon
  <2> QED BY <2>3, <2>4 DEF BytesExact
<1>4. NotEvictedEarly
  BY DEF StoreInit, NotEvictedEarly
<1> QED BY <1>1, <1>2, <1>3, <1>4 DEF StoreInv

\* A body that has not expired, and fits with what came after it, is still there
\* after another event was stored.
LEMMA AddKeeps ==
    ASSUME StoreInv, NEW e \in Events, Add(e)
    PROVE  NotEvictedEarly'
<1>1. PICK s \in Seq(Events), K \in Finite : \E n \in 0..Len(s) :
        /\ issued' = Append(issued, e) /\ Suffix(s, issued') /\ Once(issued') /\ Once(s)
        /\ K = (kept \ Evicted(order, ExpiredPrefix(stamp[e]))) \cup {e}
        /\ K \subseteq Ids(s)
        /\ order' = Rest(s, n) /\ kept' = K \ Evicted(s, n)
        /\ \A m \in 0..Len(s) : m < n => Bytes(K \ Evicted(s, m)) > MaxBytes
  BY AddStores
<1>2. PICK n \in 0..Len(s) :
        /\ issued' = Append(issued, e) /\ Suffix(s, issued') /\ Once(issued') /\ Once(s)
        /\ K = (kept \ Evicted(order, ExpiredPrefix(stamp[e]))) \cup {e}
        /\ K \subseteq Ids(s)
        /\ order' = Rest(s, n) /\ kept' = K \ Evicted(s, n)
        /\ \A m \in 0..Len(s) : m < n => Bytes(K \ Evicted(s, m)) > MaxBytes
  BY <1>1
<1>3. /\ issued \in Seq(Events) /\ order \in Seq(Events) /\ now \in Nat
      /\ stamp[e] \in Nat /\ stamp[e] <= now /\ UNCHANGED <<now, stamp>>
      /\ stamp \in [Events -> Nat \cup {NoTime}] /\ \A x \in Ids(issued) : stamp[x] # NoTime
  BY StoreAssumption DEF StoreInv, StoreTypes, Stamped, Add
<1>4. PICK t : t = Append(issued, e)
  OBVIOUS
<1>5. /\ t \in Seq(Events) /\ Len(t) = Len(issued) + 1 /\ Len(issued) \in Nat /\ Len(s) \in Nat
      /\ \A i \in 1..Len(issued) : t[i] = issued[i]
      /\ t[Len(issued) + 1] = e /\ DOMAIN t = 1..Len(t) /\ DOMAIN issued = 1..Len(issued)
      /\ t = issued'
  BY <1>2, <1>3, <1>4
<1>6. /\ Suffix(s, t) /\ Once(t) /\ Once(s) /\ n \in 0..Len(s)
      /\ \A i \in 1..Len(issued) : issued[i] \in Events /\ issued[i] \in Ids(issued)
  BY <1>2, <1>3, <1>4 DEF Ids
<1>7. ASSUME NEW i \in 1..Len(t), NEW later, later = Ids(SubSeq(t, i, Len(t))),
             ~Expired(t[i], now), Bytes(later) <= MaxBytes
      PROVE  t[i] \in K \ Evicted(s, n)
  <2>1. later = {t[k] : k \in i..Len(t)} /\ later \in Finite
    <3>1. later = {t[k] : k \in i..Len(t)}
      BY <1>5, <1>7, LaterIds
    <3>2. Ids(t) \in Finite /\ Ids(t) = {t[k] : k \in 1..Len(t)}
      BY <1>5, IdsFinite DEF Ids
    <3>3. \A k \in i..Len(t) : k \in 1..Len(t)
      BY <1>5
    <3>4. later \in SUBSET Ids(t)
      BY <3>1, <3>2, <3>3
    <3> QED BY <3>1, <3>2, <3>4, Parts
  <2>2. Bytes(later) \in Nat /\ MaxBytes \in Nat
    BY <2>1, BytesTurn, StoreAssumption
  <2>3. t[i] \in K
    <3>1. CASE i = Len(issued) + 1
      BY <1>2, <1>5, <3>1
    <3>2. CASE i # Len(issued) + 1
      <4> DEFINE old == Ids(SubSeq(issued, i, Len(issued)))
      <4>1. i \in 1..Len(issued) /\ t[i] = issued[i]
        BY <1>5, <3>2
      <4>2. old = {issued[k] : k \in i..Len(issued)}
        BY <1>3, <4>1, LaterIds
      <4>3. old \in SUBSET later
        <5>1. \A k \in i..Len(issued) : k \in i..Len(t) /\ issued[k] = t[k]
          BY <1>5, <4>1
        <5> HIDE DEF old
        <5> QED BY <2>1, <4>2, <5>1
      <4>4. Bytes(old) <= MaxBytes
        <5> HIDE DEF old
        <5>1. Bytes(old) \in Nat /\ Bytes(old) <= Bytes(later)
          BY <2>1, <4>3, BytesPart
        <5> QED BY <1>7, <2>2, <5>1
      <4>5. issued[i] \in kept
        BY <1>5, <1>7, <4>1, <4>4 DEF StoreInv, NotEvictedEarly
      <4>6. ~Expired(issued[i], stamp[e])
        <5>1. stamp[issued[i]] \in Nat
          BY <1>3, <1>6, <4>1
        <5>2. ~(now > stamp[issued[i]] + TTL) /\ TTL \in Nat
          BY <1>7, <4>1, StoreAssumption DEF Expired
        <5> QED BY <1>3, <5>1, <5>2 DEF Expired
      <4>7. issued[i] \notin Evicted(order, ExpiredPrefix(stamp[e]))
        BY <1>3, <4>5, <4>6, ExpiredPrefixTakes
      <4> QED BY <1>2, <4>1, <4>5, <4>7
    <3> QED BY <3>1, <3>2
  <2>4. t[i] \notin Evicted(s, n)
    <3> SUFFICES ASSUME t[i] \in Evicted(s, n) PROVE FALSE
      OBVIOUS
    <3>1. PICK j \in 1..n : t[i] = s[j]
      <4>1. Evicted(s, n) = {s[j] : j \in 1..n}
        BY EvictedOf
      <4> QED BY <4>1
    <3>2. j \in 1..Len(s) /\ j - 1 \in 0..Len(s) /\ j - 1 < n
      BY <1>5, <3>1
    <3>3. \A l \in 1..Len(s) : /\ Len(t) - Len(s) + l \in 1..Len(t)
                               /\ s[l] = t[Len(t) - Len(s) + l]
      BY <1>5, <1>6 DEF Suffix
    <3>4. i = Len(t) - Len(s) + j
      <4>1. Len(t) - Len(s) + j \in 1..Len(t) /\ t[i] = t[Len(t) - Len(s) + j]
        BY <3>1, <3>2, <3>3
      <4> QED BY <1>6, <4>1 DEF Once
    <3>5. K \ Evicted(s, j - 1) \in SUBSET later
      <4> SUFFICES ASSUME NEW y \in K, y \notin Evicted(s, j - 1) PROVE y \in later
        OBVIOUS
      <4>1. PICK l \in 1..Len(s) : y = s[l]
        BY <1>2 DEF Ids
      <4>2. l \notin 1..(j - 1)
        <5>1. Evicted(s, j - 1) = {s[k] : k \in 1..(j - 1)}
          BY <3>2, EvictedOf
        <5> QED BY <4>1, <5>1
      <4>3. Len(t) - Len(s) + l \in i..Len(t)
        BY <1>5, <3>2, <3>3, <3>4, <4>2
      <4> QED BY <2>1, <3>3, <4>1, <4>3
    <3>6. Bytes(K \ Evicted(s, j - 1)) > MaxBytes
      BY <1>2, <3>2
    <3>7. /\ Bytes(K \ Evicted(s, j - 1)) \in Nat
          /\ Bytes(K \ Evicted(s, j - 1)) <= Bytes(later)
      BY <2>1, <3>5, BytesPart
    <3> QED BY <1>7, <2>2, <3>6, <3>7
  <2> QED BY <2>3, <2>4
<1>8. ASSUME NEW i \in 1..Len(t), ~Expired(t[i], now), Bytes(Ids(SubSeq(t, i, Len(t)))) <= MaxBytes
      PROVE  t[i] \in kept'
  BY <1>2, <1>7, <1>8
<1>9. \A i \in DOMAIN issued' :
        ~(now' > stamp'[issued'[i]] + TTL)
            /\ Bytes(Ids(SubSeq(issued', i, Len(issued')))) <= MaxBytes => issued'[i] \in kept'
  BY <1>3, <1>5, <1>8 DEF Expired
<1> QED BY <1>9 DEF NotEvictedEarly, Expired

\* The store as add leaves it.
LEMMA AddStep ==
    ASSUME StoreInv, NEW e \in Events, Add(e)
    PROVE  StoreInv'
<1>1. PICK s \in Seq(Events), K \in Finite : \E n \in 0..Len(s) :
        /\ issued' = Append(issued, e) /\ Suffix(s, issued') /\ Once(issued') /\ Once(s)
        /\ K \subseteq Ids(s)
        /\ order' = Rest(s, n) /\ kept' = K \ Evicted(s, n)
        /\ bytes' = Bytes(kept') /\ bytes' <= MaxBytes
  BY AddStores
<1>2. PICK n \in 0..Len(s) :
        /\ issued' = Append(issued, e) /\ Suffix(s, issued') /\ Once(issued') /\ Once(s)
        /\ K \subseteq Ids(s)
        /\ order' = Rest(s, n) /\ kept' = K \ Evicted(s, n)
        /\ bytes' = Bytes(kept') /\ bytes' <= MaxBytes
  BY <1>1
<1>3. StoreTypes /\ stamp[e] # NoTime /\ e \notin Ids(issued) /\ UNCHANGED <<now, stamp>>
  BY DEF StoreInv, Add
<1>4. issued' \in Seq(Events) /\ order' \in Seq(Events)
  BY <1>2, <1>3, RestOf DEF StoreTypes
<1>5. StoreTypes'
  BY <1>3, <1>4 DEF StoreTypes
<1>6. Stamped'
  <2>1. Once(issued) /\ issued \in Seq(Events)
    BY DEF StoreInv, Queued, StoreTypes
  <2>2. Ids(issued') = Ids(issued) \cup {e}
    BY <1>2, <1>3, <2>1, OnceAppend
  <2>3. \A x \in Ids(issued') : stamp[x] # NoTime
    BY <1>3, <2>2 DEF StoreInv, Stamped
  <2> QED BY <1>3, <2>3 DEF StoreInv, Stamped, Ids
<1>7. Suffix(order', issued') /\ Once(issued') /\ kept' \subseteq Ids(order')
  <2>1. Suffix(order', issued')
    BY <1>2, <1>4, SuffixRest
  <2>2. Ids(order') = Ids(s) \ Evicted(s, n)
    BY <1>2, RestIsRest
  <2> QED BY <1>2, <2>1, <2>2
<1>8. Queued'
  BY <1>7 DEF Queued, Suffix, Once, Ids
<1>9. BytesExact'
  BY <1>2 DEF BytesExact
<1> QED BY <1>5, <1>6, <1>8, <1>9, AddKeeps DEF StoreInv

LEMMA StoreStep == StoreInv /\ [StoreNext]_storeVars => StoreInv'
<1> SUFFICES ASSUME StoreInv, [StoreNext]_storeVars PROVE StoreInv'
  OBVIOUS
<1>0. StoreTypes /\ Stamped /\ Queued /\ BytesExact /\ NotEvictedEarly
  BY DEF StoreInv
<1>1. ASSUME UNCHANGED <<now, stamp, kept, order, bytes, issued>> PROVE StoreInv'
  <2>1. StoreTypes' /\ Stamped'
    BY <1>0, <1>1 DEF StoreTypes, Stamped, Ids
  <2>2. Queued'
    BY <1>0, <1>1 DEF Queued, Suffix, Once, Ids
  <2>3. BytesExact' /\ NotEvictedEarly'
    BY <1>0, <1>1 DEF BytesExact, NotEvictedEarly, Expired, Ids
  <2> QED BY <2>1, <2>2, <2>3 DEF StoreInv
<1>2. ASSUME NEW e \in Events, AddBegin(e) PROVE StoreInv'
  <2>1. /\ stamp[e] = NoTime /\ stamp' = [stamp EXCEPT ![e] = now]
        /\ UNCHANGED <<now, kept, order, bytes, issued>>
    BY <1>2 DEF AddBegin
  <2>2. e \notin Ids(issued) /\ Ids(issued) \subseteq Events
    BY <1>0, <2>1 DEF Stamped, StoreTypes, Ids
  <2>3. \A x \in Ids(issued) : stamp'[x] = stamp[x]
    BY <1>0, <2>1, <2>2 DEF StoreTypes
  <2>4. StoreTypes'
    BY <1>0, <2>1 DEF StoreTypes
  <2>5. Stamped'
    <3>1. \A x \in Events : stamp'[x] # NoTime => stamp'[x] <= now
      BY <1>0, <2>1 DEF Stamped, StoreTypes
    <3>2. \A x \in Ids(issued) : stamp'[x] # NoTime
      BY <1>0, <2>3 DEF Stamped
    <3> QED BY <2>1, <3>1, <3>2 DEF Stamped, Ids
  <2>6. Queued'
    BY <1>0, <2>1 DEF Queued, Suffix, Once, Ids
  <2>7. BytesExact'
    BY <1>0, <2>1 DEF BytesExact
  <2>8. NotEvictedEarly'
    <3>1. \A i \in DOMAIN issued : stamp'[issued[i]] = stamp[issued[i]]
      BY <2>3 DEF Ids
    <3> QED BY <1>0, <2>1, <3>1 DEF NotEvictedEarly, Expired
  <2> QED BY <2>4, <2>5, <2>6, <2>7, <2>8 DEF StoreInv
<1>3. ASSUME NEW e \in Events, GetExpired(e) PROVE StoreInv'
  <2>1. /\ e \in kept /\ Expired(e, now) /\ kept' = kept \ {e} /\ bytes' = bytes - Size[e]
        /\ UNCHANGED <<now, stamp, order, issued>>
    BY <1>3 DEF GetExpired, DropBody
  <2>2. StoreTypes' /\ Stamped'
    BY <1>0, <2>1 DEF StoreTypes, Stamped, Ids
  <2>3. Queued'
    BY <1>0, <2>1 DEF Queued, Suffix, Once, Ids
  <2>4. BytesExact'
    <3>1. kept \in Finite
      <4>1. Ids(order) \in Finite /\ kept \in SUBSET Ids(order)
        BY <1>0, IdsFinite DEF StoreTypes, Queued
      <4> QED BY <4>1, Parts
    <3>2. kept' \in Finite /\ e \notin kept' /\ kept' \cup {e} = kept
      BY <2>1, <3>1, Parts
    <3>3. PICK k : k = kept'
      OBVIOUS
    <3>4. Bytes(kept) = Size[e] + Bytes(k) /\ Bytes(k) \in Nat
      BY <3>2, <3>3, BytesAdd, BytesTurn
    <3>5. Size[e] \in Nat /\ MaxBytes \in Nat
      BY StoreAssumption
    <3>6. bytes' = Bytes(k) /\ bytes' <= MaxBytes
      BY <1>0, <2>1, <3>4, <3>5 DEF BytesExact
    <3> QED BY <3>3, <3>6 DEF BytesExact
  <2>5. NotEvictedEarly'
    BY <1>0, <2>1 DEF NotEvictedEarly, Expired
  <2> QED BY <2>2, <2>3, <2>4, <2>5 DEF StoreInv
<1>4. ASSUME Tick PROVE StoreInv'
  <2>1. now' = now + 1 /\ UNCHANGED <<stamp, kept, order, bytes, issued>>
    BY <1>4 DEF Tick
  <2>2. StoreTypes'
    BY <1>0, <2>1 DEF StoreTypes
  <2>3. Stamped'
    <3>1. ASSUME NEW x \in Events, stamp[x] # NoTime PROVE stamp[x] <= now + 1
      <4>1. stamp[x] \in Nat /\ stamp[x] <= now /\ now \in Nat
        BY <1>0, <3>1 DEF StoreTypes, Stamped
      <4> QED BY <4>1
    <3> QED BY <1>0, <2>1, <3>1 DEF Stamped, Ids
  <2>4. Queued' /\ BytesExact'
    BY <1>0, <2>1 DEF Queued, Suffix, Once, Ids, BytesExact
  <2>5. NotEvictedEarly'
    <3>1. ASSUME NEW i \in DOMAIN issued, ~Expired(issued[i], now + 1)
          PROVE  ~Expired(issued[i], now)
      <4>1. stamp[issued[i]] \in Nat /\ now \in Nat /\ TTL \in Nat
        <5>1. issued[i] \in Ids(issued) /\ issued[i] \in Events
          BY <1>0 DEF Ids, StoreTypes
        <5> QED BY <1>0, <5>1, StoreAssumption DEF StoreTypes, Stamped
      <4> QED BY <3>1, <4>1 DEF Expired
    <3> QED BY <1>0, <2>1, <3>1 DEF NotEvictedEarly, Expired
  <2> QED BY <2>2, <2>3, <2>4, <2>5 DEF StoreInv
<1>5. ASSUME NEW e \in Events, NEW p \in Readers, Allow(e, p) PROVE StoreInv'
  BY <1>1, <1>5 DEF Allow
<1>6. CASE UNCHANGED storeVars
  BY <1>1, <1>6 DEF storeVars
<1> QED BY <1>2, <1>3, <1>4, <1>5, <1>6, AddStep DEF StoreNext

LEMMA StoreAlways == StoreSpec => []StoreInv
BY InitStore, StoreStep, PTL DEF StoreSpec

\* The byte count of the store is that of the bodies it holds and within the limit,
\* and every body is in the queue once, however add, allow and get interleave.
THEOREM StoreIsExact == StoreSpec => []StoreExact
<1>1. StoreInv => StoreExact
  <2> SUFFICES ASSUME StoreInv, NEW e \in kept
               PROVE  Cardinality({i \in DOMAIN order : order[i] = e}) = 1
    BY DEF StoreInv, StoreExact, KeptIsQueued
  <2>1. order \in Seq(Events) /\ Once(order) /\ e \in Ids(order)
    BY OnceSuffix DEF StoreInv, StoreTypes, Queued
  <2>2. PICK i \in 1..Len(order) : order[i] = e
    BY <2>1 DEF Ids
  <2>3. {j \in DOMAIN order : order[j] = e} = {i}
    BY <2>1, <2>2 DEF Once
  <2> QED BY <2>3, FS_Singleton
<1> QED BY <1>1, StoreAlways, PTL

\* Before its time is up, a body is evicted by add only if it does not fit with what
\* was stored after it.
THEOREM NothingEvictedEarly == StoreSpec => []NotEvictedEarly
<1>1. StoreInv => NotEvictedEarly
  BY DEF StoreInv
<1> QED BY <1>1, StoreAlways, PTL

\* A body that is left after add has stored another one has not expired by the clock
\* of that add, unless it was stored after an event whose clock was read later.
THEOREM ExpiredFreed == StoreSpec => ExpiredGone
<1>1. ASSUME StoreInv, [StoreNext]_storeVars, issued' # issued,
             NEW x \in kept', ~Overtaken(x)'
      PROVE  ~Expired(x, stamp[issued'[Len(issued')]])
  <2>1. PICK e \in Events : Add(e)
    BY <1>1 DEF StoreNext, storeVars, AddBegin, GetExpired, Allow, Tick
  <2>2. /\ order \in Seq(Events) /\ issued \in Seq(Events) /\ UNCHANGED stamp
        /\ stamp[e] \in Nat /\ TTL \in Nat /\ Suffix(order, issued) /\ Once(issued)
    BY <1>1, <2>1, StoreAssumption DEF StoreInv, StoreTypes, Queued, Add
  <2>3. PICK t : t = Append(issued, e)
    OBVIOUS
  <2>4. /\ issued' = t /\ Len(t) = Len(issued) + 1 /\ t[Len(t)] = e /\ Len(issued) \in Nat
        /\ \A i \in 1..Len(issued) : t[i] = issued[i]
        /\ DOMAIN t = 1..Len(t)
    BY <2>1, <2>2, <2>3 DEF Add
  <2>5. PICK n : n = ExpiredPrefix(stamp[e])
    OBVIOUS
  <2>6. /\ n \in 0..Len(order)
        /\ n < Len(order) => order[n + 1] \in kept /\ ~Expired(order[n + 1], stamp[e])
    BY <2>2, <2>5, ExpiredPrefixTakes
  <2>7. x \in (kept \ Evicted(order, n)) \cup {e}
    BY <1>1, <2>1, <2>5, AddStores
  <2>8. CASE x = e
    BY <2>2, <2>4, <2>8 DEF Expired
  <2>9. CASE x # e
    <3>1. x \in kept /\ x \notin Evicted(order, n) /\ x \in Ids(order)
      BY <1>1, <2>7, <2>9 DEF StoreInv, Queued
    <3>2. PICK j \in 1..Len(order) : x = order[j]
      BY <2>2, <3>1 DEF Ids
    <3>3. j \notin 1..n
      <4>1. Evicted(order, n) = {order[i] : i \in 1..n}
        BY <2>2, <2>6, EvictedOf
      <4> QED BY <3>1, <3>2, <4>1
    <3>4. n + 1 \in 1..Len(order) /\ n + 1 <= j /\ ~Expired(order[n + 1], stamp[e])
      BY <2>2, <2>6, <3>2, <3>3
    <3> DEFINE k == Len(issued) - Len(order)
    <3>5. /\ k + j \in 1..Len(issued) /\ k + (n + 1) \in 1..Len(issued) /\ k + (n + 1) <= k + j
          /\ t[k + j] = x /\ t[k + (n + 1)] = order[n + 1]
      <4>1. k \in Nat /\ Len(order) \in Nat
        BY <2>2 DEF Suffix
      <4>2. \A i \in 1..Len(order) : order[i] = issued[k + i] /\ k + i \in 1..Len(issued)
        BY <2>2, <4>1 DEF Suffix
      <4> HIDE DEF k
      <4> QED BY <2>4, <2>6, <3>2, <3>4, <4>1, <4>2
    <3>6. stamp[order[n + 1]] \in Nat /\ stamp[x] \in Nat
      <4>1. Ids(order) \subseteq Ids(issued) /\ Ids(order) \subseteq Events
        <5>1. Ids(order) \subseteq Events
          BY <2>2 DEF Ids
        <5> QED BY <2>2, <5>1, OnceSuffix
      <4>2. x \in Ids(order) /\ order[n + 1] \in Ids(order)
        BY <2>2, <3>1, <3>4 DEF Ids
      <4> QED BY <1>1, <4>1, <4>2 DEF StoreInv, StoreTypes, Stamped
    <3>7. stamp[order[n + 1]] <= stamp[x]
      <4>1. CASE n + 1 = j
        BY <3>2, <3>6, <4>1
      <4>2. CASE n + 1 # j
        <5> HIDE DEF k
        <5>1. k + (n + 1) \in DOMAIN t /\ k + j \in DOMAIN t
          BY <2>4, <3>5
        <5>2. k + (n + 1) < k + j
          <6>1. k \in Int
            BY <2>2 DEF k
          <6> QED BY <2>6, <3>2, <3>5, <4>2, <6>1
        <5>3. ~(stamp[t[k + (n + 1)]] > stamp[x])
          <6>1. \A i, l \in DOMAIN t : ~(i < l /\ t[l] = x /\ stamp[t[i]] > stamp[x])
            BY <1>1, <2>2, <2>4 DEF Overtaken
          <6> QED BY <3>5, <5>1, <5>2, <6>1
        <5> QED BY <3>5, <3>6, <5>3
      <4> QED BY <4>1, <4>2
    <3>8. ~(stamp[e] > stamp[order[n + 1]] + TTL)
      BY <3>4 DEF Expired
    <3>9. ~(stamp[e] > stamp[x] + TTL)
      BY <2>2, <3>6, <3>7, <3>8
    <3> QED BY <2>4, <3>9 DEF Expired
  <2> QED BY <2>8, <2>9
<1>2. StoreInv /\ [StoreNext]_storeVars => FreesExpired
  BY <1>1 DEF FreesExpired
<1> QED BY <1>2, StoreAlways, PTL DEF StoreSpec, ExpiredGone
=============================================================================
