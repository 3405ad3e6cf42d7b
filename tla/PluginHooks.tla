---------------------------- MODULE PluginHooks -----------------------------
(***************************************************************************)
(* JavaScript plugins at work: notifications (PluginManager.Trigger) and   *)
(* dispatch decisions (Decide) share the manager's hook slots, and every   *)
(* plugin has a pool of runtimes.  A call is bounded by its context: when  *)
(* that ends, another goroutine interrupts the runtime.                    *)
(*                                                                         *)
(* The engine is external: an interrupted runtime stops the script it runs *)
(* or runs next, until ClearInterrupt (plugin_javascript.go uses it so).   *)
(***************************************************************************)
EXTENDS Naturals, Sequences, FiniteSets

CONSTANTS
    Plugins,           \* the plugins that export the decision hook, in load order
    Listeners,         \* those of them, by their place, that export the notified hook
    Decisions,         \* calls of Decide
    Notices,           \* hook runs of Trigger
    None,
    MaxHooks,          \* PluginMaxConcurrentHooks
    MaxRuntimes,       \* PluginMaxRuntimesPerPlugin
    MaxLoadErrors      \* bound on runtimes that cannot be built

Calls    == Decisions \cup Notices
Order    == 1..Len(Plugins)
Runtimes == 1..MaxRuntimes
Answers  == {"allow", "deny", "unknown", "throw"}

\* With no plugin at all nothing below happens; the limits are those of limits.go.
ASSUME HooksAssumption ==
    /\ Len(Plugins) \in Nat \ {0} /\ Listeners \subseteq Order
    /\ IsFiniteSet(Calls) /\ Decisions \cap Notices = {}
    /\ None \notin Nat
    /\ MaxHooks \in Nat \ {0} /\ MaxRuntimes \in Nat \ {0} /\ MaxLoadErrors \in Nat

VARIABLES
    sem,               \* taken hook slots
    pc,                \* where a call stands
    targets,           \* the plugins a decision asks
    plug,              \* the plugin it is at, by its place in the order
    rt,                \* the runtime it holds, or that its interrupt aims at
    timer,             \* the AfterFunc of its run
    late,              \* calls whose context has ended
    outcome,           \* how its last run ended
    opinion,           \* what each plugin says to a decision, if it gets to say it
    decision,          \* what Decide returned
    idle,              \* per plugin: runtimes in the pool
    slots,             \* per plugin: runtimes alive
    flag,              \* <<plugin, runtime>> with a pending interrupt
    broken,            \* plugins that were disabled
    loadErrors

callVars   == <<pc, targets, plug, rt, timer, outcome, decision>>
pluginVars == <<idle, slots, flag, broken, loadErrors>>

vars == <<sem, callVars, late, opinion, pluginVars>>

\* newJSPlugin: the first runtime is built when the plugin is loaded.
Init ==
    /\ sem = 0
    /\ pc = [c \in Calls |-> "new"]
    /\ targets = [c \in Calls |-> {}]
    /\ plug = [c \in Calls |-> 1]
    /\ rt = [c \in Calls |-> None]
    /\ timer = [c \in Calls |-> "off"]
    /\ late = {}
    /\ outcome = [c \in Calls |-> "none"]
    /\ opinion \in [Decisions -> [Order -> Answers]]
    /\ decision = [c \in Calls |-> "none"]
    /\ idle = [p \in Order |-> {1}]
    /\ slots = [p \in Order |-> 1]
    /\ flag = {} /\ broken = {} /\ loadErrors = 0

Goes(c, to) == pc' = [pc EXCEPT ![c] = to]
Ends(c, o)  == outcome' = [outcome EXCEPT ![c] = o]

-----------------------------------------------------------------------------
(***************************************************************************)
(* Admission.                                                              *)
(***************************************************************************)

\* Trigger, for one target: a goroutine if a slot is free, otherwise dropped.
Trigger(c, p) ==
    /\ c \in Notices /\ pc[c] = "new" /\ p \in Listeners \ broken
    /\ plug' = [plug EXCEPT ![c] = p]
    /\ IF sem < MaxHooks
       THEN sem' = sem + 1 /\ Goes(c, "run") /\ UNCHANGED outcome
       ELSE Ends(c, "dropped") /\ Goes(c, "end") /\ UNCHANGED sem
    /\ UNCHANGED <<targets, rt, timer, decision, late, opinion, pluginVars>>

\* Decide returns.
Returns(c, d) ==
    /\ decision' = [decision EXCEPT ![c] = d]
    /\ Goes(c, "end")

First(S) == CHOOSE p \in S : \A q \in S : p <= q

Decide(c) ==
    LET S == Order \ broken IN
    /\ c \in Decisions /\ pc[c] = "new"
    /\ targets' = [targets EXCEPT ![c] = S]
    /\ IF S = {} THEN Returns(c, "allow") /\ UNCHANGED plug
                 ELSE /\ plug' = [plug EXCEPT ![c] = First(S)]
                      /\ Goes(c, "admit") /\ UNCHANGED decision
    /\ UNCHANGED <<sem, rt, timer, outcome, late, opinion, pluginVars>>

\* A decision waits for its slot as long as its budget lasts.
Admit(c) ==
    /\ pc[c] = "admit"
    /\ \/ sem < MaxHooks /\ sem' = sem + 1 /\ Goes(c, "run") /\ UNCHANGED decision
       \/ c \in late /\ Returns(c, "timeout") /\ UNCHANGED sem
    /\ UNCHANGED <<targets, plug, rt, timer, outcome, late, opinion, pluginVars>>

\* The context of a call ends: its deadline.  An armed AfterFunc is started.
Expire(c) ==
    /\ pc[c] \notin {"new", "end"} /\ c \notin late
    /\ late' = late \cup {c}
    /\ timer' = [timer EXCEPT ![c] = IF @ = "armed" THEN "firing" ELSE @]
    /\ UNCHANGED <<targets, sem, pc, plug, rt, outcome, decision, opinion, pluginVars>>

-----------------------------------------------------------------------------
(***************************************************************************)
(* One run of a hook.                                                      *)
(***************************************************************************)

\* Mutant: a run without a runtime ends without freeing its hook slot.
RunFailsKeepingSlot(c, o) == Ends(c, o) /\ Goes(c, "end") /\ UNCHANGED timer

\* A run that got no runtime.
RunFails(c, o) == Ends(c, o) /\ Goes(c, "leave") /\ UNCHANGED timer

\* Mutant: the interrupt of a context that is already over is not started.
RunStartsArmed(c, r) ==
    /\ rt' = [rt EXCEPT ![c] = r]
    /\ timer' = [timer EXCEPT ![c] = "armed"]
    /\ Goes(c, "call") /\ UNCHANGED outcome

\* A run that got runtime r; AfterFunc of a context that is over starts at once.
RunStarts(c, r) ==
    /\ rt' = [rt EXCEPT ![c] = r]
    /\ timer' = [timer EXCEPT ![c] = IF c \in late THEN "firing" ELSE "armed"]
    /\ Goes(c, "call") /\ UNCHANGED outcome

\* run looks once whether the plugin was disabled; acquire takes an idle runtime if
\* there is one, also while it waits, ...
AcquireIdle(c) ==
    LET p == plug[c] IN
    /\ (pc[c] = "run" /\ p \notin broken) \/ pc[c] = "wait"
    /\ \E r \in idle[p] :
        /\ RunStarts(c, r)
        /\ idle' = [idle EXCEPT ![p] = @ \ {r}]
    /\ UNCHANGED <<targets, sem, plug, decision, late, opinion, slots, flag,
                   broken, loadErrors>>

\* Runtimes of plugin p that do not exist now.
Unused(p) == Runtimes \ (idle[p] \cup {rt[c] : c \in {d \in Calls : plug[d] = p}})

\* ... or goes on to wait, ...
AcquireWaits(c) ==
    /\ pc[c] = "run" /\ plug[c] \notin broken /\ idle[plug[c]] = {}
    /\ Goes(c, "wait")
    /\ UNCHANGED <<targets, sem, plug, rt, timer, outcome, decision, late, opinion, pluginVars>>

\* ... for room for a new runtime, in which the module's top level is then run, ...
AcquireNew(c) ==
    LET p == plug[c] IN
    /\ pc[c] = "wait" /\ slots[p] < MaxRuntimes
    /\ slots' = [slots EXCEPT ![p] = @ + 1]
    /\ \E r \in Unused(p) :
        /\ rt' = [rt EXCEPT ![c] = r]
        /\ flag' = flag \ {<<p, r>>}
    /\ Goes(c, "load")
    /\ UNCHANGED <<targets, sem, plug, timer, outcome, decision, late, opinion, idle, broken,
                   loadErrors>>

\* ... or for the end of its context.  A plugin found disabled is not run.
AcquireFails(c) ==
    /\ \/ pc[c] = "run" /\ plug[c] \in broken /\ RunFails(c, "error") /\ UNCHANGED rt
       \/ pc[c] = "wait" /\ c \in late /\ RunFails(c, "timeout") /\ UNCHANGED rt
    /\ UNCHANGED <<targets, sem, plug, decision, late, opinion, pluginVars>>

\* newRuntime: the module's top level returns.  No timer is set yet, so nothing
\* ends it if it does not.
LoadReturns(c) ==
    /\ pc[c] = "load"
    /\ RunStarts(c, rt[c])
    /\ UNCHANGED <<targets, sem, plug, decision, late, opinion, pluginVars>>

\* The plugin is disabled.
MarkBroken(p) == broken' = broken \cup {p}

\* Or it throws: the place in the pool is given back, and the plugin disabled.
LoadFails(c) ==
    LET p == plug[c] IN
    /\ pc[c] = "load"
    /\ loadErrors < MaxLoadErrors /\ loadErrors' = loadErrors + 1
    /\ slots' = [slots EXCEPT ![p] = @ - 1]
    /\ MarkBroken(p)
    /\ rt' = [rt EXCEPT ![c] = None]
    /\ RunFails(c, "error")
    /\ UNCHANGED <<targets, sem, plug, decision, late, opinion, idle, flag>>

\* How the script may end by itself; the return value of a notice is not read.
Says(c) == IF c \in Decisions THEN {opinion[c][plug[c]]} ELSE {"allow", "throw"}

\* release of a runtime that is not reused.
Drop(c) ==
    /\ slots' = [slots EXCEPT ![plug[c]] = @ - 1]
    /\ rt' = [rt EXCEPT ![c] = None]
    /\ Goes(c, "stop")
    /\ UNCHANGED <<idle, flag>>

\* The script is stopped by the interrupt.
CallInterrupted(c) ==
    /\ pc[c] = "call" /\ <<plug[c], rt[c]>> \in flag
    /\ Ends(c, "timeout") /\ Drop(c)
    /\ UNCHANGED <<targets, sem, plug, timer, decision, late, opinion, broken, loadErrors>>

CallThrows(c) ==
    /\ pc[c] = "call" /\ "throw" \in Says(c)
    /\ Ends(c, "error") /\ Drop(c)
    /\ UNCHANGED <<targets, sem, plug, timer, decision, late, opinion, broken, loadErrors>>

\* The hook returns: the interrupt is cleared and the runtime is put back.
CallReturns(c) ==
    LET p == plug[c] IN
    /\ pc[c] = "call" /\ \E a \in Says(c) \ {"throw"} : Ends(c, a)
    /\ flag' = flag \ {<<p, rt[c]>>}
    /\ idle' = [idle EXCEPT ![p] = @ \cup {rt[c]}]
    /\ Goes(c, "stop")
    /\ UNCHANGED <<targets, sem, plug, rt, timer, decision, late, opinion, slots,
                   broken, loadErrors>>

\* The goroutine of the AfterFunc interrupts the runtime of the run.
Fire(c) ==
    /\ timer[c] = "firing"
    /\ timer' = [timer EXCEPT ![c] = "fired"]
    /\ flag' = IF rt[c] = None THEN flag ELSE flag \cup {<<plug[c], rt[c]>>}
    /\ UNCHANGED <<targets, sem, pc, plug, rt, outcome, decision, late, opinion, idle,
                   slots, broken, loadErrors>>

\* The deferred stop: an AfterFunc that has started is waited for.
Stop(c) ==
    /\ pc[c] = "stop" /\ timer[c] # "firing"
    /\ timer' = [timer EXCEPT ![c] = "off"]
    /\ rt' = [rt EXCEPT ![c] = None]
    /\ Goes(c, "leave")
    /\ UNCHANGED <<targets, sem, plug, outcome, decision, late, opinion, pluginVars>>

-----------------------------------------------------------------------------
\* What Decide makes of a run: a failure allows at once, a veto denies, and
\* anything else leaves the answer to the next plugin.
Verdict(c) ==
    CASE outcome[c] = "timeout" -> "timeout"
      [] outcome[c] = "error"   -> "malformed"
      [] outcome[c] = "deny"    -> "deny"
      [] OTHER                  -> "next"

\* Mutant: an answer that is none counts as a plain allow.
LastAnswerSilent(c) == "allow"

\* What is left when every plugin was asked: how the last one answered.
LastAnswer(c) == IF outcome[c] = "unknown" THEN "malformed" ELSE "allow"

\* The hook slot is freed, and a decision goes on to the next plugin.  When the
\* call is over, its context and the outcome of its last run are gone.
Leave(c) ==
    /\ pc[c] = "leave"
    /\ sem' = sem - 1
    /\ LET after == {p \in targets[c] : p > plug[c]} IN
       \/ c \in Notices /\ Goes(c, "end") /\ UNCHANGED <<plug, decision>>
       \/ c \in Decisions /\ Verdict(c) # "next" /\ Returns(c, Verdict(c)) /\ UNCHANGED plug
       \/ /\ c \in Decisions /\ Verdict(c) = "next" /\ after = {}
          /\ Returns(c, LastAnswer(c)) /\ UNCHANGED plug
       \/ /\ c \in Decisions /\ Verdict(c) = "next" /\ after # {}
          /\ plug' = [plug EXCEPT ![c] = First(after)]
          /\ Goes(c, "admit") /\ UNCHANGED decision
    /\ IF pc'[c] = "end" THEN Ends(c, "none") /\ late' = late \ {c}
                         ELSE UNCHANGED <<outcome, late>>
    /\ UNCHANGED <<targets, rt, timer, opinion, pluginVars>>

Run(c) ==
    \/ AcquireIdle(c) \/ AcquireWaits(c) \/ AcquireNew(c) \/ AcquireFails(c)
    \/ CallInterrupted(c) \/ Stop(c) \/ Leave(c)

\* The script of a call ends by itself: the module's top level, or the hook.
Script(c) == LoadReturns(c) \/ LoadFails(c) \/ CallThrows(c) \/ CallReturns(c)

Next ==
    \E c \in Calls :
        \/ \E p \in Order : Trigger(c, p)
        \/ Decide(c) \/ Admit(c) \/ Expire(c) \/ Fire(c)
        \/ Run(c) \/ Script(c)

Spec == Init /\ [][Next]_vars

\* Contexts end, timers fire, and Go code runs on.  Nothing is assumed of Script:
\* a hook and a module's top level may spin for ever.
FairSpec ==
    /\ Spec
    /\ \A c \in Calls :
        /\ WF_vars(Admit(c)) /\ WF_vars(Expire(c))
        /\ WF_vars(Fire(c)) /\ WF_vars(Run(c))

-----------------------------------------------------------------------------
(***************************************************************************)
(* Properties.                                                             *)
(***************************************************************************)
InHook(c) == pc[c] \in {"run", "wait", "load", "call", "stop", "leave"}

Users(p) == {c \in Calls : pc[c] \in {"load", "call"} /\ plug[c] = p}

\* Every variable has its type.
TypeOK ==
    /\ sem \in 0..MaxHooks
    /\ pc \in [Calls -> {"new", "admit", "run", "wait", "load", "call", "stop", "leave", "end"}]
    /\ targets \in [Calls -> SUBSET Order] /\ plug \in [Calls -> Order]
    /\ rt \in [Calls -> Runtimes \cup {None}]
    /\ timer \in [Calls -> {"off", "armed", "firing", "fired"}]
    /\ late \subseteq Calls /\ broken \subseteq Order
    /\ outcome \in [Calls -> Answers \cup {"none", "dropped", "error", "timeout"}]
    /\ decision \in [Calls -> {"none", "allow", "deny", "timeout", "malformed"}]
    /\ idle \in [Order -> SUBSET Runtimes] /\ slots \in [Order -> 0..MaxRuntimes]
    /\ flag \subseteq Order \X Runtimes

\* The hook slots taken are those of the hooks that run, never more than the
\* limit: no path through Trigger, Decide and run keeps a slot or frees it twice.
SlotsExact ==
    /\ sem = Cardinality({c \in Calls : InHook(c)})
    /\ sem <= MaxHooks

\* The runtimes a plugin's counter knows of are the idle ones and the ones in
\* use, and none is used twice: a failing, interrupted or disabled call neither
\* loses a place in the pool nor shares a runtime.
PoolExact ==
    \A p \in Order :
        /\ slots[p] = Cardinality(idle[p]) + Cardinality(Users(p))
        /\ \A c, d \in Users(p) : rt[c] \notin idle[p] /\ (rt[c] = rt[d] => c = d)

\* With the types: what makes hooks and runtimes available again.
ResourcesExact == TypeOK /\ SlotsExact /\ PoolExact

\* Only a plugin's own veto stops a task: one that is slow, broken or answers
\* nonsense lets it through (the comment of Decide calls it fail open).  A plain
\* 'allow' means that every plugin of the chain was asked and answered without a
\* veto or an exception, and the last one with 'allow': nonsense is hidden only by
\* a later plugin's plain answer.  'malformed' names a plugin that did fail.
DecisionIsHeard ==
    \A c \in Decisions :
        LET says == opinion[c] IN
        /\ decision[c] = "deny" => says[plug[c]] = "deny"
        /\ decision[c] = "allow" =>
            \A p \in targets[c] :
                \/ says[p] = "allow"
                \/ says[p] = "unknown" /\ \E q \in targets[c] : q > p /\ says[q] = "allow"
        /\ decision[c] = "malformed" =>
            says[plug[c]] \in {"unknown", "throw"} \/ plug[c] \in broken

\* Every hook that was admitted, and every decision, comes to an end, also when
\* the hook's script never does.  The one place where a call may stay for ever is
\* the top level of a module in a new runtime, which newRuntime runs before the
\* interrupt is armed; and then it stays alone: whoever waits for its runtime or
\* its hook slot still ends.
EveryCallEnds ==
    \A c \in Calls : pc[c] # "new" ~> (pc[c] = "end" \/ [](pc[c] = "load"))

\* What limits.go says of the hook's budget: no call outlives it for ever.
EveryCallIsBounded == \A c \in Calls : pc[c] # "new" ~> pc[c] = "end"

\* What the comment of Decide says of a plugin that returns garbage: the failure
\* is in the decision, for the audit trail.
GarbageIsReported ==
    \A c \in Decisions : decision[c] = "allow" => \A p \in targets[c] : opinion[c][p] # "unknown"

\* What plugin_javascript.go says of the deferred wait: the interrupt of one run
\* never reaches the next run of its runtime.
OnlyOwnInterrupt ==
    \A c \in Calls : outcome[c] = "timeout" => c \in late

\* What the plugins' README says of several policy plugins: one veto is enough.
AnyDenyDenies ==
    \A c \in Decisions : decision[c] \in {"allow", "malformed"} =>
        \A p \in targets[c] : opinion[c][p] # "deny"
=============================================================================
