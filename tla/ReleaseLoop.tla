---------------------------- MODULE ReleaseLoop -----------------------------
(***************************************************************************)
(* reapLoop as the release scheduler: the timer aimed at the next deferred *)
(* row, the one-deep wake channel, the backstop ticker, and the sweep that *)
(* sends what is due and waits while an agent's send queue is full.        *)
(*                                                                         *)
(* Rows hold their moment as RFC3339Nano text and SQLite compares texts.   *)
(* Go drops trailing zeros and '.' < digits < 'Z', so within a second the  *)
(* order of the texts is not that of the moments.  Moments count in units  *)
(* of a second's fraction with two digits of base Base: "" is 0, ".1" is   *)
(* Base, ".11" is Base + 1.                                                *)
(*                                                                         *)
(* The loop is prompt: the clock moves only while it waits in select or in *)
(* a send.  TaskDispatch has the rows' other states and the wire.          *)
(***************************************************************************)
EXTENDS Naturals, FiniteSets

CONSTANTS
    Tasks,             \* deferred rows, numbered in dispatch order
    Agents,
    Target,            \* the agent of a row
    Base,              \* digits of a fraction
    Backstop,          \* taskDispatchInterval
    WriteWait,         \* how long a full queue can hold a sender
    MaxAt,             \* the latest release moment
    Horizon,           \* the last reading of the clock
    MaxFaults,         \* stalls, disconnects and restarts in all
    Off                \* no timer, no moment

Second == Base * Base

ASSUME ReleaseAssumption ==
    /\ Tasks \subseteq Nat /\ IsFiniteSet(Tasks)
    /\ Target \in [Tasks -> Agents]
    /\ Base \in Nat \ {0, 1} /\ Backstop \in Nat \ {0} /\ WriteWait \in Nat \ {0}
    /\ MaxAt \in Nat /\ Horizon \in Nat /\ MaxFaults \in Nat /\ Off \notin Nat

VARIABLES
    now,
    row, at,           \* a row, and its release_at while it is queued
    nudging,           \* requests between AddTask and the nudge
    link, full,        \* an agent's session; how long its queue is full
    wake,              \* the buffered value of releaseWake
    tickAt, ticked,    \* the backstop ticker and its buffered value
    timerAt, fresh,    \* the release timer; it was set at this reading of the clock
    pc, arming,        \* the loop, and whether it runs arm or a bare sweep
    snow, work,        \* the clock reading of arm, and the rows left to send
    faults

rowVars   == <<row, at, nudging>>
loopVars  == <<wake, ticked, timerAt, fresh, pc, arming, snow, work>>

vars == <<now, row, at, nudging, link, full, wake, tickAt, ticked,
          timerAt, fresh, pc, arming, snow, work, faults>>

-----------------------------------------------------------------------------
(***************************************************************************)
(* The rows, as the store compares them.                                   *)
(***************************************************************************)

\* The place of a moment in the order of the texts: a dropped digit is
\* followed by 'Z', which is greater than every digit and than '.'.
Text(m) ==
    LET first  == IF m % Second = 0 THEN Base ELSE (m \div Base) % Base
        second == IF m % Base = 0 THEN Base ELSE m % Base
    IN  (m \div Second) * (Base + 1) * (Base + 1) + first * (Base + 1) + second

SecondOf(m) == m \div Second

\* Mutant: the sweep does not look at release_at.
ReadyQueuedTasksEager(m) == {t \in Tasks : row[t] = "queued"}

\* release_at <= now
ReadyQueuedTasks(m) == {t \in Tasks : row[t] = "queued" /\ Text(at[t]) <= Text(m)}

\* MIN(release_at) WHERE release_at > now
NextDeferredRelease(m) ==
    LET later == {t \in Tasks : row[t] = "queued" /\ Text(at[t]) > Text(m)}
    IN  IF later = {} THEN Off
        ELSE at[CHOOSE t \in later : \A u \in later : Text(at[t]) <= Text(at[u])]

\* The rows are on the wire and marked.
Sent(S) ==
    /\ row' = [t \in Tasks |-> IF t \in S THEN "sent" ELSE row[t]]
    /\ at' = [t \in Tasks |-> IF t \in S THEN Off ELSE at[t]]

-----------------------------------------------------------------------------
(***************************************************************************)
(* Requests.                                                               *)
(***************************************************************************)

\* Mutant: the row is stored without its release_at.
DeferUndated(t, m) ==
    /\ row[t] = "none" /\ m > now
    /\ row' = [row EXCEPT ![t] = "queued"]
    /\ nudging' = nudging \cup {t}
    /\ UNCHANGED <<now, at, link, full, tickAt, loopVars, faults>>

\* dispatchOrQueue with a moment that is still ahead: AddTask ...
Defer(t, m) ==
    /\ row[t] = "none" /\ m > now
    /\ row' = [row EXCEPT ![t] = "queued"]
    /\ at' = [at EXCEPT ![t] = m]
    /\ nudging' = nudging \cup {t}
    /\ UNCHANGED <<now, link, full, tickAt, loopVars, faults>>

\* Mutant: the loop is not told of the new row.
NudgeLost(t) ==
    /\ t \in nudging
    /\ nudging' = nudging \ {t}
    /\ UNCHANGED <<now, row, at, link, full, tickAt, loopVars, faults>>

\* ... and nudgeReleaseScheduler: a wake-up that is already pending will do.
Nudge(t) ==
    /\ t \in nudging
    /\ nudging' = nudging \ {t}
    /\ wake' = TRUE
    /\ UNCHANGED <<now, row, at, link, full, tickAt, ticked, timerAt,
                   fresh, pc, arming, snow, work, faults>>

-----------------------------------------------------------------------------
(***************************************************************************)
(* The loop.                                                               *)
(***************************************************************************)

\* A sleep of zero fires at once; passes at the same reading of the clock do
\* the same again, so one per reading is kept.
TimerFires == timerAt # Off /\ timerAt <= now /\ ~fresh

\* dispatchReadyTasks reads the clock and the rows.
BeginSweep(arm) ==
    /\ pc' = "sweep" /\ arming' = arm
    /\ snow' = now
    /\ work' = ReadyQueuedTasks(now)

OnTimer ==
    /\ pc = "select" /\ TimerFires
    /\ timerAt' = Off
    /\ BeginSweep(TRUE)
    /\ UNCHANGED <<now, rowVars, link, full, wake, tickAt, ticked, fresh, faults>>

OnWake ==
    /\ pc = "select" /\ wake
    /\ wake' = FALSE
    /\ BeginSweep(TRUE)
    /\ UNCHANGED <<now, rowVars, link, full, tickAt, ticked, timerAt, fresh, faults>>

\* The backstop sweeps and leaves the timer alone.
OnTick ==
    /\ pc = "select" /\ ticked
    /\ ticked' = FALSE
    /\ BeginSweep(FALSE)
    /\ UNCHANGED <<now, rowVars, link, full, wake, tickAt, timerAt, fresh, faults>>

FirstOf(S) == CHOOSE t \in S : \A u \in S : t <= u

\* The loop waits for room in the queue of the next row's agent.
Blocked == pc = "sweep" /\ work # {} /\ link[Target[FirstOf(work)]] = "full"

\* Mutant: a row that cannot be sent is tried again before the next one.
SweepRowRetries ==
    /\ pc = "sweep" /\ work # {} /\ link[Target[FirstOf(work)]] = "up"
    /\ work' = work \ {FirstOf(work)}
    /\ Sent({FirstOf(work)})
    /\ UNCHANGED <<now, nudging, link, full, wake, tickAt, ticked, timerAt,
                   fresh, pc, arming, snow, faults>>

\* dispatchQueuedTask; a row that cannot be sent is left for later.
SweepRow ==
    /\ pc = "sweep" /\ work # {} /\ ~Blocked
    /\ LET t == FirstOf(work) IN
       /\ work' = work \ {t}
       /\ Sent(IF link[Target[t]] = "up" THEN {t} ELSE {})
    /\ UNCHANGED <<now, nudging, link, full, wake, tickAt, ticked, timerAt,
                   fresh, pc, arming, snow, faults>>

SweepEnd ==
    /\ pc = "sweep" /\ work = {}
    /\ IF arming THEN pc' = "rearm" /\ UNCHANGED snow
                 ELSE pc' = "select" /\ snow' = 0
    /\ UNCHANGED <<now, rowVars, link, full, wake, tickAt, ticked, timerAt,
                   fresh, arming, work, faults>>

\* arm, after the sweep: stop and drain the timer, then aim it anew.  Both the
\* query and the sleep use the reading from before the sweep.
Rearm ==
    /\ pc = "rearm"
    /\ LET next == NextDeferredRelease(snow) IN
       timerAt' = IF next = Off THEN Off
                  ELSE now + (IF next > snow THEN next - snow ELSE 0)
    /\ fresh' = TRUE
    /\ pc' = "select" /\ arming' = FALSE /\ snow' = 0
    /\ UNCHANGED <<now, rowVars, link, full, wake, tickAt, ticked, work, faults>>

Loop == OnTimer \/ OnWake \/ OnTick \/ SweepRow \/ SweepEnd \/ Rearm

-----------------------------------------------------------------------------
(***************************************************************************)
(* Agents, restarts and time.                                              *)
(***************************************************************************)
Fault ==
    /\ faults < MaxFaults /\ now + WriteWait + 2 * Backstop <= Horizon
    /\ faults' = faults + 1

\* An agent stops reading and its queue is full.
Stall(a) ==
    /\ link[a] = "up" /\ Fault
    /\ link' = [link EXCEPT ![a] = "full"]
    /\ full' = [full EXCEPT ![a] = 0]
    /\ UNCHANGED <<now, rowVars, tickAt, loopVars>>

\* It reads on, or the write deadline passes and the session ends.
StallEnds(a) ==
    /\ link[a] = "full"
    /\ link' \in {[link EXCEPT ![a] = "up"], [link EXCEPT ![a] = "down"]}
    /\ full' = [full EXCEPT ![a] = 0]
    /\ UNCHANGED <<now, rowVars, tickAt, loopVars, faults>>

Disconnect(a) ==
    /\ link[a] = "up" /\ Fault
    /\ link' = [link EXCEPT ![a] = "down"]
    /\ UNCHANGED <<now, rowVars, full, tickAt, loopVars>>

\* A new session receives its backlog (PendingTasks).
Reconnect(a) ==
    /\ link[a] = "down"
    /\ link' = [link EXCEPT ![a] = "up"]
    /\ Sent({t \in ReadyQueuedTasks(now) : Target[t] = a})
    /\ UNCHANGED <<now, nudging, full, tickAt, loopVars, faults>>

\* The process starts: the loop arms at once, and the ticker runs from now on.
Started ==
    /\ link' = [a \in Agents |-> "down"]
    /\ full' = [a \in Agents |-> 0]
    /\ nudging' = {} /\ wake' = FALSE /\ ticked' = FALSE
    /\ tickAt' = now + Backstop
    /\ timerAt' = Off /\ fresh' = FALSE

\* The server dies and starts again; the rows stay.
Restart ==
    /\ Fault
    /\ Started
    /\ BeginSweep(TRUE)
    /\ UNCHANGED <<now, row, at>>

\* Nothing is ready for the loop to receive.
Idle == pc = "select" /\ ~wake /\ ~ticked /\ ~TimerFires

\* Time passes while the loop waits; a write deadline is kept.
Tick ==
    /\ now < Horizon
    /\ Idle \/ Blocked
    /\ \A a \in Agents : link[a] = "full" => full[a] < WriteWait
    /\ now' = now + 1
    /\ full' = [a \in Agents |-> IF link[a] = "full" THEN full[a] + 1 ELSE 0]
    /\ ticked' = (ticked \/ now + 1 = tickAt)
    /\ tickAt' = IF now + 1 = tickAt THEN tickAt + Backstop ELSE tickAt
    /\ fresh' = FALSE
    /\ UNCHANGED <<rowVars, link, wake, timerAt, pc, arming, snow, work, faults>>

Init ==
    /\ now \in 0..(Second - 1)
    /\ row = [t \in Tasks |-> "none"]
    /\ at = [t \in Tasks |-> Off]
    /\ nudging = {}
    /\ link = [a \in Agents |-> "up"]
    /\ full = [a \in Agents |-> 0]
    /\ wake = FALSE /\ ticked = FALSE /\ tickAt = now + Backstop
    /\ timerAt = Off /\ fresh = FALSE
    /\ pc = "sweep" /\ arming = TRUE /\ snow = now /\ work = {}
    /\ faults = 0

Next ==
    \/ \E t \in Tasks : (\E m \in 0..MaxAt : Defer(t, m)) \/ Nudge(t)
    \/ Loop
    \/ \E a \in Agents : Stall(a) \/ StallEnds(a) \/ Disconnect(a) \/ Reconnect(a)
    \/ Restart
    \/ Tick

Spec == Init /\ [][Next]_vars

\* The goroutines run on, the clock too, and a full queue ends by its deadline.
FairSpec ==
    /\ Spec
    /\ WF_vars(Loop) /\ WF_vars(Tick)
    /\ \A t \in Tasks : WF_vars(Nudge(t))
    /\ \A a \in Agents : WF_vars(StallEnds(a))

-----------------------------------------------------------------------------
(***************************************************************************)
(* Properties.                                                             *)
(***************************************************************************)

\* Every variable has its type; a row has a moment once it is queued, and the
\* rows of a sweep are rows that were queued.
TypeOK ==
    /\ now \in Nat /\ snow \in Nat /\ tickAt \in Nat
    /\ row \in [Tasks -> {"none", "queued", "sent"}]
    /\ at \in [Tasks -> Nat \cup {Off}]
    /\ nudging \subseteq Tasks
    /\ link \in [Agents -> {"up", "full", "down"}]
    /\ full \in [Agents -> Nat]
    /\ wake \in BOOLEAN /\ ticked \in BOOLEAN /\ arming \in BOOLEAN
    /\ fresh \in BOOLEAN
    /\ timerAt \in Nat \cup {Off}
    /\ pc \in {"select", "sweep", "rearm"}
    /\ work \subseteq Tasks
    /\ faults \in Nat
    /\ \A t \in Tasks : row[t] = "queued" <=> at[t] # Off
    /\ \A t \in work : row[t] # "none"

\* The order of the texts can release a row before its moment, and the sweep,
\* the backlog of a reconnect and the sweep of a restart all rely on it; but
\* never before the second of its moment has begun.
EarlyBySameSecond ==
    [][\A t \in Tasks : row[t] = "queued" /\ row'[t] = "sent" =>
            SecondOf(now) >= SecondOf(at[t])]_vars

\* What it rests on: the rows a sweep still holds are of the second of its
\* clock reading, or of an earlier one.
SweepInSecond ==
    \A t \in work : row[t] = "queued" => SecondOf(now) >= SecondOf(at[t])

\* A row the loop is responsible for.
Waiting(t) == row[t] = "queued" /\ t \notin nudging /\ link[Target[t]] = "up"

\* No wake-up is lost: when the loop sleeps, no row of a connected agent is
\* left over from an earlier second, although MIN picks the row by its text and
\* one timer stands for all rows.  After a stall (the timer is set from the
\* clock reading of before the sweep), a reconnect or a restart the backstop
\* bounds the delay.
ReleasedInTime ==
    Idle => \A t \in Tasks :
        Waiting(t) =>
            now < (SecondOf(at[t]) + 1) * Second + (IF faults = 0 THEN 0 ELSE Backstop)

\* Every deferred row is sent as long as its agent is connected, whatever
\* happens to wake-ups, timers and the agents of the other rows.
EveryReleaseComes ==
    \A t \in Tasks : row[t] = "queued" ~> row[t] = "sent" \/ link[Target[t]] # "up"

\* What reaper.go says of arm: the timer "only ever sleeps toward genuinely
\* future work", since one aimed at a row already due "would fire immediately
\* and spin".  A row whose text drops its trailing zeros is due, not ready.
AimsAhead ==
    [][pc = "rearm" /\ pc' = "select" /\ timerAt' # Off => timerAt' > now]_vars
=============================================================================
