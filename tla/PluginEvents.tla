---------------------------- MODULE PluginEvents ----------------------------
(***************************************************************************)
(* The plugin event store: bodies of recent events, kept for a while so    *)
(* that the id in an envelope resolves, in a bounded amount of memory.     *)
(* byID is a map and order a queue of ids; an id that get drops from the   *)
(* map stays in the queue.  add reads the clock before it takes the lock.  *)
(***************************************************************************)
EXTENDS Naturals, Sequences, FiniteSetsExt

CONSTANTS
    Events,            \* event ids
    Size,              \* bytes of the body of an event
    Readers,           \* plugins an event may be delivered to
    TTL,               \* PluginEventTTL
    MaxBytes,          \* PluginEventStoreBytes
    MaxTime,           \* bound on the clock
    NoTime             \* no clock read yet

ASSUME StoreAssumption ==
    /\ Size \in [Events -> Nat \ {0}]
    /\ TTL \in Nat /\ MaxBytes \in Nat /\ MaxTime \in Nat /\ NoTime \notin Nat

VARIABLES
    now,
    stamp,             \* the time add read for an event, NoTime before
    kept,              \* ids in byID
    order,             \* the queue of ids, oldest first
    bytes,             \* what the store believes to hold
    allowed,           \* plugins an event was delivered to
    issued             \* history: ids in the order in which they were stored

storeVars == <<now, stamp, kept, order, bytes, allowed, issued>>

StoreInit ==
    /\ now = 0
    /\ stamp = [e \in Events |-> NoTime]
    /\ kept = {} /\ order = <<>> /\ bytes = 0
    /\ allowed = [e \in Events |-> {}]
    /\ issued = <<>>

Bytes(S) == MapThenSumSet(LAMBDA e : Size[e], S)

Ids(s) == {s[i] : i \in DOMAIN s}

Expired(e, t) == t > stamp[e] + TTL

\* The first n ids of queue s leave it, and the map where they are still there.
Evicted(s, n) == Ids(SubSeq(s, 1, n))

Rest(s, n) == SubSeq(s, n + 1, Len(s))

\* Mutant: an id that is no longer in the map stops the sweep.
ExpiredPrefixStopsAtGap(t) ==
    Max({n \in 0..Len(order) : \A i \in 1..n : order[i] \in kept /\ Expired(order[i], t)})

\* evictExpiredLocked: how many ids at the front are gone or expired.
ExpiredPrefix(t) ==
    Max({n \in 0..Len(order) : \A i \in 1..n : order[i] \notin kept \/ Expired(order[i], t)})

\* Mutant: the store is emptied to below its limit.
OverCapTooMany(s, K, b) ==
    Min({n \in 0..Len(s) : b - Bytes(Evicted(s, n) \cap K) < MaxBytes \/ n = Len(s)})

\* evictOverCapLocked: how many ids at the front have to go until the bodies fit.
OverCap(s, K, b) ==
    Min({n \in 0..Len(s) : b - Bytes(Evicted(s, n) \cap K) <= MaxBytes \/ n = Len(s)})

\* add: the clock is read ...
AddBegin(e) ==
    /\ stamp[e] = NoTime
    /\ stamp' = [stamp EXCEPT ![e] = now]
    /\ UNCHANGED <<now, kept, order, bytes, allowed, issued>>

\* ... and under the lock expired bodies go, the new one is stored, and the
\* oldest go until the rest fits.
Add(e) ==
    /\ stamp[e] # NoTime /\ e \notin Ids(issued)
    /\ LET n1 == ExpiredPrefix(stamp[e])
           s  == Append(Rest(order, n1), e)
           K  == (kept \ Evicted(order, n1)) \cup {e}
           b  == bytes - Bytes(Evicted(order, n1) \cap kept) + Size[e]
           n2 == OverCap(s, K, b)
       IN  /\ order' = Rest(s, n2)
           /\ kept' = K \ Evicted(s, n2)
           /\ bytes' = b - Bytes(Evicted(s, n2) \cap K)
    /\ issued' = Append(issued, e)
    /\ UNCHANGED <<now, stamp, allowed>>

\* allow: nothing happens if the body is already gone.
Allow(e, p) ==
    /\ e \in Ids(issued) /\ p \notin allowed[e]
    /\ allowed' = IF e \in kept THEN [allowed EXCEPT ![e] = @ \cup {p}] ELSE allowed
    /\ UNCHANGED <<now, stamp, kept, order, bytes, issued>>

\* Mutant: the bytes of a dropped body are not given back.
DropKeepingBytes(e) ==
    /\ kept' = kept \ {e}
    /\ UNCHANGED bytes

\* dropLocked.
DropBody(e) ==
    /\ kept' = kept \ {e}
    /\ bytes' = bytes - Size[e]

\* get and getForOperator of an id that has expired; any other lookup changes
\* nothing.
GetExpired(e) ==
    /\ e \in kept /\ Expired(e, now)
    /\ DropBody(e)
    /\ UNCHANGED <<now, stamp, order, allowed, issued>>

Tick ==
    /\ now < MaxTime /\ now' = now + 1
    /\ UNCHANGED <<stamp, kept, order, bytes, allowed, issued>>

StoreNext ==
    \/ \E e \in Events :
        AddBegin(e) \/ Add(e) \/ GetExpired(e) \/ \E p \in Readers : Allow(e, p)
    \/ Tick

StoreSpec == StoreInit /\ [][StoreNext]_storeVars

-----------------------------------------------------------------------------
(***************************************************************************)
(* Properties.                                                             *)
(***************************************************************************)

\* The byte count is that of the bodies in the map, and never above the limit
\* once an operation is over: whatever get dropped between two calls of add.
BytesExact == bytes = Bytes(kept) /\ bytes <= MaxBytes

\* A body in the map is in the queue, once, so that it can be evicted.
KeptIsQueued ==
    \A e \in kept : Cardinality({i \in DOMAIN order : order[i] = e}) = 1

\* Map, queue and byte count of the store agree after every operation.
StoreExact == BytesExact /\ KeptIsQueued

\* An id resolves for as long as it may: before its time is up, a body is only
\* evicted if it and what was stored after it do not fit.
NotEvictedEarly ==
    \A i \in DOMAIN issued :
        LET later == Ids(SubSeq(issued, i, Len(issued))) IN
        ~Expired(issued[i], now) /\ Bytes(later) <= MaxBytes => issued[i] \in kept

\* Stored after another event whose clock was read later: add reads the clock
\* outside the lock, so two calls may be stored in the wrong order.
Overtaken(e) ==
    \E i, j \in DOMAIN issued : i < j /\ issued[j] = e /\ stamp[issued[i]] > stamp[e]

\* Storing an event frees what has expired, also behind ids that get dropped
\* before: a body left is not expired at the time add had read, unless the
\* clocks of two calls crossed when it was stored.
FreesExpired ==
    issued' # issued =>
        \A e \in kept' : ~Overtaken(e)' => ~Expired(e, stamp[issued'[Len(issued')]])

\* What add does about expired bodies, whenever it is called.
ExpiredGone == [][FreesExpired]_storeVars
=============================================================================
