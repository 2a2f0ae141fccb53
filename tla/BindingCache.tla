---------------------------- MODULE BindingCache ----------------------------
(***************************************************************************)
(* The gateway's cache of point bindings (domain/binding/cache.go) between *)
(* its readers, ExecuteCommand and ReceiveTelemetry, and the consumer of   *)
(* Resource events that invalidates it (lifecycle_consumer.go).            *)
(*                                                                         *)
(* A snapshot of a control unit (CU) is the revision of its bindings and   *)
(* the time Resource read it.  A listing may span several pages: the       *)
(* revision is then that of its oldest page.                               *)
(***************************************************************************)
EXTENDS Integers

CONSTANTS
    Keys,       \* the CUs that have bindings, each with its tenant (cuKey)
    TenantOf,   \* the tenant of a key
    Loaders,    \* callers of Load: one per goroutine, each for one CU
    KeyOf,      \* the CU a caller loads
    TTL,        \* how long a copy is reused (CacheConfig.TTL)
    MaxAge,     \* how long it may be used after Resource fails
    Timeout,    \* the longest a listing takes: the client's timeout per page
    MaxRev, MaxEpoch, MaxTime   \* bounds of the model: changes, events, clock

Tenants == {TenantOf[k] : k \in Keys}

\* NewCache (cache.go:70-75) refuses anything else.
ASSUME CacheAssumption ==
    /\ KeyOf \in [Loaders -> Keys]
    /\ TTL \in Nat \ {0} /\ MaxAge \in Nat /\ MaxAge >= TTL
    /\ Timeout \in Nat
    /\ MaxRev \in Nat \ {0} /\ MaxEpoch \in Nat /\ MaxTime \in Nat

VARIABLES
    catalog,      \* Resource: the revision of each CU's bindings
    entries,      \* the cached copies: a function whose domain is the map's keys
    epoch,        \* invalidations of each CU
    tenantEpoch,  \* invalidations of each tenant
    load,         \* the call of Load in progress, for each caller
    handled,      \* history: the last revision whose event named the CU or tenant
    clock

vars == <<catalog, entries, epoch, tenantEpoch, load, handled, clock>>

Idle == [phase |-> "idle", attempt |-> 0, start |-> 0, since |-> 0,
         cu |-> 0, tenant |-> 0, rev |-> 0, asOf |-> 0, origin |-> "none"]

Init ==
    /\ catalog = [k \in Keys |-> 1]
    /\ entries = [k \in {} |-> 0]
    /\ epoch = [k \in Keys |-> 0]
    /\ tenantEpoch = [t \in Tenants |-> 0]
    /\ load = [l \in Loaders |-> Idle]
    /\ handled = [k \in Keys |-> 1]
    /\ clock = 0

-----------------------------------------------------------------------------
(* Load, by the accesses it makes to the cache and to Resource.            *)

\* Mutant of Cached: a copy never expires.
NeverExpires(k, now, max) == k \in DOMAIN entries

\* lookup: the copy is there and its age, at time now, is at most max.
Cached(k, now, max) == k \in DOMAIN entries /\ now - entries[k].storedAt <= max

\* Mutant of SameEpochs: only the CU's own generation is compared.
TenantForgotten(l) == epoch[KeyOf[l]] = load[l].cu

\* store refuses a listing that an invalidation overtook.
SameEpochs(l) ==
    /\ epoch[KeyOf[l]] = load[l].cu
    /\ tenantEpoch[TenantOf[KeyOf[l]]] = load[l].tenant

\* The call returns a snapshot, or an error.
Returned(origin, rev, asOf) ==
    [Idle EXCEPT !.phase = "done", !.origin = origin, !.rev = rev, !.asOf = asOf]
ReturnedError == Returned("error", 0, 0)
ReturnedCopy(origin, k) == Returned(origin, entries[k].rev, entries[k].asOf)

\* The call, begun at time begun, is about to make an attempt.
Missed(attempt, begun) ==
    [Idle EXCEPT !.phase = "missed", !.attempt = attempt, !.start = begun]

\* Load begins: a copy within TTL is the answer.
LookUp(l) ==
    /\ load[l].phase = "idle"
    /\ load' = [load EXCEPT ![l] =
         IF Cached(KeyOf[l], clock, TTL)
         THEN ReturnedCopy("cache", KeyOf[l])
         ELSE Missed(1, clock)]
    /\ UNCHANGED <<catalog, entries, epoch, tenantEpoch, handled, clock>>

\* An attempt reads both generations and asks Resource.
Ask(l) ==
    /\ load[l].phase = "missed"
    /\ load' = [load EXCEPT ![l] =
         [@ EXCEPT !.phase = "asking", !.since = clock, !.cu = epoch[KeyOf[l]],
                   !.tenant = tenantEpoch[TenantOf[KeyOf[l]]]]]
    /\ UNCHANGED <<catalog, entries, epoch, tenantEpoch, handled, clock>>

\* Resource reads the CU's points; the answer is on its way.
ListCUBindings(l) ==
    /\ load[l].phase = "asking"
    /\ load' = [load EXCEPT ![l] =
         [@ EXCEPT !.phase = "listed", !.rev = catalog[KeyOf[l]], !.asOf = clock]]
    /\ UNCHANGED <<catalog, entries, epoch, tenantEpoch, handled, clock>>

\* The listing fails, or its answer is lost.  A copy within MaxAge, at the time
\* Load began, is the answer; a cancelled context is an error in any case.
ListFails(l) ==
    /\ load[l].phase \in {"asking", "listed"}
    /\ \/ load' = [load EXCEPT ![l] = ReturnedError]
       \/ /\ Cached(KeyOf[l], load[l].start, MaxAge)
          /\ load' = [load EXCEPT ![l] = ReturnedCopy("fallback", KeyOf[l])]
    /\ UNCHANGED <<catalog, entries, epoch, tenantEpoch, handled, clock>>

\* Mutant of NextAttempt: the overtaken listing is not stored, but returned.
ReturnedAnyway(l) == Returned("fresh", load[l].rev, load[l].asOf)

\* Mutant of NextAttempt: one attempt too many.
ThirdAttempt(l) ==
    IF load[l].attempt <= 2
    THEN Missed(load[l].attempt + 1, load[l].start)
    ELSE ReturnedError

\* After an overtaken listing: once more, and then an error.
NextAttempt(l) ==
    IF load[l].attempt < 2
    THEN Missed(load[l].attempt + 1, load[l].start)
    ELSE ReturnedError

\* The answer arrives and is stored and returned, unless it was overtaken.
Store(l) ==
    LET k == KeyOf[l]
        copy == [rev |-> load[l].rev, asOf |-> load[l].asOf, storedAt |-> clock]
    IN  /\ load[l].phase = "listed"
        /\ \/ /\ SameEpochs(l)
              /\ entries' = [x \in DOMAIN entries \cup {k} |->
                                IF x = k THEN copy ELSE entries[x]]
              /\ load' = [load EXCEPT ![l] = Returned("fresh", copy.rev, copy.asOf)]
           \/ /\ ~SameEpochs(l)
              /\ load' = [load EXCEPT ![l] = NextAttempt(l)]
              /\ UNCHANGED entries
        /\ UNCHANGED <<catalog, epoch, tenantEpoch, handled, clock>>

\* The caller takes the answer, and may call Load again.
Take(l) ==
    /\ load[l].phase = "done"
    /\ load' = [load EXCEPT ![l] = Idle]
    /\ UNCHANGED <<catalog, entries, epoch, tenantEpoch, handled, clock>>

-----------------------------------------------------------------------------
(* Resource, and the consumer of its events.                               *)

\* A point of the CU is created, changed or deleted.
Change(k) ==
    /\ catalog[k] < MaxRev
    /\ catalog' = [catalog EXCEPT ![k] = @ + 1]
    /\ UNCHANGED <<entries, epoch, tenantEpoch, load, handled, clock>>

\* Copies are deleted and their generations move on.
Drop(gone) ==
    /\ entries' = [k \in DOMAIN entries \ gone |-> entries[k]]
    /\ epoch' = [k \in Keys |-> IF k \in gone THEN epoch[k] + 1 ELSE epoch[k]]

\* The event of the latest change is handled: every invalidation removes the
\* same copies whichever change its event is about, so an event that lags by
\* several changes asks for less.  Events may be lost or delivered twice.
Handled(named) ==
    handled' = [k \in Keys |-> IF k \in named THEN catalog[k] ELSE handled[k]]

\* An event that names the CU: invalidate, whether or not a copy is there.
InvalidateCU(k) ==
    /\ epoch[k] < MaxEpoch
    /\ Drop({k})
    /\ Handled({k})
    /\ UNCHANGED <<catalog, tenantEpoch, load, clock>>

\* An event that names the tenant: a deleted subtree, or a finished import.
InvalidateTenant(t) ==
    /\ tenantEpoch[t] < MaxEpoch
    /\ tenantEpoch' = [tenantEpoch EXCEPT ![t] = @ + 1]
    /\ Drop({k \in DOMAIN entries : TenantOf[k] = t})
    /\ Handled({k \in Keys : TenantOf[k] = t})
    /\ UNCHANGED <<catalog, load, clock>>

\* A point event without a CU id: only a copy that holds the point is dropped.
\* (A point is on one CU; if no copy holds it, nothing happens.)
InvalidatePoint(k) ==
    /\ k \in DOMAIN entries
    /\ epoch[k] < MaxEpoch
    /\ Drop({k})
    /\ UNCHANGED <<catalog, tenantEpoch, load, handled, clock>>

\* Time passes.  A listing ends within its timeout, and between two accesses to
\* the cache Load only computes.
Tick ==
    /\ clock < MaxTime
    /\ \A l \in Loaders :
         /\ load[l].phase # "missed"
         /\ load[l].phase \in {"asking", "listed"} => clock < load[l].since + Timeout
    /\ clock' = clock + 1
    /\ UNCHANGED <<catalog, entries, epoch, tenantEpoch, load, handled>>

Next ==
    \/ \E l \in Loaders : \/ LookUp(l) \/ Ask(l) \/ ListCUBindings(l)
                          \/ ListFails(l) \/ Store(l) \/ Take(l)
    \/ \E k \in Keys : Change(k) \/ InvalidateCU(k) \/ InvalidatePoint(k)
    \/ \E t \in Tenants : InvalidateTenant(t)
    \/ Tick

Spec == Init /\ [][Next]_vars

-----------------------------------------------------------------------------
(* What the cache promises.                                                *)

Copy == [rev : 1..MaxRev, asOf : Nat, storedAt : Nat]
Call == [phase : {"idle", "missed", "asking", "listed", "done"},
         attempt : 0..2, start : Nat, since : Nat, cu : Nat, tenant : Nat,
         rev : 0..MaxRev, asOf : Nat,
         origin : {"none", "cache", "fresh", "fallback", "error"}]

\* The state keeps its shape; a call makes at most two attempts (cache.go:109).
TypeOK ==
    /\ catalog \in [Keys -> 1..MaxRev]
    /\ DOMAIN entries \subseteq Keys
    /\ \A k \in DOMAIN entries : entries[k] \in Copy
    /\ epoch \in [Keys -> Nat]
    /\ tenantEpoch \in [Tenants -> Nat]
    /\ load \in [Loaders -> Call]
    /\ handled \in [Keys -> 1..MaxRev]
    /\ clock \in Nat

\* "An invalidation drops the copy immediately" (cache.go:32), and none comes
\* back: no copy is older than a change whose event, naming the CU or the tenant,
\* was handled, although listings are in flight when the event arrives and the
\* tenant's event finds copies of some CUs only.
NothingOlderThanInvalidation ==
    \A k \in DOMAIN entries : entries[k].rev >= handled[k]

\* The step in which a caller gets its snapshot.
Answers(l) ==
    /\ load[l].phase # "done" /\ load'[l].phase = "done"
    /\ load'[l].origin # "error"

\* Nor does Load return one: whatever its origin, a snapshot shows every change
\* whose event was handled before Load returned (cache.go:107-127).
LoadsAreCurrent ==
    [][\A l \in Loaders : Answers(l) => load'[l].rev >= handled[KeyOf[l]]]_vars

\* How far a snapshot may lag behind Resource when events are lost: by the age
\* its copy was allowed and the listings that came before and after it.
LongestLag(origin) ==
    CASE origin = "cache"    -> TTL + Timeout
      [] origin = "fresh"    -> Timeout
      [] origin = "fallback" -> MaxAge + 3 * Timeout
      [] OTHER               -> 0

\* A caller never gets bindings that Resource replaced longer ago than that, with
\* no event at all (cache.go:92-95).
StalenessBounded ==
    [][\A l \in Loaders :
         Answers(l) => clock - load'[l].asOf <= LongestLag(load'[l].origin)]_vars

\* The strengthening that makes these inductive.  What was handled has happened;
\* a listing whose generations are still the current ones shows every change
\* handled so far; copies and calls keep within the time listings are allowed.
HandledAreMade ==
    \A k \in Keys : handled[k] <= catalog[k]
GenerationsGrow ==
    \A l \in Loaders :
      load[l].phase \in {"asking", "listed"} =>
        /\ load[l].cu <= epoch[KeyOf[l]]
        /\ load[l].tenant <= tenantEpoch[TenantOf[KeyOf[l]]]
        /\ load[l].phase = "listed" /\ SameEpochs(l)
             => load[l].rev >= handled[KeyOf[l]]
CopiesInTime ==
    \A k \in DOMAIN entries :
      /\ entries[k].asOf <= entries[k].storedAt
      /\ entries[k].storedAt <= clock
      /\ entries[k].storedAt <= entries[k].asOf + Timeout
Spent(attempt) == IF attempt <= 1 THEN 0 ELSE Timeout
CallsInTime ==
    \A l \in Loaders :
      /\ load[l].phase = "missed" =>
           /\ load[l].attempt >= 1
           /\ load[l].start <= clock
           /\ clock <= load[l].start + Spent(load[l].attempt)
      /\ load[l].phase \in {"asking", "listed"} =>
           /\ load[l].attempt >= 1
           /\ load[l].start <= load[l].since /\ load[l].since <= clock
           /\ load[l].since <= load[l].start + Spent(load[l].attempt)
           /\ clock <= load[l].since + Timeout
      /\ load[l].phase = "listed" =>
           /\ load[l].since <= load[l].asOf /\ load[l].asOf <= clock
           /\ load[l].rev >= 1

IInv == /\ TypeOK /\ NothingOlderThanInvalidation /\ HandledAreMade
        /\ GenerationsGrow /\ CopiesInTime /\ CallsInTime
=============================================================================
