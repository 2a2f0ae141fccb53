------------------------- MODULE BindingCache_proofs -------------------------
(***************************************************************************)
(* For any CUs, tenants, callers and durations: no invalidated binding is  *)
(* kept or returned, and none is older than its age limit.                 *)
(***************************************************************************)
EXTENDS BindingCache, TLAPS

USE CacheAssumption

\* What a call may look like in a state that keeps the invariant.
CallOK(l, c) ==
    /\ c \in Call
    /\ c.phase \in {"asking", "listed"} =>
         /\ c.cu <= epoch[KeyOf[l]]
         /\ c.tenant <= tenantEpoch[TenantOf[KeyOf[l]]]
         /\ ( /\ c.phase = "listed"
              /\ epoch[KeyOf[l]] = c.cu
              /\ tenantEpoch[TenantOf[KeyOf[l]]] = c.tenant )
            => c.rev >= handled[KeyOf[l]]
         /\ c.attempt >= 1
         /\ c.start <= c.since /\ c.since <= clock
         /\ c.since <= c.start + Spent(c.attempt)
         /\ clock <= c.since + Timeout
    /\ c.phase = "missed" =>
         /\ c.attempt >= 1
         /\ c.start <= clock
         /\ clock <= c.start + Spent(c.attempt)
    /\ c.phase = "listed" => c.since <= c.asOf /\ c.asOf <= clock /\ c.rev >= 1

LEMMA CallsOK ==
    ASSUME IInv, NEW l \in Loaders
    PROVE  CallOK(l, load[l])
<1>1. load[l] \in Call
  BY DEF IInv, TypeOK
<1>2. ASSUME load[l].phase \in {"asking", "listed"}
      PROVE  /\ load[l].cu <= epoch[KeyOf[l]]
             /\ load[l].tenant <= tenantEpoch[TenantOf[KeyOf[l]]]
             /\ load[l].phase = "listed" /\ SameEpochs(l)
                  => load[l].rev >= handled[KeyOf[l]]
  BY <1>2 DEF IInv, GenerationsGrow
<1>3. ASSUME load[l].phase \in {"asking", "listed"}
      PROVE  /\ load[l].attempt >= 1
             /\ load[l].start <= load[l].since /\ load[l].since <= clock
             /\ load[l].since <= load[l].start + Spent(load[l].attempt)
             /\ clock <= load[l].since + Timeout
  BY <1>3 DEF IInv, CallsInTime
<1>4. ASSUME load[l].phase = "missed"
      PROVE  /\ load[l].attempt >= 1 /\ load[l].start <= clock
             /\ clock <= load[l].start + Spent(load[l].attempt)
  BY <1>4 DEF IInv, CallsInTime
<1>5. ASSUME load[l].phase = "listed"
      PROVE  load[l].since <= load[l].asOf /\ load[l].asOf <= clock /\ load[l].rev >= 1
  BY <1>5 DEF IInv, CallsInTime
<1> QED
  BY <1>1, <1>2, <1>3, <1>4, <1>5 DEF CallOK, SameEpochs

\* A step that changes one call, into one that is in order, keeps the invariant.
LEMMA CallStep ==
    ASSUME IInv, NEW l \in Loaders, NEW c, CallOK(l, c),
           load' = [load EXCEPT ![l] = c],
           UNCHANGED <<catalog, entries, epoch, tenantEpoch, handled, clock>>
    PROVE  IInv'
<1>1. load \in [Loaders -> Call]
  BY DEF IInv, TypeOK
<1>2. \A m \in Loaders : load'[m] = IF m = l THEN c ELSE load[m]
  BY <1>1
<1>3. c \in Call
  BY DEF CallOK
<1>4. TypeOK'
  BY <1>1, <1>3 DEF IInv, TypeOK
<1>5. GenerationsGrow'
  <2> SUFFICES ASSUME NEW m \in Loaders, load'[m].phase \in {"asking", "listed"}
               PROVE  /\ load'[m].cu <= epoch[KeyOf[m]]
                      /\ load'[m].tenant <= tenantEpoch[TenantOf[KeyOf[m]]]
                      /\ ( /\ load'[m].phase = "listed"
                           /\ epoch[KeyOf[m]] = load'[m].cu
                           /\ tenantEpoch[TenantOf[KeyOf[m]]] = load'[m].tenant )
                         => load'[m].rev >= handled[KeyOf[m]]
    BY DEF GenerationsGrow, SameEpochs
  <2> QED
    BY <1>2, CallsOK DEF CallOK
<1>6. CallsInTime'
  BY <1>2, CallsOK DEF CallOK, CallsInTime
<1>7. NothingOlderThanInvalidation' /\ HandledAreMade' /\ CopiesInTime'
  BY DEF IInv, NothingOlderThanInvalidation, HandledAreMade, CopiesInTime
<1> QED
  BY <1>4, <1>5, <1>6, <1>7 DEF IInv

LEMMA IdleIsCall == Idle \in Call
BY DEF Idle, Call

\* The cache starts empty and nobody has called.
LEMMA InitInvariant == Init => IInv
<1> SUFFICES ASSUME Init PROVE IInv
  OBVIOUS
<1> USE DEF Init
<1>2. TypeOK
  BY IdleIsCall DEF TypeOK
<1>3. \A l \in Loaders : load[l].phase = "idle"
  BY DEF Idle
<1>4. GenerationsGrow /\ CallsInTime
  BY <1>3 DEF GenerationsGrow, CallsInTime
<1>5. NothingOlderThanInvalidation /\ HandledAreMade /\ CopiesInTime
  BY DEF NothingOlderThanInvalidation, HandledAreMade, CopiesInTime
<1> QED
  BY <1>2, <1>4, <1>5 DEF IInv

\* An answer is in order whatever it carries.
LEMMA AnswerOK ==
    ASSUME NEW l \in Loaders, NEW origin \in {"cache", "fresh", "fallback", "error"},
           NEW rev \in 0..MaxRev, NEW asOf \in Nat
    PROVE  CallOK(l, Returned(origin, rev, asOf))
<1>1. Returned(origin, rev, asOf) \in Call
  BY IdleIsCall DEF Returned, Call
<1>2. Returned(origin, rev, asOf).phase = "done"
  BY IdleIsCall DEF Returned, Call
<1> QED
  BY <1>1, <1>2 DEF CallOK

\* An attempt is in order if the attempts before it took no longer than allowed.
LEMMA MissedOK ==
    ASSUME NEW l \in Loaders, NEW n \in 1..2, NEW begun \in Nat, clock \in Nat,
           begun <= clock, clock <= begun + Spent(n)
    PROVE  CallOK(l, Missed(n, begun))
<1> DEFINE c == Missed(n, begun)
           first == [Idle EXCEPT !.phase = "missed"]
           second == [first EXCEPT !.attempt = n]
<1>1. first \in Call
  BY IdleIsCall DEF Call
<1>2. n \in 0..2
  OBVIOUS
<1>3. second \in Call
  <2> HIDE DEF first
  <2> QED
    BY <1>1, <1>2 DEF Call
<1>4. c = [second EXCEPT !.start = begun]
  BY DEF Missed
<1>5. c \in Call
  <2> HIDE DEF second
  <2> QED
    BY <1>3, <1>4 DEF Call
<1>6. c.phase = "missed" /\ c.attempt = n /\ c.start = begun
  BY IdleIsCall DEF Call, Missed
<1>7. CallOK(l, c)
  <2> HIDE DEF c
  <2> QED
    BY <1>5, <1>6 DEF CallOK
<1> QED
  BY <1>7

LEMMA ErrorOK == ASSUME NEW l \in Loaders PROVE CallOK(l, ReturnedError)
BY AnswerOK DEF ReturnedError

\* A cached copy has the type an answer needs.
LEMMA CopyOK ==
    ASSUME IInv, NEW l \in Loaders, KeyOf[l] \in DOMAIN entries,
           NEW origin \in {"cache", "fallback"}
    PROVE  CallOK(l, ReturnedCopy(origin, KeyOf[l]))
<1>1. entries[KeyOf[l]].rev \in 0..MaxRev /\ entries[KeyOf[l]].asOf \in Nat
  BY DEF IInv, TypeOK, Copy
<1> QED
  BY <1>1, AnswerOK DEF ReturnedCopy

LEMMA LookUpStep == ASSUME IInv, NEW l \in Loaders, LookUp(l) PROVE IInv'
<1>1. CASE Cached(KeyOf[l], clock, TTL)
  BY <1>1, CopyOK, CallStep DEF LookUp, Cached
<1>2. CASE ~Cached(KeyOf[l], clock, TTL)
  <2>1. clock \in Nat
    BY DEF IInv, TypeOK
  <2>2. CallOK(l, Missed(1, clock))
    BY <2>1, MissedOK DEF Spent
  <2>3. load' = [load EXCEPT ![l] = Missed(1, clock)]
    BY <1>2 DEF LookUp
  <2> QED
    BY <2>2, <2>3, CallStep DEF LookUp
<1> QED
  BY <1>1, <1>2

LEMMA AskStep == ASSUME IInv, NEW l \in Loaders, Ask(l) PROVE IInv'
<1> DEFINE asking == [load[l] EXCEPT !.phase = "asking", !.since = clock,
                        !.cu = epoch[KeyOf[l]],
                        !.tenant = tenantEpoch[TenantOf[KeyOf[l]]]]
<1>1. load' = [load EXCEPT ![l] = asking]
  BY DEF Ask
<1>2. CallOK(l, load[l]) /\ load[l].phase = "missed"
  BY CallsOK DEF Ask
<1>3. /\ clock \in Nat /\ epoch[KeyOf[l]] \in Nat
      /\ tenantEpoch[TenantOf[KeyOf[l]]] \in Nat
  BY DEF IInv, TypeOK, Tenants
<1>4. asking \in Call
  BY <1>2, <1>3 DEF CallOK, Call
<1>5. /\ asking.phase = "asking" /\ asking.since = clock
      /\ asking.cu = epoch[KeyOf[l]]
      /\ asking.tenant = tenantEpoch[TenantOf[KeyOf[l]]]
      /\ asking.attempt = load[l].attempt /\ asking.start = load[l].start
  BY <1>2 DEF CallOK, Call
<1>6. /\ load[l].attempt >= 1 /\ load[l].start <= clock
      /\ clock <= load[l].start + Spent(load[l].attempt)
  BY <1>2 DEF CallOK
<1> HIDE DEF asking
<1>7. CallOK(l, asking)
  BY <1>3, <1>4, <1>5, <1>6 DEF CallOK
<1> QED
  BY <1>1, <1>7, CallStep DEF Ask

LEMMA ListStep == ASSUME IInv, NEW l \in Loaders, ListCUBindings(l) PROVE IInv'
<1> DEFINE listed == [load[l] EXCEPT !.phase = "listed", !.rev = catalog[KeyOf[l]],
                        !.asOf = clock]
<1>1. load' = [load EXCEPT ![l] = listed]
  BY DEF ListCUBindings
<1>2. CallOK(l, load[l]) /\ load[l].phase = "asking"
  BY CallsOK DEF ListCUBindings
<1>3. /\ clock \in Nat /\ catalog[KeyOf[l]] \in 1..MaxRev
      /\ handled[KeyOf[l]] <= catalog[KeyOf[l]]
  BY DEF IInv, TypeOK, HandledAreMade
<1>4. listed \in Call
  <2>1. load[l] \in Call
    BY <1>2 DEF CallOK
  <2>2. catalog[KeyOf[l]] \in 0..MaxRev
    BY <1>3
  <2> QED
    BY <1>3, <2>1, <2>2 DEF Call
<1>5. /\ listed.phase = "listed" /\ listed.rev = catalog[KeyOf[l]]
      /\ listed.asOf = clock /\ listed.since = load[l].since
      /\ listed.cu = load[l].cu /\ listed.tenant = load[l].tenant
      /\ listed.attempt = load[l].attempt /\ listed.start = load[l].start
  BY <1>2 DEF CallOK, Call
<1> HIDE DEF listed
<1>6. handled[KeyOf[l]] \in 1..MaxRev
  BY DEF IInv, TypeOK
<1>7. CallOK(l, listed)
  BY <1>2, <1>3, <1>4, <1>5, <1>6 DEF CallOK
<1> QED
  BY <1>1, <1>7, CallStep DEF ListCUBindings

LEMMA FailStep == ASSUME IInv, NEW l \in Loaders, ListFails(l) PROVE IInv'
<1>1. CASE load' = [load EXCEPT ![l] = ReturnedError]
  BY <1>1, ErrorOK, CallStep DEF ListFails
<1>2. CASE /\ Cached(KeyOf[l], load[l].start, MaxAge)
           /\ load' = [load EXCEPT ![l] = ReturnedCopy("fallback", KeyOf[l])]
  BY <1>2, CopyOK, CallStep DEF ListFails, Cached
<1> QED
  BY <1>1, <1>2 DEF ListFails

LEMMA TakeStep == ASSUME IInv, NEW l \in Loaders, Take(l) PROVE IInv'
<1>1. CallOK(l, Idle)
  BY DEF CallOK, Call, Idle
<1> QED
  BY <1>1, CallStep DEF Take

\* A listing that nothing overtook shows every change handled so far, so the
\* copy it leaves is one the invariant allows.
LEMMA StoreStep == ASSUME IInv, NEW l \in Loaders, Store(l) PROVE IInv'
<1> DEFINE k == KeyOf[l]
           copy == [rev |-> load[l].rev, asOf |-> load[l].asOf, storedAt |-> clock]
<1>1. /\ CallOK(l, load[l]) /\ load[l].phase = "listed"
      /\ k \in Keys /\ clock \in Nat /\ load[l] \in Call
  BY CallsOK DEF Store, CallOK, IInv, TypeOK
<1>2. CASE SameEpochs(l)
  <2>1. /\ entries' = [x \in DOMAIN entries \cup {k} |->
                          IF x = k THEN copy ELSE entries[x]]
        /\ load' = [load EXCEPT ![l] = Returned("fresh", copy.rev, copy.asOf)]
        /\ UNCHANGED <<catalog, epoch, tenantEpoch, handled, clock>>
    BY <1>2 DEF Store
  <2>2. /\ load[l].rev \in 1..MaxRev /\ load[l].rev >= handled[k]
        /\ load[l].asOf \in Nat /\ load[l].asOf <= clock
        /\ clock <= load[l].asOf + Timeout
    BY <1>1, <1>2 DEF CallOK, Call, SameEpochs
  <2>3. CallOK(l, Returned("fresh", copy.rev, copy.asOf))
    <3>1. load[l].rev \in 0..MaxRev
      BY <2>2
    <3> QED
      BY <2>2, <3>1, AnswerOK
  <2>4. \A m \in Loaders : load'[m] = IF m = l THEN Returned("fresh", copy.rev, copy.asOf)
                                                ELSE load[m]
    BY <2>1 DEF IInv, TypeOK
  <2>5. \A m \in Loaders : CallOK(m, load'[m])
    BY <2>3, <2>4, CallsOK
  <2>6. \A x \in DOMAIN entries' : entries'[x] = IF x = k THEN copy ELSE entries[x]
    BY <2>1
  <2>7. copy \in Copy
    BY <1>1, <2>2 DEF Copy
  <2> HIDE DEF k
  <2>8. TypeOK'
    <3>1. load' \in [Loaders -> Call]
      BY <2>1, <2>3 DEF CallOK, IInv, TypeOK
    <3>2. DOMAIN entries' \subseteq Keys
      BY <1>1, <2>1 DEF IInv, TypeOK
    <3>3. \A x \in DOMAIN entries' : entries'[x] \in Copy
      BY <2>1, <2>6, <2>7 DEF IInv, TypeOK
    <3> QED
      BY <2>1, <3>1, <3>2, <3>3 DEF IInv, TypeOK
  <2>9. NothingOlderThanInvalidation'
    BY <2>1, <2>2, <2>6 DEF IInv, NothingOlderThanInvalidation
  <2>10. CopiesInTime'
    BY <1>1, <2>1, <2>2, <2>6 DEF IInv, CopiesInTime
  <2>11. HandledAreMade'
    BY <2>1 DEF IInv, HandledAreMade
  <2>12. GenerationsGrow'
    BY <2>1, <2>5 DEF CallOK, GenerationsGrow, SameEpochs
  <2>13. CallsInTime'
    BY <2>1, <2>5 DEF CallOK, CallsInTime
  <2> QED
    BY <2>8, <2>9, <2>10, <2>11, <2>12, <2>13 DEF IInv
<1>3. CASE ~SameEpochs(l)
  <2>1. /\ load' = [load EXCEPT ![l] = NextAttempt(l)]
        /\ UNCHANGED <<catalog, entries, epoch, tenantEpoch, handled, clock>>
    BY <1>3 DEF Store
  <2>2. CallOK(l, NextAttempt(l))
    <3>1. CASE load[l].attempt < 2
      <4>1. load[l].attempt = 1 /\ load[l].start \in Nat /\ load[l].since \in Nat
        BY <1>1, <3>1 DEF CallOK, Call
      <4>2. load[l].start <= clock /\ clock <= load[l].start + Spent(2)
        BY <1>1, <4>1 DEF CallOK, Spent
      <4> QED
        BY <1>1, <3>1, <4>1, <4>2, MissedOK DEF NextAttempt
    <3>2. CASE ~(load[l].attempt < 2)
      BY <3>2, ErrorOK DEF NextAttempt
    <3> QED
      BY <3>1, <3>2
  <2> QED
    BY <2>1, <2>2, CallStep
<1> QED
  BY <1>2, <1>3

LEMMA ChangeStep == ASSUME IInv, NEW k \in Keys, Change(k) PROVE IInv'
<1> USE DEF Change
<1>1. \A x \in Keys : /\ catalog[x] \in 1..MaxRev
                       /\ catalog'[x] \in 1..MaxRev /\ catalog[x] <= catalog'[x]
  BY DEF IInv, TypeOK
<1>2. TypeOK'
  BY <1>1 DEF IInv, TypeOK
<1>3. HandledAreMade'
  BY <1>1 DEF IInv, TypeOK, HandledAreMade
<1>4. GenerationsGrow' /\ CallsInTime'
  BY DEF IInv, GenerationsGrow, SameEpochs, CallsInTime
<1>5. NothingOlderThanInvalidation' /\ CopiesInTime'
  BY DEF IInv, NothingOlderThanInvalidation, CopiesInTime
<1> QED
  BY <1>2, <1>3, <1>4, <1>5 DEF IInv

\* Invalidations.  What is handled anew is either dropped and its generation moved
\* on, or moved on with its tenant; so no listing in flight for it is stored.
LEMMA InvalidateStep ==
    ASSUME IInv, NEW gone \in SUBSET Keys, NEW named \in SUBSET Keys, Drop(gone),
           handled' = [k \in Keys |-> IF k \in named THEN catalog[k] ELSE handled[k]],
           tenantEpoch' \in [Tenants -> Nat],
           \A t \in Tenants : tenantEpoch[t] <= tenantEpoch'[t],
           \A k \in named : \/ k \in gone
                            \/ /\ k \notin DOMAIN entries
                               /\ tenantEpoch[TenantOf[k]] < tenantEpoch'[TenantOf[k]],
           UNCHANGED <<catalog, load, clock>>
    PROVE  IInv'
<1>1. /\ \A k \in Keys : epoch'[k] = IF k \in gone THEN epoch[k] + 1 ELSE epoch[k]
      /\ \A k \in Keys : epoch[k] \in Nat
      /\ \A k \in Keys : handled'[k] = IF k \in named THEN catalog[k] ELSE handled[k]
      /\ \A k \in Keys : catalog[k] \in 1..MaxRev /\ handled[k] \in 1..MaxRev
      /\ \A k \in Keys : TenantOf[k] \in Tenants
      /\ \A t \in Tenants : tenantEpoch[t] \in Nat /\ tenantEpoch'[t] \in Nat
  BY DEF Drop, IInv, TypeOK, Tenants
<1>2. /\ DOMAIN entries' = DOMAIN entries \ gone
      /\ \A k \in DOMAIN entries' : entries'[k] = entries[k]
  BY DEF Drop
<1>3. TypeOK'
  <2>1. epoch' \in [Keys -> Nat]
    BY <1>1 DEF Drop
  <2>2. handled' \in [Keys -> 1..MaxRev]
    BY <1>1
  <2>3. DOMAIN entries' \subseteq Keys /\ \A k \in DOMAIN entries' : entries'[k] \in Copy
    BY <1>2 DEF IInv, TypeOK
  <2> QED
    BY <2>1, <2>2, <2>3 DEF IInv, TypeOK
<1>4. NothingOlderThanInvalidation'
  <2> SUFFICES ASSUME NEW k \in DOMAIN entries' PROVE entries'[k].rev >= handled'[k]
    BY DEF NothingOlderThanInvalidation
  <2>1. k \in DOMAIN entries /\ k \notin gone /\ k \in Keys
    BY <1>2 DEF IInv, TypeOK
  <2>2. k \notin named
    BY <2>1
  <2> QED
    BY <1>1, <1>2, <2>1, <2>2 DEF IInv, NothingOlderThanInvalidation
<1>5. HandledAreMade'
  BY <1>1 DEF IInv, HandledAreMade
<1>6. GenerationsGrow'
  <2> SUFFICES ASSUME NEW l \in Loaders, load[l].phase \in {"asking", "listed"}
               PROVE  /\ load[l].cu <= epoch'[KeyOf[l]]
                      /\ load[l].tenant <= tenantEpoch'[TenantOf[KeyOf[l]]]
                      /\ ( /\ load[l].phase = "listed"
                           /\ epoch'[KeyOf[l]] = load[l].cu
                           /\ tenantEpoch'[TenantOf[KeyOf[l]]] = load[l].tenant )
                         => load[l].rev >= handled'[KeyOf[l]]
    BY DEF GenerationsGrow, SameEpochs
  <2>1. /\ KeyOf[l] \in Keys /\ load[l].cu \in Nat /\ load[l].tenant \in Nat
        /\ load[l].rev \in Nat
    BY DEF IInv, TypeOK, Call
  <2>2. /\ load[l].cu <= epoch[KeyOf[l]]
        /\ load[l].tenant <= tenantEpoch[TenantOf[KeyOf[l]]]
        /\ load[l].phase = "listed" /\ SameEpochs(l) => load[l].rev >= handled[KeyOf[l]]
    BY DEF IInv, GenerationsGrow
  <2>3. CASE KeyOf[l] \in named
    BY <1>1, <2>1, <2>2, <2>3
  <2>4. CASE KeyOf[l] \notin named
    BY <1>1, <2>1, <2>2, <2>4 DEF SameEpochs
  <2> QED
    BY <2>3, <2>4
<1>7. CopiesInTime'
  BY <1>2 DEF IInv, CopiesInTime
<1>8. CallsInTime'
  BY DEF IInv, CallsInTime
<1> QED
  BY <1>3, <1>4, <1>5, <1>6, <1>7, <1>8 DEF IInv

LEMMA InvalidateCUStep == ASSUME IInv, NEW k \in Keys, InvalidateCU(k) PROVE IInv'
<1>1. /\ tenantEpoch \in [Tenants -> Nat] /\ tenantEpoch' = tenantEpoch
      /\ \A t \in Tenants : tenantEpoch[t] \in Nat
  BY DEF IInv, TypeOK, InvalidateCU
<1> QED
  BY <1>1, InvalidateStep DEF InvalidateCU, Handled

LEMMA InvalidateTenantStep ==
    ASSUME IInv, NEW t \in Tenants, InvalidateTenant(t)
    PROVE  IInv'
<1> DEFINE gone == {k \in DOMAIN entries : TenantOf[k] = t}
           named == {k \in Keys : TenantOf[k] = t}
<1>1. gone \in SUBSET Keys /\ named \in SUBSET Keys
  BY DEF IInv, TypeOK
<1>2. /\ tenantEpoch' \in [Tenants -> Nat]
      /\ \A u \in Tenants : tenantEpoch[u] <= tenantEpoch'[u]
      /\ tenantEpoch[t] < tenantEpoch'[t]
  BY DEF IInv, TypeOK, InvalidateTenant
<1>3. \A k \in named : \/ k \in gone
                       \/ /\ k \notin DOMAIN entries
                          /\ tenantEpoch[TenantOf[k]] < tenantEpoch'[TenantOf[k]]
  BY <1>2
<1>4. /\ Drop(gone) /\ UNCHANGED <<catalog, load, clock>>
      /\ handled' = [k \in Keys |-> IF k \in named THEN catalog[k] ELSE handled[k]]
  BY DEF InvalidateTenant, Handled
<1> HIDE DEF gone, named
<1> QED
  BY <1>1, <1>2, <1>3, <1>4, InvalidateStep, Zenon

LEMMA InvalidatePointStep == ASSUME IInv, NEW k \in Keys, InvalidatePoint(k) PROVE IInv'
<1> DEFINE none == {x \in Keys : FALSE}
           gone == {k}
<1>1. gone \in SUBSET Keys /\ none \in SUBSET Keys /\ \A x \in none : x \in gone
  OBVIOUS
<1>2. /\ tenantEpoch' \in [Tenants -> Nat]
      /\ \A t \in Tenants : tenantEpoch[t] <= tenantEpoch'[t]
  <2>1. tenantEpoch \in [Tenants -> Nat] /\ tenantEpoch' = tenantEpoch
    BY DEF IInv, TypeOK, InvalidatePoint
  <2> QED
    BY <2>1
<1>3. handled' = [x \in Keys |-> IF x \in none THEN catalog[x] ELSE handled[x]]
  BY DEF IInv, TypeOK, InvalidatePoint
<1>4. Drop(gone) /\ UNCHANGED <<catalog, load, clock>>
  BY DEF InvalidatePoint
<1> HIDE DEF gone, none
<1> QED
  BY <1>1, <1>2, <1>3, <1>4, InvalidateStep, Zenon

\* Time passes only while every listing is within its timeout.
LEMMA TickStep == ASSUME IInv, Tick PROVE IInv'
<1> USE DEF Tick
<1>1. clock \in Nat /\ clock' = clock + 1
  BY DEF IInv, TypeOK
<1>2. TypeOK'
  BY <1>1 DEF IInv, TypeOK
<1>3. CopiesInTime'
  <2> SUFFICES ASSUME NEW k \in DOMAIN entries
               PROVE  /\ entries[k].asOf <= entries[k].storedAt
                      /\ entries[k].storedAt <= clock'
                      /\ entries[k].storedAt <= entries[k].asOf + Timeout
    BY DEF CopiesInTime
  <2>1. entries[k].storedAt \in Nat
    BY DEF IInv, TypeOK, Copy
  <2> QED
    BY <1>1, <2>1 DEF IInv, CopiesInTime
<1>4. CallsInTime'
  <2> SUFFICES ASSUME NEW l \in Loaders, load[l].phase \in {"asking", "listed"}
               PROVE  /\ load[l].attempt >= 1
                      /\ load[l].start <= load[l].since /\ load[l].since <= clock'
                      /\ load[l].since <= load[l].start + Spent(load[l].attempt)
                      /\ clock' <= load[l].since + Timeout
                      /\ load[l].phase = "listed" =>
                           /\ load[l].since <= load[l].asOf /\ load[l].asOf <= clock'
                           /\ load[l].rev >= 1
    BY DEF CallsInTime
  <2>1. load[l].since \in Nat /\ load[l].asOf \in Nat
    BY DEF IInv, TypeOK, Call
  <2>2. CallOK(l, load[l])
    BY CallsOK
  <2>3. clock < load[l].since + Timeout
    OBVIOUS
  <2> QED
    BY <1>1, <2>1, <2>2, <2>3 DEF CallOK
<1>5. GenerationsGrow' /\ NothingOlderThanInvalidation' /\ HandledAreMade'
  BY DEF IInv, GenerationsGrow, SameEpochs, NothingOlderThanInvalidation, HandledAreMade
<1> QED
  BY <1>2, <1>3, <1>4, <1>5 DEF IInv

LEMMA StutterStep == ASSUME IInv, UNCHANGED vars PROVE IInv'
BY DEF IInv, vars, TypeOK, NothingOlderThanInvalidation, HandledAreMade, GenerationsGrow,
       SameEpochs, CopiesInTime, CallsInTime

LEMMA NextInvariant == IInv /\ [Next]_vars => IInv'
<1> SUFFICES ASSUME IInv, [Next]_vars PROVE IInv'
  OBVIOUS
<1>1. ASSUME NEW l \in Loaders, \/ LookUp(l) \/ Ask(l) \/ ListCUBindings(l)
                               \/ ListFails(l) \/ Store(l) \/ Take(l)
      PROVE  IInv'
  BY <1>1, LookUpStep, AskStep, ListStep, FailStep, StoreStep, TakeStep
<1>2. ASSUME NEW k \in Keys, Change(k) \/ InvalidateCU(k) \/ InvalidatePoint(k)
      PROVE  IInv'
  BY <1>2, ChangeStep, InvalidateCUStep, InvalidatePointStep
<1>3. ASSUME NEW t \in Tenants, InvalidateTenant(t)
      PROVE  IInv'
  BY <1>3, InvalidateTenantStep
<1>4. CASE Tick
  BY <1>4, TickStep
<1>5. CASE UNCHANGED vars
  BY <1>5, StutterStep
<1> QED
  BY <1>1, <1>2, <1>3, <1>4, <1>5 DEF Next

-----------------------------------------------------------------------------
\* Every behaviour keeps the inductive invariant.
THEOREM Invariance == Spec => []IInv
BY InitInvariant, NextInvariant, PTL DEF Spec

\* The state keeps its shape, and no call makes a third attempt.
THEOREM TypeCorrect == Spec => []TypeOK
BY Invariance, PTL DEF IInv

\* However loads and invalidations interleave, the cache holds no copy older than
\* a change whose event, naming the CU or its tenant, was handled.
THEOREM CopiesCurrent == Spec => []NothingOlderThanInvalidation
BY Invariance, PTL DEF IInv

-----------------------------------------------------------------------------
\* A caller gets its answer in one of three ways: a copy within TTL, a copy within
\* MaxAge of the time it began, or its own listing that nothing overtook.
LEMMA WaysToAnswer ==
    ASSUME IInv, Next, NEW l \in Loaders, Answers(l)
    PROVE  /\ UNCHANGED <<clock, handled>>
           /\ LET k == KeyOf[l]
              IN  \/ /\ Cached(k, clock, TTL)
                     /\ load'[l] = ReturnedCopy("cache", k)
                  \/ /\ load[l].phase \in {"asking", "listed"}
                     /\ Cached(k, load[l].start, MaxAge)
                     /\ load'[l] = ReturnedCopy("fallback", k)
                  \/ /\ load[l].phase = "listed" /\ SameEpochs(l)
                     /\ load'[l] = Returned("fresh", load[l].rev, load[l].asOf)
<1> DEFINE k == KeyOf[l]
<1> USE DEF Answers
<1>1. load \in [Loaders -> Call]
  BY DEF IInv, TypeOK
<1>2. load'[l] # load[l]
  OBVIOUS
<1>3. ReturnedError.origin = "error"
  BY IdleIsCall DEF ReturnedError, Returned, Call
<1>4. \A n, begun : Missed(n, begun).phase = "missed"
  BY IdleIsCall DEF Missed, Call
<1>5. ASSUME NEW m \in Loaders, \/ LookUp(m) \/ Ask(m) \/ ListCUBindings(m)
                               \/ ListFails(m) \/ Store(m) \/ Take(m)
      PROVE  m = l
  BY <1>1, <1>2, <1>5 DEF LookUp, Ask, ListCUBindings, ListFails, Store, Take
<1>6. CASE LookUp(l)
  <2>1. CASE Cached(k, clock, TTL)
    BY <1>1, <1>6, <2>1 DEF LookUp
  <2>2. CASE ~Cached(k, clock, TTL)
    BY <1>1, <1>4, <1>6, <2>2 DEF LookUp
  <2> QED
    BY <2>1, <2>2
<1>7. ~Ask(l) /\ ~ListCUBindings(l)
  BY <1>1 DEF Ask, ListCUBindings, Call
<1>8. CASE ListFails(l)
  BY <1>1, <1>3, <1>8 DEF ListFails
<1>9. CASE Store(l)
  <2>1. CASE SameEpochs(l)
    BY <1>1, <1>9, <2>1 DEF Store
  <2>2. CASE ~SameEpochs(l)
    BY <1>1, <1>3, <1>4, <1>9, <2>2 DEF Store, NextAttempt
  <2> QED
    BY <2>1, <2>2
<1>10. ~Take(l)
  BY <1>1 DEF Take, Idle
<1>11. \A x \in Keys : ~Change(x) /\ ~InvalidateCU(x) /\ ~InvalidatePoint(x)
  BY <1>2 DEF Change, InvalidateCU, InvalidatePoint
<1>12. ~Tick /\ \A t \in Tenants : ~InvalidateTenant(t)
  BY <1>2 DEF Tick, InvalidateTenant
<1> QED
  BY <1>5, <1>6, <1>7, <1>8, <1>9, <1>10, <1>11, <1>12 DEF Next

\* What an answer carries.
LEMMA AnswerFields ==
    ASSUME NEW origin, NEW rev, NEW asOf
    PROVE  /\ Returned(origin, rev, asOf).origin = origin
           /\ Returned(origin, rev, asOf).rev = rev
           /\ Returned(origin, rev, asOf).asOf = asOf
BY IdleIsCall DEF Returned, Call

\* Whatever its origin, a snapshot shows every change whose event was handled
\* before Load returned it.
THEOREM AnswersCurrent == Spec => LoadsAreCurrent
<1>1. ASSUME IInv, [Next]_vars, NEW l \in Loaders, Answers(l)
      PROVE  load'[l].rev >= handled[KeyOf[l]]
  <2>1. Next
    BY <1>1 DEF Answers, vars
  <2>2. CallOK(l, load[l])
    BY <1>1, CallsOK
  <2>3. CASE load[l].phase = "listed" /\ SameEpochs(l)
             /\ load'[l] = Returned("fresh", load[l].rev, load[l].asOf)
    BY <2>2, <2>3, AnswerFields DEF CallOK, SameEpochs
  <2>4. CASE /\ KeyOf[l] \in DOMAIN entries
             /\ load'[l].rev = entries[KeyOf[l]].rev
    BY <1>1, <2>4 DEF IInv, NothingOlderThanInvalidation
  <2> QED
    BY <1>1, <2>1, <2>3, <2>4, WaysToAnswer, AnswerFields DEF Cached, ReturnedCopy
<1>2. IInv /\ [Next]_vars
        => [\A l \in Loaders : Answers(l) => load'[l].rev >= handled[KeyOf[l]]]_vars
  BY <1>1
<1> QED
  BY <1>2, Invariance, PTL DEF Spec, LoadsAreCurrent

\* With no event at all, a snapshot lags behind Resource by no more than the age
\* its copy was allowed and the listings around it.
THEOREM AnswersInTime == Spec => StalenessBounded
<1>1. ASSUME IInv, [Next]_vars, NEW l \in Loaders, Answers(l)
      PROVE  clock - load'[l].asOf <= LongestLag(load'[l].origin)
  <2> DEFINE k == KeyOf[l]
  <2>1. Next
    BY <1>1 DEF Answers, vars
  <2>2. CallOK(l, load[l]) /\ load[l] \in Call /\ clock \in Nat
    BY <1>1, CallsOK DEF IInv, TypeOK
  <2>3. k \in DOMAIN entries =>
          /\ entries[k].asOf \in Nat /\ entries[k].storedAt \in Nat
          /\ entries[k].storedAt <= entries[k].asOf + Timeout
    BY <1>1 DEF IInv, TypeOK, Copy, CopiesInTime
  <2>4. CASE Cached(k, clock, TTL) /\ load'[l] = ReturnedCopy("cache", k)
    <3>1. load'[l].origin = "cache" /\ load'[l].asOf = entries[k].asOf
      BY <2>4, AnswerFields DEF ReturnedCopy
    <3> QED
      BY <2>2, <2>3, <2>4, <3>1 DEF Cached, LongestLag
  <2>5. CASE /\ load[l].phase \in {"asking", "listed"}
             /\ Cached(k, load[l].start, MaxAge)
             /\ load'[l] = ReturnedCopy("fallback", k)
    <3>1. load'[l].origin = "fallback" /\ load'[l].asOf = entries[k].asOf
      BY <2>5, AnswerFields DEF ReturnedCopy
    <3>2. /\ load[l].since \in Nat /\ load[l].start \in Nat
          /\ clock <= load[l].since + Timeout /\ load[l].since <= load[l].start + Timeout
      BY <2>2, <2>5 DEF CallOK, Call, Spent
    <3> QED
      BY <2>2, <2>3, <2>5, <3>1, <3>2 DEF Cached, LongestLag
  <2>6. CASE /\ load[l].phase = "listed"
             /\ load'[l] = Returned("fresh", load[l].rev, load[l].asOf)
    <3>1. load'[l].origin = "fresh" /\ load'[l].asOf = load[l].asOf
      BY <2>6, AnswerFields
    <3>2. /\ load[l].since \in Nat /\ load[l].asOf \in Nat
          /\ clock <= load[l].since + Timeout /\ load[l].since <= load[l].asOf
      BY <2>2, <2>6 DEF CallOK, Call
    <3> QED
      BY <2>2, <3>1, <3>2 DEF LongestLag
  <2> QED
    BY <1>1, <2>1, <2>4, <2>5, <2>6, WaysToAnswer
<1>2. IInv /\ [Next]_vars
        => [\A l \in Loaders :
              Answers(l) => clock - load'[l].asOf <= LongestLag(load'[l].origin)]_vars
  BY <1>1
<1> QED
  BY <1>2, Invariance, PTL DEF Spec, StalenessBounded
=============================================================================
