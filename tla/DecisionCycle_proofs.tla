------------------------ MODULE DecisionCycle_proofs ------------------------
(* The windows of a direction's plans do not overlap, and plans are made    *)
(* from current limits and scopes: for any replicas, scopes, policies and   *)
(* durations.  And the allocation is fair: for any units, envelopes, states *)
(* of charge and powers.                                                    *)
EXTENDS DecisionCycle, TLAPS, FiniteSetTheorems, WellFoundedInduction

Steps == {"idle", "listed", "asking", "evaluate", "claim", "write", "commit"}

\* What the invariant says of one replica that is at step s with cycle y.
Coherent(s, y) ==
    /\ s # "idle" => y.at <= now /\ y.cooldown > 0
    /\ s = "listed" => y.version <= policy.version
    /\ s = "asking" => y.version <= y.rule /\ y.at <= y.asked /\ y.asked <= now
    /\ s \in {"asking", "evaluate"} => y.limits \in Rules
    /\ s = "evaluate" =>
         /\ y.version <= y.rule
         /\ y.revision # 0
         /\ replaced[y.revision] + MaxAge >= y.at
    /\ s \in {"claim", "write", "commit"} => y.direction \in Directions
    /\ s \in {"write", "commit"} =>
         /\ y.seen.version = 0 \/ y.seen.until <= y.at
         /\ y.seen.version <= cooldown[y.direction].version
         /\ y.seen.version = cooldown[y.direction].version => y.seen = cooldown[y.direction]
    /\ s = "commit" => y.seen = cooldown[y.direction]

\* No two transactions that have written the row of one direction are open.
RowLocks ==
    \A b, c \in Replicas :
      b # c /\ step[b] = "commit" /\ step[c] = "commit" => cycle[b].direction # cycle[c].direction

CopyFine(k) == k.revision # 0 => k.storedAt <= now /\ k.storedAt <= replaced[k.revision]

Shared == /\ OnePlanPerWindow /\ PlansAreClaimed
          /\ policy.version = rule.version
          /\ \A r \in Revisions : r >= catalog => replaced[r] = Never

LEMMA Parts ==
    IInv <=> /\ TypeOK /\ Shared /\ RowLocks
             /\ \A c \in Replicas : Coherent(step[c], cycle[c]) /\ CopyFine(cache[c])
BY DEF IInv, Shared, RowLocks, Coherent, CopyFine, PlansAreCurrent, RowsTogether, TimesPass,
       CopiesWereCurrent, ClaimsFollow, Row

LEMMA PartsNext ==
    IInv' <=> /\ TypeOK' /\ Shared' /\ RowLocks'
              /\ \A c \in Replicas : Coherent(step[c], cycle[c])' /\ CopyFine(cache[c])'
BY DEF IInv, Shared, RowLocks, Coherent, CopyFine, PlansAreCurrent, RowsTogether, TimesPass,
       CopiesWereCurrent, ClaimsFollow, Row

(* One field of a cycle at a time. *)
LEMMA SetRule ==
    ASSUME NEW y \in Cycles, NEW v \in Nat
    PROVE  LET z == [y EXCEPT !.rule = v] IN
             /\ z \in Cycles /\ z.rule = v /\ z.at = y.at /\ z.version = y.version
             /\ z.cooldown = y.cooldown /\ z.limits = y.limits
BY DEF Cycles
LEMMA SetLimits ==
    ASSUME NEW y \in Cycles, NEW v \in Rules
    PROVE  LET z == [y EXCEPT !.limits = v] IN
             /\ z \in Cycles /\ z.rule = y.rule /\ z.at = y.at /\ z.version = y.version
             /\ z.cooldown = y.cooldown /\ z.limits = v
BY DEF Cycles
LEMMA SetRevision ==
    ASSUME NEW y \in Cycles, NEW v \in {0} \cup Revisions
    PROVE  LET z == [y EXCEPT !.revision = v] IN
             /\ z \in Cycles /\ z.rule = y.rule /\ z.at = y.at /\ z.version = y.version
             /\ z.cooldown = y.cooldown /\ z.limits = y.limits /\ z.revision = v
BY DEF Cycles
LEMMA SetAsked ==
    ASSUME NEW y \in Cycles, NEW v \in Nat
    PROVE  LET z == [y EXCEPT !.asked = v] IN
             /\ z \in Cycles /\ z.rule = y.rule /\ z.at = y.at /\ z.version = y.version
             /\ z.cooldown = y.cooldown /\ z.limits = y.limits /\ z.revision = y.revision /\ z.asked = v
BY DEF Cycles
LEMMA SetSeen ==
    ASSUME NEW y \in Cycles, NEW v \in Claims
    PROVE  LET z == [y EXCEPT !.seen = v] IN
             /\ z \in Cycles /\ z.at = y.at /\ z.cooldown = y.cooldown
             /\ z.direction = y.direction /\ z.seen = v
BY DEF Cycles
LEMMA SetAttempt ==
    ASSUME NEW y \in Cycles, NEW v \in Nat
    PROVE  LET z == [y EXCEPT !.attempt = v] IN
             /\ z \in Cycles /\ z.at = y.at /\ z.cooldown = y.cooldown
             /\ z.direction = y.direction
BY DEF Cycles

LEMMA NoCycleFine == NoCycle \in Cycles
BY DEF NoCycle, Cycles, NoLimits, NoCooldown, Claims

\* A step of one replica that leaves all else alone but its cache.
LEMMA ReplicaStep ==
    ASSUME IInv, NEW c \in Replicas, NEW s \in Steps, NEW y \in Cycles, NEW k \in Scopes,
           step' = [step EXCEPT ![c] = s], cycle' = [cycle EXCEPT ![c] = y],
           cache' = [cache EXCEPT ![c] = k],
           UNCHANGED <<now, policies, cooldown, resource, plans>>,
           Coherent(s, y), CopyFine(k),
           s = "commit" => ~Locked(y.direction)
    PROVE  IInv'
<1>1. /\ TypeOK /\ Shared /\ RowLocks
      /\ \A b \in Replicas : Coherent(step[b], cycle[b]) /\ CopyFine(cache[b])
  BY Parts
<1>2. /\ \A b \in Replicas : step'[b] = IF b = c THEN s ELSE step[b]
      /\ \A b \in Replicas : cycle'[b] = IF b = c THEN y ELSE cycle[b]
      /\ \A b \in Replicas : cache'[b] = IF b = c THEN k ELSE cache[b]
  BY <1>1 DEF TypeOK
<1>3. TypeOK'
  BY <1>1 DEF TypeOK, Steps, policies, resource
<1>4. Shared'
  BY <1>1 DEF Shared, OnePlanPerWindow, PlansAreClaimed, policies, resource
<1>5. RowLocks'
  <2>1. SUFFICES ASSUME NEW a \in Replicas, NEW b \in Replicas, a # b,
                        step'[a] = "commit", step'[b] = "commit"
                 PROVE  cycle'[a].direction # cycle'[b].direction
    BY DEF RowLocks
  <2>2. CASE a = c
    BY <1>2, <2>1, <2>2 DEF Locked
  <2>3. CASE b = c
    BY <1>2, <2>1, <2>3 DEF Locked
  <2>4. CASE a # c /\ b # c
    BY <1>1, <1>2, <2>1, <2>4 DEF RowLocks
  <2>5. QED
    BY <2>2, <2>3, <2>4
<1>6. ASSUME NEW b \in Replicas PROVE Coherent(step[b], cycle[b])'
  <2>1. Coherent(step'[b], cycle'[b])
    BY <1>1, <1>2
  <2>2. QED
    BY <2>1 DEF Coherent, policies, resource
<1>7. ASSUME NEW b \in Replicas PROVE CopyFine(cache[b])'
  <2>1. CopyFine(cache'[b])
    BY <1>1, <1>2
  <2>2. QED
    BY <2>1 DEF CopyFine, resource
<1>8. QED
  BY <1>3, <1>4, <1>5, <1>6, <1>7, PartsNext

LEMMA SameCache ==
    ASSUME TypeOK, NEW c \in Replicas
    PROVE  cache = [cache EXCEPT ![c] = cache[c]] /\ cache[c] \in Scopes
BY DEF TypeOK

LEMMA SameCycle ==
    ASSUME TypeOK, NEW c \in Replicas
    PROVE  cycle = [cycle EXCEPT ![c] = cycle[c]] /\ cycle[c] \in Cycles
BY DEF TypeOK

LEMMA EndStep ==
    ASSUME IInv, NEW c \in Replicas, End(c), NEW k \in Scopes, CopyFine(k),
           cache' = [cache EXCEPT ![c] = k],
           UNCHANGED <<now, policies, cooldown, resource, plans>>
    PROVE  IInv'
<1>1. Coherent("idle", NoCycle)
  BY DEF Coherent
<1>2. "idle" \in Steps
  BY DEF Steps
<1>3. QED
  BY <1>1, <1>2, NoCycleFine, ReplicaStep DEF End

\* The end of a cycle that leaves the cache alone.
LEMMA QuietEnd ==
    ASSUME IInv, NEW c \in Replicas, End(c),
           UNCHANGED <<now, policies, cooldown, resource, cache, plans>>
    PROVE  IInv'
<1>1. TypeOK /\ CopyFine(cache[c])
  BY Parts
<1>2. cache' = [cache EXCEPT ![c] = cache[c]] /\ cache[c] \in Scopes
  BY <1>1, SameCache
<1>3. QED
  BY <1>1, <1>2, EndStep

\* Another step of a replica that leaves the cache alone.
LEMMA QuietStep ==
    ASSUME IInv, NEW c \in Replicas, NEW s \in Steps, NEW y \in Cycles,
           Goto(c, s), cycle' = [cycle EXCEPT ![c] = y],
           UNCHANGED <<now, policies, cooldown, resource, cache, plans>>,
           Coherent(s, y), s = "commit" => ~Locked(y.direction)
    PROVE  IInv'
<1>1. TypeOK /\ CopyFine(cache[c])
  BY Parts
<1>2. cache' = [cache EXCEPT ![c] = cache[c]] /\ cache[c] \in Scopes
  BY <1>1, SameCache
<1>3. QED
  BY <1>1, <1>2, ReplicaStep DEF Goto

LEMMA ListEnabledStep ==
    ASSUME IInv, NEW c \in Replicas, ListEnabled(c)
    PROVE  IInv'
<1> DEFINE y1 == [NoCycle EXCEPT !.at = now]
           y2 == [y1 EXCEPT !.version = policy.version]
           y == [y2 EXCEPT !.cooldown = policy.cooldown]
<1>1. TypeOK /\ now \in Nat /\ policy.version \in Nat /\ policy.cooldown \in Nat \ {0}
  <2>1. TypeOK /\ now \in Nat /\ policy.version \in Nat /\ policy.cooldown \in Cooldowns
    BY Parts DEF TypeOK
  <2>2. QED
    BY <2>1, CycleAssumption
<1>2. y1 \in Cycles /\ y1.at = now
  BY <1>1, NoCycleFine DEF Cycles
<1>3. y2 \in Cycles /\ y2.at = now /\ y2.version = policy.version
  <2> HIDE DEF y1
  <2> QED BY <1>1, <1>2 DEF Cycles
<1>4. y \in Cycles /\ y.at = now /\ y.version = policy.version /\ y.cooldown = policy.cooldown
  <2> HIDE DEF y2
  <2> QED BY <1>1, <1>3 DEF Cycles
<1>5. Goto(c, "listed") /\ cycle' = [cycle EXCEPT ![c] = y]
      /\ UNCHANGED <<now, policies, cooldown, resource, cache, plans>>
  BY DEF ListEnabled
<1> HIDE DEF y
<1>6. Coherent("listed", y) /\ "listed" \in Steps
  BY <1>1, <1>4 DEF Coherent, Steps
<1>7. QED
  BY <1>4, <1>5, <1>6, QuietStep

LEMMA ReadRuleStep ==
    ASSUME IInv, NEW c \in Replicas, ReadRule(c)
    PROVE  IInv'
<1> DEFINE hit == Cached(c, now, TTL)
           v == IF hit THEN cache[c].revision ELSE 0
           t == IF hit THEN 0 ELSE now
           s == IF hit THEN "evaluate" ELSE "asking"
           y0 == cycle[c]
           y1 == [y0 EXCEPT !.rule = rule.version]
           y2 == [y1 EXCEPT !.limits = rule.limits]
           y3 == [y2 EXCEPT !.revision = v]
           y == [y3 EXCEPT !.asked = t]
<1>1. /\ TypeOK /\ policy.version = rule.version /\ step[c] = "listed"
      /\ Coherent("listed", cycle[c]) /\ CopyFine(cache[c])
  BY Parts DEF ReadRule, Shared
<1>2. /\ y0 \in Cycles /\ rule.version \in Nat /\ rule.limits \in Rules /\ now \in Nat
      /\ cache[c] \in Scopes /\ v \in {0} \cup Revisions /\ t \in Nat
  BY <1>1 DEF TypeOK, Scopes
<1>3. y1 \in Cycles /\ y1.rule = rule.version /\ y1.at = y0.at /\ y1.version = y0.version
      /\ y1.cooldown = y0.cooldown
  BY <1>2, SetRule
<1>4. y2 \in Cycles /\ y2.rule = rule.version /\ y2.at = y0.at /\ y2.version = y0.version
      /\ y2.cooldown = y0.cooldown /\ y2.limits = rule.limits
  <2> HIDE DEF y1
  <2> QED BY <1>2, <1>3, SetLimits
<1>5. y3 \in Cycles /\ y3.rule = rule.version /\ y3.at = y0.at /\ y3.version = y0.version
      /\ y3.cooldown = y0.cooldown /\ y3.limits = rule.limits /\ y3.revision = v
  <2> HIDE DEF y2, v
  <2> QED BY <1>2, <1>4, SetRevision
<1>6. y \in Cycles /\ y.rule = rule.version /\ y.at = y0.at /\ y.version = y0.version
      /\ y.cooldown = y0.cooldown /\ y.limits = rule.limits /\ y.revision = v /\ y.asked = t
  <2> HIDE DEF y3, t, v
  <2> QED BY <1>2, <1>5, SetAsked
<1>7. Goto(c, s) /\ cycle' = [cycle EXCEPT ![c] = y]
      /\ UNCHANGED <<now, policies, cooldown, resource, cache, plans>>
  BY DEF ReadRule
<1> HIDE DEF y
<1>8. Coherent(s, y)
  <2>1. CASE hit
    <3>1. y.revision = cache[c].revision /\ cache[c].revision \in Revisions
          /\ now - cache[c].storedAt <= TTL /\ cache[c].storedAt <= replaced[cache[c].revision]
      BY <1>1, <1>2, <1>6, <2>1 DEF Cached, CopyFine, Scopes
    <3>2. replaced[y.revision] \in Nat /\ cache[c].storedAt \in Nat /\ y0.at \in Nat /\ y0.at <= now
      BY <1>1, <1>2, <3>1 DEF TypeOK, Scopes, Cycles, Coherent
    <3>3. replaced[y.revision] + MaxAge >= y.at
      BY <1>2, <1>6, <3>1, <3>2, CycleAssumption
    <3>4. y.revision # 0
      BY <3>1, CycleAssumption DEF Revisions
    <3>5. QED
      BY <1>1, <1>2, <1>6, <2>1, <3>3, <3>4 DEF Coherent
  <2>2. CASE ~hit
    BY <1>1, <1>2, <1>6, <2>2 DEF Coherent
  <2>3. QED
    BY <2>1, <2>2
<1>9. s \in Steps /\ s # "commit"
  BY DEF Steps
<1>10. QED
  <2> HIDE DEF s
  <2> QED BY <1>6, <1>7, <1>8, <1>9, QuietStep

\* A scope is found: fresh, or old and good enough.
LEMMA ResolvedStep ==
    ASSUME IInv, NEW c \in Replicas, step[c] = "asking", NEW v \in Revisions, NEW k \in Scopes,
           Resolved(c, v), cache' = [cache EXCEPT ![c] = k], CopyFine(k),
           replaced[v] + MaxAge >= cycle[c].at,
           UNCHANGED <<now, policies, cooldown, resource, plans>>
    PROVE  IInv'
<1> DEFINE y0 == cycle[c]
           y1 == [y0 EXCEPT !.revision = v]
           y == [y1 EXCEPT !.asked = 0]
<1>1. TypeOK /\ Coherent("asking", y0) /\ y0 \in Cycles
  BY Parts DEF TypeOK
<1>2. y1 \in Cycles /\ y1.rule = y0.rule /\ y1.at = y0.at /\ y1.version = y0.version
      /\ y1.cooldown = y0.cooldown /\ y1.limits = y0.limits /\ y1.revision = v
  <2> HIDE DEF y0
  <2> QED BY <1>1, SetRevision
<1>3. y \in Cycles /\ y.rule = y0.rule /\ y.at = y0.at /\ y.version = y0.version
      /\ y.cooldown = y0.cooldown /\ y.limits = y0.limits /\ y.revision = v
  <2> HIDE DEF y1, y0
  <2> QED BY <1>1, <1>2, SetAsked
<1>4. step' = [step EXCEPT ![c] = "evaluate"] /\ cycle' = [cycle EXCEPT ![c] = y]
  BY DEF Resolved, Goto
<1> HIDE DEF y
<1>5. Coherent("evaluate", y) /\ "evaluate" \in Steps /\ v # 0
  BY <1>1, <1>3 DEF Coherent, Steps, Revisions
<1>6. QED
  BY <1>3, <1>4, <1>5, ReplicaStep

LEMMA FreshStep ==
    ASSUME IInv, NEW c \in Replicas, Fresh(c)
    PROVE  IInv'
<1>1. TypeOK /\ step[c] = "asking" /\ Coherent("asking", cycle[c])
      /\ UNCHANGED <<now, policies, cooldown, resource, plans>>
  BY Parts DEF Fresh
<1>2. /\ catalog \in Revisions /\ replaced[catalog] = Never /\ now \in 0..MaxNow
      /\ cycle[c].at \in Nat /\ cycle[c].asked \in Nat
      /\ cycle[c].at <= now /\ cycle[c].asked <= now
  BY <1>1, Parts DEF TypeOK, Shared, Coherent, Cycles, Revisions
<1>3. CASE Catalogs[catalog].ok
  <2> DEFINE k == [revision |-> catalog, storedAt |-> cycle[c].asked]
  <2>1. cache' = [cache EXCEPT ![c] = k] /\ Resolved(c, catalog)
    BY <1>3 DEF Fresh
  <2>2. k \in Scopes /\ CopyFine(k)
    BY <1>2, CycleAssumption DEF Scopes, CopyFine, Never
  <2>3. replaced[catalog] + MaxAge >= cycle[c].at
    BY <1>2, CycleAssumption DEF Never
  <2>4. QED
    BY <1>1, <1>2, <2>1, <2>2, <2>3, ResolvedStep
<1>4. CASE ~Catalogs[catalog].ok
  <2>1. cache' = [cache EXCEPT ![c] = NoScope] /\ End(c)
    BY <1>4 DEF Fresh
  <2>2. NoScope \in Scopes /\ CopyFine(NoScope)
    BY DEF NoScope, Scopes, CopyFine
  <2>3. QED
    BY <1>1, <2>1, <2>2, EndStep
<1>5. QED
  BY <1>3, <1>4

LEMMA UnavailableStep ==
    ASSUME IInv, NEW c \in Replicas, Unavailable(c)
    PROVE  IInv'
<1>1. /\ TypeOK /\ step[c] = "asking" /\ Coherent("asking", cycle[c]) /\ CopyFine(cache[c])
      /\ UNCHANGED <<now, policies, cooldown, resource, cache, plans>>
      /\ cache' = [cache EXCEPT ![c] = cache[c]] /\ cache[c] \in Scopes
  BY Parts, SameCache DEF Unavailable
<1>2. CASE Fallback(c)
  <2>1. /\ cache[c].revision \in Revisions /\ Resolved(c, cache[c].revision)
        /\ cycle[c].asked - cache[c].storedAt <= MaxAge
        /\ cache[c].storedAt <= replaced[cache[c].revision]
    BY <1>1, <1>2 DEF Fallback, Cached, Unavailable, Scopes, CopyFine
  <2>2. /\ replaced[cache[c].revision] \in Nat /\ cache[c].storedAt \in Nat
        /\ cycle[c].at \in Nat /\ cycle[c].asked \in Nat /\ cycle[c].at <= cycle[c].asked
    BY <1>1, <2>1 DEF TypeOK, Scopes, Cycles, Coherent
  <2>3. replaced[cache[c].revision] + MaxAge >= cycle[c].at
    BY <2>1, <2>2, CycleAssumption
  <2>4. QED
    BY <1>1, <2>1, <2>3, ResolvedStep
<1>3. CASE ~Fallback(c)
  BY <1>1, <1>3, QuietEnd DEF Unavailable
<1>4. QED
  BY <1>2, <1>3

LEMMA DecisionsFine ==
    ASSUME NEW r \in Revisions, NEW limits \in Rules, NEW d \in Decisions[r][limits]
    PROVE  /\ d.direction \in {"none"} \cup Directions
           /\ d.status \in {"none", "ready", "rejected"}
<1>1. PICK soc \in [CUs -> SOCs] : d = Decision(limits, Catalogs[r].unit, soc)
  BY DEF Decisions
<1> DEFINE way == Crossed(Catalogs[r].unit, soc, limits)
           status == PlanStatus(limits, way, Catalogs[r].unit, soc)
<1>2. d.direction = way /\ d.status = IF way = "none" THEN "none" ELSE status
  BY <1>1 DEF Decision
<1>3. way \in {"none"} \cup Directions
  BY DEF Crossed, Directions
<1>4. status \in {"ready", "rejected"}
  BY DEF PlanStatus
<1>5. QED
  <2> HIDE DEF way, status
  <2> QED BY <1>2, <1>3, <1>4

LEMMA EvaluateStep ==
    ASSUME IInv, NEW c \in Replicas, Evaluate(c)
    PROVE  IInv'
<1>1. /\ TypeOK /\ step[c] = "evaluate" /\ Coherent("evaluate", cycle[c]) /\ cycle[c] \in Cycles
      /\ UNCHANGED <<now, policies, cooldown, resource, cache, plans>>
  BY Parts DEF Evaluate, TypeOK
<1>2. PICK d \in Decisions[cycle[c].revision][cycle[c].limits] :
         IF d.direction = "none" \/ CoolingDown(d.direction, cycle[c].at) THEN End(c)
         ELSE /\ Goto(c, "claim")
              /\ cycle' = [cycle EXCEPT ![c] =
                   [NoCycle EXCEPT !.at = cycle[c].at, !.cooldown = cycle[c].cooldown,
                      !.direction = d.direction, !.status = d.status]]
  BY DEF Evaluate
<1>3. CASE d.direction = "none" \/ CoolingDown(d.direction, cycle[c].at)
  BY <1>1, <1>2, <1>3, QuietEnd
<1>4. CASE ~(d.direction = "none" \/ CoolingDown(d.direction, cycle[c].at))
  <2> DEFINE y1 == [NoCycle EXCEPT !.at = cycle[c].at]
             y2 == [y1 EXCEPT !.cooldown = cycle[c].cooldown]
             y3 == [y2 EXCEPT !.direction = d.direction]
             y == [y3 EXCEPT !.status = d.status]
  <2>1. d.direction \in Directions /\ d.status \in {"none", "ready", "rejected"}
    <3>1. cycle[c].revision \in Revisions /\ cycle[c].limits \in Rules
      BY <1>1 DEF Coherent, Cycles
    <3>2. QED
      BY <1>4, <3>1, DecisionsFine
  <2>2. y1 \in Cycles /\ y1.at = cycle[c].at
    BY <1>1, NoCycleFine DEF Cycles
  <2>3. y2 \in Cycles /\ y2.at = cycle[c].at /\ y2.cooldown = cycle[c].cooldown
    <3> HIDE DEF y1
    <3> QED BY <1>1, <2>2 DEF Cycles
  <2>4. y3 \in Cycles /\ y3.at = cycle[c].at /\ y3.cooldown = cycle[c].cooldown
        /\ y3.direction = d.direction
    <3> HIDE DEF y2
    <3> QED BY <2>1, <2>3 DEF Cycles
  <2>5. y \in Cycles /\ y.at = cycle[c].at /\ y.cooldown = cycle[c].cooldown
        /\ y.direction = d.direction
    <3> HIDE DEF y3
    <3> QED BY <2>1, <2>4 DEF Cycles
  <2>6. Goto(c, "claim") /\ cycle' = [cycle EXCEPT ![c] = y]
    BY <1>2, <1>4
  <2> HIDE DEF y
  <2>7. Coherent("claim", y) /\ "claim" \in Steps
    BY <1>1, <2>1, <2>5 DEF Coherent, Steps
  <2>8. QED
    BY <1>1, <2>5, <2>6, <2>7, QuietStep
<1>5. QED
  BY <1>3, <1>4

LEMMA TakeStep ==
    ASSUME IInv, NEW c \in Replicas, Take(c)
    PROVE  IInv'
<1>1. /\ TypeOK /\ step[c] = "claim" /\ Coherent("claim", cycle[c]) /\ cycle[c] \in Cycles
      /\ UNCHANGED <<now, policies, cooldown, resource, cache, plans>>
  BY Parts DEF Take, TypeOK
<1>2. CASE cycle[c].attempt = 3 \/ (Row(c).version # 0 /\ Held(Row(c), cycle[c].at))
  <2>1. End(c)
    BY <1>2 DEF Take
  <2>2. QED
    BY <1>1, <2>1, QuietEnd
<1>3. CASE ~(cycle[c].attempt = 3 \/ (Row(c).version # 0 /\ Held(Row(c), cycle[c].at)))
  <2> DEFINE y == [cycle[c] EXCEPT !.seen = Row(c)]
  <2>1. Goto(c, "write") /\ cycle' = [cycle EXCEPT ![c] = y]
    BY <1>3 DEF Take
  <2>2. cycle[c].direction \in Directions /\ Row(c) \in Claims
    BY <1>1 DEF Row, TypeOK, Coherent
  <2>3. y \in Cycles /\ y.at = cycle[c].at /\ y.cooldown = cycle[c].cooldown
        /\ y.direction = cycle[c].direction /\ y.seen = Row(c)
    BY <1>1, <2>2, SetSeen
  <2> HIDE DEF y
  <2>4. Row(c).version = 0 \/ Row(c).until <= cycle[c].at
    BY <1>1, <1>3, <2>2 DEF Held, Claims, Cycles
  <2>5. Coherent("write", y)
    BY <1>1, <2>2, <2>3, <2>4 DEF Coherent, Row, Claims
  <2>6. "write" \in Steps
    BY DEF Steps
  <2>7. QED
    BY <1>1, <2>1, <2>3, <2>5, <2>6, QuietStep
<1>4. QED
  BY <1>2, <1>3

LEMMA ClaimRowStep ==
    ASSUME IInv, NEW c \in Replicas, ClaimRow(c)
    PROVE  IInv'
<1>1. /\ TypeOK /\ step[c] = "write" /\ Coherent("write", cycle[c]) /\ cycle[c] \in Cycles
      /\ ~Locked(cycle[c].direction)
      /\ UNCHANGED <<now, policies, cooldown, resource, cache, plans>>
  BY Parts DEF ClaimRow, TypeOK
<1>2. CASE Unchanged(Row(c), cycle[c].seen)
  <2>1. Goto(c, "commit") /\ cycle' = [cycle EXCEPT ![c] = cycle[c]]
    BY <1>1, <1>2, SameCycle DEF ClaimRow
  <2>2. Coherent("commit", cycle[c]) /\ "commit" \in Steps
    BY <1>1, <1>2 DEF Coherent, Unchanged, Row, Steps
  <2>3. QED
    BY <1>1, <2>1, <2>2, QuietStep
<1>3. CASE ~Unchanged(Row(c), cycle[c].seen)
  <2> DEFINE y == [cycle[c] EXCEPT !.attempt = @ + 1]
  <2>1. Goto(c, "claim") /\ cycle' = [cycle EXCEPT ![c] = y]
    BY <1>3 DEF ClaimRow
  <2>2. cycle[c].attempt + 1 \in Nat
    BY <1>1 DEF Cycles
  <2>3. y = [cycle[c] EXCEPT !.attempt = cycle[c].attempt + 1]
    OBVIOUS
  <2>4. y \in Cycles /\ y.at = cycle[c].at /\ y.cooldown = cycle[c].cooldown
        /\ y.direction = cycle[c].direction
    <3> HIDE DEF y
    <3> QED BY <1>1, <2>2, <2>3, SetAttempt
  <2> HIDE DEF y
  <2>5. Coherent("claim", y) /\ "claim" \in Steps
    BY <1>1, <2>4 DEF Coherent, Steps
  <2>6. QED
    BY <1>1, <2>1, <2>4, <2>5, QuietStep
<1>4. QED
  BY <1>2, <1>3

LEMMA CommitStep ==
    ASSUME IInv, NEW c \in Replicas, Commit(c)
    PROVE  IInv'
<1> DEFINE d == cycle[c].direction
           new == [version |-> cycle[c].seen.version + 1, until |-> Until(c)]
           plan == [at |-> cycle[c].at, until |-> Until(c), direction |-> d]
<1>1. /\ TypeOK /\ Shared /\ RowLocks /\ step[c] = "commit"
      /\ \A b \in Replicas : Coherent(step[b], cycle[b]) /\ CopyFine(cache[b])
  BY Parts DEF Commit
<1>2. /\ cooldown' = [cooldown EXCEPT ![d] = new]
      /\ plans' = plans \cup {plan}
      /\ step' = [step EXCEPT ![c] = "idle"] /\ cycle' = [cycle EXCEPT ![c] = NoCycle]
      /\ UNCHANGED <<now, policies, resource, cache>>
  BY DEF Commit, End
<1>3. /\ d \in Directions /\ cycle[c].at \in Nat /\ cycle[c].cooldown \in Nat /\ cycle[c].cooldown > 0
      /\ cycle[c].seen = cooldown[d] /\ cooldown[d] \in Claims
      /\ cooldown[d].version = 0 \/ cooldown[d].until <= cycle[c].at
  BY <1>1 DEF Coherent, TypeOK, Cycles
<1>4. /\ Until(c) \in Nat /\ cycle[c].at < Until(c)
      /\ new.version = cooldown[d].version + 1 /\ new.until = Until(c) /\ new \in Claims
      /\ plan.at = cycle[c].at /\ plan.until = Until(c) /\ plan.direction = d
      /\ plan \in [at : Nat, until : Nat, direction : Directions]
  BY <1>3 DEF Until, Claims
<1> HIDE DEF new, plan, d
<1>5. /\ \A e \in Directions : cooldown'[e] = IF e = d THEN new ELSE cooldown[e]
      /\ \A b \in Replicas : step'[b] = IF b = c THEN "idle" ELSE step[b]
      /\ \A b \in Replicas : cycle'[b] = IF b = c THEN NoCycle ELSE cycle[b]
  BY <1>1, <1>2 DEF TypeOK
<1>6. TypeOK'
  <2>1. step' \in [Replicas -> Steps]
    BY <1>1, <1>2 DEF TypeOK, Steps
  <2>2. cycle' \in [Replicas -> Cycles]
    BY <1>1, <1>2, NoCycleFine DEF TypeOK
  <2>3. cooldown' \in [Directions -> Claims]
    BY <1>1, <1>2, <1>4 DEF TypeOK
  <2>4. plans' \subseteq [at : Nat, until : Nat, direction : Directions]
    BY <1>1, <1>2, <1>4 DEF TypeOK
  <2>5. QED
    BY <1>1, <1>2, <2>1, <2>2, <2>3, <2>4 DEF TypeOK, Steps, policies, resource
\* The new window begins after every other one of its direction has ended.
<1>7. \A p \in plans : /\ p \in [at : Nat, until : Nat, direction : Directions]
                       /\ p.direction = d => p.until <= plan.at
  <2>1. SUFFICES ASSUME NEW p \in plans
                 PROVE  /\ p \in [at : Nat, until : Nat, direction : Directions]
                        /\ p.direction = d => p.until <= plan.at
    OBVIOUS
  <2>2. p \in [at : Nat, until : Nat, direction : Directions]
    BY <1>1, <2>1 DEF TypeOK
  <2>3. ASSUME p.direction = d PROVE p.until <= plan.at
    <3>1. p.until <= cooldown[d].until /\ cooldown[d].version > 0
      BY <1>1, <2>1, <2>3 DEF Shared, OnePlanPerWindow, PlansAreClaimed
    <3>2. p.until \in Nat /\ cooldown[d].until \in Nat
      BY <1>3, <2>2 DEF Claims
    <3>3. QED
      BY <1>3, <1>4, <3>1, <3>2
  <2>4. QED
    BY <2>2, <2>3
<1>8. Shared'
  <2>1. OnePlanPerWindow'
    <3>1. ASSUME NEW p \in plans', NEW q \in plans', p.direction = q.direction, p # q
          PROVE  p.until <= q.at \/ q.until <= p.at
      <4>1. CASE p = plan
        BY <1>2, <1>4, <1>7, <3>1, <4>1
      <4>2. CASE q = plan
        BY <1>2, <1>4, <1>7, <3>1, <4>2
      <4>3. CASE p # plan /\ q # plan
        BY <1>1, <1>2, <3>1, <4>3 DEF Shared, OnePlanPerWindow
      <4>4. QED
        BY <4>1, <4>2, <4>3
    <3>2. ASSUME NEW p \in plans' PROVE p.until <= cooldown'[p.direction].until
      <4>1. CASE p = plan
        BY <1>3, <1>4, <1>5, <4>1
      <4>2. CASE p # plan
        <5>1. p \in plans
          BY <1>2, <3>2, <4>2
        <5>2. CASE p.direction = d
          BY <1>3, <1>4, <1>5, <1>7, <5>1, <5>2
        <5>3. CASE p.direction # d
          BY <1>1, <1>5, <1>7, <5>1, <5>3 DEF Shared, OnePlanPerWindow
        <5>4. QED
          BY <5>2, <5>3
      <4>3. QED
        BY <4>1, <4>2
    <3>3. QED
      BY <3>1, <3>2 DEF OnePlanPerWindow
  <2>2. PlansAreClaimed'
    <3>1. ASSUME NEW p \in plans' PROVE p.at < p.until /\ cooldown'[p.direction].version > 0
      <4>1. CASE p = plan
        BY <1>3, <1>4, <1>5, <4>1 DEF Claims
      <4>2. CASE p # plan
        <5>1. p \in plans /\ p.at < p.until /\ cooldown[p.direction].version > 0
          BY <1>1, <1>2, <3>1, <4>2 DEF Shared, PlansAreClaimed
        <5>2. p.direction \in Directions
          BY <1>7, <5>1
        <5>3. QED
          BY <1>3, <1>4, <1>5, <5>1, <5>2 DEF Claims
      <4>3. QED
        BY <4>1, <4>2
    <3>2. QED
      BY <3>1 DEF PlansAreClaimed
  <2>3. QED
    BY <1>1, <1>2, <2>1, <2>2 DEF Shared, policies, resource
<1>9. RowLocks'
  BY <1>1, <1>5 DEF RowLocks
<1>10. ASSUME NEW b \in Replicas PROVE Coherent(step[b], cycle[b])'
  <2>1. CASE b = c
    BY <1>5, <2>1 DEF Coherent
  <2>2. CASE b # c
    <3>1. /\ step'[b] = step[b] /\ cycle'[b] = cycle[b] /\ cycle[b] \in Cycles
          /\ cycle[b].seen \in Claims
          /\ Coherent(step[b], cycle[b])
      BY <1>1, <1>5, <2>2 DEF TypeOK, Cycles
    <3>2. CASE cycle[b].direction = d /\ step[b] \in {"write", "commit"}
      <4>1. step[b] = "write"
        BY <1>1, <2>2, <3>2 DEF RowLocks, d
      <4>2. cycle[b].seen.version <= cooldown[d].version
        BY <3>1, <3>2 DEF Coherent
      <4>3. cycle[b].seen.version < new.version
        BY <1>3, <1>4, <3>1, <4>2 DEF Claims
      <4>4. cooldown'[cycle[b].direction] = new
        BY <1>3, <1>5, <3>2
      <4>5. Coherent(step[b], cycle[b]) /\ cycle[b].seen.version \in Nat /\ new.version \in Nat
        BY <1>4, <3>1 DEF Claims
      <4>6. QED
        BY <1>2, <3>1, <3>2, <4>1, <4>3, <4>4, <4>5 DEF Coherent, policies, resource
    <3>3. CASE cycle[b].direction # d \/ step[b] \notin {"write", "commit"}
      <4>1. step[b] \in {"write", "commit"} => cycle[b].direction \in Directions
        BY <3>1 DEF Coherent
      <4>2. step[b] \in {"write", "commit"}
              => cooldown'[cycle[b].direction] = cooldown[cycle[b].direction]
        BY <1>5, <3>3, <4>1
      <4>3. QED
        BY <1>2, <3>1, <4>2 DEF Coherent, policies, resource
    <3>4. QED
      BY <3>2, <3>3
  <2>3. QED
    BY <2>1, <2>2
<1>11. ASSUME NEW b \in Replicas PROVE CopyFine(cache[b])'
  BY <1>1, <1>2 DEF CopyFine, resource
<1>12. QED
  BY <1>6, <1>8, <1>9, <1>10, <1>11, PartsNext

LEMMA EditStep ==
    ASSUME IInv, Edit
    PROVE  IInv'
<1>1. /\ TypeOK /\ Shared /\ RowLocks
      /\ \A b \in Replicas : Coherent(step[b], cycle[b]) /\ CopyFine(cache[b])
  BY Parts
<1>2. /\ UNCHANGED <<now, cooldown, resource, step, cycle, cache, plans>>
      /\ policy' \in [version : Nat, status : {"enabled", "disabled", "deleted"}, cooldown : Cooldowns]
      /\ rule' \in [version : Nat, limits : Rules]
      /\ policy'.version = rule'.version /\ policy.version <= policy'.version
  <2>1. /\ policy \in [version : Nat, status : {"enabled", "disabled", "deleted"}, cooldown : Cooldowns]
        /\ rule \in [version : Nat, limits : Rules] /\ policy.version = rule.version
    BY <1>1 DEF TypeOK, Shared
  <2>2. ASSUME NEW status \in {"enabled", "disabled"}, NEW duration \in Cooldowns,
               NEW limits \in Rules, Write(status, duration, limits)
        PROVE  <1>2!:
    BY <2>1, <2>2 DEF Write
  <2>3. CASE DeletePolicy
    BY <2>1, <2>3 DEF DeletePolicy
  <2>4. CASE UpdatePolicy
    <3>1. policy.status \in {"enabled", "disabled"}
      BY <2>1, <2>4 DEF UpdatePolicy, Write
    <3>2. QED
      BY <2>2, <2>4, <3>1 DEF UpdatePolicy
  <2>5. CASE EnablePolicy
    BY <2>1, <2>2, <2>5 DEF EnablePolicy
  <2>6. CASE DisablePolicy
    BY <2>1, <2>2, <2>6 DEF DisablePolicy
  <2>7. QED
    BY <2>3, <2>4, <2>5, <2>6 DEF Edit
<1>3. TypeOK'
  BY <1>1, <1>2 DEF TypeOK, resource
<1>4. Shared'
  BY <1>1, <1>2 DEF Shared, OnePlanPerWindow, PlansAreClaimed, resource
<1>5. RowLocks'
  BY <1>1, <1>2 DEF RowLocks
<1>6. ASSUME NEW b \in Replicas PROVE Coherent(step[b], cycle[b])'
  <2>1. Coherent(step[b], cycle[b]) /\ cycle[b].version \in Nat
    BY <1>1 DEF TypeOK, Cycles
  <2>2. policy.version \in Nat /\ policy'.version \in Nat
    BY <1>1, <1>2 DEF TypeOK
  <2>3. QED
    BY <1>2, <2>1, <2>2 DEF Coherent, resource
<1>7. ASSUME NEW b \in Replicas PROVE CopyFine(cache[b])'
  BY <1>1, <1>2 DEF CopyFine, resource
<1>8. QED
  BY <1>3, <1>4, <1>5, <1>6, <1>7, PartsNext

LEMMA ChangeCatalogStep ==
    ASSUME IInv, ChangeCatalog
    PROVE  IInv'
<1>1. /\ TypeOK /\ Shared /\ RowLocks
      /\ \A b \in Replicas : Coherent(step[b], cycle[b]) /\ CopyFine(cache[b])
  BY Parts
<1>2. /\ catalog \in Revisions /\ catalog' = catalog + 1 /\ catalog' \in Revisions
      /\ replaced' = [replaced EXCEPT ![catalog] = now] /\ now \in Nat
      /\ UNCHANGED <<now, policies, cooldown, step, cycle, cache, plans>>
  BY <1>1 DEF ChangeCatalog, TypeOK, Revisions
<1>3. \A r \in Revisions : replaced'[r] = IF r = catalog THEN now ELSE replaced[r]
  BY <1>1, <1>2 DEF TypeOK
<1>4. TypeOK'
  BY <1>1, <1>2 DEF TypeOK, policies
<1>5. Shared'
  <2>1. \A r \in Revisions : r >= catalog' => replaced'[r] = Never
    BY <1>1, <1>2, <1>3 DEF Shared, Revisions
  <2>2. QED
    BY <1>1, <1>2, <2>1 DEF Shared, OnePlanPerWindow, PlansAreClaimed, policies, Never
<1>6. RowLocks'
  BY <1>1, <1>2 DEF RowLocks
<1>7. ASSUME NEW b \in Replicas PROVE Coherent(step[b], cycle[b])'
  <2>1. Coherent(step[b], cycle[b]) /\ cycle[b].at \in Nat
        /\ cycle[b].revision \in {0} \cup Revisions
    BY <1>1 DEF TypeOK, Cycles
  <2>2. step[b] = "evaluate" => replaced'[cycle[b].revision] + MaxAge >= cycle[b].at
    <3>1. SUFFICES ASSUME step[b] = "evaluate"
                   PROVE  replaced'[cycle[b].revision] + MaxAge >= cycle[b].at
      OBVIOUS
    <3>2. cycle[b].revision \in Revisions /\ cycle[b].at <= now
          /\ replaced[cycle[b].revision] + MaxAge >= cycle[b].at
      BY <2>1, <3>1 DEF Coherent
    <3>3. QED
      BY <1>2, <1>3, <2>1, <3>2, CycleAssumption
  <2>3. QED
    BY <1>2, <2>1, <2>2 DEF Coherent, policies
<1>8. ASSUME NEW b \in Replicas PROVE CopyFine(cache[b])'
  <2>1. cache[b] \in Scopes /\ CopyFine(cache[b])
    BY <1>1 DEF TypeOK
  <2>2. CASE cache[b].revision = catalog
    <3>1. cache[b].storedAt <= now
      BY <1>2, <2>1, <2>2 DEF CopyFine, Revisions
    <3>2. QED
      BY <1>2, <1>3, <2>2, <3>1 DEF CopyFine
  <2>3. CASE cache[b].revision # catalog
    BY <1>2, <1>3, <2>1, <2>3 DEF CopyFine, Scopes
  <2>4. QED
    BY <2>2, <2>3
<1>9. QED
  BY <1>4, <1>5, <1>6, <1>7, <1>8, PartsNext

LEMMA TickStep ==
    ASSUME IInv, Tick
    PROVE  IInv'
<1>1. /\ TypeOK /\ Shared /\ RowLocks
      /\ \A b \in Replicas : Coherent(step[b], cycle[b]) /\ CopyFine(cache[b])
  BY Parts
<1>2. /\ now \in Nat /\ now' = now + 1 /\ now' \in 0..MaxNow
      /\ UNCHANGED <<policies, cooldown, resource, step, cycle, cache, plans>>
  BY <1>1, CycleAssumption DEF Tick, TypeOK
<1>3. TypeOK'
  BY <1>1, <1>2 DEF TypeOK, policies, resource
<1>4. Shared'
  BY <1>1, <1>2 DEF Shared, OnePlanPerWindow, PlansAreClaimed, policies, resource
<1>5. RowLocks'
  BY <1>1, <1>2 DEF RowLocks
<1>6. ASSUME NEW b \in Replicas PROVE Coherent(step[b], cycle[b])'
  <2>1. Coherent(step[b], cycle[b]) /\ cycle[b].at \in Nat /\ cycle[b].asked \in Nat
    BY <1>1 DEF TypeOK, Cycles
  <2>2. QED
    BY <1>2, <2>1 DEF Coherent, policies, resource
<1>7. ASSUME NEW b \in Replicas PROVE CopyFine(cache[b])'
  <2>1. CopyFine(cache[b]) /\ cache[b].storedAt \in Nat
    BY <1>1 DEF TypeOK, Scopes
  <2>2. QED
    BY <1>2, <2>1 DEF CopyFine, resource
<1>8. QED
  BY <1>3, <1>4, <1>5, <1>6, <1>7, PartsNext

LEMMA CrashStep ==
    ASSUME IInv, NEW c \in Replicas, Crash(c)
    PROVE  IInv'
<1>1. NoScope \in Scopes /\ CopyFine(NoScope)
  BY DEF NoScope, Scopes, CopyFine
<1>2. QED
  BY <1>1, EndStep DEF Crash

LEMMA StutteringStep ==
    ASSUME IInv, UNCHANGED vars
    PROVE  IInv'
BY DEF vars, policies, resource, IInv, TypeOK, OnePlanPerWindow, PlansAreCurrent, RowsTogether,
       TimesPass, CopiesWereCurrent, ClaimsFollow, PlansAreClaimed, Row

LEMMA InitHolds == Init => IInv
<1>1. SUFFICES ASSUME Init PROVE IInv
  OBVIOUS
<1>2. TypeOK
  <2>1. catalog \in Revisions
    <3>1. Len(Catalogs) >= 1
      BY CycleAssumption
    <3>2. QED
      BY <1>1, <3>1 DEF Init, Revisions
  <2>2. now \in 0..MaxNow /\ replaced \in [Revisions -> Nat]
    BY <1>1, CycleAssumption DEF Init, Never
  <2>3. cycle \in [Replicas -> Cycles] /\ cache \in [Replicas -> Scopes]
    BY <1>1, NoCycleFine DEF Init, NoScope, Scopes
  <2>4. QED
    BY <1>1, <2>1, <2>2, <2>3 DEF Init, TypeOK, NoCooldown, Claims
<1>3. Shared /\ RowLocks
  BY <1>1 DEF Init, Shared, OnePlanPerWindow, PlansAreClaimed, RowLocks
<1>4. ASSUME NEW c \in Replicas PROVE Coherent(step[c], cycle[c]) /\ CopyFine(cache[c])
  BY <1>1 DEF Init, Coherent, CopyFine, NoScope
<1>5. QED
  BY <1>2, <1>3, <1>4, Parts

(* The strengthened invariant holds of every behaviour of the decision      *)
(* cycles, the policy commands and the catalog.                             *)
THEOREM Invariance == Spec => []IInv
<1>1. ASSUME IInv, Next PROVE IInv'
  <2>1. ASSUME NEW c \in Replicas, Decide(c) \/ Save(c) \/ Fail(c) \/ Crash(c)
        PROVE  IInv'
    <3>1. CASE Unusable(c) \/ SaveRejected(c) \/ Fail(c)
      BY <1>1, <3>1, QuietEnd DEF Unusable, SaveRejected, Fail
    <3>2. QED
      BY <1>1, <2>1, <3>1, ListEnabledStep, ReadRuleStep, FreshStep, UnavailableStep,
         EvaluateStep, TakeStep, ClaimRowStep, CommitStep, CrashStep DEF Decide, Save
  <2>2. QED
    BY <1>1, <2>1, EditStep, ChangeCatalogStep, TickStep DEF Next
<1>2. QED
  BY <1>1, InitHolds, StutteringStep, PTL DEF Spec

(* Every value keeps its type. *)
THEOREM TypeCorrect == Spec => []TypeOK
<1>1. IInv => TypeOK
  BY DEF IInv
<1>2. QED
  BY <1>1, Invariance, PTL

(* However many replicas compete for a direction of the policy, and however *)
(* often it is edited meanwhile: the windows of its plans never overlap.    *)
THEOREM WindowsAreClaimedOnce == Spec => []OnePlanPerWindow
<1>1. IInv => OnePlanPerWindow
  BY DEF IInv
<1>2. QED
  BY <1>1, Invariance, PTL

(* A cycle evaluates the limits of the policy version that it names, or of  *)
(* a later one, and a scope that was current at most MaxAge before it began.*)
THEOREM EvaluationIsCurrent == Spec => []PlansAreCurrent
<1>1. IInv => PlansAreCurrent
  BY DEF IInv
<1>2. QED
  BY <1>1, Invariance, PTL
-----------------------------------------------------------------------------
(* Sums over finite sets *)

\* A non-empty set of natural numbers has a least element.
LEMMA LeastElement ==
    ASSUME NEW T \in SUBSET Nat, T # {}
    PROVE  \E x \in T : \A y \in T : x <= y
<1> DEFINE R == OpToRel(<, Nat)
<1>1. IsWellFoundedOn(R, Nat)
  BY NatLessThanWellFounded
<1>2. \A x \in Nat, y \in Nat : y < x => <<y, x>> \in R
  BY DEF OpToRel
<1> HIDE DEF R
<1>3. PICK x \in T : \A y \in T : ~(<<y, x>> \in R)
  BY <1>1, WFMin
<1>4. ASSUME NEW y \in T PROVE x <= y
  <2>1. x \in Nat /\ y \in Nat
    OBVIOUS
  <2>2. ~(y < x)
    BY <1>2, <1>3, <2>1, Zenon
  <2>3. QED
    BY <2>1, <2>2
<1>5. QED
  BY <1>4

\* Induction over the subsets of a finite set: P holds all of them if it holds
\* each that has all its proper subsets in P.
LEMMA SubsetInduction ==
    ASSUME NEW D, IsFiniteSet(D), NEW P,
           \A S \in SUBSET D : (\A T \in SUBSET S : T # S => T \in P) => S \in P
    PROVE  \A S \in SUBSET D : S \in P
<1> DEFINE sizes == {n \in Nat : \E S \in SUBSET D : S \notin P /\ Cardinality(S) = n}
<1>1. SUFFICES ASSUME NEW S \in SUBSET D, S \notin P PROVE FALSE
  OBVIOUS
<1>2. \A T \in SUBSET D : IsFiniteSet(T) /\ Cardinality(T) \in Nat
  BY FS_Subset, FS_CardinalityType
<1>3. sizes # {} /\ sizes \in SUBSET Nat
  BY <1>1, <1>2
<1>4. PICK n \in sizes : \A m \in sizes : n <= m
  <2> HIDE DEF sizes
  <2>1. QED
    BY <1>3, LeastElement
<1>5. PICK T \in SUBSET D : T \notin P /\ Cardinality(T) = n
  OBVIOUS
<1>6. ASSUME NEW U \in SUBSET T, U # T PROVE U \in P
  <2>1. Cardinality(U) <= Cardinality(T) /\ Cardinality(U) # Cardinality(T)
    BY <1>2, <1>6, FS_Subset
  <2>2. U \in SUBSET D /\ Cardinality(U) \in Nat /\ n \in Nat
    BY <1>2
  <2>3. Cardinality(U) \notin sizes
    <3> HIDE DEF sizes
    <3>1. QED
      BY <1>4, <1>5, <2>1, <2>2
  <2>4. QED
    BY <2>2, <2>3
<1>7. QED
  BY <1>5, <1>6

\* The sum as it is computed: an element is picked, and the rest is summed.
Picked(s) == CHOOSE x \in s : TRUE

SumStep(g, f, s) == IF s = {} THEN 0 ELSE f[Picked(s)] + g[s \ {Picked(s)}]

SumsUp(g, f, S) == g = [s \in SUBSET S |-> SumStep(g, f, s)]

Sums(f, S) == CHOOSE g : SumsUp(g, f, S)

LEMMA SumsStepwise ==
    ASSUME NEW g, NEW f, NEW S, SumsUp(g, f, S), NEW s \in SUBSET S
    PROVE  g[s] = SumStep(g, f, s)
<1> DEFINE next(u) == SumStep(g, f, u)
<1>1. g = [u \in SUBSET S |-> next(u)]
  BY DEF SumsUp
<1> HIDE DEF next
<1>2. g[s] = next(s)
  BY <1>1
<1>3. QED
  BY <1>2 DEF next

LEMMA TotalIsSum ==
    ASSUME NEW f, NEW S
    PROVE  Total(f, S) = Sums(f, S)[S]
BY DEF Total, MapThenSumSet, MapThenFoldSet, Sums, SumsUp, SumStep, Picked

LEMMA SumExists ==
    ASSUME NEW f, NEW S, IsFiniteSet(S)
    PROVE  SumsUp(Sums(f, S), f, S)
<1> DEFINE Solves(g, n) == \A s \in SUBSET S : Cardinality(s) <= n => g[s] = SumStep(g, f, s)
           fails == {n \in Nat : ~\E g : Solves(g, n)}
<1>1. \A s \in SUBSET S : IsFiniteSet(s) /\ Cardinality(s) \in Nat
                         /\ Cardinality(s) <= Cardinality(S)
  BY FS_Subset, FS_CardinalityType
<1>2. ASSUME NEW s \in SUBSET S, s # {}
      PROVE  /\ Picked(s) \in s /\ s \ {Picked(s)} \in SUBSET S
             /\ Cardinality(s \ {Picked(s)}) = Cardinality(s) - 1
  <2>1. Picked(s) \in s
    BY <1>2 DEF Picked
  <2>2. QED
    BY <1>1, <2>1, FS_RemoveElement
<1>3. fails = {}
  <2>1. SUFFICES ASSUME fails # {} PROVE FALSE
    OBVIOUS
  <2>2. PICK n \in fails : \A m \in fails : n <= m
    <3>1. fails \in SUBSET Nat
      OBVIOUS
    <3> HIDE DEF fails
    <3>2. QED
      BY <2>1, <3>1, LeastElement
  <2>3. n \in Nat /\ ~\E g : Solves(g, n)
    OBVIOUS
  <2>4. CASE n = 0
    <3> DEFINE g == [s \in SUBSET S |-> 0]
    <3>1. ASSUME NEW s \in SUBSET S, Cardinality(s) <= 0 PROVE g[s] = SumStep(g, f, s)
      <4>1. s = {}
        BY <1>1, <3>1, FS_EmptySet
      <4>2. QED
        BY <4>1 DEF SumStep
    <3> HIDE DEF g
    <3>2. Solves(g, 0)
      BY <3>1
    <3>3. QED
      BY <2>3, <2>4, <3>2
  <2>5. CASE n # 0
    <3>1. n - 1 \in Nat /\ ~(n <= n - 1)
      BY <2>3, <2>5
    <3>2. n - 1 \notin fails
      <4> HIDE DEF fails
      <4>1. QED
        BY <2>2, <3>1
    <3>3. PICK h : Solves(h, n - 1)
      BY <3>1, <3>2
    <3> DEFINE g == [s \in SUBSET S |-> IF Cardinality(s) <= n - 1 THEN h[s] ELSE SumStep(h, f, s)]
    <3>4. ASSUME NEW s \in SUBSET S, Cardinality(s) <= n PROVE g[s] = SumStep(g, f, s)
      <4>1. g[s] = SumStep(h, f, s)
        BY <3>3
      <4>2. CASE s = {}
        BY <4>1, <4>2 DEF SumStep
      <4>3. CASE s # {}
        <5>1. s \ {Picked(s)} \in SUBSET S /\ Cardinality(s \ {Picked(s)}) <= n - 1
          BY <1>1, <1>2, <2>3, <3>4, <4>3
        <5>2. g[s \ {Picked(s)}] = h[s \ {Picked(s)}]
          BY <5>1
        <5> HIDE DEF g
        <5>3. QED
          BY <4>1, <5>2 DEF SumStep
      <4>4. QED
        BY <4>2, <4>3
    <3> HIDE DEF g
    <3>5. Solves(g, n)
      BY <3>4
    <3>6. QED
      BY <2>3, <3>5
  <2>6. QED
    BY <2>4, <2>5
<1>4. Cardinality(S) \in Nat /\ Cardinality(S) \notin fails
  BY <1>3, FS_CardinalityType
<1>5. PICK h : Solves(h, Cardinality(S))
  BY <1>4
<1> DEFINE g == [s \in SUBSET S |-> h[s]]
<1>6. ASSUME NEW s \in SUBSET S PROVE h[s] = SumStep(g, f, s)
  <2>1. h[s] = SumStep(h, f, s)
    BY <1>1, <1>5
  <2>2. s # {} => g[s \ {Picked(s)}] = h[s \ {Picked(s)}]
    BY <1>2
  <2> HIDE DEF g
  <2>3. QED
    BY <2>1, <2>2 DEF SumStep
<1>7. g = [s \in SUBSET S |-> SumStep(g, f, s)]
  BY <1>6
<1> HIDE DEF g
<1>8. SumsUp(g, f, S)
  BY <1>7 DEF SumsUp
<1>9. QED
  BY <1>8 DEF Sums

\* The sum of a smaller set is computed alike.
LEMMA SumsAgree ==
    ASSUME NEW f, NEW S, IsFiniteSet(S), NEW R \in SUBSET S
    PROVE  Sums(f, R)[R] = Sums(f, S)[R]
<1> DEFINE P == {s \in SUBSET R : Sums(f, R)[s] = Sums(f, S)[s]}
<1>1. IsFiniteSet(R)
  BY FS_Subset
<1>2. ASSUME NEW s \in SUBSET R
      PROVE  /\ Sums(f, R)[s] = SumStep(Sums(f, R), f, s)
             /\ Sums(f, S)[s] = SumStep(Sums(f, S), f, s)
  <2>1. SumsUp(Sums(f, R), f, R) /\ SumsUp(Sums(f, S), f, S)
    BY <1>1, SumExists
  <2>2. s \in SUBSET S
    OBVIOUS
  <2>3. QED
    BY <2>1, <2>2, SumsStepwise
<1>4. ASSUME NEW s \in SUBSET R, \A u \in SUBSET s : u # s => u \in P PROVE s \in P
  <2>1. CASE s = {}
    BY <1>2, <2>1 DEF SumStep
  <2>2. CASE s # {}
    <3>1. s \ {Picked(s)} \in SUBSET s /\ s \ {Picked(s)} # s
      BY <2>2 DEF Picked
    <3>2. Sums(f, R)[s \ {Picked(s)}] = Sums(f, S)[s \ {Picked(s)}]
      BY <1>4, <3>1
    <3>3. SumStep(Sums(f, R), f, s) = SumStep(Sums(f, S), f, s)
      BY <2>2, <3>2 DEF SumStep
    <3>4. QED
      BY <1>2, <3>3
  <2>3. QED
    BY <2>1, <2>2
<1>5. \A s \in SUBSET R : s \in P
  <2> HIDE DEF P
  <2>1. QED
    BY <1>1, <1>4, SubsetInduction
<1>6. QED
  BY <1>5

LEMMA TotalStep ==
    ASSUME NEW f, NEW S, IsFiniteSet(S)
    PROVE  /\ S = {} => Total(f, S) = 0
           /\ S # {} => /\ Picked(S) \in S
                        /\ Total(f, S) = f[Picked(S)] + Total(f, S \ {Picked(S)})
<1>1. Total(f, S) = SumStep(Sums(f, S), f, S)
  <2>1. SumsUp(Sums(f, S), f, S)
    BY SumExists
  <2>2. Sums(f, S)[S] = SumStep(Sums(f, S), f, S)
    BY <2>1, SumsStepwise
  <2>3. QED
    BY <2>2, TotalIsSum
<1>2. ASSUME S # {} PROVE Total(f, S) = f[Picked(S)] + Total(f, S \ {Picked(S)})
  <2>1. Sums(f, S \ {Picked(S)})[S \ {Picked(S)}] = Sums(f, S)[S \ {Picked(S)}]
    BY SumsAgree
  <2>2. QED
    BY <1>1, <1>2, <2>1, TotalIsSum DEF SumStep
<1>3. QED
  BY <1>1, <1>2 DEF SumStep, Picked

LEMMA TotalIsInteger ==
    ASSUME NEW f, NEW D, IsFiniteSet(D), \A x \in D : f[x] \in Int
    PROVE  Total(f, D) \in Int
<1> DEFINE P == {S \in SUBSET D : Total(f, S) \in Int}
<1>1. ASSUME NEW S \in SUBSET D, \A T \in SUBSET S : T # S => T \in P PROVE S \in P
  <2>1. IsFiniteSet(S)
    BY FS_Subset
  <2>2. CASE S = {}
    BY <2>1, <2>2, TotalStep
  <2>3. CASE S # {}
    <3>1. Picked(S) \in S /\ Total(f, S) = f[Picked(S)] + Total(f, S \ {Picked(S)})
      BY <2>1, <2>3, TotalStep
    <3>2. Total(f, S \ {Picked(S)}) \in Int
      BY <1>1, <3>1
    <3>3. QED
      BY <3>1, <3>2
  <2>4. QED
    BY <2>2, <2>3
<1>2. \A S \in SUBSET D : S \in P
  <2> HIDE DEF P
  <2>1. QED
    BY <1>1, SubsetInduction
<1>3. QED
  BY <1>2

\* Any element may be taken first.
LEMMA TotalWithout ==
    ASSUME NEW f, NEW D, IsFiniteSet(D), \A x \in D : f[x] \in Int
    PROVE  \A S \in SUBSET D : \A x \in S : Total(f, S) = f[x] + Total(f, S \ {x})
<1> DEFINE P == {S \in SUBSET D : \A x \in S : Total(f, S) = f[x] + Total(f, S \ {x})}
<1>1. \A S \in SUBSET D : Total(f, S) \in Int /\ IsFiniteSet(S)
  BY FS_Subset, TotalIsInteger
<1>2. ASSUME NEW S \in SUBSET D, \A T \in SUBSET S : T # S => T \in P PROVE S \in P
  <2>1. SUFFICES ASSUME NEW x \in S PROVE Total(f, S) = f[x] + Total(f, S \ {x})
    OBVIOUS
  <2> DEFINE p == Picked(S)
             rest == (S \ {p}) \ {x}
  <2>2. p \in S /\ Total(f, S) = f[p] + Total(f, S \ {p})
    BY <1>1, TotalStep
  <2>3. CASE x = p
    BY <2>2, <2>3
  <2>4. CASE x # p
    <3>1. Total(f, S \ {p}) = f[x] + Total(f, (S \ {p}) \ {x})
      BY <1>2, <2>2, <2>4
    <3>2. Total(f, S \ {x}) = f[p] + Total(f, (S \ {x}) \ {p})
      BY <1>2, <2>2, <2>4
    <3>3. (S \ {x}) \ {p} = (S \ {p}) \ {x}
      OBVIOUS
    <3> DEFINE T == Total(f, (S \ {p}) \ {x})
               u == f[x]
               v == f[p]
    <3>4. T \in Int /\ u \in Int /\ v \in Int
      BY <1>1, <2>2
    <3>5. Total(f, S) = v + (u + T) /\ Total(f, S \ {x}) = v + T
      BY <2>2, <3>1, <3>2, <3>3
    <3> HIDE DEF T, u, v
    <3>6. v + (u + T) = u + (v + T)
      BY <3>4
    <3>7. QED
      BY <3>5, <3>6 DEF u
  <2>5. QED
    BY <2>3, <2>4
<1>3. \A S \in SUBSET D : S \in P
  <2> HIDE DEF P
  <2>1. QED
    BY <1>2, SubsetInduction
<1>4. QED
  BY <1>3

\* The sum over two disjoint sets.
LEMMA TotalOfBoth ==
    ASSUME NEW f, NEW D, IsFiniteSet(D), \A x \in D : f[x] \in Int,
           NEW A \in SUBSET D, NEW B \in SUBSET D, A \cap B = {}
    PROVE  Total(f, A \cup B) = Total(f, A) + Total(f, B)
<1> DEFINE P == {S \in SUBSET B : Total(f, A \cup S) = Total(f, A) + Total(f, S)}
<1>1. \A S \in SUBSET D : Total(f, S) \in Int /\ IsFiniteSet(S)
  BY FS_Subset, TotalIsInteger
<1>2. ASSUME NEW S \in SUBSET B, \A T \in SUBSET S : T # S => T \in P PROVE S \in P
  <2>1. CASE S = {}
    <3>1. Total(f, S) = 0
      BY <2>1, TotalStep, FS_EmptySet
    <3>2. A \cup S = A
      BY <2>1
    <3>3. Total(f, A) \in Int
      BY <1>1
    <3> DEFINE a == Total(f, A)
    <3>4. a = a + 0
      BY <3>3
    <3>5. QED
      BY <3>1, <3>2, <3>4
  <2>2. CASE S # {}
    <3>1. PICK x \in S : TRUE
      BY <2>2
    <3>2. Total(f, S) = f[x] + Total(f, S \ {x})
      BY TotalWithout
    <3>3. Total(f, A \cup S) = f[x] + Total(f, (A \cup S) \ {x})
      BY TotalWithout
    <3>4. (A \cup S) \ {x} = A \cup (S \ {x})
      OBVIOUS
    <3>5. Total(f, A \cup (S \ {x})) = Total(f, A) + Total(f, S \ {x})
      BY <1>2
    <3> DEFINE a == Total(f, A)
               T == Total(f, S \ {x})
               u == f[x]
    <3>6. a \in Int /\ T \in Int /\ u \in Int
      BY <1>1
    <3>7. Total(f, A \cup S) = u + (a + T) /\ Total(f, S) = u + T
      BY <3>2, <3>3, <3>4, <3>5
    <3> HIDE DEF a, T, u
    <3>8. u + (a + T) = a + (u + T)
      BY <3>6
    <3>9. QED
      BY <3>7, <3>8 DEF a
  <2>3. QED
    BY <2>1, <2>2
<1>3. \A S \in SUBSET B : S \in P
  <2>1. IsFiniteSet(B)
    BY <1>1
  <2> HIDE DEF P
  <2>2. QED
    BY <1>2, <2>1, SubsetInduction
<1>4. QED
  BY <1>3

\* What holds of each summand holds of the sum.
LEMMA TotalAtMost ==
    ASSUME NEW D, IsFiniteSet(D), NEW f, NEW g, NEW a \in Int, NEW b \in Int,
           \A x \in D : f[x] \in Int /\ g[x] \in Int /\ a * f[x] <= b * g[x]
    PROVE  a * Total(f, D) <= b * Total(g, D)
<1> DEFINE P == {S \in SUBSET D : a * Total(f, S) <= b * Total(g, S)}
<1>1. \A S \in SUBSET D : Total(f, S) \in Int /\ Total(g, S) \in Int /\ IsFiniteSet(S)
  BY FS_Subset, TotalIsInteger
<1>2. ASSUME NEW S \in SUBSET D, \A T \in SUBSET S : T # S => T \in P PROVE S \in P
  <2>1. CASE S = {}
    <3>1. Total(f, S) = 0 /\ Total(g, S) = 0
      BY <2>1, TotalStep, FS_EmptySet
    <3>2. a * 0 <= b * 0
      OBVIOUS
    <3>3. QED
      BY <3>1, <3>2
  <2>2. CASE S # {}
    <3>1. PICK x \in S : TRUE
      BY <2>2
    <3>2. Total(f, S) = f[x] + Total(f, S \ {x})
      BY TotalWithout
    <3>3. Total(g, S) = g[x] + Total(g, S \ {x})
      BY TotalWithout
    <3>4. a * Total(f, S \ {x}) <= b * Total(g, S \ {x}) /\ a * f[x] <= b * g[x]
      BY <1>2
    <3>5. /\ Total(f, S \ {x}) \in Int /\ Total(g, S \ {x}) \in Int
          /\ f[x] \in Int /\ g[x] \in Int
      BY <1>1
    <3> DEFINE F == Total(f, S \ {x})
               G == Total(g, S \ {x})
               u == f[x]
               v == g[x]
    <3>6. F \in Int /\ G \in Int /\ u \in Int /\ v \in Int /\ a * F <= b * G /\ a * u <= b * v
      BY <3>4, <3>5
    <3> HIDE DEF F, G, u, v
    <3>7. a * (u + F) <= b * (v + G)
      BY <3>6
    <3>8. QED
      BY <3>2, <3>3, <3>7 DEF F, G, u, v
  <2>3. QED
    BY <2>1, <2>2
<1>3. \A S \in SUBSET D : S \in P
  <2> HIDE DEF P
  <2>1. QED
    BY <1>2, SubsetInduction
<1>4. QED
  BY <1>3

\* And strictly, if there is a summand.
LEMMA TotalBelow ==
    ASSUME NEW D, IsFiniteSet(D), D # {}, NEW f, NEW g, NEW a \in Int, NEW b \in Int,
           \A x \in D : f[x] \in Int /\ g[x] \in Int /\ a * f[x] < b * g[x]
    PROVE  a * Total(f, D) < b * Total(g, D)
<1>1. PICK x \in D : TRUE
  OBVIOUS
<1>2. Total(f, D) = f[x] + Total(f, D \ {x}) /\ Total(g, D) = g[x] + Total(g, D \ {x})
  BY TotalWithout
<1>3. IsFiniteSet(D \ {x})
  BY FS_Subset
<1>4. \A y \in D : a * f[y] <= b * g[y]
  OBVIOUS
<1>5. a * Total(f, D \ {x}) <= b * Total(g, D \ {x})
  BY <1>3, <1>4, TotalAtMost
<1> DEFINE F == Total(f, D \ {x})
           G == Total(g, D \ {x})
           u == f[x]
           v == g[x]
<1>6. F \in Int /\ G \in Int /\ u \in Int /\ v \in Int /\ a * F <= b * G /\ a * u < b * v
  BY <1>3, <1>5, TotalIsInteger
<1> HIDE DEF F, G, u, v
<1>7. a * (u + F) < b * (v + G)
  BY <1>6
<1>8. QED
  BY <1>2, <1>7 DEF F, G, u, v

\* Sums of equal summands, up to factors.
LEMMA TotalEqual ==
    ASSUME NEW D, IsFiniteSet(D), NEW f, NEW g, NEW a \in Int, NEW b \in Int,
           \A x \in D : f[x] \in Int /\ g[x] \in Int /\ a * f[x] = b * g[x]
    PROVE  a * Total(f, D) = b * Total(g, D)
<1>1. \A x \in D : f[x] \in Int /\ g[x] \in Int /\ a * f[x] <= b * g[x]
  OBVIOUS
<1>2. \A x \in D : g[x] \in Int /\ f[x] \in Int /\ b * g[x] <= a * f[x]
  OBVIOUS
<1>3. a * Total(f, D) <= b * Total(g, D)
  BY <1>1, TotalAtMost
<1>4. b * Total(g, D) <= a * Total(f, D)
  BY <1>2, TotalAtMost
<1>5. Total(f, D) \in Int /\ Total(g, D) \in Int
  BY TotalIsInteger
<1> DEFINE u == a * Total(f, D)
           v == b * Total(g, D)
<1>6. u \in Int /\ v \in Int /\ u <= v /\ v <= u
  BY <1>3, <1>4, <1>5
<1> HIDE DEF u, v
<1>7. u = v
  BY <1>6
<1>8. QED
  BY <1>7 DEF u, v

LEMMA TotalOfEqual ==
    ASSUME NEW D, IsFiniteSet(D), NEW f, NEW g,
           \A x \in D : f[x] \in Int /\ g[x] = f[x]
    PROVE  Total(f, D) = Total(g, D)
<1>1. \A x \in D : f[x] \in Int /\ g[x] \in Int /\ 1 * f[x] = 1 * g[x]
  OBVIOUS
<1>2. 1 * Total(f, D) = 1 * Total(g, D)
  BY <1>1, TotalEqual
<1>3. Total(f, D) \in Int /\ Total(g, D) \in Int
  BY TotalIsInteger
<1>4. QED
  BY <1>2, <1>3

LEMMA TotalOfZeros ==
    ASSUME NEW D, IsFiniteSet(D), NEW f, \A x \in D : f[x] = 0
    PROVE  Total(f, D) = 0
<1>1. \A x \in D : f[x] \in Int /\ f[x] \in Int /\ 1 * f[x] = 0 * f[x]
  OBVIOUS
<1>2. 1 * Total(f, D) = 0 * Total(f, D)
  BY <1>1, TotalEqual
<1>3. Total(f, D) \in Int
  BY TotalIsInteger
<1>4. QED
  BY <1>2, <1>3

LEMMA TotalPositive ==
    ASSUME NEW D, IsFiniteSet(D), D # {}, NEW f, \A x \in D : f[x] \in Int /\ f[x] > 0
    PROVE  Total(f, D) \in Int /\ Total(f, D) > 0
<1>1. \A x \in D : f[x] \in Int /\ f[x] \in Int /\ 0 * f[x] < 1 * f[x]
  OBVIOUS
<1>2. 0 * Total(f, D) < 1 * Total(f, D)
  BY <1>1, TotalBelow
<1>3. Total(f, D) \in Int
  BY TotalIsInteger
<1>4. QED
  BY <1>2, <1>3

LEMMA TotalOfPart ==
    ASSUME NEW D, IsFiniteSet(D), NEW f, \A x \in D : f[x] \in Int /\ f[x] >= 0,
           NEW S \in SUBSET D
    PROVE  Total(f, S) \in Int /\ Total(f, D) \in Int /\ 0 <= Total(f, S) /\ Total(f, S) <= Total(f, D)
<1>1. /\ IsFiniteSet(S) /\ IsFiniteSet(D \ S) /\ D \ S \in SUBSET D
      /\ S \cup (D \ S) = D /\ S \cap (D \ S) = {}
  BY FS_Subset
<1>2. \A T \in SUBSET D : Total(f, T) \in Int /\ Total(f, T) >= 0
  <2>1. TAKE T \in SUBSET D
  <2>2. IsFiniteSet(T)
    BY FS_Subset
  <2>3. \A x \in T : f[x] \in Int /\ f[x] \in Int /\ 0 * f[x] <= 1 * f[x]
    OBVIOUS
  <2>4. 0 * Total(f, T) <= 1 * Total(f, T)
    BY <2>2, <2>3, TotalAtMost
  <2>5. Total(f, T) \in Int
    BY <2>2, TotalIsInteger
  <2>6. QED
    BY <2>4, <2>5
<1>3. Total(f, D) = Total(f, S) + Total(f, D \ S)
  <2>1. Total(f, S \cup (D \ S)) = Total(f, S) + Total(f, D \ S)
    BY <1>1, TotalOfBoth
  <2>2. QED
    BY <1>1, <2>1
<1>4. /\ Total(f, S) \in Int /\ Total(f, S) >= 0 /\ Total(f, D \ S) \in Int /\ Total(f, D \ S) >= 0
      /\ Total(f, D) \in Int
  BY <1>1, <1>2
<1>5. QED
  BY <1>3, <1>4
-----------------------------------------------------------------------------
(* The rounds of distribute *)

\* What is known of the sums when some units leave: C is what they take, r
\* remains of the power and w of the weight, R and W were there before.
LEMMA RateRises ==
    ASSUME NEW R \in Int, NEW W \in Int, NEW C \in Int, NEW F \in Int, W > 0, F <= W,
           C * W <= R * F, NEW k \in Int, NEW v \in Int, v > 0, k * W <= R * v
    PROVE  k * (W - F) <= (R - C) * v
<1> DEFINE w == W - F
           r == R - C
<1>1. w \in Int /\ w >= 0 /\ r \in Int
  OBVIOUS
<1>2. R * w <= W * r
  <2>1. R * w = R * W - R * F /\ W * r = R * W - C * W
    OBVIOUS
  <2>2. QED
    BY <2>1
<1> HIDE DEF w, r
<1>3. (k * W) * w <= (R * v) * w
  BY <1>1
<1>4. (R * w) * v <= (W * r) * v
  BY <1>1, <1>2
<1>5. (k * W) * w = W * (k * w) /\ (R * v) * w = (R * w) * v /\ (W * r) * v = W * (r * v)
  BY <1>1
<1>6. W * (k * w) <= W * (r * v)
  BY <1>1, <1>3, <1>4, <1>5
<1> DEFINE x == k * w
           y == r * v
<1>7. x \in Int /\ y \in Int /\ W * x <= W * y
  BY <1>1, <1>6
<1> HIDE DEF x, y
<1>8. x <= y
  BY <1>7
<1>9. QED
  BY <1>8 DEF x, y, w, r

\* After n rounds: what the units that left took is subtracted, some power
\* remains, none of those units gets more for its weight than the others, and
\* each round that was not the last has filled a unit.
Behind(A, R, n, target, cap, weight) ==
    LET E == Eligible(cap, weight)
    IN  /\ A \in SUBSET E
        /\ R \in Int /\ R > 0
        /\ R = target - Total(cap, E \ A)
        /\ \A i \in E \ A : cap[i] * Total(weight, A) <= R * weight[i]
        /\ \/ Saturated(A, R, cap, weight) = {}
           \/ Cardinality(A) <= Cardinality(E) - n

Filled(r, n, target, cap, weight) ==
    Behind(r.active, r.remaining, n, target, cap, weight)

LEMMA EligibleUnits ==
    ASSUME NEW N, IsFiniteSet(N), NEW cap \in [N -> Nat], NEW weight \in [N -> Int]
    PROVE  /\ Eligible(cap, weight) \in SUBSET N
           /\ IsFiniteSet(Eligible(cap, weight))
           /\ \A i \in Eligible(cap, weight) :
                cap[i] \in Int /\ cap[i] > 0 /\ weight[i] \in Int /\ weight[i] > 0
<1>1. Eligible(cap, weight) \in SUBSET N
  BY DEF Eligible
<1>2. QED
  BY <1>1, FS_Subset DEF Eligible

LEMMA FirstFilled ==
    ASSUME NEW N, IsFiniteSet(N), NEW cap \in [N -> Nat], NEW weight \in [N -> Int],
           NEW target \in Nat, target > 0
    PROVE  Filled([active |-> Eligible(cap, weight), remaining |-> target], 0, target, cap, weight)
<1> DEFINE E == Eligible(cap, weight)
<1>1. IsFiniteSet(E)
  BY EligibleUnits
<1>2. E \ E = {} /\ Total(cap, E \ E) = 0
  BY TotalStep, FS_EmptySet
<1>3. Cardinality(E) \in Nat
  BY <1>1, FS_CardinalityType
<1> HIDE DEF E
<1>4. target = target - Total(cap, E \ E)
  BY <1>2
<1>5. Cardinality(E) <= Cardinality(E) - 0
  BY <1>3
<1>6. QED
  BY <1>2, <1>4, <1>5 DEF Filled, Behind, E

LEMMA RoundFills ==
    ASSUME NEW N, IsFiniteSet(N), NEW cap \in [N -> Nat], NEW weight \in [N -> Int],
           NEW target \in Nat, NEW n \in Nat, NEW r, Filled(r, n, target, cap, weight)
    PROVE  Filled(Round(r, cap, weight), n + 1, target, cap, weight)
<1> DEFINE E == Eligible(cap, weight)
           A == r.active
           R == r.remaining
           full == Saturated(A, R, cap, weight)
           W == Total(weight, A)
           C == Total(cap, full)
           F == Total(weight, full)
           next == Round(r, cap, weight)
<1>1. /\ IsFiniteSet(E) /\ A \in SUBSET E /\ R \in Int /\ R > 0 /\ R = target - Total(cap, E \ A)
      /\ \A i \in E \ A : cap[i] * W <= R * weight[i]
      /\ full = {} \/ Cardinality(A) <= Cardinality(E) - n
  BY EligibleUnits DEF Filled, Behind
<1>2. \A i \in E : cap[i] \in Int /\ cap[i] > 0 /\ weight[i] \in Int /\ weight[i] > 0
  BY EligibleUnits
<1>3. full \in SUBSET A /\ \A i \in full : R * weight[i] > cap[i] * W
  BY DEF Saturated
<1>4. next.active = A \ full /\ next.remaining = R - C
  BY DEF Round
<1> HIDE DEF E, A, R, full, next
<1>5. IsFiniteSet(A) /\ IsFiniteSet(full) /\ full \in SUBSET E /\ A \ full \in SUBSET E
  BY <1>1, <1>3, FS_Subset
<1>6. CASE full = {}
  <2>1. C = 0
    BY <1>6, TotalStep, FS_EmptySet
  <2>2. next.active = A /\ next.remaining = R
    BY <1>1, <1>4, <1>6, <2>1
  <2> HIDE DEF W
  <2>3. \A i \in E \ A : cap[i] * Total(weight, A) <= R * weight[i]
    BY <1>1 DEF W
  <2>4. Saturated(A, R, cap, weight) = {}
    BY <1>6 DEF full
  <2>5. E = Eligible(cap, weight)
    BY DEF E
  <2>6. Behind(A, R, n + 1, target, cap, weight)
    BY <1>1, <2>3, <2>4, <2>5 DEF Behind
  <2>7. QED
    BY <2>2, <2>6 DEF Filled, next
<1>7. CASE full # {}
  <2>1. W \in Int /\ C \in Int /\ F \in Int
    BY <1>1, <1>2, <1>5, TotalIsInteger
  <2>2. A # {} /\ \A i \in A : weight[i] \in Int /\ weight[i] > 0
    BY <1>1, <1>2, <1>3, <1>7
  <2>3. W > 0 /\ F <= W
    <3>1. W > 0
      BY <1>5, <2>2, TotalPositive
    <3>2. \A i \in A : weight[i] \in Int /\ weight[i] >= 0
      BY <2>2
    <3>3. F <= W
      BY <1>3, <1>5, <3>2, TotalOfPart
    <3>4. QED
      BY <3>1, <3>3
  <2>4. W * C < R * F
    <3>1. \A i \in full : cap[i] \in Int /\ weight[i] \in Int /\ W * cap[i] < R * weight[i]
      <4>1. TAKE i \in full
      <4> DEFINE k == cap[i]
                 v == weight[i]
      <4>2. k \in Int /\ v \in Int /\ R * v > k * W
        BY <1>2, <1>3, <1>5
      <4> HIDE DEF k, v, W
      <4>3. W * k < R * v
        BY <1>1, <2>1, <4>2
      <4>4. QED
        BY <4>2, <4>3 DEF k, v
    <3> HIDE DEF W
    <3>2. QED
      BY <1>1, <1>5, <1>7, <2>1, <3>1, TotalBelow
  <2> HIDE DEF W, C, F
  <2>5. C * W <= R * F /\ C * W < R * W /\ R - C > 0
    <3>1. C * W < R * F
      BY <1>1, <2>1, <2>4
    <3>2. R * F <= R * W
      BY <1>1, <2>1, <2>3
    <3>3. C * W < R * W /\ C * W <= R * F
      <4> DEFINE x == C * W
                 y == R * F
                 z == R * W
      <4>1. x \in Int /\ y \in Int /\ z \in Int /\ x < y /\ y <= z
        BY <1>1, <2>1, <3>1, <3>2
      <4> HIDE DEF x, y, z
      <4>2. x < z /\ x <= y
        BY <4>1
      <4>3. QED
        BY <4>2 DEF x, y, z
    <3>4. R - C > 0
      BY <1>1, <2>1, <2>3, <3>3
    <3>5. QED
      BY <3>3, <3>4
  <2>6. Total(weight, A \ full) = W - F
    <3>1. Total(weight, full \cup (A \ full)) = Total(weight, full) + Total(weight, A \ full)
      BY <1>1, <1>2, <1>3, <1>5, TotalOfBoth
    <3>2. full \cup (A \ full) = A
      BY <1>3
    <3>3. Total(weight, A \ full) \in Int
      BY <1>1, <1>2, <1>5, FS_Subset, TotalIsInteger
    <3> DEFINE x == Total(weight, A \ full)
    <3>4. W = F + x /\ x \in Int
      BY <3>1, <3>2, <3>3 DEF W, F
    <3> HIDE DEF x
    <3>5. x = W - F
      BY <2>1, <3>4
    <3>6. QED
      BY <3>5 DEF x
  <2>7. R - C = target - Total(cap, E \ (A \ full))
    <3>1. E \ A \in SUBSET E /\ full \cap (E \ A) = {} /\ full \cup (E \ A) = E \ (A \ full)
      BY <1>1, <1>3
    <3>2. Total(cap, full \cup (E \ A)) = Total(cap, full) + Total(cap, E \ A)
      BY <1>1, <1>2, <1>5, <3>1, TotalOfBoth
    <3>3. Total(cap, E \ A) \in Int
      BY <1>1, <1>2, <3>1, FS_Subset, TotalIsInteger
    <3> DEFINE x == Total(cap, E \ A)
    <3>4. Total(cap, E \ (A \ full)) = C + x /\ R = target - x /\ x \in Int
      BY <1>1, <3>1, <3>2, <3>3 DEF C
    <3> HIDE DEF x
    <3>5. R - C = target - (C + x)
      BY <1>1, <2>1, <3>4
    <3>6. QED
      BY <3>4, <3>5
  <2>8. ASSUME NEW i \in E \ (A \ full)
        PROVE  cap[i] * Total(weight, A \ full) <= (R - C) * weight[i]
    <3> DEFINE k == cap[i]
               v == weight[i]
    <3>1. k \in Int /\ v \in Int /\ v > 0
      BY <1>2
    <3>2. k * W <= R * v
      <4>1. CASE i \in full
        <5>1. R * v > k * W
          BY <1>3, <4>1 DEF W
        <5> HIDE DEF k, v
        <5>2. QED
          BY <1>1, <2>1, <3>1, <5>1
      <4>2. CASE i \in E \ A
        BY <1>1, <4>2 DEF W
      <4>3. QED
        BY <4>1, <4>2
    <3> HIDE DEF k, v
    <3>3. k * (W - F) <= (R - C) * v
      BY <1>1, <2>1, <2>3, <2>5, <3>1, <3>2, RateRises
    <3>4. QED
      BY <2>6, <3>3 DEF k, v
  <2>9. Cardinality(A \ full) <= Cardinality(E) - (n + 1)
    <3>1. A \ full \in SUBSET A /\ A \ full # A
      BY <1>3, <1>7
    <3>2. Cardinality(A \ full) <= Cardinality(A) /\ Cardinality(A \ full) # Cardinality(A)
      BY <1>5, <3>1, FS_Subset
    <3>3. Cardinality(A) \in Nat /\ Cardinality(E) \in Nat /\ Cardinality(A \ full) \in Nat
      BY <1>1, <1>5, FS_Subset, FS_CardinalityType
    <3>4. QED
      BY <1>1, <1>7, <3>2, <3>3
  <2>10. R - C \in Int
    BY <1>1, <2>1
  <2>11. E = Eligible(cap, weight)
    BY DEF E
  <2> DEFINE B == A \ full
             q == R - C
  <2>12. B \in SUBSET E /\ q \in Int /\ q > 0 /\ q = target - Total(cap, E \ B)
    BY <1>5, <2>5, <2>7, <2>10
  <2>13. \A i \in E \ B : cap[i] * Total(weight, B) <= q * weight[i]
    BY <2>8
  <2>14. Cardinality(B) <= Cardinality(E) - (n + 1) /\ next.active = B /\ next.remaining = q
    BY <1>4, <2>9
  <2> HIDE DEF B, q
  <2>15. Behind(B, q, n + 1, target, cap, weight)
    BY <2>11, <2>12, <2>13, <2>14 DEF Behind
  <2>16. QED
    BY <2>14, <2>15 DEF Filled, next
<1>8. QED
  BY <1>6, <1>7

\* The rounds as LastRound runs them.
RoundStep(g, target, cap, weight, n) ==
    IF n = 0 THEN [active |-> Eligible(cap, weight), remaining |-> target]
    ELSE Round(g[n - 1], cap, weight)

RunsTo(g, target, cap, weight, K) ==
    g = [n \in 0..K |-> RoundStep(g, target, cap, weight, n)]

Rounds(target, cap, weight, K) == CHOOSE g : RunsTo(g, target, cap, weight, K)

LEMMA LastOfRounds ==
    ASSUME NEW target, NEW cap, NEW weight
    PROVE  LastRound(target, cap, weight) =
             Rounds(target, cap, weight, Cardinality(DOMAIN cap))[Cardinality(DOMAIN cap)]
BY DEF LastRound, Rounds, RunsTo, RoundStep

LEMMA RunsStepwise ==
    ASSUME NEW g, NEW target, NEW cap, NEW weight, NEW K, RunsTo(g, target, cap, weight, K),
           NEW n \in 0..K
    PROVE  g[n] = RoundStep(g, target, cap, weight, n)
<1> DEFINE next(k) == RoundStep(g, target, cap, weight, k)
<1>1. g = [k \in 0..K |-> next(k)]
  BY DEF RunsTo
<1> HIDE DEF next
<1>2. g[n] = next(n)
  BY <1>1
<1>3. QED
  BY <1>2 DEF next

LEMMA RoundsExist ==
    ASSUME NEW target, NEW cap, NEW weight, NEW K \in Nat
    PROVE  RunsTo(Rounds(target, cap, weight, K), target, cap, weight, K)
<1> DEFINE stepOf(g, n) == RoundStep(g, target, cap, weight, n)
           Runs(g, k) == \A n \in 0..k : g[n] = stepOf(g, n)
           fails == {k \in Nat : ~\E g : Runs(g, k)}
<1>1. fails = {}
  <2>1. SUFFICES ASSUME fails # {} PROVE FALSE
    OBVIOUS
  <2>2. PICK k \in fails : \A m \in fails : k <= m
    <3>1. fails \in SUBSET Nat
      OBVIOUS
    <3> HIDE DEF fails
    <3>2. QED
      BY <2>1, <3>1, LeastElement
  <2>3. k \in Nat /\ ~\E g : Runs(g, k)
    OBVIOUS
  <2>4. CASE k = 0
    <3> DEFINE g == [n \in 0..0 |-> stepOf(<<>>, 0)]
    <3>1. ASSUME NEW n \in 0..0 PROVE g[n] = stepOf(g, n)
      <4>1. n = 0 /\ g[n] = stepOf(<<>>, 0)
        OBVIOUS
      <4> HIDE DEF g
      <4>2. QED
        BY <4>1 DEF RoundStep
    <3> HIDE DEF g
    <3>2. Runs(g, 0)
      BY <3>1
    <3>3. QED
      BY <2>3, <2>4, <3>2
  <2>5. CASE k # 0
    <3>1. k - 1 \in Nat /\ ~(k <= k - 1)
      BY <2>3, <2>5
    <3>2. k - 1 \notin fails
      <4> HIDE DEF fails
      <4>1. QED
        BY <2>2, <3>1
    <3>3. PICK h : Runs(h, k - 1)
      BY <3>1, <3>2
    <3> DEFINE g == [n \in 0..k |-> IF n <= k - 1 THEN h[n] ELSE stepOf(h, n)]
    <3>4. ASSUME NEW n \in 0..k PROVE g[n] = stepOf(g, n)
      <4>1. g[n] = stepOf(h, n)
        <5>1. CASE n <= k - 1
          <6>1. n \in 0..(k - 1)
            BY <2>3, <5>1
          <6>2. h[n] = stepOf(h, n)
            BY <3>3, <6>1
          <6>3. QED
            BY <5>1, <6>2
        <5>2. CASE ~(n <= k - 1)
          BY <5>2
        <5>3. QED
          BY <5>1, <5>2
      <4>2. CASE n = 0
        <5> HIDE DEF g
        <5>1. QED
          BY <4>1, <4>2 DEF RoundStep
      <4>3. CASE n # 0
        <5>1. n - 1 \in 0..k /\ n - 1 <= k - 1
          BY <2>3, <4>3
        <5>2. g[n - 1] = h[n - 1]
          BY <5>1
        <5> HIDE DEF g
        <5>3. QED
          BY <4>1, <4>3, <5>2 DEF RoundStep
      <4>4. QED
        BY <4>2, <4>3
    <3> HIDE DEF g
    <3>5. Runs(g, k)
      BY <3>4
    <3>6. QED
      BY <2>3, <3>5
  <2>6. QED
    BY <2>4, <2>5
<1>2. K \notin fails
  BY <1>1
<1>3. PICK h : Runs(h, K)
  BY <1>2
<1> DEFINE g == [n \in 0..K |-> h[n]]
<1>4. ASSUME NEW n \in 0..K PROVE h[n] = stepOf(g, n)
  <2>1. h[n] = stepOf(h, n)
    BY <1>3
  <2>2. CASE n = 0
    <3> HIDE DEF g
    <3>1. QED
      BY <2>1, <2>2 DEF RoundStep
  <2>3. CASE n # 0
    <3>1. n - 1 \in 0..K
      BY <2>3
    <3>2. g[n - 1] = h[n - 1]
      BY <3>1
    <3> HIDE DEF g
    <3>3. QED
      BY <2>1, <2>3, <3>2 DEF RoundStep
  <2>4. QED
    BY <2>2, <2>3
<1>5. g = [n \in 0..K |-> stepOf(g, n)]
  BY <1>4
<1> HIDE DEF g
<1>6. RunsTo(g, target, cap, weight, K)
  BY <1>5 DEF RunsTo
<1>7. QED
  BY <1>6 DEF Rounds

\* A round per unit is enough.
LEMMA LastIsLast ==
    ASSUME NEW N, IsFiniteSet(N), NEW cap \in [N -> Nat], NEW weight \in [N -> Int],
           NEW target \in Nat, target > 0
    PROVE  LET last == LastRound(target, cap, weight)
           IN  /\ Filled(last, Cardinality(N), target, cap, weight)
               /\ Saturated(last.active, last.remaining, cap, weight) = {}
<1> DEFINE K == Cardinality(N)
           g == Rounds(target, cap, weight, K)
           last == LastRound(target, cap, weight)
           fails == {n \in Nat : n <= K /\ ~Filled(g[n], n, target, cap, weight)}
<1>1. K \in Nat
  BY FS_CardinalityType
<1>2. ASSUME NEW n \in 0..K PROVE g[n] = RoundStep(g, target, cap, weight, n)
  <2>1. RunsTo(g, target, cap, weight, K)
    <3> HIDE DEF K
    <3>1. QED
      BY <1>1, RoundsExist
  <2> HIDE DEF g, K
  <2>2. QED
    BY <2>1, RunsStepwise
<1>3. last = g[K]
  <2>1. DOMAIN cap = N
    OBVIOUS
  <2>2. QED
    BY <2>1, LastOfRounds
<1> HIDE DEF g, K, last
<1>4. fails = {}
  <2>1. SUFFICES ASSUME fails # {} PROVE FALSE
    OBVIOUS
  <2>2. PICK n \in fails : \A m \in fails : n <= m
    <3>1. fails \in SUBSET Nat
      OBVIOUS
    <3> HIDE DEF fails
    <3>2. QED
      BY <2>1, <3>1, LeastElement
  <2>3. n \in Nat /\ n <= K /\ ~Filled(g[n], n, target, cap, weight)
    OBVIOUS
  <2>4. CASE n = 0
    <3>1. g[0] = [active |-> Eligible(cap, weight), remaining |-> target]
      BY <1>1, <1>2 DEF RoundStep
    <3>2. QED
      BY <2>3, <2>4, <3>1, FirstFilled
  <2>5. CASE n # 0
    <3>1. n - 1 \in Nat /\ n - 1 <= K /\ ~(n <= n - 1) /\ (n - 1) + 1 = n
      BY <1>1, <2>3, <2>5
    <3>2. n - 1 \notin fails
      <4> HIDE DEF fails
      <4>1. QED
        BY <2>2, <3>1
    <3>3. Filled(g[n - 1], n - 1, target, cap, weight)
      BY <3>1, <3>2
    <3>4. Filled(Round(g[n - 1], cap, weight), (n - 1) + 1, target, cap, weight)
      BY <3>1, <3>3, RoundFills
    <3>5. g[n] = Round(g[n - 1], cap, weight)
      BY <1>1, <1>2, <2>3, <2>5 DEF RoundStep
    <3>6. QED
      BY <2>3, <3>1, <3>4, <3>5
  <2>6. QED
    BY <2>4, <2>5
<1>5. Filled(last, K, target, cap, weight)
  <2>1. K \notin fails
    BY <1>4
  <2>2. QED
    BY <1>1, <1>3, <2>1
<1>6. Saturated(last.active, last.remaining, cap, weight) = {}
  <2>1. SUFFICES ASSUME Saturated(last.active, last.remaining, cap, weight) # {} PROVE FALSE
    OBVIOUS
  <2> DEFINE E == Eligible(cap, weight)
  <2>2. last.active \in SUBSET E /\ Cardinality(last.active) <= Cardinality(E) - K
    BY <1>5, <2>1 DEF Filled, Behind
  <2>3. E \in SUBSET N
    BY EligibleUnits
  <2> HIDE DEF E
  <2>4. IsFiniteSet(E) /\ IsFiniteSet(last.active) /\ Cardinality(E) <= K
    BY <2>2, <2>3, FS_Subset DEF K
  <2>5. Cardinality(last.active) \in Nat /\ Cardinality(E) \in Nat
    BY <2>4, FS_CardinalityType
  <2>6. Cardinality(last.active) = 0
    BY <1>1, <2>2, <2>4, <2>5
  <2>7. last.active = {}
    BY <2>4, <2>6, FS_EmptySet
  <2>8. QED
    BY <2>1, <2>7 DEF Saturated
<1>7. QED
  BY <1>5, <1>6 DEF last, K

\* What the rounds end with, for the weight w of the units still active.
LEMMA LastFacts ==
    ASSUME NEW N, IsFiniteSet(N), NEW cap \in [N -> Nat], NEW weight \in [N -> Int],
           NEW target \in Nat, target > 0
    PROVE  LET E == Eligible(cap, weight)
               last == LastRound(target, cap, weight)
           IN  /\ last.active \in SUBSET E /\ IsFiniteSet(last.active)
               /\ last.remaining \in Int /\ last.remaining > 0
               /\ last.remaining = target - Total(cap, E \ last.active)
               /\ \A i \in E \ last.active :
                    cap[i] * Total(weight, last.active) <= last.remaining * weight[i]
               /\ \A i \in last.active :
                    last.remaining * weight[i] <= cap[i] * Total(weight, last.active)
               /\ Denominator(last.active, weight) \in Int
               /\ Denominator(last.active, weight) > 0
<1> DEFINE E == Eligible(cap, weight)
           last == LastRound(target, cap, weight)
           A == last.active
           R == last.remaining
           W == Total(weight, A)
<1>1. Filled(last, Cardinality(N), target, cap, weight) /\ Saturated(A, R, cap, weight) = {}
  BY LastIsLast
<1>2. /\ A \in SUBSET E /\ R \in Int /\ R > 0 /\ R = target - Total(cap, E \ A)
      /\ \A i \in E \ A : cap[i] * W <= R * weight[i]
  BY <1>1 DEF Filled, Behind
<1>3. /\ IsFiniteSet(E)
      /\ \A i \in E : cap[i] \in Int /\ cap[i] > 0 /\ weight[i] \in Int /\ weight[i] > 0
  BY EligibleUnits
<1>4. IsFiniteSet(A)
  BY <1>2, <1>3, FS_Subset
<1>5. W \in Int
  BY <1>2, <1>3, <1>4, TotalIsInteger
<1>6. \A i \in A : R * weight[i] <= cap[i] * W
  <2>1. TAKE i \in A
  <2>2. ~(R * weight[i] > cap[i] * W)
    BY <1>1 DEF Saturated
  <2> DEFINE k == cap[i]
             v == weight[i]
  <2>3. k \in Int /\ v \in Int
    BY <1>2, <1>3
  <2> HIDE DEF k, v, W, A, R
  <2>4. R * v <= k * W
    BY <1>2, <1>5, <2>2, <2>3 DEF k, v
  <2>5. QED
    BY <2>4 DEF k, v
<1>7. Denominator(A, weight) \in Int /\ Denominator(A, weight) > 0
  <2>1. CASE A = {}
    BY <2>1 DEF Denominator
  <2>2. CASE A # {}
    <3>1. \A i \in A : weight[i] \in Int /\ weight[i] > 0
      BY <1>2, <1>3
    <3>2. Total(weight, A) > 0
      BY <1>4, <2>2, <3>1, TotalPositive
    <3>3. QED
      BY <1>5, <2>2, <3>2 DEF Denominator
  <2>3. QED
    BY <2>1, <2>2
<1>8. QED
  BY <1>2, <1>4, <1>6, <1>7

\* distribute: the split is fair, whatever the limits and the weights.
LEMMA SplitIsFair ==
    ASSUME NEW N, IsFiniteSet(N), NEW cap \in [N -> Nat], NEW weight \in [N -> Int],
           NEW target \in Nat, target > 0,
           NEW split, split = Distribute(target, cap, weight)
    PROVE  /\ IsFairSplit(target, cap, weight, split.per, split.assigned)
           /\ split.per \in Int /\ split.per > 0
           /\ split.assigned \in [N -> Int]
<1> DEFINE E == Eligible(cap, weight)
           last == LastRound(target, cap, weight)
           A == last.active
           R == last.remaining
           W == Total(weight, A)
           per == split.per
           a == split.assigned
<1>1. /\ per = Denominator(A, weight)
      /\ a = [i \in N |-> IF i \in A THEN R * weight[i]
                          ELSE IF i \in E THEN per * cap[i] ELSE 0]
  BY DEF Distribute, Shares
<1>2. /\ A \in SUBSET E /\ IsFiniteSet(A) /\ R \in Int /\ R > 0
      /\ R = target - Total(cap, E \ A)
      /\ \A i \in E \ A : cap[i] * W <= R * weight[i]
      /\ \A i \in A : R * weight[i] <= cap[i] * W
      /\ per \in Int /\ per > 0
  <2>1. /\ A \in SUBSET E /\ IsFiniteSet(A) /\ R \in Int /\ R > 0
        /\ R = target - Total(cap, E \ A)
        /\ \A i \in E \ A : cap[i] * W <= R * weight[i]
        /\ \A i \in A : R * weight[i] <= cap[i] * W
        /\ Denominator(A, weight) \in Int /\ Denominator(A, weight) > 0
    BY LastFacts
  <2>2. QED
    BY <1>1, <2>1
<1>3. /\ E \in SUBSET N /\ IsFiniteSet(E)
      /\ \A i \in E : cap[i] \in Int /\ cap[i] > 0 /\ weight[i] \in Int /\ weight[i] > 0
  BY EligibleUnits
<1>4. \A i \in N : cap[i] \in Int /\ cap[i] >= 0
  OBVIOUS
<1>5. A # {} => per = W /\ W \in Int /\ W > 0
  <2>1. A # {} => per = W
    BY <1>1 DEF Denominator
  <2>2. QED
    BY <1>2, <2>1
<1> HIDE DEF E, last, A, R, W, per, a
<1>6. \A i \in A : a[i] = R * weight[i]
  BY <1>1, <1>2, <1>3
<1>7. \A i \in E \ A : a[i] = per * cap[i]
  BY <1>1, <1>3
<1>8. \A i \in N \ E : a[i] = 0
  BY <1>1, <1>2
<1>9. ASSUME NEW i \in N PROVE a[i] \in Int /\ a[i] >= 0 /\ a[i] <= per * cap[i]
  <2> DEFINE k == cap[i]
             v == weight[i]
  <2>1. k \in Int /\ k >= 0
    BY <1>4
  <2>2. CASE i \in A
    <3>1. v \in Int /\ v > 0 /\ a[i] = R * v /\ R * v <= k * W /\ per = W
      BY <1>2, <1>3, <1>5, <1>6, <2>2
    <3> HIDE DEF k, v
    <3>2. R * v \in Int /\ R * v >= 0 /\ k * per = per * k
      BY <1>2, <2>1, <3>1
    <3>3. QED
      BY <3>1, <3>2 DEF k
  <2>3. CASE i \in E \ A
    <3>1. a[i] = per * k
      BY <1>7, <2>3
    <3> HIDE DEF k
    <3>2. per * k \in Int /\ per * k >= 0
      BY <1>2, <2>1
    <3>3. QED
      BY <3>1, <3>2 DEF k
  <2>4. CASE i \in N \ E
    <3>1. a[i] = 0
      BY <1>8, <2>4
    <3> HIDE DEF k
    <3>2. per * k >= 0
      BY <1>2, <2>1
    <3>3. QED
      BY <3>1, <3>2 DEF k
  <2>5. QED
    BY <1>2, <1>3, <2>2, <2>3, <2>4
<1>10. ASSUME NEW i \in E, NEW j \in E, a[i] < per * cap[i]
       PROVE  a[j] * weight[i] <= a[i] * weight[j]
  <2>1. i \in A
    <3>1. ~(i \in E \ A)
      <4>1. ASSUME a[i] = per * cap[i] PROVE FALSE
        <5> DEFINE x == per * cap[i]
        <5>1. x \in Int /\ x < x
          BY <1>2, <1>3, <1>10, <4>1
        <5> HIDE DEF x
        <5>2. QED
          BY <5>1
      <4>2. QED
        BY <1>7, <4>1
    <3>2. QED
      BY <3>1
  <2> DEFINE v == weight[i]
             u == weight[j]
             k == cap[j]
  <2>2. v \in Int /\ v > 0 /\ u \in Int /\ u > 0 /\ k \in Int
    BY <1>3
  <2>3. a[i] = R * v /\ per = W /\ W \in Int /\ W > 0
    BY <1>5, <1>6, <2>1
  <2>4. CASE j \in A
    <3>1. a[j] = R * u
      BY <1>6, <2>4
    <3> HIDE DEF u, v
    <3>2. (R * u) * v <= (R * v) * u
      BY <1>2, <2>2
    <3>3. QED
      BY <2>3, <3>1, <3>2 DEF u, v
  <2>5. CASE j \notin A
    <3>1. a[j] = per * k /\ k * W <= R * u
      BY <1>2, <1>7, <2>5
    <3> HIDE DEF u, v, k
    <3>2. (k * W) * v <= (R * u) * v
      BY <1>2, <2>2, <2>3, <3>1
    <3>3. (k * W) * v = (per * k) * v /\ (R * u) * v = (R * v) * u
      BY <1>2, <2>2, <2>3
    <3>4. QED
      BY <2>3, <3>1, <3>2, <3>3 DEF u, v
  <2>6. QED
    BY <2>4, <2>5
<1>11. Total(a, N) = per * Smaller(target, Total(cap, E))
  <2> DEFINE B == E \ A
             T == Total(cap, B)
             S == Total(cap, E)
             U == Total(cap, A)
  <2>1. /\ B \in SUBSET N /\ IsFiniteSet(B) /\ A \in SUBSET N /\ IsFiniteSet(N \ E)
        /\ A \cup B = E /\ A \cap B = {} /\ E \cup (N \ E) = N /\ E \cap (N \ E) = {}
        /\ N \ E \in SUBSET N
    BY <1>2, <1>3, FS_Subset
  <2>2. \A i \in N : a[i] \in Int
    BY <1>9
  <2>3. Total(a, E) = Total(a, A) + Total(a, B)
    <3>1. Total(a, A \cup B) = Total(a, A) + Total(a, B)
      BY <2>1, <2>2, TotalOfBoth
    <3>2. QED
      BY <2>1, <3>1
  <2>4. Total(a, N) = Total(a, E) + Total(a, N \ E)
    <3>1. Total(a, E \cup (N \ E)) = Total(a, E) + Total(a, N \ E)
      BY <1>3, <2>1, <2>2, TotalOfBoth
    <3>2. QED
      BY <2>1, <3>1
  <2>5. Total(a, N \ E) = 0
    BY <1>8, <2>1, TotalOfZeros
  <2>6. S = U + T
    <3>1. Total(cap, A \cup B) = Total(cap, A) + Total(cap, B)
      BY <1>4, <2>1, TotalOfBoth
    <3>2. QED
      BY <2>1, <3>1
  <2>7. T \in Int /\ U \in Int /\ S \in Int
    BY <1>2, <1>3, <1>4, <2>1, TotalIsInteger
  <2>8. Total(a, B) = per * T
    <3>1. \A i \in B : a[i] \in Int /\ cap[i] \in Int /\ 1 * a[i] = per * cap[i]
      <4>1. TAKE i \in B
      <4>2. a[i] \in Int /\ a[i] = per * cap[i] /\ cap[i] \in Int
        BY <1>4, <1>7, <2>1, <2>2
      <4> DEFINE x == a[i]
      <4>3. 1 * x = x
        BY <4>2
      <4>4. QED
        BY <4>2, <4>3
    <3> HIDE DEF B
    <3>2. 1 * Total(a, B) = per * Total(cap, B)
      BY <1>2, <2>1, <3>1, TotalEqual
    <3>3. Total(a, B) \in Int
      BY <2>1, <2>2, TotalIsInteger
    <3>4. 1 * Total(a, B) = Total(a, B)
      BY <3>3
    <3>5. QED
      BY <3>2, <3>4
  <2>9. R = target - T /\ target \in Int
    BY <1>2
  <2>10. Total(a, N) = Total(a, A) + per * T
    <3> DEFINE x == Total(a, A)
               y == per * T
    <3>1. x \in Int
      BY <1>2, <2>1, <2>2, TotalIsInteger
    <3>2. y \in Int
      BY <1>2, <2>7
    <3>3. Total(a, N) = (x + y) + 0
      BY <2>3, <2>4, <2>5, <2>8
    <3> HIDE DEF x, y
    <3>4. (x + y) + 0 = x + y
      BY <3>1, <3>2
    <3>5. QED
      BY <3>3, <3>4 DEF x, y
  <2>11. CASE A = {}
    <3>1. Total(a, A) = 0 /\ U = 0
      BY <2>11, TotalStep, FS_EmptySet
    <3> HIDE DEF T, S, U
    <3>2. S = T /\ S < target
      BY <1>2, <2>6, <2>7, <2>9, <3>1
    <3>3. Smaller(target, S) = S
      BY <2>7, <2>9, <3>2 DEF Smaller
    <3>4. 0 + per * T = per * S
      BY <1>2, <2>7, <3>2
    <3>5. QED
      BY <2>10, <3>1, <3>3, <3>4 DEF S
  <2>12. CASE A # {}
    <3>1. per = W /\ W \in Int /\ W > 0
      BY <1>5, <2>12
    <3>2. \A i \in A : a[i] \in Int /\ weight[i] \in Int /\ cap[i] \in Int
      BY <1>2, <1>3, <1>9
    <3>3. 1 * Total(a, A) = R * Total(weight, A)
      <4>1. \A i \in A : a[i] \in Int /\ weight[i] \in Int /\ 1 * a[i] = R * weight[i]
        <5>1. TAKE i \in A
        <5>2. a[i] = R * weight[i] /\ a[i] \in Int
          BY <1>6, <3>2
        <5> DEFINE x == a[i]
        <5>3. 1 * x = x
          BY <5>2
        <5>4. QED
          BY <3>2, <5>2, <5>3
      <4>2. R \in Int /\ IsFiniteSet(A) /\ 1 \in Int
        BY <1>2
      <4>3. QED
        BY <4>1, <4>2, TotalEqual
    <3>4. R * Total(weight, A) <= W * Total(cap, A)
      <4>1. \A i \in A : weight[i] \in Int /\ cap[i] \in Int /\ R * weight[i] <= W * cap[i]
        <5>1. TAKE i \in A
        <5> DEFINE k == cap[i]
                   v == weight[i]
        <5>2. k \in Int /\ v \in Int /\ R * v <= k * W
          BY <1>2, <3>2
        <5> HIDE DEF k, v
        <5>3. R * v <= W * k
          BY <1>2, <3>1, <5>2
        <5>4. QED
          BY <5>2, <5>3 DEF k, v
      <4>2. QED
        BY <1>2, <3>1, <4>1, TotalAtMost
    <3>5. Total(a, A) = R * W
      <4>1. Total(a, A) \in Int
        BY <1>2, <3>2, TotalIsInteger
      <4> DEFINE x == Total(a, A)
      <4>2. 1 * x = x
        BY <4>1
      <4>3. QED
        BY <3>3, <4>2 DEF W
    <3>6. R * W <= W * U
      BY <3>4 DEF W
    <3> HIDE DEF T, S, U
    <3>7. R <= U
      BY <1>2, <2>7, <3>1, <3>6
    <3>8. target <= S
      BY <1>2, <2>6, <2>7, <2>9, <3>7
    <3>9. Smaller(target, S) = target
      BY <2>7, <2>9, <3>8 DEF Smaller
    <3>10. R * W + per * T = per * target
      <4>1. R * W + W * T = W * (R + T) /\ R + T = target
        BY <1>2, <2>7, <2>9, <3>1
      <4>2. QED
        BY <3>1, <4>1
    <3>11. QED
      BY <2>10, <3>5, <3>9, <3>10 DEF S
  <2>13. QED
    BY <2>11, <2>12
<1>12. DOMAIN cap = N /\ a \in [N -> Int]
  BY <1>1, <1>9
<1>13. IsFairSplit(target, cap, weight, per, a)
  BY <1>8, <1>9, <1>10, <1>11, <1>12 DEF IsFairSplit, E
<1>14. QED
  BY <1>2, <1>12, <1>13 DEF per, a

(* The setpoints within the envelopes *)

Bound(b) == b \subseteq Int /\ \A x, y \in b : x = y

UnitFine(u) == /\ u.energy \in Int /\ u.maxCharge \in Int /\ u.maxDischarge \in Int
               /\ Bound(u.lo) /\ Bound(u.hi)

LEMMA MinOfBound ==
    ASSUME NEW x \in Int, NEW b, Bound(b)
    PROVE  LET m == Min({x} \cup b)
           IN  m \in Int /\ m <= x /\ (\A y \in b : m <= y) /\ (m = x \/ m \in b)
<1> DEFINE S == {x} \cup b
           least(m) == m \in S /\ \A y \in S : m <= y
<1>1. S \in SUBSET Int
  BY DEF Bound
<1>2. \E m \in S : \A y \in S : m <= y
  <2>1. CASE \A y \in b : x <= y
    <3>1. x \in S /\ \A y \in S : x <= y
      BY <2>1
    <3>2. QED
      BY <3>1
  <2>2. CASE ~\A y \in b : x <= y
    <3>1. PICK h \in b : ~(x <= h)
      BY <2>2
    <3>2. h \in Int /\ h <= x /\ h <= h /\ \A y \in b : y = h
      BY <3>1 DEF Bound
    <3>3. h \in S /\ \A y \in S : h <= y
      BY <3>1, <3>2
    <3>4. QED
      BY <3>3
  <2>3. QED
    BY <2>1, <2>2
<1>3. Min(S) \in S /\ \A y \in S : Min(S) <= y
  BY <1>2 DEF Min
<1> HIDE DEF S
<1>4. Min(S) \in Int
  BY <1>1, <1>3
<1>5. Min(S) <= x /\ (\A y \in b : Min(S) <= y) /\ (Min(S) = x \/ Min(S) \in b)
  BY <1>3 DEF S
<1>6. QED
  BY <1>4, <1>5 DEF S

LEMMA MaxOfBound ==
    ASSUME NEW x \in Int, NEW b, Bound(b)
    PROVE  LET m == Max({x} \cup b)
           IN  m \in Int /\ x <= m /\ (\A y \in b : y <= m) /\ (m = x \/ m \in b)
<1> DEFINE S == {x} \cup b
<1>1. S \in SUBSET Int
  BY DEF Bound
<1>2. \E m \in S : \A y \in S : m >= y
  <2>1. CASE \A y \in b : x >= y
    <3>1. x \in S /\ \A y \in S : x >= y
      BY <2>1
    <3>2. QED
      BY <3>1
  <2>2. CASE ~\A y \in b : x >= y
    <3>1. PICK h \in b : ~(x >= h)
      BY <2>2
    <3>2. h \in Int /\ h >= x /\ h >= h /\ \A y \in b : y = h
      BY <3>1 DEF Bound
    <3>3. h \in S /\ \A y \in S : h >= y
      BY <3>1, <3>2
    <3>4. QED
      BY <3>3
  <2>3. QED
    BY <2>1, <2>2
<1>3. Max(S) \in S /\ \A y \in S : Max(S) >= y
  BY <1>2 DEF Max
<1> HIDE DEF S
<1>4. Max(S) \in Int
  BY <1>1, <1>3
<1>5. \A y \in S : y <= Max(S)
  BY <1>1, <1>3, <1>4
<1>6. x <= Max(S) /\ (\A y \in b : y <= Max(S)) /\ (Max(S) = x \/ Max(S) \in b)
  BY <1>3, <1>5 DEF S
<1>7. QED
  BY <1>4, <1>6 DEF S

\* A limit is never negative, and a unit that has one can be asked for it.
LEMMA DischargeCapFits ==
    ASSUME NEW u, UnitFine(u)
    PROVE  /\ DischargeCap(u) \in Nat
           /\ DischargeCap(u) > 0 =>
                /\ \A h \in u.hi : DischargeCap(u) <= h
                /\ \A lo \in u.lo : lo <= DischargeCap(u)
<1> DEFINE cap == Min({u.maxDischarge} \cup u.hi)
<1>1. cap \in Int /\ \A h \in u.hi : cap <= h
  BY MinOfBound DEF UnitFine
<1>2. DischargeCap(u) = IF \E lo \in u.lo : cap < lo THEN 0 ELSE Larger(0, cap)
  BY DEF DischargeCap
<1>3. u.lo \in SUBSET Int
  BY DEF UnitFine, Bound
<1> HIDE DEF cap
<1>4. CASE \E lo \in u.lo : cap < lo
  BY <1>2, <1>4
<1>5. CASE ~\E lo \in u.lo : cap < lo
  <2>1. DischargeCap(u) = Larger(0, cap)
    BY <1>2, <1>5
  <2>2. Larger(0, cap) \in Nat /\ (Larger(0, cap) > 0 => Larger(0, cap) = cap)
    BY <1>1 DEF Larger
  <2>3. \A lo \in u.lo : lo <= cap
    BY <1>1, <1>3, <1>5
  <2>4. QED
    BY <1>1, <2>1, <2>2, <2>3
<1>6. QED
  BY <1>4, <1>5

LEMMA ChargeCapFits ==
    ASSUME NEW u, UnitFine(u)
    PROVE  /\ ChargeCap(u) \in Nat
           /\ ChargeCap(u) > 0 => \A lo \in u.lo : ChargeCap(u) <= 0 - lo
<1> DEFINE least == {0 - lo : lo \in u.lo}
           cap == Min({u.maxCharge} \cup least)
           none == \/ \E lo \in u.lo : lo >= 0
                   \/ \E lo \in u.lo, hi \in u.hi : hi <= 0 /\ lo > hi
<1>1. Bound(least)
  BY DEF UnitFine, Bound
<1>2. cap \in Int /\ \A y \in least : cap <= y
  <2>1. u.maxCharge \in Int
    BY DEF UnitFine
  <2> HIDE DEF least
  <2>2. QED
    BY <1>1, <2>1, MinOfBound
<1>3. \A lo \in u.lo : cap <= 0 - lo
  BY <1>2
<1>4. ChargeCap(u) = IF none THEN 0 ELSE Larger(0, cap)
  BY DEF ChargeCap
<1> HIDE DEF cap, none
<1>5. Larger(0, cap) \in Nat /\ (Larger(0, cap) > 0 => Larger(0, cap) = cap)
  BY <1>2 DEF Larger
<1>6. CASE none
  BY <1>4, <1>6
<1>7. CASE ~none
  BY <1>3, <1>4, <1>5, <1>7
<1>8. QED
  BY <1>6, <1>7

Scaled(per, b) == {per * x : x \in b}

LEMMA ScaledBound ==
    ASSUME NEW per \in Int, NEW b, Bound(b)
    PROVE  Bound(Scaled(per, b))
BY DEF Bound, Scaled

Allowed(per, v, u) == /\ \A lo \in u.lo : per * lo <= v
                      /\ \A hi \in u.hi : v <= per * hi

LEMMA ClampedLies ==
    ASSUME NEW per \in Int, NEW v \in Int, NEW u, UnitFine(u)
    PROVE  \E low \in Int :
             /\ v <= low /\ \A lo \in u.lo : per * lo <= low
             /\ low = v \/ \E lo \in u.lo : low = per * lo
             /\ Clamped(v, per, u) \in Int /\ Clamped(v, per, u) <= low
             /\ \A hi \in u.hi : Clamped(v, per, u) <= per * hi
             /\ Clamped(v, per, u) = low \/ \E hi \in u.hi : Clamped(v, per, u) = per * hi
<1> DEFINE los == Scaled(per, u.lo)
           his == Scaled(per, u.hi)
           low == Max({v} \cup los)
           value == Min({low} \cup his)
<1>1. Bound(los) /\ Bound(his)
  BY ScaledBound DEF UnitFine
<1>2. Clamped(v, per, u) = value
  BY DEF Clamped, Scaled
<1>3. low \in Int /\ v <= low /\ (\A y \in los : y <= low) /\ (low = v \/ low \in los)
  <2> HIDE DEF los
  <2>1. QED
    BY <1>1, MaxOfBound
<1>4. value \in Int /\ value <= low /\ (\A y \in his : value <= y) /\ (value = low \/ value \in his)
  <2> HIDE DEF his, low
  <2>1. QED
    BY <1>1, <1>3, MinOfBound
<1> HIDE DEF low, value
<1>5. (\A lo \in u.lo : per * lo <= low) /\ (low = v \/ \E lo \in u.lo : low = per * lo)
  BY <1>3 DEF Scaled
<1>6. (\A hi \in u.hi : value <= per * hi) /\ (value = low \/ \E hi \in u.hi : value = per * hi)
  BY <1>4 DEF Scaled
<1>7. QED
  BY <1>2, <1>3, <1>4, <1>5, <1>6

LEMMA TimesKeepsOrder ==
    ASSUME NEW per \in Int, per > 0, NEW x \in Int, NEW y \in Int, x <= y
    PROVE  per * x <= per * y
OBVIOUS

\* Within the limits, the envelope keeps the whole setpoint or nothing.
LEMMA DischargeWhole ==
    ASSUME NEW per \in Int, per > 0, NEW s \in Int, s > 0, NEW u, UnitFine(u),
           s <= per * DischargeCap(u)
    PROVE  /\ Kept(s, Clamped(s, per, u)) <=> Allowed(per, s, u)
           /\ Kept(s, Clamped(s, per, u)) => Clamped(s, per, u) = s
<1> DEFINE cap == DischargeCap(u)
           value == Clamped(s, per, u)
<1>1. PICK low \in Int :
             /\ s <= low /\ \A lo \in u.lo : per * lo <= low
             /\ low = s \/ \E lo \in u.lo : low = per * lo
             /\ value \in Int /\ value <= low
             /\ \A hi \in u.hi : value <= per * hi
             /\ value = low \/ \E hi \in u.hi : value = per * hi
  BY ClampedLies
<1>2. cap \in Nat /\ (cap > 0 => (\A h \in u.hi : cap <= h) /\ (\A lo \in u.lo : lo <= cap))
  BY DischargeCapFits
<1>3. s <= per * cap
  OBVIOUS
<1> HIDE DEF cap, value
<1>4. cap > 0
  <2>1. CASE cap = 0
    <3>1. per * cap = 0
      BY <2>1
    <3>2. QED
      BY <1>3, <3>1
  <2>2. QED
    BY <1>2, <2>1
<1>5. u.lo \in SUBSET Int /\ u.hi \in SUBSET Int
  BY DEF UnitFine, Bound
<1>6. \A h \in u.hi : per * h \in Int /\ per * cap <= per * h
  BY <1>2, <1>4, <1>5, TimesKeepsOrder
<1>7. \A lo \in u.lo : per * lo \in Int /\ per * lo <= per * cap
  BY <1>2, <1>4, <1>5, TimesKeepsOrder
<1>8. per * cap \in Int
  BY <1>2
<1>9. low <= per * cap
  BY <1>1, <1>3, <1>7
<1>10. value = low
  <2>1. ASSUME NEW h \in u.hi, value = per * h PROVE value = low
    <3>1. per * h \in Int /\ per * cap <= per * h
      BY <1>6
    <3>2. QED
      BY <1>1, <1>8, <1>9, <2>1, <3>1
  <2>2. QED
    BY <1>1, <2>1
<1>11. \A h \in u.hi : s <= per * h
  <2>1. TAKE h \in u.hi
  <2>2. per * h \in Int /\ per * cap <= per * h
    BY <1>6
  <2>3. QED
    BY <1>3, <1>8, <2>2
<1>12. Kept(s, value) <=> low = s
  BY <1>1, <1>10 DEF Kept
<1>13. Allowed(per, s, u) <=> low = s
  <2>1. Allowed(per, s, u) <=> \A lo \in u.lo : per * lo <= s
    BY <1>11 DEF Allowed
  <2>2. ASSUME \A lo \in u.lo : per * lo <= s PROVE low = s
    <3>1. ASSUME NEW lo \in u.lo, low = per * lo PROVE low = s
      <4>1. low <= s
        BY <2>2, <3>1
      <4>2. QED
        BY <1>1, <4>1
    <3>2. QED
      BY <1>1, <3>1
  <2>3. QED
    BY <1>1, <2>1, <2>2
<1>14. QED
  BY <1>10, <1>12, <1>13 DEF value

LEMMA ChargeWhole ==
    ASSUME NEW per \in Int, per > 0, NEW s \in Int, s > 0, NEW u, UnitFine(u),
           s <= per * ChargeCap(u)
    PROVE  /\ Kept(0 - s, Clamped(0 - s, per, u)) <=> Allowed(per, 0 - s, u)
           /\ Kept(0 - s, Clamped(0 - s, per, u)) => Clamped(0 - s, per, u) = 0 - s
<1> DEFINE cap == ChargeCap(u)
           v == 0 - s
           value == Clamped(v, per, u)
<1>1. v \in Int /\ v < 0
  OBVIOUS
<1>2. PICK low \in Int :
             /\ v <= low /\ \A lo \in u.lo : per * lo <= low
             /\ low = v \/ \E lo \in u.lo : low = per * lo
             /\ value \in Int /\ value <= low
             /\ \A hi \in u.hi : value <= per * hi
             /\ value = low \/ \E hi \in u.hi : value = per * hi
  <2> HIDE DEF v
  <2>1. QED
    BY <1>1, ClampedLies
<1>3. cap \in Nat /\ (cap > 0 => \A lo \in u.lo : cap <= 0 - lo)
  BY ChargeCapFits
<1>4. s <= per * cap
  OBVIOUS
<1> HIDE DEF cap, value
<1>5. cap > 0
  <2>1. CASE cap = 0
    <3>1. per * cap = 0
      BY <2>1
    <3>2. QED
      BY <1>4, <3>1
  <2>2. QED
    BY <1>3, <2>1
<1>6. u.lo \in SUBSET Int /\ u.hi \in SUBSET Int
  BY DEF UnitFine, Bound
<1>7. \A lo \in u.lo : per * lo \in Int /\ per * lo <= v
  <2>1. TAKE lo \in u.lo
  <2>2. lo \in Int /\ lo <= 0 - cap
    BY <1>3, <1>5, <1>6
  <2>3. per * lo <= per * (0 - cap)
    BY <1>3, <2>2, TimesKeepsOrder
  <2>4. per * (0 - cap) = 0 - per * cap /\ per * cap \in Int /\ per * lo \in Int
    BY <1>3, <2>2
  <2> DEFINE x == per * cap
             y == per * lo
  <2>5. x \in Int /\ y \in Int /\ y <= 0 - x /\ s <= x
    BY <1>4, <2>3, <2>4
  <2> HIDE DEF x, y
  <2>6. y <= v
    BY <2>5
  <2>7. QED
    BY <2>5, <2>6 DEF y
<1>8. low = v
  <2>1. ASSUME NEW lo \in u.lo, low = per * lo PROVE low = v
    BY <1>1, <1>2, <1>7, <2>1
  <2>2. QED
    BY <1>2, <2>1
<1> HIDE DEF v
<1>9. Kept(v, value) <=> value = v
  BY <1>1, <1>2, <1>8 DEF Kept
<1>10. Allowed(per, v, u) <=> value = v
  <2>1. Allowed(per, v, u) <=> \A hi \in u.hi : v <= per * hi
    BY <1>7 DEF Allowed
  <2>2. ASSUME \A hi \in u.hi : v <= per * hi PROVE value = v
    <3>1. ASSUME NEW hi \in u.hi, value = per * hi PROVE value = v
      <4>1. v <= value
        BY <2>2, <3>1
      <4>2. QED
        BY <1>1, <1>2, <1>8, <4>1
    <3>2. QED
      BY <1>2, <1>8, <3>1
  <2>3. ASSUME value = v PROVE \A hi \in u.hi : v <= per * hi
    BY <1>2, <2>3
  <2>4. QED
    BY <2>1, <2>2, <2>3
<1>11. QED
  BY <1>9, <1>10 DEF value, v

LEMMA ShareIsWhole ==
    ASSUME NEW per \in Int, per > 0, NEW s \in Int, s >= 0, NEW u, UnitFine(u),
           NEW d \in Directions, s <= per * DirectionCap(u, d)
    PROVE  LET v == Signed(s, d)
               value == Clamped(v, per, u)
           IN  /\ v # 0 /\ Kept(v, value) <=> s > 0 /\ Allowed(per, v, u)
               /\ v # 0 /\ Kept(v, value) => value = v
               /\ v \in Int /\ s = Larger(v, 0 - v)
<1>1. Signed(s, d) = 0 <=> s = 0
  BY DEF Signed
<1>2. Signed(s, d) \in Int /\ s = Larger(Signed(s, d), 0 - Signed(s, d))
  BY DEF Signed, Larger
<1>3. CASE s > 0 /\ d = "discharge"
  <2>1. DirectionCap(u, d) = DischargeCap(u) /\ Signed(s, d) = s
    BY <1>3 DEF DirectionCap, Signed
  <2>2. /\ Kept(s, Clamped(s, per, u)) <=> Allowed(per, s, u)
        /\ Kept(s, Clamped(s, per, u)) => Clamped(s, per, u) = s
    BY <1>3, <2>1, DischargeWhole
  <2>3. QED
    BY <1>1, <1>2, <1>3, <2>1, <2>2
<1>4. CASE s > 0 /\ d # "discharge"
  <2>1. DirectionCap(u, d) = ChargeCap(u) /\ Signed(s, d) = 0 - s
    BY <1>4 DEF DirectionCap, Signed
  <2>2. /\ Kept(0 - s, Clamped(0 - s, per, u)) <=> Allowed(per, 0 - s, u)
        /\ Kept(0 - s, Clamped(0 - s, per, u)) => Clamped(0 - s, per, u) = 0 - s
    BY <1>4, <2>1, ChargeWhole
  <2>3. QED
    BY <1>1, <1>2, <1>4, <2>1, <2>2
<1>5. CASE s = 0
  BY <1>1, <1>2, <1>5
<1>6. QED
  BY <1>3, <1>4, <1>5

LEMMA ResultIsFair ==
    ASSUME NEW N, IsFiniteSet(N), NEW unit, DOMAIN unit = N, \A i \in N : UnitFine(unit[i]),
           NEW d \in Directions, NEW target \in Nat, target > 0,
           NEW split, split.per \in Int, split.per > 0, split.assigned \in [N -> Int],
           \A i \in N : /\ split.assigned[i] >= 0
                        /\ split.assigned[i] <= split.per * DirectionCap(unit[i], d),
           Total(split.assigned, N) <= split.per * target,
           NEW commands, commands = Setpoints(split, d, unit)
    PROVE  IsFairResult(Result(split.per * target, commands, Delivered(commands)),
                        split.per * target, split, d, unit)
<1> DEFINE per == split.per
           a == split.assigned
           share(i) == Signed(a[i], d)
           value(i) == Clamped(share(i), per, unit[i])
           C == {i \in N : a[i] > 0 /\ Allowed(per, share(i), unit[i])}
           wanted == per * target
           result == Result(wanted, commands, Delivered(commands))
<1>1. ASSUME NEW i \in N
      PROVE  /\ share(i) # 0 /\ Kept(share(i), value(i)) <=>
                  a[i] > 0 /\ Allowed(per, share(i), unit[i])
             /\ share(i) # 0 /\ Kept(share(i), value(i)) => value(i) = share(i)
             /\ share(i) \in Int /\ a[i] = Larger(share(i), 0 - share(i))
             /\ a[i] \in Int /\ a[i] >= 0
  <2>1. /\ a[i] \in Int /\ a[i] >= 0 /\ UnitFine(unit[i])
        /\ a[i] <= per * DirectionCap(unit[i], d) /\ per \in Int /\ per > 0
    OBVIOUS
  <2>2. QED
    BY <2>1, ShareIsWhole
<1>2. commands = [i \in {j \in N : share(j) # 0 /\ Kept(share(j), value(j))} |-> value(i)]
  BY DEF Setpoints
<1> HIDE DEF per, a, share, value
<1>3. {j \in N : share(j) # 0 /\ Kept(share(j), value(j))} = C
  BY <1>1
<1>4. DOMAIN commands = C /\ \A i \in C : commands[i] = share(i)
  BY <1>1, <1>2, <1>3
<1>5. C \in SUBSET N /\ IsFiniteSet(C)
  <2>1. C \in SUBSET N
    OBVIOUS
  <2> HIDE DEF C
  <2>2. QED
    BY <2>1, FS_Subset
<1>6. \A i \in C : a[i] \in Int /\ a[i] > 0
  BY <1>1
<1> HIDE DEF C
<1>7. Delivered(commands) = Total(a, C)
  <2> DEFINE f == [i \in C |-> Larger(commands[i], 0 - commands[i])]
  <2>1. Delivered(commands) = Total(f, C)
    BY <1>4 DEF Delivered
  <2>2. \A i \in C : a[i] \in Int /\ f[i] = a[i]
    BY <1>1, <1>4, <1>5
  <2> HIDE DEF f
  <2>3. Total(a, C) = Total(f, C)
    BY <1>5, <2>2, TotalOfEqual
  <2>4. QED
    BY <2>1, <2>3
<1> DEFINE x == Total(a, C)
<1>8. x \in Int /\ x >= 0 /\ x <= wanted
  <2>1. \A i \in N : a[i] \in Int /\ a[i] >= 0
    BY <1>1
  <2>2. x \in Int /\ Total(a, N) \in Int /\ 0 <= x /\ x <= Total(a, N)
    BY <1>5, <2>1, TotalOfPart
  <2>3. Total(a, N) <= wanted
    BY DEF a, per
  <2>4. wanted \in Int
    BY DEF per
  <2> HIDE DEF x, wanted
  <2>5. QED
    BY <2>2, <2>3, <2>4
<1>9. x = 0 <=> C = {}
  <2>1. C = {} => x = 0
    BY TotalStep, FS_EmptySet
  <2>2. C # {} => x > 0
    BY <1>5, <1>6, TotalPositive
  <2>3. QED
    BY <1>8, <2>1, <2>2
<1>10. wanted \in Int /\ wanted > 0
  <2>1. per \in Int /\ per > 0
    BY DEF per
  <2>2. QED
    BY <2>1
<1>11. /\ result.commands = commands /\ result.unmet = wanted - x
       /\ result.feasibility = IF x = 0 THEN "infeasible"
                               ELSE IF x < wanted THEN "partially_feasible" ELSE "feasible"
  BY <1>7 DEF Result
<1> HIDE DEF x, wanted, result
<1>12. /\ result.unmet >= 0
       /\ result.feasibility = "feasible" <=> result.unmet = 0
       /\ result.feasibility = "infeasible" <=> C = {}
  BY <1>8, <1>9, <1>10, <1>11
<1>13. /\ DOMAIN result.commands =
            {i \in DOMAIN unit : split.assigned[i] > 0
                                 /\ Allowed(split.per, Signed(split.assigned[i], d), unit[i])}
       /\ \A i \in DOMAIN result.commands : result.commands[i] = Signed(split.assigned[i], d)
       /\ result.unmet = wanted - Total(split.assigned, DOMAIN result.commands)
       /\ result.feasibility = "infeasible" <=> DOMAIN result.commands = {}
  BY <1>4, <1>11, <1>12 DEF C, a, per, share, x
<1>14. IsFairResult(result, wanted, split, d, unit)
  BY <1>12, <1>13 DEF IsFairResult, Allowed
<1>15. QED
  BY <1>14 DEF result, wanted, per

\* The allocation of one objective is fair, for any units and samples.
LEMMA AllocationFair ==
    ASSUME NEW N, IsFiniteSet(N), NEW unit, DOMAIN unit = N, \A i \in N : UnitFine(unit[i]),
           NEW soc \in [N -> Int], NEW d \in Directions, NEW target \in Nat, target > 0
    PROVE  IsFairAllocation(target, d, unit, soc)
<1> DEFINE cap == Caps(unit, d)
           weight == Weights(unit, soc, d)
           split == Split(target, d, unit, soc)
           commands == Setpoints(split, d, unit)
<1>1. cap = [i \in N |-> DirectionCap(unit[i], d)] /\ cap \in [N -> Nat]
  <2>1. cap = [i \in N |-> DirectionCap(unit[i], d)]
    BY DEF Caps
  <2>2. \A i \in N : DirectionCap(unit[i], d) \in Nat
    <3>1. TAKE i \in N
    <3>2. UnitFine(unit[i])
      OBVIOUS
    <3>3. DischargeCap(unit[i]) \in Nat /\ ChargeCap(unit[i]) \in Nat
      BY <3>2, DischargeCapFits, ChargeCapFits
    <3>4. QED
      BY <3>3 DEF DirectionCap
  <2> HIDE DEF cap
  <2>3. QED
    BY <2>1, <2>2
<1>2. weight \in [N -> Int]
  <2>1. weight = [i \in N |-> Headroom(unit[i], soc[i], d)]
    BY DEF Weights
  <2>2. \A i \in N : Headroom(unit[i], soc[i], d) \in Int
    <3>1. TAKE i \in N
    <3>2. unit[i].energy \in Int /\ soc[i] \in Int
      BY DEF UnitFine
    <3>3. Larger(0, Smaller(100, soc[i])) \in Int
      BY <3>2 DEF Larger, Smaller
    <3>4. QED
      BY <3>2, <3>3 DEF Headroom
  <2> HIDE DEF weight
  <2>3. QED
    BY <2>1, <2>2
<1>3. split = Distribute(target, cap, weight)
  BY DEF Split
<1>4. Allocate(target, d, unit, soc) =
        Result(split.per * target, commands, Delivered(commands))
  BY DEF Allocate
<1> HIDE DEF cap, weight, split
<1>5. /\ IsFairSplit(target, cap, weight, split.per, split.assigned)
      /\ split.per \in Int /\ split.per > 0 /\ split.assigned \in [N -> Int]
  BY <1>1, <1>2, <1>3, SplitIsFair
<1>6. \A i \in N : /\ split.assigned[i] >= 0
                   /\ split.assigned[i] <= split.per * DirectionCap(unit[i], d)
  <2>1. DOMAIN cap = N /\ \A i \in N : cap[i] = DirectionCap(unit[i], d)
    BY <1>1
  <2>2. QED
    BY <1>5, <2>1 DEF IsFairSplit
<1>7. Total(split.assigned, N) <= split.per * target
  <2> DEFINE T == Total(cap, Eligible(cap, weight))
  <2>1. DOMAIN cap = N
    BY <1>1
  <2>2. Total(split.assigned, N) = split.per * Smaller(target, T)
    BY <1>5, <2>1 DEF IsFairSplit
  <2>3. T \in Int
    <3>1. IsFiniteSet(Eligible(cap, weight)) /\ \A i \in Eligible(cap, weight) : cap[i] \in Int
      BY <1>1, <1>2, EligibleUnits
    <3>2. QED
      BY <3>1, TotalIsInteger
  <2> HIDE DEF T
  <2>4. Smaller(target, T) \in Int /\ Smaller(target, T) <= target
    BY <2>3 DEF Smaller
  <2>5. split.per * Smaller(target, T) <= split.per * target
    BY <1>5, <2>4, TimesKeepsOrder
  <2>6. QED
    BY <2>2, <2>5
<1>8. IsFairResult(Allocate(target, d, unit, soc), split.per * target, split, d, unit)
  <2>1. commands = Setpoints(split, d, unit)
    OBVIOUS
  <2> HIDE DEF commands
  <2>2. IsFairResult(Result(split.per * target, commands, Delivered(commands)),
                     split.per * target, split, d, unit)
    BY <1>5, <1>6, <1>7, <2>1, ResultIsFair
  <2>3. QED
    BY <1>4, <2>2
<1>9. QED
  BY <1>5, <1>8 DEF IsFairAllocation, cap, weight, split

LEMMA AllRulesAreFair == FairRules = Rules
<1>1. ASSUME NEW limits \in Rules, NEW unit \in [CUs -> Units], NEW soc \in [CUs -> SOCs],
             NEW d \in Directions
      PROVE  IsFairAllocation(Power(limits, d), d, unit, soc)
  <2>1. IsFiniteSet(CUs) /\ DOMAIN unit = CUs /\ soc \in [CUs -> Int]
    BY AllocationAssumption
  <2>2. \A i \in CUs : UnitFine(unit[i])
    BY AllocationAssumption DEF UnitFine, Bound
  <2>3. Power(limits, d) \in Nat /\ Power(limits, d) > 0
    BY AllocationAssumption DEF Power
  <2>4. QED
    BY <2>1, <2>2, <2>3, AllocationFair
<1>2. QED
  BY <1>1 DEF FairRules

\* What a replica is about to allocate is split fairly, whatever the scope, the
\* envelopes and the states of charge (heuristic.go).
THEOREM AllocationsAreFair == Spec => []AllocationIsFair
<1>1. IInv => AllocationIsFair
  <2>1. SUFFICES ASSUME IInv, NEW c \in Replicas, step[c] = "evaluate"
        PROVE cycle[c].limits \in FairRules
    BY DEF AllocationIsFair
  <2>2. cycle[c].limits \in Rules
    BY <2>1 DEF IInv, RowsTogether
  <2>3. QED
    BY <2>2, AllRulesAreFair
<1>2. QED
  BY <1>1, Invariance, PTL
=============================================================================
