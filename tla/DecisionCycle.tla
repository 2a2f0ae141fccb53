--------------------------- MODULE DecisionCycle ---------------------------
(* The decision cycle of vpp-decision for one SOC policy: every replica of  *)
(* the service wakes up on its ticker, reads the policy, resolves its scope *)
(* through its own cache, collects the states of charge, and when one       *)
(* threshold is crossed plans the power and saves the plan.  Saving claims  *)
(* the cooldown of the policy's direction in the same transaction; replicas *)
(* compete for it.  Meanwhile the policy is edited and the catalog changes. *)
EXTENDS Naturals, Sequences, Allocation

CONSTANTS Replicas,
          CUs,        \* the units of the scope
          Units,      \* the specs and envelopes a unit may have
          Catalogs,   \* Resource: the scope at each revision
          SOCs,       \* states of charge
          Rules,      \* what the spec row of the policy may say
          Cooldowns,  \* of the policy row
          TTL, MaxAge,
          MaxNow, MaxVersion   \* bounds

Revisions == 1..Len(Catalogs)

ASSUME CycleAssumption ==
    /\ Catalogs \in Seq([unit : [CUs -> Units], ok : BOOLEAN])
    /\ Len(Catalogs) > 0
    /\ Cooldowns \subseteq Nat \ {0}
    /\ TTL \in Nat \ {0} /\ MaxAge \in Nat /\ TTL <= MaxAge
    /\ MaxNow \in Nat /\ MaxVersion \in Nat \ {0}

\* An envelope has at most one bound on either side, and the powers of a policy
\* are positive (positivePower).
ASSUME AllocationAssumption ==
    /\ IsFiniteSet(CUs) /\ SOCs \subseteq Int
    /\ \A u \in Units :
         /\ u.energy \in Int /\ u.maxCharge \in Int /\ u.maxDischarge \in Int
         /\ u.lo \subseteq Int /\ \A x, y \in u.lo : x = y
         /\ u.hi \subseteq Int /\ \A x, y \in u.hi : x = y
    /\ \A limits \in Rules : limits.charge \in Nat \ {0} /\ limits.discharge \in Nat \ {0}

VARIABLES
    now,
    policy,    \* the row of decision_policies
    rule,      \* its row of soc_threshold_specs
    cooldown,  \* the cooldown row of each direction; version 0: no row
    catalog,   \* Resource: the current revision
    step,      \* each replica: where its cycle is
    cycle,     \* each replica: what its cycle has read and decided
    cache,     \* each replica: its last good scope; revision 0: none
    plans,     \* saved ready plans and their windows
    replaced   \* history: when a catalog revision was replaced

policies == <<policy, rule>>
resource == <<catalog, replaced>>
vars == <<now, policies, cooldown, resource, step, cycle, cache, plans>>

Never == MaxNow + 1
NoCooldown == [version |-> 0, until |-> 0]
NoScope == [revision |-> 0, storedAt |-> 0]
NoLimits == [min |-> 0, max |-> 0, charge |-> 0, discharge |-> 0]
NoCycle == [at |-> 0, version |-> 0, cooldown |-> 0, rule |-> 0, limits |-> NoLimits,
            asked |-> 0, revision |-> 0, direction |-> "none", status |-> "none",
            attempt |-> 0, seen |-> NoCooldown]

Init ==
    /\ now = 0
    /\ \E d \in Cooldowns : policy = [version |-> 1, status |-> "disabled", cooldown |-> d]
    /\ \E limits \in Rules : rule = [version |-> 1, limits |-> limits]
    /\ cooldown = [d \in Directions |-> NoCooldown]
    /\ catalog = 1
    /\ step = [c \in Replicas |-> "idle"]
    /\ cycle = [c \in Replicas |-> NoCycle]
    /\ cache = [c \in Replicas |-> NoScope]
    /\ plans = {}
    /\ replaced = [r \in Revisions |-> Never]
-----------------------------------------------------------------------------
(* The policy commands.  Each loads the policy, compares the version of its *)
(* request and writes both rows WHERE the version is still that one: the    *)
(* load and the write act as one step.  The precheck of Resource that       *)
(* enabling asks for may have seen any earlier revision.                    *)

Write(status, duration, limits) ==
    /\ policy.status # "deleted" /\ policy.version < MaxVersion
    /\ policy' = [version |-> policy.version + 1, status |-> status, cooldown |-> duration]
    /\ rule' = [version |-> policy.version + 1, limits |-> limits]
    /\ UNCHANGED <<now, cooldown, resource, step, cycle, cache, plans>>

UpdatePolicy ==
    \E duration \in Cooldowns, limits \in Rules : Write(policy.status, duration, limits)

EnablePolicy ==
    policy.status = "disabled" /\ Write("enabled", policy.cooldown, rule.limits)

DisablePolicy ==
    policy.status = "enabled" /\ Write("disabled", policy.cooldown, rule.limits)

\* SoftDelete asks for no version and leaves it.
DeletePolicy ==
    /\ policy.status # "deleted"
    /\ policy' = [policy EXCEPT !.status = "deleted"]
    /\ UNCHANGED <<now, rule, cooldown, resource, step, cycle, cache, plans>>
-----------------------------------------------------------------------------
(* Reading and deciding *)

Goto(c, s) == step' = [step EXCEPT ![c] = s]

\* The cycle of this policy ends: planned, skipped or failed.
End(c) ==
    /\ step' = [step EXCEPT ![c] = "idle"]
    /\ cycle' = [cycle EXCEPT ![c] = NoCycle]

\* tick and the first query of ListEnabled.
ListEnabled(c) ==
    /\ step[c] = "idle" /\ policy.status = "enabled"
    /\ Goto(c, "listed")
    /\ cycle' = [cycle EXCEPT ![c] =
          [NoCycle EXCEPT !.at = now, !.version = policy.version, !.cooldown = policy.cooldown]]
    /\ UNCHANGED <<now, policies, cooldown, resource, cache, plans>>

Cached(c, at, age) == cache[c].revision # 0 /\ at - cache[c].storedAt <= age

\* policiesFromRows: the spec rows come with a second query.  Then Resolve
\* looks into the cache.
ReadRule(c) ==
    /\ step[c] = "listed"
    /\ LET hit == Cached(c, now, TTL) IN
         /\ Goto(c, IF hit THEN "evaluate" ELSE "asking")
         /\ cycle' = [cycle EXCEPT ![c] = [@ EXCEPT
                        !.rule = rule.version, !.limits = rule.limits,
                        !.revision = IF hit THEN cache[c].revision ELSE 0,
                        !.asked = IF hit THEN 0 ELSE now]]
    /\ UNCHANGED <<now, policies, cooldown, resource, cache, plans>>

Resolved(c, revision) ==
    /\ Goto(c, "evaluate")
    /\ cycle' = [cycle EXCEPT ![c] = [@ EXCEPT !.revision = revision, !.asked = 0]]

\* Resource answers; a scope that fails its precheck is not cached.
Fresh(c) ==
    /\ step[c] = "asking"
    /\ IF Catalogs[catalog].ok
       THEN /\ cache' = [cache EXCEPT ![c] =
                           [revision |-> catalog, storedAt |-> cycle[c].asked]]
            /\ Resolved(c, catalog)
       ELSE cache' = [cache EXCEPT ![c] = NoScope] /\ End(c)
    /\ UNCHANGED <<now, policies, cooldown, resource, plans>>

\* Mutant of Fallback: any copy will do.
FallbackAnyAge(c) == cache[c].revision # 0

Fallback(c) == Cached(c, cycle[c].asked, MaxAge)

\* Resource fails: an old copy, or scope_unavailable.
Unavailable(c) ==
    /\ step[c] = "asking"
    /\ IF Fallback(c) THEN Resolved(c, cache[c].revision) ELSE End(c)
    /\ UNCHANGED <<now, policies, cooldown, resource, cache, plans>>

\* A missing, stale or bad sample of one unit, or a failing RPC: unusable_state.
Unusable(c) ==
    /\ step[c] = "evaluate"
    /\ End(c)
    /\ UNCHANGED <<now, policies, cooldown, resource, cache, plans>>

\* aggregateSOC: the average weighted by energy, compared without division.
Crossed(unit, soc, limits) ==
    LET energy == MapThenSumSet(LAMBDA u : unit[u].energy, CUs)
        charged == MapThenSumSet(LAMBDA u : unit[u].energy * soc[u], CUs)
    IN  IF charged <= limits.min * energy THEN "charge"
        ELSE IF charged >= limits.max * energy THEN "discharge" ELSE "none"

Power(limits, direction) == IF direction = "charge" THEN limits.charge ELSE limits.discharge

PlanStatus(limits, direction, unit, soc) ==
    IF Allocate(Power(limits, direction), direction, unit, soc).feasibility = "infeasible"
    THEN "rejected" ELSE "ready"

\* What Evaluate and Plan can make of samples that are all fresh and good.
Decision(limits, unit, soc) ==
    LET direction == Crossed(unit, soc, limits)
    IN  [direction |-> direction,
         status |-> IF direction = "none" THEN "none"
                    ELSE PlanStatus(limits, direction, unit, soc)]

Decisions ==
    [r \in Revisions |-> [limits \in Rules |->
       {Decision(limits, Catalogs[r].unit, soc) : soc \in [CUs -> SOCs]}]]

CoolingDown(direction, at) ==
    cooldown[direction].version # 0 /\ at < cooldown[direction].until

\* Evaluate and Plan.  Of what the plan was made from nothing is read again.
Evaluate(c) ==
    /\ step[c] = "evaluate"
    /\ \E d \in Decisions[cycle[c].revision][cycle[c].limits] :
         IF d.direction = "none" \/ CoolingDown(d.direction, cycle[c].at) THEN End(c)
         ELSE /\ Goto(c, "claim")
              /\ cycle' = [cycle EXCEPT ![c] =
                   [NoCycle EXCEPT !.at = cycle[c].at, !.cooldown = cycle[c].cooldown,
                      !.direction = d.direction, !.status = d.status]]
    /\ UNCHANGED <<now, policies, cooldown, resource, cache, plans>>
-----------------------------------------------------------------------------
(* Save: one transaction, at the isolation level read committed.            *)

Row(c) == cooldown[cycle[c].direction]
Until(c) == cycle[c].at + cycle[c].cooldown

\* A rejected plan is saved without a claim or an outbox row; nothing reads it.
SaveRejected(c) ==
    /\ step[c] = "claim" /\ cycle[c].status = "rejected"
    /\ End(c)
    /\ UNCHANGED <<now, policies, cooldown, resource, cache, plans>>

Held(row, at) == at < row.until

\* The read of writeCooldown; ErrCooldownHeld rolls everything back, and the
\* third attempt in vain is an error.
Take(c) ==
    /\ step[c] = "claim" /\ cycle[c].status = "ready"
    /\ IF cycle[c].attempt = 3 THEN End(c)
       ELSE IF Row(c).version # 0 /\ Held(Row(c), cycle[c].at) THEN End(c)
       ELSE Goto(c, "write") /\ cycle' = [cycle EXCEPT ![c].seen = Row(c)]
    /\ UNCHANGED <<now, policies, cooldown, resource, cache, plans>>

\* The row of a direction is locked by the transaction that wrote it.
Locked(direction) ==
    \E c \in Replicas : step[c] = "commit" /\ cycle[c].direction = direction

\* Mutant of Unchanged: the update does not ask for the version.
UnchangedAnyVersion(row, seen) == (row.version = 0) = (seen.version = 0)

Unchanged(row, seen) == row.version = seen.version

\* INSERT, which a row inserted meanwhile makes fail, or UPDATE WHERE version.
ClaimRow(c) ==
    /\ step[c] = "write" /\ ~Locked(cycle[c].direction)
    /\ IF Unchanged(Row(c), cycle[c].seen)
       THEN Goto(c, "commit") /\ UNCHANGED cycle
       ELSE Goto(c, "claim") /\ cycle' = [cycle EXCEPT ![c].attempt = @ + 1]
    /\ UNCHANGED <<now, policies, cooldown, resource, cache, plans>>

Commit(c) ==
    /\ step[c] = "commit"
    /\ cooldown' = [cooldown EXCEPT ![cycle[c].direction] =
                      [version |-> cycle[c].seen.version + 1, until |-> Until(c)]]
    /\ plans' = plans \cup {[at |-> cycle[c].at, until |-> Until(c),
                             direction |-> cycle[c].direction]}
    /\ End(c)
    /\ UNCHANGED <<now, policies, resource, cache>>

\* A query fails or the request's context ends: the transaction is rolled back.
Fail(c) ==
    /\ step[c] # "idle"
    /\ End(c)
    /\ UNCHANGED <<now, policies, cooldown, resource, cache, plans>>

\* The replica is restarted: its cache is gone too.
Crash(c) ==
    /\ End(c)
    /\ cache' = [cache EXCEPT ![c] = NoScope]
    /\ UNCHANGED <<now, policies, cooldown, resource, plans>>
-----------------------------------------------------------------------------
ChangeCatalog ==
    /\ catalog < Len(Catalogs)
    /\ catalog' = catalog + 1
    /\ replaced' = [replaced EXCEPT ![catalog] = now]
    /\ UNCHANGED <<now, policies, cooldown, step, cycle, cache, plans>>

Tick ==
    /\ now < MaxNow
    /\ now' = now + 1
    /\ UNCHANGED <<policies, cooldown, resource, step, cycle, cache, plans>>

Edit == UpdatePolicy \/ EnablePolicy \/ DisablePolicy \/ DeletePolicy

Decide(c) == \/ ListEnabled(c) \/ ReadRule(c) \/ Fresh(c) \/ Unavailable(c)
             \/ Unusable(c) \/ Evaluate(c)

Save(c) == SaveRejected(c) \/ Take(c) \/ ClaimRow(c) \/ Commit(c)

Next == \/ Edit \/ ChangeCatalog \/ Tick
        \/ \E c \in Replicas : Decide(c) \/ Save(c) \/ Fail(c) \/ Crash(c)

Spec == Init /\ [][Next]_vars
-----------------------------------------------------------------------------
\* At most one replica wins a direction whose window has not expired
\* (cooldown_store.go): the windows of a direction's plans do not overlap, and
\* the row of the direction covers the last of them.
OnePlanPerWindow ==
    /\ \A p, q \in plans : p.direction = q.direction /\ p # q =>
          p.until <= q.at \/ q.until <= p.at
    /\ \A p \in plans : p.until <= cooldown[p.direction].until

\* However long a cycle takes: it plans with the limits of the policy version
\* that the plan names or of a later one, and with a catalog revision that was
\* not replaced more than MaxAge before the cycle began.
PlansAreCurrent ==
    \A c \in Replicas : step[c] = "evaluate" =>
      /\ cycle[c].version <= cycle[c].rule
      /\ replaced[cycle[c].revision] + MaxAge >= cycle[c].at

\* The rules whose allocations are all fair, whatever the units and samples.
FairRules ==
    {limits \in Rules : \A unit \in [CUs -> Units], soc \in [CUs -> SOCs], d \in Directions :
                          IsFairAllocation(Power(limits, d), d, unit, soc)}

\* What a replica is about to allocate is split fairly (heuristic.go): the
\* rounds end with equal power per energy for the units below their limits,
\* all of the power is given out that the limits allow, and the envelopes
\* only ever take whole setpoints away, which the feasibility reports.
AllocationIsFair == \A c \in Replicas : step[c] = "evaluate" => cycle[c].limits \in FairRules
-----------------------------------------------------------------------------
(* The strengthening that makes the first two inductive.                    *)

Claims == [version : Nat, until : Nat]
Scopes == [revision : {0} \cup Revisions, storedAt : Nat]
Cycles == [at : Nat, version : Nat, cooldown : Nat, rule : Nat, limits : {NoLimits} \cup Rules,
           asked : Nat, revision : {0} \cup Revisions, direction : {"none"} \cup Directions,
           status : {"none", "ready", "rejected"}, attempt : Nat, seen : Claims]

TypeOK ==
    /\ now \in 0..MaxNow
    /\ policy \in [version : Nat, status : {"enabled", "disabled", "deleted"}, cooldown : Cooldowns]
    /\ rule \in [version : Nat, limits : Rules]
    /\ cooldown \in [Directions -> Claims]
    /\ catalog \in Revisions
    /\ step \in [Replicas -> {"idle", "listed", "asking", "evaluate", "claim", "write", "commit"}]
    /\ cycle \in [Replicas -> Cycles]
    /\ cache \in [Replicas -> Scopes]
    /\ plans \subseteq [at : Nat, until : Nat, direction : Directions]
    /\ replaced \in [Revisions -> Nat]

\* The two rows of the policy are written together, and a cycle that has read
\* only one of them has not read it in the future.
RowsTogether ==
    /\ policy.version = rule.version
    /\ \A c \in Replicas : step[c] = "listed" => cycle[c].version <= policy.version
    /\ \A c \in Replicas : step[c] = "asking" => cycle[c].version <= cycle[c].rule
    /\ \A c \in Replicas : step[c] \in {"asking", "evaluate"} => cycle[c].limits \in Rules

TimesPass ==
    \A c \in Replicas :
      /\ step[c] # "idle" => cycle[c].at <= now
      /\ step[c] = "asking" => cycle[c].at <= cycle[c].asked /\ cycle[c].asked <= now

\* A copy was stored with a time at which its revision was the current one,
\* and not in the future.
CopiesWereCurrent ==
    /\ \A r \in Revisions : r >= catalog => replaced[r] = Never
    /\ \A c \in Replicas :
         cache[c].revision # 0 => /\ cache[c].storedAt <= now
                                  /\ cache[c].storedAt <= replaced[cache[c].revision]
    /\ \A c \in Replicas : step[c] = "evaluate" => cycle[c].revision # 0

\* A claim in progress starts behind a window that is over, and the row that
\* it has seen is there or was replaced.
ClaimsFollow ==
    \A c \in Replicas :
      /\ step[c] # "idle" => cycle[c].cooldown > 0
      /\ step[c] \in {"claim", "write", "commit"} => cycle[c].direction \in Directions
      /\ step[c] \in {"write", "commit"} =>
           /\ cycle[c].seen.version = 0 \/ cycle[c].seen.until <= cycle[c].at
           /\ cycle[c].seen.version <= Row(c).version
           /\ cycle[c].seen.version = Row(c).version => cycle[c].seen = Row(c)
      /\ step[c] = "commit" =>
           /\ cycle[c].seen = Row(c)
           /\ \A b \in Replicas \ {c} :
                step[b] = "commit" => cycle[b].direction # cycle[c].direction

\* A direction without a row has no plan.
PlansAreClaimed ==
    \A p \in plans : p.at < p.until /\ cooldown[p.direction].version > 0

IInv == /\ TypeOK /\ OnePlanPerWindow /\ PlansAreCurrent /\ RowsTogether /\ TimesPass
        /\ CopiesWereCurrent /\ ClaimsFollow /\ PlansAreClaimed
=============================================================================
