----------------------------- MODULE Allocation -----------------------------
(* HeuristicAllocator of vpp-decision: the power of one objective is split  *)
(* over the units of a scope in proportion to the energy each can still     *)
(* give or take, in rounds that fill the units whose limit is below their   *)
(* share.  The code computes with float64 and a tolerance of 1e-6; here a   *)
(* share is an exact fraction, whose denominator is part of the result.     *)
(*                                                                          *)
(* A unit is a record: energy in kWh, its power limits, and the bounds of   *)
(* the binding's safety envelope, each a set of at most one setpoint.       *)
EXTENDS Integers, FiniteSets, FiniteSetsExt

Directions == {"charge", "discharge"}

Larger(a, b) == IF a > b THEN a ELSE b
Smaller(a, b) == IF a < b THEN a ELSE b

\* The limit of a unit in a direction: its power limit within the envelope.
DischargeCap(u) ==
    LET cap == Min({u.maxDischarge} \cup u.hi)
    IN  IF \E lo \in u.lo : cap < lo THEN 0 ELSE Larger(0, cap)

ChargeCap(u) ==
    LET cap == Min({u.maxCharge} \cup {0 - lo : lo \in u.lo})
        empty == \E lo \in u.lo, hi \in u.hi : hi <= 0 /\ lo > hi
    IN  IF (\E lo \in u.lo : lo >= 0) \/ empty THEN 0 ELSE Larger(0, cap)

DirectionCap(u, direction) ==
    IF direction = "discharge" THEN DischargeCap(u) ELSE ChargeCap(u)

\* In percent of a kWh, as a state of charge is a percentage.
Headroom(u, soc, direction) ==
    LET charged == Larger(0, Smaller(100, soc))
    IN  u.energy * IF direction = "discharge" THEN charged ELSE 100 - charged

Total(f, S) == MapThenSumSet(LAMBDA i : f[i], S)

Eligible(cap, weight) == {i \in DOMAIN cap : cap[i] > 0 /\ weight[i] > 0}

\* The active units whose share of the remaining power exceeds their limit.
Saturated(active, remaining, cap, weight) ==
    {i \in active : remaining * weight[i] > cap[i] * Total(weight, active)}

\* Mutant of Round: what the full units take is not subtracted.
RoundForgets(r, cap, weight) ==
    [r EXCEPT !.active = @ \ Saturated(@, r.remaining, cap, weight)]

\* The loop of distribute: every round fills the saturated units and leaves
\* the rest of the power to the others.  A round without one changes nothing.
Round(r, cap, weight) ==
    LET full == Saturated(r.active, r.remaining, cap, weight)
    IN  [active |-> r.active \ full, remaining |-> r.remaining - Total(cap, full)]

LastRound(target, cap, weight) ==
    LET start == [active |-> Eligible(cap, weight), remaining |-> target]
        round[n \in 0..Cardinality(DOMAIN cap)] ==
            IF n = 0 THEN start ELSE Round(round[n - 1], cap, weight)
    IN  round[Cardinality(DOMAIN cap)]

\* What each unit is assigned, times "per": a full unit its limit, an active
\* one its share of what remains.
Shares(last, per, cap, weight) ==
    [per |-> per,
     assigned |-> [i \in DOMAIN cap |->
        IF i \in last.active THEN last.remaining * weight[i]
        ELSE IF i \in Eligible(cap, weight) THEN per * cap[i] ELSE 0]]

Denominator(active, weight) == IF active = {} THEN 1 ELSE Total(weight, active)

Distribute(target, cap, weight) ==
    LET last == LastRound(target, cap, weight)
    IN  Shares(last, Denominator(last.active, weight), cap, weight)

Caps(unit, direction) == [i \in DOMAIN unit |-> DirectionCap(unit[i], direction)]

Weights(unit, soc, direction) == [i \in DOMAIN unit |-> Headroom(unit[i], soc[i], direction)]

Signed(share, direction) == IF direction = "discharge" THEN share ELSE 0 - share

\* The setpoint is moved into the envelope, and dropped when that would turn
\* its sign or enlarge it.
Clamped(signed, per, u) ==
    LET low == Max({signed} \cup {per * lo : lo \in u.lo})
    IN  Min({low} \cup {per * hi : hi \in u.hi})

Kept(signed, value) ==
    IF signed > 0 THEN 0 < value /\ value <= signed ELSE signed <= value /\ value < 0

Setpoints(split, direction, unit) ==
    LET signed(i) == Signed(split.assigned[i], direction)
        value(i) == Clamped(signed(i), split.per, unit[i])
    IN  [i \in {j \in DOMAIN unit : signed(j) # 0 /\ Kept(signed(j), value(j))} |-> value(i)]

Delivered(commands) ==
    Total([i \in DOMAIN commands |-> Larger(commands[i], 0 - commands[i])], DOMAIN commands)

Result(wanted, commands, delivered) ==
    [commands |-> commands,
     unmet |-> wanted - delivered,
     feasibility |-> IF delivered = 0 THEN "infeasible"
                     ELSE IF delivered < wanted THEN "partially_feasible" ELSE "feasible"]

Split(target, direction, unit, soc) ==
    Distribute(target, Caps(unit, direction), Weights(unit, soc, direction))

Allocate(target, direction, unit, soc) ==
    LET split == Split(target, direction, unit, soc)
        commands == Setpoints(split, direction, unit)
    IN  Result(split.per * target, commands, Delivered(commands))
-----------------------------------------------------------------------------
(* The reference: what a fair split is, said without rounds.                *)

\* Units below their limit get the same power per energy, and none at its
\* limit gets more than that; the target is met if the limits allow it.
IsFairSplit(target, cap, weight, per, assigned) ==
    LET E == Eligible(cap, weight)
    IN  /\ \A i \in DOMAIN cap : assigned[i] >= 0 /\ assigned[i] <= per * cap[i]
        /\ \A i \in DOMAIN cap \ E : assigned[i] = 0
        /\ \A i, j \in E : assigned[i] < per * cap[i] =>
              assigned[j] * weight[i] <= assigned[i] * weight[j]
        /\ Total(assigned, DOMAIN cap) = per * Smaller(target, Total(cap, E))

\* The setpoints of a result are the shares of a fair split, except those
\* the envelope does not allow, and the feasibility says what they add up to.
IsFairResult(result, wanted, split, direction, unit) ==
    LET allowed(i, v) == /\ \A lo \in unit[i].lo : split.per * lo <= v
                         /\ \A hi \in unit[i].hi : v <= split.per * hi
        share(i) == Signed(split.assigned[i], direction)
        commanded == DOMAIN result.commands
    IN  /\ commanded = {i \in DOMAIN unit : split.assigned[i] > 0 /\ allowed(i, share(i))}
        /\ \A i \in commanded : result.commands[i] = share(i)
        /\ result.unmet = wanted - Total(split.assigned, commanded)
        /\ result.unmet >= 0
        /\ result.feasibility = "feasible" <=> result.unmet = 0
        /\ result.feasibility = "infeasible" <=> commanded = {}

IsFairAllocation(target, direction, unit, soc) ==
    LET split == Split(target, direction, unit, soc)
    IN  /\ IsFairSplit(target, Caps(unit, direction), Weights(unit, soc, direction),
                       split.per, split.assigned)
        /\ IsFairResult(Allocate(target, direction, unit, soc), split.per * target,
                        split, direction, unit)
=============================================================================
