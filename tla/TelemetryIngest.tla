-------------------------- MODULE TelemetryIngest --------------------------
(* Ingest of vpp-telemetry for one control unit.  A request stores its      *)
(* record in TimescaleDB, reads the snapshot of the unit from Redis,        *)
(* applies the record, writes the snapshot back and publishes what changed. *)
(* Requests run concurrently, and nothing guards the snapshot between its   *)
(* read and its write.  The topic has one partition per unit.               *)
EXTENDS Naturals, SequencesExt

CONSTANTS Handlers,
          Metrics, DiscreteMetrics,
          Values,
          Records,     \* what requests carry: [at : Nat, metrics : Seq(Samples)]
          StaleAge,
          MaxRequests  \* bound

Samples == [metric : Metrics, value : Values, quality : {"GOOD", "BAD", "UNCERTAIN"}]

Parameters ==
    /\ DiscreteMetrics \subseteq Metrics
    /\ StaleAge \in Nat /\ MaxRequests \in Nat
    /\ \A r \in Records : r.at \in Nat /\ r.metrics \in Seq(Samples) /\ r.metrics # <<>>

ASSUME TelemetryAssumption == Parameters

VARIABLES
    stored,     \* telemetry_records: which samples it has
    snapshot,   \* Redis: the latest state of each metric
    step,       \* each handler: what it does next
    work,       \* each handler: its record, the snapshot it found, its events
    requests,   \* how many requests there were
    last,       \* the last event of each metric in the topic
    disturbed   \* history: metrics whose events no longer tell their state

telemetryVars == <<stored, snapshot, step, work, requests, last, disturbed>>

NoState == [at |-> 0, value |-> 0, quality |-> "none"]
EmptySnapshot == [m \in Metrics |-> NoState]
NoWork == [record |-> [at |-> 0, metrics |-> <<>>], found |-> EmptySnapshot, events |-> <<>>]
NoEvent == [metric |-> "none", kind |-> "none", quality |-> "none", value |-> 0, at |-> 0]

TelemetryInit ==
    /\ stored = {}
    /\ snapshot = EmptySnapshot
    /\ step = [h \in Handlers |-> "idle"]
    /\ work = [h \in Handlers |-> NoWork]
    /\ requests = 0
    /\ last = [m \in Metrics |-> NoEvent]
    /\ disturbed = {}
-----------------------------------------------------------------------------
(* Snapshot.Apply *)

Exists(prev) == prev.quality # "none"

\* A StaleAge of 0 turns the detection off.
WentStale(prev, at) == Exists(prev) /\ StaleAge > 0 /\ at > prev.at + StaleAge

Event(s, kind, quality, value, at) ==
    [metric |-> s.metric, kind |-> kind, quality |-> quality, value |-> value, at |-> at]

\* Of the state before: it had not been renewed in time.
StaleEvents(s, prev, at) ==
    IF WentStale(prev, at)
    THEN <<Event(s, "stale", prev.quality, prev.value, prev.at)>> ELSE <<>>

FaultKind(quality) == IF quality = "BAD" THEN "quality_bad" ELSE "quality_uncertain"

FaultEvents(s, prev, at) ==
    IF s.quality # "GOOD" /\ prev.quality # s.quality
    THEN <<Event(s, FaultKind(s.quality), s.quality, s.value, at)>> ELSE <<>>

\* Mutant of Recovered: after a gap a metric is as good as it was before.
RecoveredFault(prev, at) == prev.quality \in {"BAD", "UNCERTAIN"}

Recovered(prev, at) == prev.quality \in {"BAD", "UNCERTAIN"} \/ WentStale(prev, at)

RecoveryEvents(s, prev, at) ==
    IF s.quality = "GOOD" /\ Recovered(prev, at)
    THEN <<Event(s, "recovery", "GOOD", s.value, at)>> ELSE <<>>

ChangeEvents(s, prev, at) ==
    IF /\ s.metric \in DiscreteMetrics /\ s.quality = "GOOD" /\ prev.quality = "GOOD"
       /\ prev.value # s.value /\ ~WentStale(prev, at)
    THEN <<Event(s, "discrete_change", "GOOD", s.value, at)>> ELSE <<>>

Transition(s, prev, at) ==
    StaleEvents(s, prev, at) \o FaultEvents(s, prev, at)
    \o RecoveryEvents(s, prev, at) \o ChangeEvents(s, prev, at)

\* Every sample replaces the state of its metric, also an older or a bad one.
Absorb(result, s, at) ==
    [state |-> [result.state EXCEPT ![s.metric] =
                  [at |-> at, value |-> s.value, quality |-> s.quality]],
     events |-> result.events \o Transition(s, result.state[s.metric], at)]

Apply(found, record) ==
    FoldLeft(LAMBDA result, s : Absorb(result, s, record.at),
             [state |-> found, events |-> <<>>], record.metrics)
-----------------------------------------------------------------------------
(* The handler *)

Goto(h, s) == step' = [step EXCEPT ![h] = s]
Reported(record) == {record.metrics[i].metric : i \in DOMAIN record.metrics}
Pending(h) == {work[h].events[i].metric : i \in DOMAIN work[h].events}
PendingElsewhere(h) == UNION {Pending(g) : g \in Handlers \ {h}}

Return(h) ==
    /\ Goto(h, "idle")
    /\ work' = [work EXCEPT ![h] = NoWork]

Receive(h) ==
    /\ step[h] = "idle" /\ requests < MaxRequests
    /\ requests' = requests + 1
    /\ \E r \in Records : work' = [work EXCEPT ![h] = [NoWork EXCEPT !.record = r]]
    /\ Goto(h, "store")
    /\ UNCHANGED <<stored, snapshot, last, disturbed>>

\* recordsToInsertRows: only good samples are stored.
InsertRows(record) ==
    {[metric |-> s.metric, at |-> record.at] :
       s \in {t \in ToSet(record.metrics) : t.quality = "GOOD"}}

\* SaveBatch inserts all rows or none; one that is there is kept.
Store(h) ==
    /\ step[h] = "store"
    /\ stored' = stored \cup InsertRows(work[h].record)
    /\ Goto(h, "find")
    /\ UNCHANGED <<snapshot, work, requests, last, disturbed>>

\* Mutant of AfterStoreFailure: the request goes on without its rows.
AfterStoreFailureFind(h) == Goto(h, "find") /\ UNCHANGED work

AfterStoreFailure(h) == Return(h)

\* The caller gets an error, whether the rows were written or not.
StoreFails(h) ==
    /\ step[h] = "store" /\ InsertRows(work[h].record) # {}
    /\ stored' \in {stored, stored \cup InsertRows(work[h].record)}
    /\ AfterStoreFailure(h)
    /\ UNCHANGED <<snapshot, requests, last, disturbed>>

\* Find and Apply.  A read that fails counts as a snapshot that is not there.
Find(h) ==
    /\ step[h] = "find"
    /\ \E found \in {snapshot, EmptySnapshot} :
          work' = [work EXCEPT ![h].found = found,
                               ![h].events = Apply(found, work[h].record).events]
    /\ Goto(h, "save")
    /\ UNCHANGED <<stored, snapshot, requests, last, disturbed>>

AfterSave(h) == IF work[h].events = <<>> THEN Return(h) ELSE Goto(h, "publish") /\ UNCHANGED work

\* What others have written since the read is lost, and their events that
\* are still to come may follow those of this handler.
Save(h) ==
    /\ step[h] = "save"
    /\ snapshot' = Apply(work[h].found, work[h].record).state
    /\ disturbed' = disturbed \cup {m \in Metrics : work[h].found[m] # snapshot[m]}
                              \cup (Reported(work[h].record) \cap PendingElsewhere(h))
    /\ AfterSave(h)
    /\ UNCHANGED <<stored, requests, last>>

\* Only logged; the events are published all the same.
SaveFails(h) ==
    /\ step[h] = "save"
    /\ disturbed' = disturbed \cup Reported(work[h].record)
    /\ AfterSave(h)
    /\ UNCHANGED <<stored, snapshot, requests, last>>

AfterPublish(h) ==
    IF Len(work[h].events) = 1 THEN Return(h)
    ELSE work' = [work EXCEPT ![h].events = Tail(@)] /\ UNCHANGED step

\* The last event of a metric that nobody disturbed again sets it right.
SetsRight(h, m) ==
    /\ \A i \in 2..Len(work[h].events) : work[h].events[i].metric # m
    /\ snapshot[m] = Apply(work[h].found, work[h].record).state[m]
    /\ m \notin PendingElsewhere(h)

Publish(h) ==
    LET e == Head(work[h].events) IN
    /\ step[h] = "publish"
    /\ last' = [last EXCEPT ![e.metric] = e]
    /\ disturbed' = IF SetsRight(h, e.metric) THEN disturbed \ {e.metric} ELSE disturbed
    /\ AfterPublish(h)
    /\ UNCHANGED <<stored, snapshot, requests>>

\* The writer of the topic is asynchronous; nobody hears of its failures.
PublishFails(h) ==
    /\ step[h] = "publish"
    /\ disturbed' = disturbed \cup {Head(work[h].events).metric}
    /\ AfterPublish(h)
    /\ UNCHANGED <<stored, snapshot, requests, last>>

ServerCrash ==
    /\ step' = [h \in Handlers |-> "idle"]
    /\ work' = [h \in Handlers |-> NoWork]
    /\ disturbed' = disturbed \cup UNION {Pending(h) : h \in {g \in Handlers : step[g] = "publish"}}
    /\ UNCHANGED <<stored, snapshot, requests, last>>

\* The key of the snapshot has a time to live.
Expire ==
    /\ snapshot' = EmptySnapshot
    /\ disturbed' = disturbed \cup {m \in Metrics : Exists(snapshot[m])}
    /\ UNCHANGED <<stored, step, work, requests, last>>

Handle(h) == \/ Receive(h) \/ Store(h) \/ StoreFails(h) \/ Find(h) \/ Save(h) \/ SaveFails(h)
             \/ Publish(h) \/ PublishFails(h)

TelemetryNext == (\E h \in Handlers : Handle(h)) \/ ServerCrash \/ Expire

TelemetrySpec == TelemetryInit /\ [][TelemetryNext]_telemetryVars
-----------------------------------------------------------------------------
InFlight(m) == \E h \in Handlers : step[h] = "publish" /\ m \in Pending(h)

\* Snapshot.Apply and the events Handle publishes: who follows the topic knows the
\* health of a metric, and the value of a good discrete one, as the snapshot
\* has it: after any sequence of samples, and again with the next event after
\* a disturbance.
EventsTellTheState ==
    \A m \in Metrics \ disturbed :
      LET now == snapshot[m] IN
      \/ InFlight(m)
      \/ last[m] = NoEvent /\ now.quality \in {"none", "GOOD"}
      \/ /\ last[m].quality = now.quality
         /\ m \in DiscreteMetrics /\ now.quality = "GOOD" => last[m].value = now.value

\* ingestTelemetryHandler.Handle shows and tells nothing good before it is
\* stored: TimescaleDB is a gate.
ToldIsStored ==
    \A m \in Metrics :
      /\ snapshot[m].quality = "GOOD" => [metric |-> m, at |-> snapshot[m].at] \in stored
      /\ last[m].quality = "GOOD" => [metric |-> m, at |-> last[m].at] \in stored
-----------------------------------------------------------------------------
(* The strengthening that makes both inductive.                             *)

Qualities == {"GOOD", "BAD", "UNCERTAIN"}
Kinds == {"stale", "quality_bad", "quality_uncertain", "recovery", "discrete_change"}
States == {NoState} \cup [at : Nat, value : Values, quality : Qualities]
SOEEvents == [metric : Metrics, kind : Kinds, quality : Qualities, value : Values, at : Nat]
Works == [record : {NoWork.record} \cup Records, found : [Metrics -> States],
          events : Seq(SOEEvents)]

TelemetryTypeOK ==
    /\ stored \subseteq [metric : Metrics, at : Nat]
    /\ snapshot \in [Metrics -> States]
    /\ step \in [Handlers -> {"idle", "store", "find", "save", "publish"}]
    /\ work \in [Handlers -> Works]
    /\ requests \in 0..MaxRequests
    /\ last \in [Metrics -> {NoEvent} \cup SOEEvents]
    /\ disturbed \subseteq Metrics

\* A state or an event x of metric m says nothing good that is not in rows.
Backed(x, m, rows) == x.quality = "GOOD" => [metric |-> m, at |-> x.at] \in rows

\* What a handler has read and has to tell was stored, and its own record was
\* before it reads.
WorkIsStored ==
    \A h \in Handlers :
      /\ step[h] \in {"find", "save", "publish"} => InsertRows(work[h].record) \subseteq stored
      /\ \A m \in Metrics : Backed(work[h].found[m], m, stored)
      /\ \A i \in DOMAIN work[h].events :
            Backed(work[h].events[i], work[h].events[i].metric, stored)

\* An event or a state x of metric m tells the state y.
Tells(x, m, y) == /\ x.quality = y.quality
                  /\ m \in DiscreteMetrics /\ y.quality = "GOOD" => x.value = y.value

\* The last event of each metric tells its state.
LastTells(events, state) ==
    \A i \in DOMAIN events :
      (\A j \in DOMAIN events : j > i => events[j].metric # events[i].metric) =>
        Tells(events[i], events[i].metric, state[events[i].metric])

Applied(h) == Apply(work[h].found, work[h].record)

\* The events of a handler are those of its record, until it begins to publish.
EventsOfRecord ==
    \A h \in Handlers :
      /\ step[h] \in {"idle", "store", "find"} => work[h].events = <<>>
      /\ step[h] # "idle" => work[h].record \in Records
      /\ step[h] = "save" => work[h].events = Applied(h).events
      /\ step[h] \in {"save", "publish"} => LastTells(work[h].events, Applied(h).state)
      /\ step[h] = "publish" => work[h].events # <<>>
      /\ Pending(h) \subseteq Reported(work[h].record)

\* While a metric is undisturbed, whoever still has an event of it to publish
\* has written its state.
PublishersWroteLast ==
    \A h \in Handlers, m \in Metrics \ disturbed :
      step[h] = "publish" /\ m \in Pending(h) => snapshot[m] = Applied(h).state[m]

TelemetryIInv ==
    /\ TelemetryTypeOK /\ ToldIsStored /\ EventsTellTheState /\ WorkIsStored
    /\ EventsOfRecord /\ PublishersWroteLast
=============================================================================
