------------------------- MODULE Monitoring_proofs -------------------------
(* Proofs about vpp-alarm and vpp-telemetry.                                *)
(* vpp-alarm first, for any events, logs, clients, crashes and              *)
(* messages given up.  Rows only ever grow: a row that exists is left as it *)
(* is or gets the next version (Grown).  What a request saw of a row is     *)
(* therefore either still so, or its version is behind.                     *)
(* Then TelemetryIngest, the source of the events that vpp-alarm consumes.  *)
EXTENDS AlarmCenter, TelemetryIngest, FiniteSetTheorems, SequenceTheorems,
        WellFoundedInduction, TLAPS

RowOK(row) ==
    /\ row.status = "open" => row.ackBy = NoAlarm
    /\ row.status = "acknowledged" => row.ackBy # NoAlarm
    /\ row.status \in {"open", "acknowledged"} => row.closedBy = NoAlarm

TablesInv ==
    /\ CountedOnce
    /\ OneOpenPerFingerprint
    /\ AttributesAreNewest
    /\ \A a \in Events : alarms[a].status # "none" => a \in dedup
    /\ \A a \in Events : RowOK(alarms[a])

\* What a request knows of its alarm.
Knows(r, row) ==
    /\ row.status # "none"
    /\ r.version <= row.version
    /\ r.version = row.version => r.seen = row.count
    /\ r.step = "explain" => ~Matches(row, r)

RequestInv ==
    \A c \in Clients : request[c].step # "idle" =>
      Knows(request[c], alarms[request[c].alarm])

\* What one answer says of the row.
Answered(r, row, c) ==
    /\ r.answer \notin {"none", "invalid_transition"}
    /\ r.answer = "ok" => (IF r.op = "ack" THEN row.ackBy ELSE row.closedBy) = c
    /\ r.answer = "already_acknowledged" => row.ackBy # NoAlarm
    /\ r.answer = "already_closed" => row.status = "closed"
    /\ r.answer = "conflict" => row.version > r.version

\* Everything a reader has left behind is dealt with.
ReadersInv ==
    \A s \in Sources : \A i \in 1..fetched[s] :
      \/ log[s][i] \in Skipped \cup dedup \cup givenUp
      \/ i = fetched[s] /\ at[s] = "handle"

IInv == TypeOK /\ TablesInv /\ RequestInv /\ AnswersAreTrue /\ ReadersInv /\ NothingPassed

\* The next version of a row that exists.
Grown(old, new) ==
    /\ new.version = old.version + 1
    /\ old.status \in {"open", "acknowledged"}
    /\ new.status \in {"open", "acknowledged", "closed"}
    /\ new.status = "open" => old.status = "open"
    /\ old.ackBy # NoAlarm => new.ackBy = old.ackBy
    /\ old.closedBy # NoAlarm => new.closedBy = old.closedBy

RowsGrow ==
    \A a \in Events : alarms[a].status # "none" =>
      alarms'[a] = alarms[a] \/ Grown(alarms[a], alarms'[a])

TableTypes ==
    /\ dedup \subseteq Events
    /\ alarms \in [Events -> Rows]
    /\ countedIn \in [Events -> Events \cup {NoAlarm}]
-----------------------------------------------------------------------------
(* What the operators on rows return *)

LEMMA NoRowType == NoRow \in Rows
BY EventsAssumption DEF NoRow, Rows

LEMMA OpenedFields ==
    ASSUME NEW e \in Events
    PROVE  /\ Opened(e) \in Rows
           /\ Opened(e).status = "open" /\ Opened(e).count = 1
           /\ Opened(e).last = OccurredAt[e] /\ Opened(e).attributes = e
           /\ Opened(e).ackBy = NoAlarm /\ Opened(e).closedBy = NoAlarm
<1>1. OccurredAt[e] \in Nat
  BY EventsAssumption
<1>2. Opened(e) \in Rows
  BY <1>1 DEF Opened, Rows
<1> QED  BY <1>2 DEF Opened

LEMMA CountedFields ==
    ASSUME NEW row \in Rows, NEW e \in Events
    PROVE  /\ Counted(row, e) \in Rows
           /\ Counted(row, e).count = row.count + 1
           /\ Counted(row, e).version = row.version + 1
           /\ Counted(row, e).status = row.status
           /\ Counted(row, e).ackBy = row.ackBy /\ Counted(row, e).closedBy = row.closedBy
           /\ Counted(row, e).last = row.last /\ Counted(row, e).attributes = row.attributes
<1> DEFINE n == row.count + 1
           v == row.version + 1
           one == [row EXCEPT !.count = n]
           two == [one EXCEPT !.version = v]
<1>1. n \in Nat /\ v \in Nat
  BY DEF Rows
<1>2. Counted(row, e) = [two EXCEPT !.lastEvent = e]
  BY DEF Counted, Rows
<1> HIDE DEF n, v
<1>3. one \in Rows
  BY <1>1 DEF Rows
<1>4. /\ one.count = n /\ one.status = row.status /\ one.version = row.version
      /\ one.ackBy = row.ackBy /\ one.closedBy = row.closedBy
      /\ one.last = row.last /\ one.attributes = row.attributes
  BY DEF Rows
<1> HIDE DEF one
<1>5. two \in Rows
  BY <1>1, <1>3 DEF Rows
<1>6. /\ two.count = n /\ two.status = row.status /\ two.version = v
      /\ two.ackBy = row.ackBy /\ two.closedBy = row.closedBy
      /\ two.last = row.last /\ two.attributes = row.attributes
  BY <1>3, <1>4 DEF Rows
<1> HIDE DEF two
<1>7. Counted(row, e) \in Rows
  BY <1>2, <1>5 DEF Rows
<1>8. /\ Counted(row, e).count = n /\ Counted(row, e).version = v
      /\ Counted(row, e).status = row.status
      /\ Counted(row, e).ackBy = row.ackBy /\ Counted(row, e).closedBy = row.closedBy
      /\ Counted(row, e).last = row.last /\ Counted(row, e).attributes = row.attributes
  BY <1>2, <1>5, <1>6 DEF Rows
<1> QED  BY <1>7, <1>8 DEF n, v

LEMMA ShowsFields ==
    ASSUME NEW row \in Rows, NEW e \in Events
    PROVE  /\ Shows(row, e) \in Rows
           /\ Shows(row, e).last = OccurredAt[e] /\ Shows(row, e).attributes = e
           /\ Shows(row, e).count = row.count /\ Shows(row, e).version = row.version
           /\ Shows(row, e).status = row.status
           /\ Shows(row, e).ackBy = row.ackBy /\ Shows(row, e).closedBy = row.closedBy
<1> DEFINE t == OccurredAt[e]
           one == [row EXCEPT !.last = t]
<1>1. t \in Nat
  BY EventsAssumption
<1>2. Shows(row, e) = [one EXCEPT !.attributes = e]
  BY DEF Shows, Rows
<1> HIDE DEF t
<1>3. one \in Rows
  BY <1>1 DEF Rows
<1>4. /\ one.last = t /\ one.status = row.status
      /\ one.count = row.count /\ one.version = row.version
      /\ one.ackBy = row.ackBy /\ one.closedBy = row.closedBy
  BY DEF Rows
<1> HIDE DEF one
<1>5. Shows(row, e) \in Rows
  BY <1>2, <1>3 DEF Rows
<1>6. /\ Shows(row, e).last = t /\ Shows(row, e).attributes = e
      /\ Shows(row, e).count = row.count /\ Shows(row, e).version = row.version
      /\ Shows(row, e).status = row.status
      /\ Shows(row, e).ackBy = row.ackBy /\ Shows(row, e).closedBy = row.closedBy
  BY <1>2, <1>3, <1>4 DEF Rows
<1> QED  BY <1>5, <1>6 DEF t

LEMMA MergedFields ==
    ASSUME NEW e \in Events, NEW row \in Rows
    PROVE  /\ Merged(row, e) \in Rows
           /\ Merged(row, e).status = row.status
           /\ Merged(row, e).count = row.count + 1
           /\ Merged(row, e).version = row.version + 1
           /\ Merged(row, e).ackBy = row.ackBy
           /\ Merged(row, e).closedBy = row.closedBy
           /\ \/ /\ OccurredAt[e] >= row.last
                 /\ Merged(row, e).last = OccurredAt[e]
                 /\ Merged(row, e).attributes = e
              \/ /\ ~(OccurredAt[e] >= row.last)
                 /\ Merged(row, e).last = row.last
                 /\ Merged(row, e).attributes = row.attributes
<1> DEFINE counted == Counted(row, e)
<1>1. /\ counted \in Rows
      /\ counted.count = row.count + 1 /\ counted.version = row.version + 1
      /\ counted.status = row.status
      /\ counted.ackBy = row.ackBy /\ counted.closedBy = row.closedBy
      /\ counted.last = row.last /\ counted.attributes = row.attributes
  BY CountedFields
<1> HIDE DEF counted
<1>2. CASE OccurredAt[e] >= row.last
  <2>1. Merged(row, e) = Shows(counted, e)
    BY <1>2 DEF Merged, counted
  <2> QED  BY <1>1, <1>2, <2>1, ShowsFields
<1>3. CASE ~(OccurredAt[e] >= row.last)
  <2>1. Merged(row, e) = counted
    BY <1>3 DEF Merged, counted
  <2> QED  BY <1>1, <1>3, <2>1
<1> QED  BY <1>2, <1>3

LEMMA DecidedFields ==
    ASSUME NEW row \in Rows, NEW op \in Ops, NEW c \in Clients
    PROVE  /\ Decided(row, op, c) \in Rows
           /\ Decided(row, op, c).count = row.count
           /\ Decided(row, op, c).version = row.version + 1
           /\ Decided(row, op, c).last = row.last
           /\ Decided(row, op, c).attributes = row.attributes
           /\ op = "ack" => /\ Decided(row, op, c).status = "acknowledged"
                            /\ Decided(row, op, c).ackBy = c
                            /\ Decided(row, op, c).closedBy = row.closedBy
           /\ op = "close" => /\ Decided(row, op, c).status = "closed"
                              /\ Decided(row, op, c).ackBy = row.ackBy
                              /\ Decided(row, op, c).closedBy = c
<1>1. /\ row.status \in {"none", "open", "acknowledged", "closed"}
      /\ row.count \in Nat /\ row.version \in Nat /\ row.last \in Nat
      /\ row.lastEvent \in Events \cup {NoAlarm}
      /\ row.attributes \in Events \cup {NoAlarm}
      /\ row.ackBy \in Clients \cup {NoAlarm} /\ row.closedBy \in Clients \cup {NoAlarm}
  BY DEF Rows
<1>2. CASE op = "ack"
  <2>1. Decided(row, op, c) =
          [status |-> "acknowledged", count |-> row.count, version |-> row.version + 1,
           last |-> row.last, lastEvent |-> row.lastEvent,
           attributes |-> row.attributes, ackBy |-> c, closedBy |-> row.closedBy]
    BY <1>2 DEF Decided, Rows
  <2>2. Decided(row, op, c) \in Rows
    BY <1>1, <2>1 DEF Rows
  <2> QED  BY <1>2, <2>1, <2>2
<1>3. CASE op = "close"
  <2>1. Decided(row, op, c) =
          [status |-> "closed", count |-> row.count, version |-> row.version + 1,
           last |-> row.last, lastEvent |-> row.lastEvent,
           attributes |-> row.attributes, ackBy |-> row.ackBy, closedBy |-> c]
    BY <1>3 DEF Decided, Rows
  <2>2. Decided(row, op, c) \in Rows
    BY <1>1, <2>1 DEF Rows
  <2> QED  BY <1>3, <2>1, <2>2
<1> QED  BY <1>2, <1>3 DEF Ops
-----------------------------------------------------------------------------
(* Filing an event *)

\* What all properties of the tables need of the event e and its alarm a.
LEMMA FileStep ==
    ASSUME TypeOK, TablesInv, NEW e \in Events, NEW a \in Events,
           e \notin dedup, dedup' = dedup \cup {e}, File(e, a),
           \/ a \in MergesInto(e)
           \/ a = e /\ MergesInto(e) = {}
    PROVE  TablesInv' /\ TableTypes' /\ RowsGrow
<1> DEFINE old == alarms[a]
           new == IF a \in MergesInto(e) THEN Merged(old, e) ELSE Opened(e)
<1>0. TableTypes
  BY DEF TypeOK, TableTypes
<1>1. /\ alarms' = [alarms EXCEPT ![a] = new]
      /\ countedIn' = [countedIn EXCEPT ![e] = a]
  BY DEF File
<1> HIDE DEF new
<1>2. /\ old \in Rows /\ \A b \in Events : alarms[b] \in Rows
      /\ \A b \in Events : alarms'[b] = IF b = a THEN new ELSE alarms[b]
      /\ \A x \in Events : countedIn'[x] = IF x = e THEN a ELSE countedIn[x]
  BY <1>0, <1>1 DEF TableTypes
<1>3. CountedEvents(a)' = CountedEvents(a) \cup {e}
  BY <1>0, <1>1, <1>2 DEF CountedEvents
<1>4. \A b \in Events : b # a => CountedEvents(b)' = CountedEvents(b)
  <2> SUFFICES ASSUME NEW b \in Events, b # a
               PROVE  CountedEvents(b)' = CountedEvents(b)
    OBVIOUS
  <2>1. countedIn[e] = NoAlarm /\ NoAlarm \notin Events
    BY EventsAssumption DEF TablesInv, CountedOnce
  <2> QED  BY <1>0, <1>1, <1>2, <2>1 DEF CountedEvents
<1>5. e \notin CountedEvents(a) /\ IsFiniteSet(CountedEvents(a))
  <2>1. countedIn[e] # a
    BY EventsAssumption DEF TablesInv, CountedOnce
  <2>2. CountedEvents(a) \subseteq Events
    BY DEF CountedEvents
  <2> QED  BY <2>1, <2>2, FS_Subset, EventsAssumption DEF CountedEvents
<1>6. Cardinality(CountedEvents(a)') = Cardinality(CountedEvents(a)) + 1
  BY <1>3, <1>5, FS_AddElement
\* The row merged into, or the new row, keyed by the case.
<1>7. CASE a \in MergesInto(e)
  <2>1. /\ old.status \in {"open", "acknowledged"}
        /\ FingerprintOf[a] = FingerprintOf[e]
    BY <1>7 DEF MergesInto, Live
  <2>2. new = Merged(old, e)
    BY <1>7 DEF new
  <2>3. /\ new \in Rows /\ new.status = old.status
        /\ new.count = old.count + 1 /\ new.version = old.version + 1
        /\ new.ackBy = old.ackBy /\ new.closedBy = old.closedBy
        /\ \/ /\ OccurredAt[e] >= old.last
              /\ new.last = OccurredAt[e] /\ new.attributes = e
           \/ /\ ~(OccurredAt[e] >= old.last)
              /\ new.last = old.last /\ new.attributes = old.attributes
    BY <1>2, <2>2, MergedFields
  <2>4. TableTypes'
    BY <1>0, <1>1, <1>2, <2>3 DEF TableTypes
  <2>5. RowsGrow
    BY <1>0, <1>1, <1>2, <2>1, <2>3 DEF RowsGrow, Grown
  <2>6. CountedOnce'
    <3>1. dedup' = {x \in Events : countedIn'[x] # NoAlarm}
      BY <1>0, <1>1, <1>2, EventsAssumption DEF TablesInv, CountedOnce
    <3>2. \A x \in dedup' : /\ FingerprintOf[countedIn'[x]] = FingerprintOf[x]
                            /\ alarms'[countedIn'[x]].status # "none"
      BY <1>0, <1>1, <1>2, <2>1, <2>3 DEF TablesInv, CountedOnce
    <3>3. \A b \in Events : alarms'[b].count = Cardinality(CountedEvents(b)')
      BY <1>0, <1>1, <1>2, <1>4, <1>6, <2>3 DEF TablesInv, CountedOnce
    <3> QED  BY <3>1, <3>2, <3>3 DEF CountedOnce
  <2>7. OneOpenPerFingerprint'
    BY <1>0, <1>1, <1>2, <2>1, <2>3 DEF TablesInv, OneOpenPerFingerprint, Live
  <2>8. AttributesAreNewest'
    <3> SUFFICES ASSUME NEW b \in Events, alarms'[b].status # "none"
                 PROVE  /\ alarms'[b].attributes \in CountedEvents(b)'
                        /\ alarms'[b].last = OccurredAt[alarms'[b].attributes]
                        /\ \A x \in CountedEvents(b)' : OccurredAt[x] <= alarms'[b].last
      BY DEF AttributesAreNewest
    <3>1. CASE b # a
      BY <1>0, <1>1, <1>2, <1>4, <3>1 DEF TablesInv, AttributesAreNewest
    <3>2. CASE b = a
      <4>1. /\ old.attributes \in CountedEvents(a)
            /\ old.last = OccurredAt[old.attributes]
            /\ \A x \in CountedEvents(a) : OccurredAt[x] <= old.last
        BY <2>1 DEF TablesInv, AttributesAreNewest
      <4>2. /\ \A x \in Events : OccurredAt[x] \in Nat
            /\ CountedEvents(a) \subseteq Events /\ old.last \in Nat
        BY <1>2, EventsAssumption DEF CountedEvents, Rows
      <4> HIDE DEF old
      <4>3. /\ new.attributes \in CountedEvents(a)'
            /\ new.last = OccurredAt[new.attributes]
            /\ \A x \in CountedEvents(a)' : OccurredAt[x] <= new.last
        BY <1>3, <2>3, <4>1, <4>2
      <4> QED  BY <1>2, <3>2, <4>3
    <3> QED  BY <3>1, <3>2
  <2>9. \A b \in Events : alarms'[b].status # "none" => b \in dedup'
    BY <1>0, <1>1, <1>2, <2>1, <2>3 DEF TablesInv
  <2>10. \A b \in Events : RowOK(alarms'[b])
    BY <1>0, <1>1, <1>2, <2>3 DEF TablesInv, RowOK
  <2> QED  BY <2>4, <2>5, <2>6, <2>7, <2>8, <2>9, <2>10 DEF TablesInv, RowOK
<1>8. CASE a = e /\ MergesInto(e) = {}
  <2>1. new = Opened(e) /\ old.status = "none"
    BY <1>8 DEF TablesInv, new
  <2>2. /\ new \in Rows /\ new.status = "open" /\ new.count = 1
        /\ new.last = OccurredAt[e] /\ new.attributes = e
        /\ new.ackBy = NoAlarm /\ new.closedBy = NoAlarm
    BY <2>1, OpenedFields
  <2>3. CountedEvents(a) = {}
    <3>1. \A x \in Events : countedIn[x] # a
      BY <1>8, <2>1, EventsAssumption DEF TablesInv, CountedOnce
    <3> QED  BY <3>1 DEF CountedEvents
  <2>4. CountedEvents(a)' = {e} /\ Cardinality(CountedEvents(a)') = 1
    <3>1. Cardinality({e}) = 1
      BY FS_Singleton
    <3> QED  BY <1>3, <2>3, <3>1
  <2>5. TableTypes'
    BY <1>0, <1>1, <1>2, <2>2 DEF TableTypes
  <2>6. RowsGrow
    BY <1>0, <1>1, <1>2, <1>8, <2>1 DEF RowsGrow
  <2>7. CountedOnce'
    <3>1. dedup' = {x \in Events : countedIn'[x] # NoAlarm}
      BY <1>0, <1>1, <1>2, EventsAssumption DEF TablesInv, CountedOnce
    <3>2. \A x \in dedup' : /\ FingerprintOf[countedIn'[x]] = FingerprintOf[x]
                            /\ alarms'[countedIn'[x]].status # "none"
      BY <1>0, <1>1, <1>2, <1>8, <2>1, <2>2 DEF TablesInv, CountedOnce
    <3>3. \A b \in Events : alarms'[b].count = Cardinality(CountedEvents(b)')
      <4>1. \A b \in Events : alarms[b].count = Cardinality(CountedEvents(b))
        BY DEF TablesInv, CountedOnce
      <4>2. alarms'[a].count = Cardinality(CountedEvents(a)')
        BY <1>2, <2>2, <2>4
      <4> QED  BY <1>2, <1>4, <4>1, <4>2
    <3> QED  BY <3>1, <3>2, <3>3 DEF CountedOnce
  <2>8. OneOpenPerFingerprint'
    <3>1. \A b \in Events : Live(b) => FingerprintOf[b] # FingerprintOf[e]
      <4> SUFFICES ASSUME NEW b \in Events, Live(b), FingerprintOf[b] = FingerprintOf[e]
                   PROVE  FALSE
        OBVIOUS
      <4>1. e \in Dispatch
        BY <1>8 DEF MergesInto
      <4>2. b = e
        BY <4>1, DispatchFingerprints
      <4> QED  BY <1>8, <2>1, <4>2 DEF Live
    <3> QED  BY <1>0, <1>1, <1>2, <1>8, <2>2, <3>1 DEF TablesInv, OneOpenPerFingerprint, Live
  <2>9. AttributesAreNewest'
    <3> SUFFICES ASSUME NEW b \in Events, alarms'[b].status # "none"
                 PROVE  /\ alarms'[b].attributes \in CountedEvents(b)'
                        /\ alarms'[b].last = OccurredAt[alarms'[b].attributes]
                        /\ \A x \in CountedEvents(b)' : OccurredAt[x] <= alarms'[b].last
      BY DEF AttributesAreNewest
    <3>1. CASE b # a
      BY <1>0, <1>1, <1>2, <1>4, <3>1 DEF TablesInv, AttributesAreNewest
    <3>2. CASE b = a
      <4>1. OccurredAt[e] \in Nat
        BY EventsAssumption
      <4> QED  BY <1>2, <2>2, <2>4, <3>2, <4>1
    <3> QED  BY <3>1, <3>2
  <2>10. \A b \in Events : alarms'[b].status # "none" => b \in dedup'
    BY <1>0, <1>1, <1>2, <1>8 DEF TablesInv
  <2>11. \A b \in Events : RowOK(alarms'[b])
    BY <1>0, <1>1, <1>2, <2>2 DEF TablesInv, RowOK
  <2> QED  BY <2>5, <2>6, <2>7, <2>8, <2>9, <2>10, <2>11 DEF TablesInv, RowOK
<1> QED  BY <1>7, <1>8

LEMMA StatementStep ==
    ASSUME TypeOK, TablesInv, NEW e \in Events, IngestStatement(e)
    PROVE  /\ TablesInv' /\ TableTypes' /\ RowsGrow
           /\ dedup' = dedup \cup {e}
<1>1. dedup' = dedup \cup {e}
  BY DEF IngestStatement
<1>2. CASE e \in dedup
  <2>1. UNCHANGED tables
    BY <1>1, <1>2 DEF IngestStatement, Known, tables
  <2> QED  BY <1>1, <2>1 DEF TypeOK, TableTypes, RowsGrow, TablesInv, CountedOnce,
              OneOpenPerFingerprint, AttributesAreNewest, CountedEvents, Live, RowOK, tables
<1>3. CASE e \notin dedup
  <2>1. CASE MergesInto(e) = {}
    BY <1>1, <1>3, <2>1, FileStep DEF IngestStatement, Known
  <2>2. CASE MergesInto(e) # {}
    <3>1. PICK a \in MergesInto(e) : File(e, a)
      BY <1>3, <2>2 DEF IngestStatement, Known
    <3>2. a \in Events
      BY DEF MergesInto
    <3> QED  BY <1>1, <1>3, <3>1, <3>2, FileStep
  <2> QED  BY <2>1, <2>2
<1> QED  BY <1>2, <1>3
-----------------------------------------------------------------------------
(* Acknowledging and closing *)

LEMMA UpdateStep ==
    ASSUME TypeOK, TablesInv, NEW c \in Clients, Update(c)
    PROVE  TablesInv' /\ TableTypes' /\ RowsGrow
<1> DEFINE r == request[c]
           a == r.alarm
           old == alarms[a]
           new == Decided(old, r.op, c)
<1>0. TableTypes
  BY DEF TypeOK, TableTypes
<1>1. /\ r.step = "update" /\ Matches(old, r)
      /\ alarms' = [alarms EXCEPT ![a] = new]
      /\ UNCHANGED <<dedup, countedIn>>
  BY DEF Update
<1>2. r \in Requests /\ r.op \in Ops /\ a \in Events
  BY <1>1 DEF TypeOK, Requests
<1> HIDE DEF new, r, a
<1>3. /\ old \in Rows
      /\ \A b \in Events : alarms'[b] = IF b = a THEN new ELSE alarms[b]
  BY <1>0, <1>1, <1>2 DEF TableTypes
<1>4. /\ new \in Rows /\ new.count = old.count /\ new.version = old.version + 1
      /\ new.last = old.last /\ new.attributes = old.attributes
      /\ r.op = "ack" => /\ new.status = "acknowledged"
                         /\ new.ackBy = c /\ new.closedBy = old.closedBy
      /\ r.op = "close" => /\ new.status = "closed"
                           /\ new.ackBy = old.ackBy /\ new.closedBy = c
  BY <1>2, <1>3, DecidedFields DEF new
<1>5. /\ r.op = "ack" => old.status = "open"
      /\ r.op = "close" => old.status \in {"open", "acknowledged"}
      /\ r.op = "ack" \/ r.op = "close"
  BY <1>1, <1>2 DEF Matches, Allowed, Ops
<1>6. RowOK(old) /\ c # NoAlarm
  BY <1>2, EventsAssumption DEF TablesInv
<1>7. TableTypes'
  BY <1>0, <1>1, <1>4 DEF TableTypes
<1>8. RowsGrow
  BY <1>3, <1>4, <1>5, <1>6 DEF RowsGrow, Grown, RowOK
<1>9. \A b \in Events : CountedEvents(b)' = CountedEvents(b)
  BY <1>1 DEF CountedEvents
<1>10. CountedOnce'
  <2>1. dedup' = {x \in Events : countedIn'[x] # NoAlarm}
    BY <1>1 DEF TablesInv, CountedOnce
  <2>2. \A x \in dedup' : /\ FingerprintOf[countedIn'[x]] = FingerprintOf[x]
                          /\ alarms'[countedIn'[x]].status # "none"
    <3>1. \A x \in dedup : countedIn[x] \in Events
      BY <1>0 DEF TableTypes, TablesInv, CountedOnce
    <3> QED  BY <1>1, <1>3, <1>4, <1>5, <3>1 DEF TablesInv, CountedOnce
  <2>3. \A b \in Events : alarms[b].count = Cardinality(CountedEvents(b))
    BY DEF TablesInv, CountedOnce
  <2>4. \A b \in Events : alarms'[b].count = Cardinality(CountedEvents(b)')
    BY <1>3, <1>4, <1>9, <2>3
  <2> QED  BY <2>1, <2>2, <2>4 DEF CountedOnce
<1>11. OneOpenPerFingerprint'
  BY <1>2, <1>3, <1>4, <1>5 DEF TablesInv, OneOpenPerFingerprint, Live
<1>12. AttributesAreNewest'
  <2>1. old.status # "none"
    BY <1>5
  <2>2. \A b \in Events : alarms'[b].status # "none" =>
          /\ alarms'[b].attributes \in CountedEvents(b)
          /\ alarms'[b].last = OccurredAt[alarms'[b].attributes]
          /\ \A e \in CountedEvents(b) : OccurredAt[e] <= alarms'[b].last
    BY <1>2, <1>3, <1>4, <2>1 DEF TablesInv, AttributesAreNewest
  <2> QED  BY <1>9, <2>2 DEF AttributesAreNewest
<1>13. \A b \in Events : alarms'[b].status # "none" => b \in dedup'
  BY <1>1, <1>2, <1>3, <1>5 DEF TablesInv
<1>14. \A b \in Events : RowOK(alarms'[b])
  BY <1>2, <1>3, <1>4, <1>5, <1>6 DEF TablesInv, RowOK
<1> QED  BY <1>7, <1>8, <1>10, <1>11, <1>12, <1>13, <1>14 DEF TablesInv, RowOK

\* A request that does not move keeps what it knows and what it answered.
LEMMA KnowsKept ==
    ASSUME NEW old \in Rows, NEW new \in Rows, NEW r \in Requests, NEW c \in Clients,
           new = old \/ Grown(old, new), RowOK(old)
    PROVE  /\ Knows(r, old) => Knows(r, new)
           /\ Knows(r, old) /\ Answered(r, old, c) => Answered(r, new, c)
<1>1. CASE new = old
  BY <1>1
<1>2. CASE Grown(old, new)
  <2>1. /\ old.version \in Nat /\ new.version \in Nat /\ r.version \in Nat
        /\ new.version = old.version + 1 /\ new.status # "none"
        /\ c # NoAlarm /\ old.status # "closed"
    BY <1>2, EventsAssumption DEF Grown, Rows, Requests
  <2>2. Knows(r, old) => r.version < new.version
    BY <2>1 DEF Knows
  <2>3. Knows(r, old) => Knows(r, new)
    BY <2>1, <2>2 DEF Knows, Matches
  <2>4. ASSUME Knows(r, old), Answered(r, old, c)
        PROVE  Answered(r, new, c)
    BY <1>2, <2>1, <2>2, <2>4 DEF Answered, Grown
  <2> QED  BY <2>3, <2>4
<1> QED  BY <1>1, <1>2

LEMMA RequestsKept ==
    ASSUME TypeOK, TablesInv, RequestInv, AnswersAreTrue, TableTypes', RowsGrow,
           NEW c \in Clients, request'[c] = request[c]
    PROVE  /\ request'[c].step # "idle" =>
                Knows(request'[c], alarms'[request'[c].alarm])
           /\ request'[c].step = "done" =>
                Answered(request'[c], alarms'[request'[c].alarm], c)
<1> DEFINE r == request[c]
           old == alarms[r.alarm]
           new == alarms'[r.alarm]
<1>1. SUFFICES ASSUME r.step # "idle"
               PROVE  /\ Knows(r, new)
                      /\ r.step = "done" => Answered(r, new, c)
  OBVIOUS
<1>2. /\ r \in Requests /\ r.alarm \in Events
      /\ old \in Rows /\ new \in Rows /\ RowOK(old)
  BY <1>1 DEF TypeOK, TableTypes, TablesInv
<1>3. Knows(r, old) /\ (r.step = "done" => Answered(r, old, c))
  BY <1>1 DEF RequestInv, AnswersAreTrue, Answered
<1>4. new = old \/ Grown(old, new)
  BY <1>2, <1>3 DEF RowsGrow, Knows
<1> HIDE DEF r, old, new
<1> QED  BY <1>2, <1>3, <1>4, KnowsKept
-----------------------------------------------------------------------------
(* The inductive invariant *)

ReaderTypes ==
    /\ log \in [Sources -> Seq(Events \cup Skipped)]
    /\ committed \in [Sources -> Nat] /\ fetched \in [Sources -> Nat]
    /\ \A s \in Sources : committed[s] <= fetched[s] /\ fetched[s] <= Len(log[s])
    /\ at \in [Sources -> {"fetch", "handle", "commit"}]
    /\ \A s \in Sources : at[s] # "fetch" => fetched[s] > 0

ClientTypes ==
    /\ request \in [Clients -> Requests]
    /\ \A c \in Clients : request[c].step # "idle" => request[c].alarm \in Events

Tables == TableTypes /\ TablesInv
Readers == ReaderTypes /\ ReadersInv /\ NothingPassed /\ givenUp \subseteq Events
Requesters == ClientTypes /\ RequestInv /\ AnswersAreTrue

LEMMA Parts == IInv <=> Tables /\ Readers /\ Requesters /\ crashes \in Nat
BY DEF IInv, Tables, Readers, Requesters, TypeOK, TableTypes, ReaderTypes, ClientTypes

LEMMA PartsPrimed == Tables' /\ Readers' /\ Requesters' /\ crashes' \in Nat => IInv'
BY DEF IInv, Tables, Readers, Requesters, TypeOK, TableTypes, ReaderTypes, ClientTypes

LEMMA InitInv == Init => IInv
<1> SUFFICES ASSUME Init PROVE Tables /\ Readers /\ Requesters /\ crashes \in Nat
  BY Parts
<1>1. /\ \A a \in Events : alarms[a] = NoRow /\ countedIn[a] = NoAlarm
      /\ NoRow.status = "none" /\ NoRow.count = 0
  BY DEF Init, NoRow
<1>2. TableTypes
  <2>1. alarms \in [Events -> Rows]
    BY NoRowType DEF Init
  <2> QED  BY <2>1 DEF Init, TableTypes
<1>3. TablesInv
  <2>1. \A a \in Events : CountedEvents(a) = {}
    BY <1>1, EventsAssumption DEF CountedEvents
  <2>2. Cardinality({}) = 0
    BY FS_EmptySet
  <2>3. \A a \in Events : alarms[a].count = Cardinality(CountedEvents(a))
    BY <1>1, <2>1, <2>2
  <2>4. CountedOnce
    BY <1>1, <2>3 DEF Init, CountedOnce
  <2>5. OneOpenPerFingerprint /\ AttributesAreNewest
    BY <1>1 DEF OneOpenPerFingerprint, AttributesAreNewest, Live
  <2>6. \A a \in Events : RowOK(alarms[a])
    BY <1>1 DEF RowOK
  <2> QED  BY <1>1, <2>4, <2>5, <2>6 DEF TablesInv
<1>4. Readers
  <2>1. log \in [Sources -> Seq(Events \cup Skipped)]
    BY EventsAssumption DEF Init
  <2>2. \A s \in Sources : Len(log[s]) \in Nat
    BY <2>1
  <2> QED  BY <2>1, <2>2 DEF Init, Readers, ReaderTypes, ReadersInv, NothingPassed
<1>5. Requesters
  <2>1. NoRequest \in Requests /\ NoRequest.step = "idle"
    BY DEF NoRequest, Requests, Ops
  <2>2. \A c \in Clients : request[c] = NoRequest
    BY DEF Init
  <2> QED  BY <2>1, <2>2 DEF Init, Requesters, ClientTypes, RequestInv, AnswersAreTrue
<1> QED  BY <1>2, <1>3, <1>4, <1>5 DEF Init, Tables

LEMMA TablesKept ==
    ASSUME Tables, UNCHANGED tables
    PROVE  Tables' /\ RowsGrow /\ dedup' = dedup
BY DEF Tables, TableTypes, RowsGrow, TablesInv, CountedOnce,
       OneOpenPerFingerprint, AttributesAreNewest, CountedEvents, Live, RowOK, tables

LEMMA RequestersKept ==
    ASSUME IInv, Tables', RowsGrow, request' = request
    PROVE  Requesters'
<1>1. \A c \in Clients :
        /\ request'[c].step # "idle" =>
             Knows(request'[c], alarms'[request'[c].alarm])
        /\ request'[c].step = "done" =>
             Answered(request'[c], alarms'[request'[c].alarm], c)
  BY RequestsKept DEF IInv, Tables
<1>2. ClientTypes'
  BY DEF IInv, TypeOK, ClientTypes
<1> QED  BY <1>1, <1>2 DEF Requesters, RequestInv, AnswersAreTrue, Answered

\* The readers when reader s goes to another step with what it has fetched.
LEMMA ReadersMove ==
    ASSUME IInv, NEW s \in Sources, at[s] # "fetch",
           NEW next \in {"handle", "commit"}, at' = [at EXCEPT ![s] = next],
           UNCHANGED <<log, committed, fetched>>, dedup \subseteq dedup',
           givenUp \subseteq givenUp', givenUp' \subseteq Events,
           next # "handle" => log[s][fetched[s]] \in Skipped \cup dedup' \cup givenUp'
    PROVE  Readers'
<1>1. ReaderTypes /\ ReadersInv /\ NothingPassed
  BY DEF IInv, TypeOK, ReaderTypes
<1>2. ReaderTypes'
  BY <1>1 DEF ReaderTypes
<1>3. ReadersInv'
  <2> SUFFICES ASSUME NEW x \in Sources, NEW i \in 1..fetched[x]
               PROVE  \/ log[x][i] \in Skipped \cup dedup' \cup givenUp'
                      \/ i = fetched[x] /\ at'[x] = "handle"
    BY DEF ReadersInv
  <2>1. \/ log[x][i] \in Skipped \cup dedup \cup givenUp
        \/ i = fetched[x] /\ at[x] = "handle"
    BY <1>1 DEF ReadersInv
  <2>2. CASE x = s
    BY <1>1, <2>1, <2>2 DEF ReaderTypes
  <2>3. CASE x # s
    BY <1>1, <2>1, <2>3 DEF ReaderTypes
  <2> QED  BY <2>2, <2>3
<1>4. NothingPassed'
  BY <1>1 DEF NothingPassed
<1> QED  BY <1>2, <1>3, <1>4 DEF Readers

LEMMA ReadersKept ==
    ASSUME IInv, UNCHANGED consumers, dedup \subseteq dedup', givenUp' = givenUp
    PROVE  Readers'
BY DEF IInv, TypeOK, Readers, ReaderTypes, ReadersInv, NothingPassed, consumers
-----------------------------------------------------------------------------
(* One step per action *)

LEMMA ConsumeInv ==
    ASSUME IInv, NEW s \in Sources, Consume(s)
    PROVE  IInv'
<1>0. /\ Tables /\ ReaderTypes /\ ReadersInv /\ NothingPassed
      /\ givenUp \subseteq Events /\ crashes \in Nat
  BY Parts DEF Readers
\* What is left when tables, readers and the rest are settled.
<1>1. ASSUME Tables', RowsGrow, Readers', request' = request, crashes' = crashes
      PROVE  IInv'
  <2>1. Requesters'
    BY <1>1, RequestersKept
  <2> QED  BY <1>0, <1>1, <2>1, PartsPrimed
<1>2. CASE Fetch(s)
  <2>1. /\ at[s] = "fetch" /\ fetched[s] < Len(log[s])
        /\ fetched' = [fetched EXCEPT ![s] = @ + 1]
        /\ at' = [at EXCEPT ![s] = "handle"]
        /\ UNCHANGED <<log, committed, tables, request, givenUp, crashes>>
    BY <1>2 DEF Fetch, Go
  <2>2. Tables' /\ RowsGrow /\ dedup' = dedup
    BY <1>0, <2>1, TablesKept
  <2>3. \A x \in Sources : Len(log[x]) \in Nat
    BY <1>0 DEF ReaderTypes
  <2>4. ReaderTypes'
    BY <1>0, <2>1, <2>3 DEF ReaderTypes
  <2>5. ReadersInv'
    <3> SUFFICES ASSUME NEW x \in Sources, NEW i \in 1..fetched'[x]
                 PROVE  \/ log[x][i] \in Skipped \cup dedup \cup givenUp
                        \/ i = fetched'[x] /\ at'[x] = "handle"
      BY <2>1, <2>2 DEF ReadersInv
    <3>1. CASE x = s /\ i = fetched[s] + 1
      BY <1>0, <2>1, <3>1 DEF ReaderTypes
    <3>2. CASE ~(x = s /\ i = fetched[s] + 1)
      <4>1. i \in 1..fetched[x]
        BY <1>0, <2>1, <3>2 DEF ReaderTypes
      <4>2. \/ log[x][i] \in Skipped \cup dedup \cup givenUp
            \/ i = fetched[x] /\ at[x] = "handle"
        BY <1>0, <4>1 DEF ReadersInv
      <4>3. x = s => at[x] # "handle"
        BY <2>1
      <4>4. x # s => fetched'[x] = fetched[x] /\ at'[x] = at[x]
        BY <1>0, <2>1 DEF ReaderTypes
      <4> QED  BY <4>2, <4>3, <4>4
    <3> QED  BY <3>1, <3>2
  <2>6. NothingPassed'
    BY <1>0, <2>1, <2>2 DEF NothingPassed
  <2> QED  BY <1>0, <1>1, <2>1, <2>2, <2>4, <2>5, <2>6 DEF Readers
<1>3. CASE Skip(s)
  <2>1. /\ at[s] = "handle" /\ log[s][fetched[s]] \in Skipped
        /\ at' = [at EXCEPT ![s] = "commit"]
        /\ UNCHANGED <<log, committed, fetched, tables, request, givenUp, crashes>>
    BY <1>3 DEF Skip, Go, Current
  <2>2. Tables' /\ RowsGrow /\ dedup' = dedup
    BY <1>0, <2>1, TablesKept
  <2>3. Readers'
    BY <1>0, <2>1, <2>2, ReadersMove
  <2> QED  BY <1>1, <2>1, <2>2, <2>3
\* An event goes through the statement, or the statement does not run.
<1>4. ASSUME Current(s) \in Events, IngestStatement(Current(s)) \/ UNCHANGED tables
      PROVE  /\ Tables' /\ RowsGrow /\ dedup \subseteq dedup'
             /\ IngestStatement(Current(s)) => Current(s) \in dedup'
  <2>1. CASE IngestStatement(Current(s))
    BY <1>0, <1>4, <2>1, StatementStep DEF IInv, Tables
  <2>2. CASE UNCHANGED tables /\ ~IngestStatement(Current(s))
    BY <1>0, <2>2, TablesKept
  <2> QED  BY <1>4, <2>1, <2>2
<1>5. CASE Ingest(s)
  <2>1. /\ at[s] = "handle" /\ Current(s) \in Events /\ IngestStatement(Current(s))
        /\ at' = [at EXCEPT ![s] = "commit"]
        /\ UNCHANGED <<log, committed, fetched, request, givenUp, crashes>>
    BY <1>5 DEF Ingest, Go
  <2>2. Tables' /\ RowsGrow /\ dedup \subseteq dedup' /\ Current(s) \in dedup'
    BY <1>4, <2>1
  <2>3. Readers'
    BY <1>0, <2>1, <2>2, ReadersMove DEF Current
  <2> QED  BY <1>1, <2>1, <2>2, <2>3
<1>6. CASE Transient(s)
  <2>1. /\ at[s] = "handle" /\ Current(s) \in Events
        /\ IngestStatement(Current(s)) \/ UNCHANGED tables
        /\ at' = [at EXCEPT ![s] = "handle"]
        /\ UNCHANGED <<log, committed, fetched, request, givenUp, crashes>>
    BY <1>6 DEF Transient, Go, AfterTransient
  <2>2. Tables' /\ RowsGrow /\ dedup \subseteq dedup'
    BY <1>4, <2>1
  <2>3. Readers'
    BY <1>0, <2>1, <2>2, ReadersMove
  <2> QED  BY <1>1, <2>1, <2>2, <2>3
<1>7. CASE GiveUp(s)
  <2>1. /\ at[s] = "handle" /\ Current(s) \in Events
        /\ givenUp' = givenUp \cup {Current(s)}
        /\ IngestStatement(Current(s)) \/ UNCHANGED tables
        /\ at' = [at EXCEPT ![s] = "commit"]
        /\ UNCHANGED <<log, committed, fetched, request, crashes>>
    BY <1>7 DEF GiveUp, Go
  <2>2. Tables' /\ RowsGrow /\ dedup \subseteq dedup'
    BY <1>4, <2>1
  <2>3. Readers'
    BY <1>0, <2>1, <2>2, ReadersMove DEF Current
  <2> QED  BY <1>1, <2>1, <2>2, <2>3
<1>8. CASE Commit(s)
  <2>1. PICK offset \in {committed[s], fetched[s]} :
          /\ at[s] = "commit" /\ committed' = [committed EXCEPT ![s] = offset]
          /\ at' = [at EXCEPT ![s] = "fetch"]
          /\ UNCHANGED <<log, fetched, tables, request, givenUp, crashes>>
    BY <1>8 DEF Commit, Go
  <2>2. Tables' /\ RowsGrow /\ dedup' = dedup
    BY <1>0, <2>1, TablesKept
  <2>3. ReaderTypes'
    BY <1>0, <2>1 DEF ReaderTypes
  <2>4. ReadersInv'
    BY <1>0, <2>1, <2>2 DEF ReadersInv, ReaderTypes
  <2>5. NothingPassed'
    <3> SUFFICES ASSUME NEW x \in Sources, NEW i \in 1..committed'[x]
                 PROVE  log[x][i] \in Skipped \cup dedup \cup givenUp
      BY <2>1, <2>2 DEF NothingPassed
    <3>1. CASE i \in 1..committed[x]
      BY <1>0, <3>1 DEF NothingPassed
    <3>2. CASE i \notin 1..committed[x]
      <4>1. x = s /\ i \in 1..fetched[s]
        BY <1>0, <2>1, <3>2 DEF ReaderTypes
      <4> QED  BY <1>0, <2>1, <4>1 DEF ReadersInv
    <3> QED  BY <3>1, <3>2
  <2> QED  BY <1>0, <1>1, <2>1, <2>2, <2>3, <2>4, <2>5 DEF Readers
<1> QED  BY <1>2, <1>3, <1>5, <1>6, <1>7, <1>8 DEF Consume

LEMMA CrashInv == IInv /\ Crash => IInv'
<1> SUFFICES ASSUME IInv, Crash PROVE Tables' /\ Readers' /\ Requesters' /\ crashes' \in Nat
  BY PartsPrimed
<1>0. /\ Tables /\ ReaderTypes /\ ReadersInv /\ NothingPassed
      /\ givenUp \subseteq Events /\ crashes \in Nat
  BY Parts DEF Readers
<1>1. Tables' /\ dedup' = dedup
  BY <1>0, TablesKept DEF Crash
<1>2. ReaderTypes'
  <2>1. \A x \in Sources : Len(log[x]) \in Nat
    BY <1>0 DEF ReaderTypes
  <2>2. \A x \in Sources : committed[x] <= Len(log[x]) /\ committed[x] \in Nat
    BY <1>0, <2>1 DEF ReaderTypes
  <2> QED  BY <1>0, <2>2 DEF Crash, ReaderTypes
<1>3. Readers'
  BY <1>0, <1>1, <1>2 DEF Crash, Readers, ReadersInv, NothingPassed
<1>4. Requesters'
  <2>1. NoRequest \in Requests /\ NoRequest.step = "idle"
    BY DEF NoRequest, Requests, Ops
  <2>2. \A c \in Clients : request'[c] = NoRequest
    BY DEF Crash
  <2> QED  BY <2>1, <2>2 DEF Crash, Requesters, ClientTypes, RequestInv, AnswersAreTrue
<1> QED  BY <1>0, <1>1, <1>3, <1>4 DEF Crash

\* A client's request moves to r in one step.
LEMMA RequestMoves ==
    ASSUME IInv, Tables', RowsGrow, NEW c \in Clients, NEW r \in Requests,
           request' = [request EXCEPT ![c] = r], r.step # "idle", r.alarm \in Events,
           Knows(r, alarms'[r.alarm]),
           r.step = "done" => Answered(r, alarms'[r.alarm], c),
           UNCHANGED <<consumers, givenUp, crashes>>, dedup' = dedup
    PROVE  IInv'
<1>1. /\ \A d \in Clients : request'[d] = IF d = c THEN r ELSE request[d]
      /\ ClientTypes /\ crashes \in Nat
  BY DEF IInv, TypeOK, ClientTypes
<1>2. Readers'
  BY ReadersKept
<1>3. \A d \in Clients :
        /\ request'[d].step # "idle" =>
             Knows(request'[d], alarms'[request'[d].alarm])
        /\ request'[d].step = "done" =>
             Answered(request'[d], alarms'[request'[d].alarm], d)
  <2> SUFFICES ASSUME NEW d \in Clients
               PROVE  /\ request'[d].step # "idle" =>
                           Knows(request'[d], alarms'[request'[d].alarm])
                      /\ request'[d].step = "done" =>
                           Answered(request'[d], alarms'[request'[d].alarm], d)
    OBVIOUS
  <2>1. CASE d = c
    BY <1>1, <2>1
  <2>2. CASE d # c
    <3>1. request'[d] = request[d]
      BY <1>1, <2>2
    <3> QED  BY <3>1, RequestsKept DEF IInv, Tables
  <2> QED  BY <2>1, <2>2
<1>4. Requesters'
  <2>1. ClientTypes'
    BY <1>1 DEF ClientTypes
  <2> QED  BY <1>3, <2>1 DEF Requesters, RequestInv, AnswersAreTrue, Answered
<1> QED  BY <1>1, <1>2, <1>4, PartsPrimed

LEMMA ServeInv ==
    ASSUME IInv, NEW c \in Clients, Serve(c)
    PROVE  IInv'
<1> DEFINE q == request[c]
<1>0. /\ Tables /\ \A a \in Events : alarms[a] \in Rows
      /\ request \in [Clients -> Requests] /\ q \in Requests
      /\ q.step # "idle" => /\ q.alarm \in Events
                            /\ Knows(q, alarms[q.alarm])
  BY Parts DEF IInv, TypeOK, RequestInv
<1>1. ASSUME NEW op \in Ops, NEW a \in Events, Look(c, op, a)
      PROVE  IInv'
  <2> DEFINE r == [step |-> "update", op |-> op, alarm |-> a,
                   version |-> alarms[a].version, seen |-> alarms[a].count,
                   answer |-> "none"]
  <2>1. /\ alarms[a].status # "none" /\ request' = [request EXCEPT ![c] = r]
        /\ UNCHANGED <<consumers, tables, givenUp, crashes>>
    BY <1>1 DEF Look
  <2>2. alarms[a].version \in Nat /\ alarms[a].count \in Nat
    BY <1>0 DEF Rows
  <2>3. r \in Requests
    BY <2>2 DEF Requests
  <2>4. /\ r.step = "update" /\ r.alarm = a
        /\ r.version = alarms[a].version /\ r.seen = alarms[a].count
    OBVIOUS
  <2> HIDE DEF r
  <2>5. Tables' /\ RowsGrow /\ dedup' = dedup /\ alarms' = alarms
    BY <1>0, <2>1, TablesKept DEF tables
  <2>6. Knows(r, alarms'[r.alarm])
    BY <2>1, <2>2, <2>4, <2>5 DEF Knows
  <2> QED  BY <2>1, <2>3, <2>4, <2>5, <2>6, RequestMoves
<1>2. CASE Update(c)
  <2> DEFINE r == [q EXCEPT !.step = "done", !.answer = "ok"]
             old == alarms[q.alarm]
             new == alarms'[q.alarm]
  <2>1. /\ q.step = "update" /\ Matches(old, q)
        /\ alarms' = [alarms EXCEPT ![q.alarm] = Decided(old, q.op, c)]
        /\ request' = [request EXCEPT ![c] = r]
        /\ UNCHANGED <<consumers, dedup, countedIn, givenUp, crashes>>
    BY <1>2 DEF Update
  <2>2. Tables' /\ RowsGrow
    BY <1>0, <1>2, UpdateStep DEF IInv, Tables
  <2>3. /\ r \in Requests /\ r.step = "done" /\ r.answer = "ok" /\ r.op = q.op
        /\ r.alarm = q.alarm /\ r.version = q.version /\ r.seen = q.seen
    BY <1>0 DEF Requests
  <2>4. /\ q.alarm \in Events /\ q.op \in Ops /\ q.version \in Nat
        /\ old \in Rows /\ Knows(q, old) /\ old.version \in Nat
    BY <1>0, <2>1 DEF Requests, Rows
  <2>5. new = Decided(old, q.op, c)
    BY <1>0, <2>1, <2>4 DEF Tables, TableTypes
  <2>6. /\ new.version = old.version + 1
        /\ q.op = "ack" => new.status = "acknowledged" /\ new.ackBy = c
        /\ q.op = "close" => new.status = "closed" /\ new.closedBy = c
    BY <2>4, <2>5, DecidedFields
  <2> HIDE DEF r, old, new
  <2>7. Knows(r, new) /\ Answered(r, new, c)
    BY <2>3, <2>4, <2>6 DEF Knows, Answered, Ops
  <2>8. new = alarms'[r.alarm]
    BY <2>3 DEF new
  <2> QED  BY <2>1, <2>2, <2>3, <2>4, <2>7, <2>8, RequestMoves
<1>3. CASE UpdateNothing(c)
  <2> DEFINE r == [q EXCEPT !.step = "explain"]
             row == alarms[q.alarm]
  <2>1. /\ q.step = "update" /\ ~Matches(row, q)
        /\ request' = [request EXCEPT ![c] = r]
        /\ UNCHANGED <<consumers, tables, givenUp, crashes>>
    BY <1>3 DEF UpdateNothing
  <2>2. /\ r \in Requests /\ r.step = "explain" /\ r.op = q.op
        /\ r.alarm = q.alarm /\ r.version = q.version /\ r.seen = q.seen
    BY <1>0 DEF Requests
  <2>3. Tables' /\ RowsGrow /\ dedup' = dedup /\ alarms' = alarms
    BY <1>0, <2>1, TablesKept DEF tables
  <2>4. q.alarm \in Events /\ Knows(q, row)
    BY <1>0, <2>1
  <2> HIDE DEF r
  <2>5. Knows(r, row)
    BY <2>1, <2>2, <2>4 DEF Knows, Matches
  <2>6. row = alarms'[r.alarm]
    BY <2>2, <2>3
  <2> QED  BY <2>1, <2>2, <2>3, <2>4, <2>5, <2>6, RequestMoves
<1>4. CASE Explain(c)
  <2> DEFINE row == alarms[q.alarm]
             answer == Reason(row, q)
             r == [q EXCEPT !.step = "done", !.answer = answer]
  <2>1. /\ q.step = "explain" /\ request' = [request EXCEPT ![c] = r]
        /\ UNCHANGED <<consumers, tables, givenUp, crashes>>
    BY <1>4 DEF Explain
  <2>2. /\ q.alarm \in Events /\ Knows(q, row) /\ ~Matches(row, q)
        /\ row \in Rows /\ RowOK(row) /\ q.op \in Ops
        /\ row.version \in Nat /\ q.version \in Nat
    BY <1>0, <2>1 DEF Knows, Tables, TablesInv, Rows, Requests
  <2>3. /\ answer \in {"already_acknowledged", "already_closed", "conflict"}
        /\ answer = "already_acknowledged" => row.ackBy # NoAlarm
        /\ answer = "already_closed" => row.status = "closed"
        /\ answer = "conflict" => row.version > q.version
    BY <2>2 DEF Reason, Matches, Allowed, Ops, Knows, RowOK, Rows
  <2> HIDE DEF answer
  <2>4. /\ r \in Requests /\ r.step = "done" /\ r.answer = answer
        /\ r.alarm = q.alarm /\ r.version = q.version /\ r.seen = q.seen
    BY <1>0, <2>3 DEF Requests
  <2>5. Tables' /\ RowsGrow /\ dedup' = dedup /\ alarms' = alarms
    BY <1>0, <2>1, TablesKept DEF tables
  <2> HIDE DEF r
  <2>6. Knows(r, row) /\ Answered(r, row, c)
    BY <2>2, <2>3, <2>4 DEF Knows, Answered
  <2>7. row = alarms'[r.alarm]
    BY <2>4, <2>5
  <2> QED  BY <2>1, <2>2, <2>4, <2>5, <2>6, <2>7, RequestMoves
<1> QED  BY <1>1, <1>2, <1>3, <1>4 DEF Serve

LEMMA StutterInv == IInv /\ UNCHANGED vars => IInv'
BY TablesKept, Parts, PartsPrimed DEF vars, consumers, tables, Tables, TableTypes,
   TablesInv, CountedOnce, OneOpenPerFingerprint, AttributesAreNewest, CountedEvents, Live,
   Readers, ReaderTypes, ReadersInv, NothingPassed, Requesters, ClientTypes, RequestInv,
   AnswersAreTrue

LEMMA StepInv == IInv /\ [Next]_vars => IInv'
BY ConsumeInv, CrashInv, ServeInv, StutterInv DEF Next

\* IInv holds in every reachable state of vpp-alarm, for any events, topics,
\* clients, crashes and messages given up.
THEOREM Invariance == Spec => []IInv
BY InitInv, StepInv, PTL DEF Spec
-----------------------------------------------------------------------------
(* The properties *)

\* Tables, readers and requests keep their types.
THEOREM TypeCorrect == Spec => []TypeOK
BY Invariance, PTL DEF IInv

\* Every event with a dedup row is counted in one alarm, and alarms count
\* nothing else.
THEOREM EachCountedOnce == Spec => []CountedOnce
BY Invariance, PTL DEF IInv, TablesInv

\* No two alarms that are not closed share a fingerprint.
THEOREM OneOpen == Spec => []OneOpenPerFingerprint
BY Invariance, PTL DEF IInv, TablesInv

\* Nothing below a committed offset is lost unseen.
THEOREM NothingLost == Spec => []NothingPassed
BY Invariance, PTL DEF IInv

\* The attributes and the last time of an alarm are those of the newest event
\* counted in it, in whatever order the events arrive.
THEOREM NewestAttributes == Spec => []AttributesAreNewest
BY Invariance, PTL DEF IInv, TablesInv

\* No answer to an operator becomes false later.
THEOREM AnswersHold == Spec => []AnswersAreTrue
BY Invariance, PTL DEF IInv

LEMMA StatusStep ==
    ASSUME IInv, [Next]_vars, NEW a \in Events,
           alarms[a].status # "none", alarms'[a].status # alarms[a].status
    PROVE  \E c \in Clients : /\ request[c].step = "update" /\ request[c].alarm = a
                              /\ request[c].seen = alarms[a].count
<1>1. alarms' # alarms /\ alarms \in [Events -> Rows]
  BY DEF IInv, TypeOK
\* A consumer changes no status of a row that exists.
<1>2. ASSUME NEW s \in Sources, Consume(s)
      PROVE  FALSE
  <2>1. PICK e \in Events : IngestStatement(e)
    BY <1>1, <1>2 DEF Consume, Fetch, Skip, Ingest, Transient, GiveUp, Commit, tables
  <2>2. PICK b \in Events : /\ File(e, b) /\ e \notin dedup
                            /\ b \in MergesInto(e) \/ b = e
    BY <1>1, <2>1 DEF IngestStatement, Known, MergesInto
  <2>3. alarms' = [alarms EXCEPT ![b] =
                     IF b \in MergesInto(e) THEN Merged(alarms[b], e) ELSE Opened(e)]
    BY <2>2, Zenon DEF File
  <2>4. b = a
    BY <1>1, <2>3
  <2>5. CASE b \in MergesInto(e)
    <3>1. alarms'[a] = Merged(alarms[a], e)
      BY <1>1, <2>3, <2>4, <2>5
    <3> QED  BY <1>1, <3>1, MergedFields
  <2>6. CASE b = e
    BY <2>2, <2>4, <2>6 DEF IInv, TablesInv
  <2> QED  BY <2>2, <2>5, <2>6
<1>3. ASSUME NEW c \in Clients, Serve(c)
      PROVE  /\ request[c].step = "update" /\ request[c].alarm = a
             /\ request[c].seen = alarms[a].count
  <2>1. Update(c)
    BY <1>1, <1>3 DEF Serve, Look, UpdateNothing, Explain, tables
  <2>2. /\ request[c].step = "update"
        /\ Matches(alarms[request[c].alarm], request[c])
        /\ request[c].alarm = a
    BY <1>1, <2>1 DEF Update
  <2>3. Knows(request[c], alarms[a]) /\ request[c].version = alarms[a].version
    BY <2>2 DEF IInv, RequestInv, Matches
  <2> QED  BY <2>2, <2>3 DEF Knows
<1>4. ~Crash /\ ~UNCHANGED vars
  BY <1>1 DEF Crash, vars, tables
<1> QED  BY <1>2, <1>3, <1>4 DEF Next

\* Nobody acknowledges or closes an alarm without having seen all of it.
THEOREM SeenBeforeDecided == Spec => DecidedOnWhatWasSeen
<1>1. IInv /\ [Next]_vars =>
        [\A a \in Events :
           alarms[a].status # "none" /\ alarms'[a].status # alarms[a].status =>
             \E c \in Clients : /\ request[c].step = "update" /\ request[c].alarm = a
                                /\ request[c].seen = alarms[a].count]_vars
  BY StatusStep
<1> QED  BY <1>1, Invariance, PTL DEF Spec, DecidedOnWhatWasSeen
-----------------------------------------------------------------------------
(* vpp-telemetry, whose events vpp-alarm consumes.  What it publishes and   *)
(* what it has stored, for any handlers, metrics, records, gaps and numbers *)
(* of requests, with failures, crashes and snapshots that expire.           *)
-----------------------------------------------------------------------------
(* Telemetry: what Apply folds *)

\* A non-empty set of natural numbers has a least element.
LEMMA LeastElement ==
    ASSUME NEW T \in SUBSET Nat, T # {}
    PROVE  \E x \in T : \A y \in T : x <= y
<1> DEFINE R == OpToRel(<, Nat)
<1>1. IsWellFoundedOn(R, Nat)
  BY NatLessThanWellFounded
<1>2. \A x \in Nat, y \in Nat : y < x => <<y, x>> \in R
  BY DEF OpToRel
<1> HIDE DEF R
<1>3. PICK x \in T : \A y \in T : ~(<<y, x>> \in R)
  BY <1>1, WFMin
<1>4. ASSUME NEW y \in T PROVE x <= y
  <2>1. x \in Nat /\ y \in Nat
    OBVIOUS
  <2>2. ~(y < x)
    BY <1>2, <1>3, <2>1, Zenon
  <2>3. QED
    BY <2>1, <2>2
<1>5. QED
  BY <1>4

\* The samples at the places S, folded in the order of the sequence.
Start(found) == [state |-> found, events |-> <<>>]

FoldStep(g, found, record, S) ==
    IF S = {} THEN Start(found)
    ELSE Absorb(g[S \ {Max(S)}], record.metrics[Max(S)], record.at)

Folds(g, found, record) ==
    g = [S \in SUBSET DOMAIN record.metrics |-> FoldStep(g, found, record, S)]

Folded(found, record) == CHOOSE g : Folds(g, found, record)

LEMMA ApplyFolds ==
    ASSUME NEW found, NEW record
    PROVE  Apply(found, record) = Folded(found, record)[DOMAIN record.metrics]
BY DEF Apply, FoldLeft, MapThenFoldSet, Folded, Folds, FoldStep, Start

LEMMA FoldsStepwise ==
    ASSUME NEW g, NEW found, NEW record, Folds(g, found, record),
           NEW S \in SUBSET DOMAIN record.metrics
    PROVE  g[S] = FoldStep(g, found, record, S)
<1> DEFINE next(T) == FoldStep(g, found, record, T)
<1>1. g = [T \in SUBSET DOMAIN record.metrics |-> next(T)]
  BY DEF Folds
<1> HIDE DEF next
<1>2. g[S] = next(S)
  BY <1>1
<1>3. QED
  BY <1>2 DEF next

LEMMA LastPlace ==
    ASSUME NEW n \in Nat, NEW S \in SUBSET (1..n), S # {}
    PROVE  Max(S) \in S /\ \A x \in S : x <= Max(S)
<1> DEFINE T == {n - x : x \in S}
<1>1. T \in SUBSET Nat /\ T # {}
  <2>1. \A x \in S : n - x \in Nat
    <3>1. TAKE x \in S
    <3>2. x \in 1..n
      OBVIOUS
    <3>3. QED
      BY <3>2
  <2>2. QED
    BY <2>1
<1>2. PICK t \in T : \A y \in T : t <= y
  <2> HIDE DEF T
  <2>1. QED
    BY <1>1, LeastElement
<1>3. PICK m \in S : t = n - m
  OBVIOUS
<1>4. \A x \in S : m >= x
  <2>1. TAKE x \in S
  <2>2. n - m <= n - x /\ m \in Nat /\ x \in Nat
    BY <1>2, <1>3
  <2>3. QED
    BY <2>2
<1>5. Max(S) \in S /\ \A x \in S : Max(S) >= x
  BY <1>3, <1>4 DEF Max
<1>6. QED
  BY <1>5

LEMMA PlacesFinite ==
    ASSUME NEW n \in Nat
    PROVE  IsFiniteSet(1..n)
<1>1. 1 \in Int /\ n \in Int
  OBVIOUS
<1>2. QED
  BY <1>1, FS_Interval

LEMMA FoldExists ==
    ASSUME NEW found, NEW record, NEW n \in Nat, DOMAIN record.metrics = 1..n
    PROVE  Folds(Folded(found, record), found, record)
<1> DEFINE D == 1..n
           next(g, S) == FoldStep(g, found, record, S)
           Solves(g, k) == \A S \in SUBSET D : Cardinality(S) <= k => g[S] = next(g, S)
           fails == {k \in Nat : ~\E g : Solves(g, k)}
<1>1. \A S \in SUBSET D : IsFiniteSet(S) /\ Cardinality(S) \in Nat
                         /\ Cardinality(S) <= Cardinality(D)
  <2>1. IsFiniteSet(D)
    BY PlacesFinite
  <2> HIDE DEF D
  <2>2. TAKE S \in SUBSET D
  <2>3. IsFiniteSet(S) /\ Cardinality(S) <= Cardinality(D)
    BY <2>1, FS_Subset
  <2>4. Cardinality(S) \in Nat
    BY <2>3, FS_CardinalityType
  <2>5. QED
    BY <2>3, <2>4
<1>2. ASSUME NEW S \in SUBSET D, S # {}
      PROVE  /\ Max(S) \in S /\ S \ {Max(S)} \in SUBSET D
             /\ Cardinality(S \ {Max(S)}) = Cardinality(S) - 1
  <2>1. Max(S) \in S
    BY <1>2, LastPlace
  <2>2. QED
    BY <1>1, <2>1, FS_RemoveElement
<1>3. fails = {}
  <2>1. SUFFICES ASSUME fails # {} PROVE FALSE
    OBVIOUS
  <2>2. PICK k \in fails : \A m \in fails : k <= m
    <3>1. fails \in SUBSET Nat
      OBVIOUS
    <3> HIDE DEF fails
    <3>2. QED
      BY <2>1, <3>1, LeastElement
  <2>3. k \in Nat /\ ~\E g : Solves(g, k)
    OBVIOUS
  <2>4. CASE k = 0
    <3> DEFINE g == [S \in SUBSET D |-> Start(found)]
    <3>1. ASSUME NEW S \in SUBSET D, Cardinality(S) <= 0 PROVE g[S] = next(g, S)
      <4>1. S = {}
        BY <1>1, <3>1, FS_EmptySet
      <4>2. QED
        BY <4>1 DEF FoldStep
    <3> HIDE DEF g
    <3>2. Solves(g, 0)
      BY <3>1
    <3>3. QED
      BY <2>3, <2>4, <3>2
  <2>5. CASE k # 0
    <3>1. k - 1 \in Nat /\ ~(k <= k - 1)
      BY <2>3, <2>5
    <3>2. k - 1 \notin fails
      <4> HIDE DEF fails
      <4>1. QED
        BY <2>2, <3>1
    <3>3. PICK h : Solves(h, k - 1)
      BY <3>1, <3>2
    <3> DEFINE g == [S \in SUBSET D |-> IF Cardinality(S) <= k - 1 THEN h[S] ELSE next(h, S)]
    <3>4. ASSUME NEW S \in SUBSET D, Cardinality(S) <= k PROVE g[S] = next(g, S)
      <4>1. g[S] = next(h, S)
        BY <3>3
      <4>2. CASE S = {}
        BY <4>1, <4>2 DEF FoldStep
      <4>3. CASE S # {}
        <5>1. S \ {Max(S)} \in SUBSET D /\ Cardinality(S \ {Max(S)}) <= k - 1
          <6>1. /\ S \ {Max(S)} \in SUBSET D
                /\ Cardinality(S \ {Max(S)}) = Cardinality(S) - 1
            BY <1>2, <4>3
          <6>2. Cardinality(S) \in Nat /\ Cardinality(S) <= k
            BY <1>1, <3>4
          <6>3. QED
            BY <2>3, <6>1, <6>2
        <5>2. g[S \ {Max(S)}] = h[S \ {Max(S)}]
          BY <5>1
        <5> HIDE DEF g
        <5>3. QED
          BY <4>1, <4>3, <5>2 DEF FoldStep
      <4>4. QED
        BY <4>2, <4>3
    <3> HIDE DEF g
    <3>5. Solves(g, k)
      BY <3>4
    <3>6. QED
      BY <2>3, <3>5
  <2>6. QED
    BY <2>4, <2>5
<1>4. Cardinality(D) \in Nat /\ Cardinality(D) \notin fails
  BY <1>1, <1>3
<1>5. PICK h : Solves(h, Cardinality(D))
  BY <1>4
<1> DEFINE g == [S \in SUBSET D |-> h[S]]
<1>6. ASSUME NEW S \in SUBSET D PROVE h[S] = next(g, S)
  <2>1. h[S] = next(h, S)
    BY <1>1, <1>5
  <2>2. S # {} => g[S \ {Max(S)}] = h[S \ {Max(S)}]
    BY <1>2
  <2> HIDE DEF g
  <2>3. QED
    BY <2>1, <2>2 DEF FoldStep
<1>7. g = [S \in SUBSET D |-> next(g, S)]
  BY <1>6
<1> HIDE DEF g
<1>8. Folds(g, found, record)
  BY <1>7 DEF Folds
<1>9. QED
  BY <1>8 DEF Folded

\* Whatever holds at the start and is kept by every sample holds of the result.
LEMMA ApplyKeeps ==
    ASSUME NEW found, NEW record, NEW n \in Nat, DOMAIN record.metrics = 1..n,
           NEW P, Start(found) \in P,
           \A i \in 1..n, result \in P : Absorb(result, record.metrics[i], record.at) \in P
    PROVE  Apply(found, record) \in P
<1> DEFINE g == Folded(found, record)
           fails == {k \in Nat : k <= n /\ g[1..k] \notin P}
<1>1. ASSUME NEW k \in Nat, k <= n PROVE g[1..k] = FoldStep(g, found, record, 1..k)
  <2>1. Folds(g, found, record)
    BY FoldExists
  <2>2. 1..k \in SUBSET DOMAIN record.metrics
    BY <1>1
  <2> HIDE DEF g
  <2>3. QED
    BY <2>1, <2>2, FoldsStepwise
<1> HIDE DEF g
<1>2. fails = {}
  <2>1. SUFFICES ASSUME fails # {} PROVE FALSE
    OBVIOUS
  <2>2. PICK k \in fails : \A m \in fails : k <= m
    <3>1. fails \in SUBSET Nat
      OBVIOUS
    <3> HIDE DEF fails
    <3>2. QED
      BY <2>1, <3>1, LeastElement
  <2>3. k \in Nat /\ k <= n /\ g[1..k] \notin P
    OBVIOUS
  <2>4. CASE k = 0
    <3>1. 1..k = {}
      BY <2>4
    <3>2. QED
      BY <1>1, <2>3, <3>1 DEF FoldStep
  <2>5. CASE k # 0
    <3>1. k - 1 \in Nat /\ ~(k <= k - 1) /\ k - 1 <= n /\ k \in 1..n
      BY <2>3, <2>5
    <3>2. k - 1 \notin fails
      <4> HIDE DEF fails
      <4>1. QED
        BY <2>2, <3>1
    <3>3. g[1..(k - 1)] \in P
      BY <3>1, <3>2
    <3>4. Max(1..k) = k
      <4>1. k \in 1..k
        BY <3>1
      <4>2. Max(1..k) \in 1..k /\ k <= Max(1..k)
        BY <2>3, <4>1, LastPlace
      <4>3. QED
        BY <2>3, <4>2
    <3>5. (1..k) \ {k} = 1..(k - 1) /\ 1..k # {}
      <4>1. k \in 1..k
        BY <3>1
      <4>2. \A x \in Int : x \in 1..k /\ x # k <=> x \in 1..(k - 1)
        BY <2>3
      <4>3. \A x : x \in 1..k \/ x \in 1..(k - 1) => x \in Int
        OBVIOUS
      <4>4. QED
        BY <4>1, <4>2, <4>3
    <3>6. g[1..k] = Absorb(g[1..(k - 1)], record.metrics[k], record.at)
      BY <1>1, <2>3, <3>4, <3>5 DEF FoldStep
    <3>7. QED
      BY <2>3, <3>1, <3>3, <3>6
  <2>6. QED
    BY <2>4, <2>5
<1>3. g[1..n] \in P
  BY <1>2
<1>4. QED
  BY <1>3, ApplyFolds DEF g
-----------------------------------------------------------------------------
(* The events of one sample *)

Renewed(s, t) == [at |-> t, value |-> s.value, quality |-> s.quality]

\* Who saw l as the last event of m knows the state y.
Told(l, m, y) ==
    \/ l = NoEvent /\ y.quality \in {"none", "GOOD"}
    \/ Tells(l, m, y)

\* What the events of sample s are about, when prev was the state before.
StaleEvent(s, prev) == Event(s, "stale", prev.quality, prev.value, prev.at)
FaultEvent(s, t) == Event(s, FaultKind(s.quality), s.quality, s.value, t)
GoodEvent(s, kind, t) == Event(s, kind, "GOOD", s.value, t)

LEMMA StateParts ==
    ASSUME NEW prev \in States
    PROVE  \/ prev = NoState /\ prev.quality = "none"
           \/ prev.at \in Nat /\ prev.value \in Values /\ prev.quality \in Qualities
BY DEF States, NoState

LEMMA EventParts ==
    ASSUME NEW s \in Samples, NEW kind \in Kinds, NEW q \in Qualities,
           NEW v \in Values, NEW t \in Nat
    PROVE  LET e == Event(s, kind, q, v, t)
           IN  /\ e \in SOEEvents /\ e.metric = s.metric /\ e.quality = q /\ e.value = v
               /\ e.at = t
BY DEF Event, SOEEvents, Samples

\* Few events come of one sample: none, one, or the gap and one more.
Shape(tr, s, prev, t) ==
    \E first, then \in Seq(SOEEvents) :
      /\ tr = first \o then
      /\ first = IF WentStale(prev, t) THEN <<StaleEvent(s, prev)>> ELSE <<>>
      /\ \/ /\ then = <<>>
            /\ s.quality = "GOOD" => ~Recovered(prev, t)
            /\ s.quality # "GOOD" => prev.quality = s.quality
            /\ s.metric \in DiscreteMetrics /\ s.quality = "GOOD"
                  /\ prev.quality = "GOOD" /\ ~WentStale(prev, t) =>
                 prev.value = s.value
         \/ then = <<FaultEvent(s, t)>> /\ s.quality # "GOOD"
         \/ \E kind \in Kinds : then = <<GoodEvent(s, kind, t)>> /\ s.quality = "GOOD"

LEMMA TransitionShape ==
    ASSUME NEW s \in Samples, NEW prev \in States, NEW t \in Nat
    PROVE  Shape(Transition(s, prev, t), s, prev, t)
<1>1. /\ s.metric \in Metrics /\ s.value \in Values /\ s.quality \in Qualities
  BY DEF Samples, Qualities
<1>2. WentStale(prev, t) =>
        prev.at \in Nat /\ prev.value \in Values /\ prev.quality \in Qualities
  BY StateParts DEF WentStale, Exists
<1> DEFINE A == StaleEvents(s, prev, t)
           B == FaultEvents(s, prev, t)
           C == RecoveryEvents(s, prev, t)
           D == ChangeEvents(s, prev, t)
<1>3. A = IF WentStale(prev, t) THEN <<StaleEvent(s, prev)>> ELSE <<>>
  BY DEF StaleEvents, StaleEvent
<1>4. B = IF s.quality # "GOOD" /\ prev.quality # s.quality THEN <<FaultEvent(s, t)>> ELSE <<>>
  BY DEF FaultEvents, FaultEvent
<1>5. C = IF s.quality = "GOOD" /\ Recovered(prev, t)
          THEN <<GoodEvent(s, "recovery", t)>> ELSE <<>>
  BY DEF RecoveryEvents, GoodEvent
<1>6. D = IF /\ s.metric \in DiscreteMetrics /\ s.quality = "GOOD" /\ prev.quality = "GOOD"
             /\ prev.value # s.value /\ ~WentStale(prev, t)
          THEN <<GoodEvent(s, "discrete_change", t)>> ELSE <<>>
  BY DEF ChangeEvents, GoodEvent
<1>7. WentStale(prev, t) => StaleEvent(s, prev) \in SOEEvents
  BY <1>2, EventParts DEF StaleEvent, Kinds
<1>8. FaultEvent(s, t) \in SOEEvents
  BY <1>1, EventParts DEF FaultEvent, FaultKind, Kinds
<1>9. \A kind \in Kinds : GoodEvent(s, kind, t) \in SOEEvents
  BY <1>1, EventParts DEF GoodEvent, Qualities
<1>10. "recovery" \in Kinds /\ "discrete_change" \in Kinds
  BY DEF Kinds
<1>11. /\ <<>> \in Seq(SOEEvents)
       /\ \A e \in SOEEvents : <<e>> \in Seq(SOEEvents)
  OBVIOUS
<1>12. Transition(s, prev, t) = ((A \o B) \o C) \o D
  BY DEF Transition
<1> HIDE DEF A, B, C, D
<1>13. /\ A \in Seq(SOEEvents) /\ B \in Seq(SOEEvents)
       /\ C \in Seq(SOEEvents) /\ D \in Seq(SOEEvents)
  BY <1>3, <1>4, <1>5, <1>6, <1>7, <1>8, <1>9, <1>10, <1>11
<1>14. C # <<>> => B = <<>> /\ D = <<>>
  BY <1>4, <1>5, <1>6 DEF Recovered
<1>15. D # <<>> => B = <<>> /\ C = <<>>
  BY <1>4, <1>5, <1>6 DEF Recovered
<1>16. CASE C # <<>>
  <2>1. Transition(s, prev, t) = A \o C
    BY <1>12, <1>13, <1>14, <1>16, ConcatEmptySeq, ConcatProperties
  <2>2. C = <<GoodEvent(s, "recovery", t)>> /\ s.quality = "GOOD"
    BY <1>5, <1>16
  <2>3. QED
    BY <1>3, <1>10, <1>13, <2>1, <2>2 DEF Shape
<1>17. CASE D # <<>>
  <2>1. Transition(s, prev, t) = A \o D
    BY <1>12, <1>13, <1>15, <1>17, ConcatEmptySeq, ConcatProperties
  <2>2. D = <<GoodEvent(s, "discrete_change", t)>> /\ s.quality = "GOOD"
    BY <1>6, <1>17
  <2>3. QED
    BY <1>3, <1>10, <1>13, <2>1, <2>2 DEF Shape
<1>18. CASE C = <<>> /\ D = <<>>
  <2>1. Transition(s, prev, t) = A \o B
    BY <1>12, <1>13, <1>18, ConcatEmptySeq, ConcatProperties
  <2>2. CASE B # <<>>
    <3>1. B = <<FaultEvent(s, t)>> /\ s.quality # "GOOD"
      BY <1>4, <2>2
    <3>2. QED
      BY <1>3, <1>13, <2>1, <3>1 DEF Shape
  <2>3. CASE B = <<>>
    <3>1. s.quality # "GOOD" => prev.quality = s.quality
      BY <1>4, <2>3
    <3>2. s.quality = "GOOD" => ~Recovered(prev, t)
      BY <1>5, <1>18
    <3>3. s.metric \in DiscreteMetrics /\ s.quality = "GOOD"
             /\ prev.quality = "GOOD" /\ ~WentStale(prev, t) => prev.value = s.value
      BY <1>6, <1>18
    <3>4. QED
      BY <1>3, <1>13, <2>1, <2>3, <3>1, <3>2, <3>3 DEF Shape
  <2>4. QED
    BY <2>2, <2>3
<1>19. QED
  BY <1>16, <1>17, <1>18

\* All of a sample's events are about its metric, the last one tells its new
\* state, and a sample without events leaves what was told true.  They say
\* nothing good that is not in rows.
SampleTells(tr, s, prev, t, rows) ==
    /\ tr \in Seq(SOEEvents)
    /\ \A i \in 1..Len(tr) : tr[i].metric = s.metric
    /\ tr # <<>> => Tells(tr[Len(tr)], s.metric, Renewed(s, t))
    /\ tr = <<>> => \A l \in {NoEvent} \cup SOEEvents :
         Told(l, s.metric, prev) => Told(l, s.metric, Renewed(s, t))
    /\ Backed(prev, s.metric, rows) /\ Backed(Renewed(s, t), s.metric, rows) =>
         \A i \in 1..Len(tr) : Backed(tr[i], tr[i].metric, rows)

LEMMA TransitionTells ==
    ASSUME NEW s \in Samples, NEW prev \in States, NEW t \in Nat, NEW rows
    PROVE  SampleTells(Transition(s, prev, t), s, prev, t, rows)
<1> DEFINE tr == Transition(s, prev, t)
           new == Renewed(s, t)
           m == s.metric
<1>1. s.metric \in Metrics /\ s.value \in Values /\ s.quality \in Qualities
  BY DEF Samples, Qualities
<1>2. WentStale(prev, t) =>
        prev.at \in Nat /\ prev.value \in Values /\ prev.quality \in Qualities
  BY StateParts DEF WentStale, Exists
<1>3. new.at = t /\ new.value = s.value /\ new.quality = s.quality
  BY DEF Renewed
<1>4. PICK first \in Seq(SOEEvents), then \in Seq(SOEEvents) :
        /\ tr = first \o then
        /\ first = IF WentStale(prev, t) THEN <<StaleEvent(s, prev)>> ELSE <<>>
        /\ \/ /\ then = <<>>
              /\ s.quality = "GOOD" => ~Recovered(prev, t)
              /\ s.quality # "GOOD" => prev.quality = s.quality
              /\ s.metric \in DiscreteMetrics /\ s.quality = "GOOD"
                    /\ prev.quality = "GOOD" /\ ~WentStale(prev, t) =>
                   prev.value = s.value
           \/ then = <<FaultEvent(s, t)>> /\ s.quality # "GOOD"
           \/ \E kind \in Kinds : then = <<GoodEvent(s, kind, t)>> /\ s.quality = "GOOD"
  <2>1. Shape(tr, s, prev, t)
    BY TransitionShape
  <2>2. QED
    BY <2>1 DEF Shape
<1>5. WentStale(prev, t) =>
        LET e == StaleEvent(s, prev)
        IN  e.metric = m /\ e.quality = prev.quality /\ e.value = prev.value /\ e.at = prev.at
  BY <1>2, EventParts DEF StaleEvent, Kinds
<1>6. s.quality # "GOOD" =>
        LET e == FaultEvent(s, t)
        IN  e.metric = m /\ e.quality = s.quality
  BY <1>1, EventParts DEF FaultEvent, FaultKind, Kinds
<1>7. \A kind \in Kinds :
        LET e == GoodEvent(s, kind, t)
        IN  e.metric = m /\ e.quality = "GOOD" /\ e.value = s.value /\ e.at = t
  BY <1>1, EventParts DEF GoodEvent, Qualities
<1> HIDE DEF tr, new, m
<1>8. /\ \A i \in 1..Len(first) : /\ first[i].metric = m
                                  /\ Backed(prev, m, rows) => Backed(first[i], m, rows)
      /\ Len(first) \in {0, 1}
      /\ first # <<>> => WentStale(prev, t) /\ first[1].quality = prev.quality
      /\ first = <<>> => ~WentStale(prev, t)
  <2>1. CASE WentStale(prev, t)
    <3>1. first = <<StaleEvent(s, prev)>>
      BY <1>4, <2>1
    <3>2. Len(first) = 1 /\ first[1] = StaleEvent(s, prev) /\ first # <<>>
      BY <3>1
    <3>3. QED
      BY <1>5, <2>1, <3>2 DEF Backed
  <2>2. CASE ~WentStale(prev, t)
    <3>1. first = <<>>
      BY <1>4, <2>2
    <3>2. Len(first) = 0
      BY <3>1
    <3>3. QED
      BY <2>2, <3>1, <3>2
  <2>3. QED
    BY <2>1, <2>2
<1>9. ASSUME then = <<>> PROVE SampleTells(tr, s, prev, t, rows)
  <2>1. tr = first
    BY <1>4, <1>9, ConcatEmptySeq
  <2>2. s.quality = "GOOD" => ~Recovered(prev, t)
    BY <1>4, <1>9 DEF FaultEvent, GoodEvent
  <2>3. s.quality # "GOOD" => prev.quality = s.quality
    BY <1>4, <1>9
  <2>4. m \in DiscreteMetrics /\ s.quality = "GOOD" /\ prev.quality = "GOOD"
           /\ ~WentStale(prev, t) => prev.value = s.value
    BY <1>4, <1>9 DEF m
  <2>5. ASSUME tr # <<>> PROVE Tells(tr[Len(tr)], m, new)
    <3>1. WentStale(prev, t) /\ first[1].quality = prev.quality /\ Len(first) = 1
      BY <1>8, <2>1, <2>5
    <3>2. s.quality # "GOOD"
      BY <2>2, <3>1 DEF Recovered
    <3>3. QED
      BY <1>3, <2>1, <2>3, <3>1, <3>2 DEF Tells
  <2>6. ASSUME tr = <<>>, NEW l \in {NoEvent} \cup SOEEvents, Told(l, m, prev)
        PROVE  Told(l, m, new)
    <3>1. ~WentStale(prev, t)
      BY <1>8, <2>1, <2>6
    <3>2. CASE s.quality # "GOOD"
      <4>1. prev.quality = s.quality /\ s.quality \notin {"none", "GOOD"}
        BY <1>1, <2>3, <3>2 DEF Qualities
      <4>2. Tells(l, m, prev)
        BY <2>6, <4>1 DEF Told
      <4>3. QED
        BY <1>3, <3>2, <4>1, <4>2 DEF Tells, Told
    <3>3. CASE s.quality = "GOOD"
      <4>1. prev.quality \in {"none", "GOOD"}
        BY <2>2, <3>3, StateParts DEF Recovered, Qualities
      <4>2. CASE l = NoEvent
        BY <1>3, <3>3, <4>2 DEF Told
      <4>3. CASE l # NoEvent
        <5>1. l \in SOEEvents /\ Tells(l, m, prev)
          BY <2>6, <4>3 DEF Told
        <5>2. l.quality = prev.quality /\ l.quality \in Qualities
          BY <5>1 DEF Tells, SOEEvents
        <5>3. prev.quality = "GOOD"
          BY <4>1, <5>2 DEF Qualities
        <5>4. m \in DiscreteMetrics => l.value = s.value
          BY <2>4, <3>1, <3>3, <5>1, <5>3 DEF Tells
        <5>5. QED
          BY <1>3, <3>3, <5>2, <5>3, <5>4 DEF Told, Tells
      <4>4. QED
        BY <4>2, <4>3
    <3>4. QED
      BY <3>2, <3>3
  <2>7. \A i \in 1..Len(tr) :
           tr[i].metric = m /\ (Backed(prev, m, rows) => Backed(tr[i], m, rows))
    BY <1>8, <2>1
  <2>8. QED
    BY <1>4, <2>1, <2>5, <2>6, <2>7 DEF m, new, SampleTells
<1>10. ASSUME then # <<>> PROVE SampleTells(tr, s, prev, t, rows)
  <2>1. PICK e : /\ then = <<e>> /\ e.metric = m /\ Tells(e, m, new)
                 /\ Backed(new, m, rows) => Backed(e, m, rows)
    <3>1. CASE then = <<FaultEvent(s, t)>> /\ s.quality # "GOOD"
      BY <1>3, <1>6, <3>1 DEF Tells, Backed
    <3>2. ASSUME NEW kind \in Kinds, then = <<GoodEvent(s, kind, t)>>, s.quality = "GOOD"
          PROVE  \E e : /\ then = <<e>> /\ e.metric = m /\ Tells(e, m, new)
                        /\ Backed(new, m, rows) => Backed(e, m, rows)
      BY <1>3, <1>7, <3>2 DEF Tells, Backed
    <3>3. QED
      BY <1>4, <1>10, <3>1, <3>2
  <2>2. Len(then) = 1 /\ then[1] = e
    BY <2>1
  <2>3. tr \in Seq(SOEEvents) /\ Len(tr) = Len(first) + 1 /\ Len(tr) \in 1..2
    <3>1. tr \in Seq(SOEEvents) /\ Len(tr) = Len(first) + Len(then)
      BY <1>4, ConcatProperties
    <3>2. QED
      BY <1>8, <2>2, <3>1
  <2>4. \A i \in 1..Len(tr) : tr[i] = IF i <= Len(first) THEN first[i] ELSE then[i - Len(first)]
    BY <1>4, <2>2, <2>3, ConcatProperties
  <2>5. ASSUME NEW i \in 1..Len(tr)
        PROVE  (i \in 1..Len(first) /\ tr[i] = first[i]) \/ (i = Len(tr) /\ tr[i] = e)
    <3>1. i \in Nat /\ i >= 1 /\ i <= Len(first) + 1 /\ Len(first) \in Nat
      BY <1>8, <2>3
    <3>2. CASE i <= Len(first)
      BY <2>4, <3>1, <3>2
    <3>3. CASE ~(i <= Len(first))
      <4>1. i = Len(first) + 1 /\ i - Len(first) = 1
        BY <3>1, <3>3
      <4>2. QED
        BY <2>2, <2>3, <2>4, <3>3, <4>1
    <3>4. QED
      BY <3>2, <3>3
  <2>6. tr[Len(tr)] = e /\ tr # <<>>
    <3>1. Len(tr) \in 1..Len(tr) /\ ~(Len(tr) <= Len(first))
      BY <1>8, <2>3
    <3>2. tr[Len(tr)] = e
      BY <2>5, <3>1
    <3>3. tr # <<>>
      BY <2>3, EmptySeq
    <3>4. QED
      BY <3>2, <3>3
  <2>7. \A i \in 1..Len(tr) : tr[i].metric = m
    BY <1>8, <2>1, <2>5
  <2>8. Backed(prev, m, rows) /\ Backed(new, m, rows) =>
          \A i \in 1..Len(tr) : Backed(tr[i], tr[i].metric, rows)
    BY <1>8, <2>1, <2>5, <2>7
  <2>9. QED
    BY <2>1, <2>3, <2>6, <2>7, <2>8 DEF m, new, SampleTells
<1>11. QED
  BY <1>9, <1>10 DEF tr
-----------------------------------------------------------------------------
(* The events of a record *)

Outcomes == [state : [Metrics -> States], events : Seq(SOEEvents)]

About(events, m) == \E i \in 1..Len(events) : events[i].metric = m

AllBacked(state, events, rows) ==
    /\ \A m \in Metrics : Backed(state[m], m, rows)
    /\ \A i \in 1..Len(events) : Backed(events[i], events[i].metric, rows)

\* What is so after any number of samples: events are about what the record
\* reports, nothing else changes, the events tell the state, and without an
\* event of a metric what was told of it stays true.
StillTold(found, state, m) ==
    \A l \in {NoEvent} \cup SOEEvents :
      Told(l, m, found[m]) => Told(l, m, state[m])

Faithful(state, events, found, reported, rows) ==
    /\ \A m \in Metrics : About(events, m) => m \in reported
    /\ \A m \in Metrics \ reported : state[m] = found[m]
    /\ LastTells(events, state)
    /\ \A m \in Metrics : ~About(events, m) => StillTold(found, state, m)
    /\ AllBacked(found, <<>>, rows) => AllBacked(state, events, rows)

LEMMA EventMetric ==
    ASSUME NEW events \in Seq(SOEEvents), NEW i \in 1..Len(events)
    PROVE  events[i] \in SOEEvents /\ events[i].metric \in Metrics
<1>1. events[i] \in SOEEvents
  BY ElementOfSeq
<1>2. QED
  BY <1>1 DEF SOEEvents

LEMMA StartFaithful ==
    ASSUME NEW found \in [Metrics -> States], NEW reported, NEW rows
    PROVE  Faithful(found, <<>>, found, reported, rows)
<1>1. Len(<<>>) = 0 /\ DOMAIN <<>> = 1..0
  OBVIOUS
<1>2. LastTells(<<>>, found)
  BY <1>1 DEF LastTells
<1>3. QED
  BY <1>1, <1>2 DEF Faithful, About, StillTold

\* One more sample keeps what is so.
Followed(newState, newEvents, found, reported, rows) ==
    /\ newState \in [Metrics -> States]
    /\ newEvents \in Seq(SOEEvents)
    /\ Faithful(newState, newEvents, found, reported, rows)

LEMMA SampleFaithful ==
    ASSUME NEW found \in [Metrics -> States], NEW reported, NEW rows,
           NEW state, NEW events, Followed(state, events, found, reported, rows),
           NEW s \in Samples, NEW t \in Nat, s.metric \in reported,
           s.quality = "GOOD" => [metric |-> s.metric, at |-> t] \in rows
    PROVE  Followed([state EXCEPT ![s.metric] = Renewed(s, t)],
                    events \o Transition(s, state[s.metric], t), found, reported, rows)
<1> DEFINE m == s.metric
           new == Renewed(s, t)
           tr == Transition(s, state[m], t)
           newState == [state EXCEPT ![m] = new]
           newEvents == events \o tr
<1>0. /\ state \in [Metrics -> States] /\ events \in Seq(SOEEvents)
      /\ Faithful(state, events, found, reported, rows)
  BY DEF Followed
<1>1. m \in Metrics /\ s.value \in Values /\ s.quality \in Qualities
  BY DEF Samples, Qualities
<1>2. new \in States /\ new.at = t /\ new.quality = s.quality
  BY <1>1 DEF Renewed, States
<1>3. state[m] \in States
  BY <1>0, <1>1
<1>4. /\ tr \in Seq(SOEEvents)
      /\ \A i \in 1..Len(tr) : tr[i].metric = m
      /\ tr # <<>> => Tells(tr[Len(tr)], m, new)
      /\ tr = <<>> => \A l \in {NoEvent} \cup SOEEvents :
           Told(l, m, state[m]) => Told(l, m, new)
      /\ Backed(state[m], m, rows) /\ Backed(new, m, rows) =>
           \A i \in 1..Len(tr) : Backed(tr[i], tr[i].metric, rows)
  <2>1. SampleTells(tr, s, state[m], t, rows)
    BY <1>3, TransitionTells
  <2>2. QED
    BY <2>1 DEF SampleTells
<1>5. Backed(new, m, rows)
  BY <1>2 DEF Backed
<1>6. m \in reported
  OBVIOUS
<1> HIDE DEF m, new, tr
<1>7. /\ newState \in [Metrics -> States] /\ newState[m] = new
      /\ \A x \in Metrics : x # m => newState[x] = state[x]
  BY <1>0, <1>1, <1>2 DEF m
<1> HIDE DEF newState
<1>8. /\ newEvents \in Seq(SOEEvents) /\ Len(newEvents) = Len(events) + Len(tr)
      /\ Len(events) \in Nat /\ Len(tr) \in Nat /\ Len(newEvents) \in Nat
  BY <1>0, <1>4, ConcatProperties, LenProperties
<1>9. \A i \in 1..Len(newEvents) :
         newEvents[i] = IF i <= Len(events) THEN events[i] ELSE tr[i - Len(events)]
  BY <1>0, <1>4, <1>8, ConcatProperties
<1>10. \A i \in 1..Len(events) : i \in 1..Len(newEvents) /\ newEvents[i] = events[i]
  BY <1>8, <1>9
<1>11. \A i \in 1..Len(tr) :
          i + Len(events) \in 1..Len(newEvents) /\ newEvents[i + Len(events)] = tr[i]
  <2>1. TAKE i \in 1..Len(tr)
  <2>2. i + Len(events) \in 1..Len(newEvents) /\ ~(i + Len(events) <= Len(events))
        /\ (i + Len(events)) - Len(events) = i
    BY <1>8
  <2>3. QED
    BY <1>9, <2>2
<1>12. ASSUME NEW i \in 1..Len(newEvents)
       PROVE  \/ i \in 1..Len(events) /\ newEvents[i] = events[i]
              \/ \E k \in 1..Len(tr) : i = k + Len(events) /\ newEvents[i] = tr[k]
  <2>1. CASE i <= Len(events)
    BY <1>8, <1>9, <2>1
  <2>2. CASE ~(i <= Len(events))
    <3>1. i - Len(events) \in 1..Len(tr) /\ i = (i - Len(events)) + Len(events)
      BY <1>8, <2>2
    <3>2. newEvents[i] = tr[i - Len(events)]
      BY <1>9, <2>2
    <3>3. QED
      BY <3>1, <3>2
  <2>3. QED
    BY <2>1, <2>2
<1>13. ASSUME NEW x \in Metrics, About(newEvents, x) PROVE x \in reported
  <2>1. PICK i \in 1..Len(newEvents) : newEvents[i].metric = x
    BY <1>13 DEF About
  <2>2. CASE i \in 1..Len(events) /\ newEvents[i] = events[i]
    BY <1>0, <2>1, <2>2 DEF Faithful, About
  <2>3. ASSUME NEW k \in 1..Len(tr), newEvents[i] = tr[k] PROVE x \in reported
    BY <1>4, <1>6, <2>1, <2>3
  <2>4. QED
    BY <1>12, <2>2, <2>3
<1>14. \A x \in Metrics \ reported : newState[x] = found[x]
  BY <1>0, <1>6, <1>7 DEF Faithful
<1>15. tr = <<>> => newEvents = events
  BY <1>0, <1>4, ConcatEmptySeq
<1> HIDE DEF newEvents
<1>16. tr # <<>> => Len(tr) \in 1..Len(tr)
  BY <1>4, <1>8, EmptySeq
<1>17. LastTells(newEvents, newState)
  <2>1. DOMAIN newEvents = 1..Len(newEvents) /\ DOMAIN events = 1..Len(events)
    BY <1>0, <1>8, LenProperties
  <2>2. SUFFICES ASSUME NEW i \in 1..Len(newEvents),
                        \A j \in 1..Len(newEvents) :
                          j > i => newEvents[j].metric # newEvents[i].metric
                 PROVE  Tells(newEvents[i], newEvents[i].metric,
                              newState[newEvents[i].metric])
    BY <2>1 DEF LastTells
  <2>3. CASE i \in 1..Len(events) /\ newEvents[i] = events[i]
    <3> DEFINE x == events[i].metric
    <3>1. events[i] \in SOEEvents /\ x \in Metrics
      BY <1>0, <2>3, EventMetric
    <3>2. \A j \in 1..Len(events) : j > i => events[j].metric # x
      BY <1>10, <2>2, <2>3
    <3>3. Tells(events[i], x, state[x])
      BY <1>0, <2>1, <2>3, <3>2 DEF Faithful, LastTells
    <3> HIDE DEF x
    <3>4. CASE x # m
      <4>1. Tells(newEvents[i], x, newState[x])
        BY <1>7, <2>3, <3>1, <3>3, <3>4
      <4>2. QED
        BY <2>3, <4>1 DEF x
    <3>5. CASE x = m
      <4>1. tr = <<>>
        <5>1. SUFFICES ASSUME tr # <<>> PROVE FALSE
          OBVIOUS
        <5>2. /\ Len(tr) \in 1..Len(tr) /\ Len(tr) + Len(events) \in 1..Len(newEvents)
              /\ newEvents[Len(tr) + Len(events)].metric = m
          BY <1>4, <1>11, <1>16, <5>1
        <5>3. Len(tr) + Len(events) > i
          BY <1>8, <2>3, <5>2
        <5>4. newEvents[i].metric = m
          BY <2>3, <3>5 DEF x
        <5>5. QED
          BY <2>2, <5>2, <5>3, <5>4
      <4>2. Told(events[i], m, new)
        BY <1>4, <3>1, <3>3, <3>5, <4>1 DEF Told
      <4>3. events[i] # NoEvent
        BY <3>1 DEF SOEEvents, NoEvent, Qualities
      <4>4. Tells(newEvents[i], m, newState[m])
        BY <1>7, <2>3, <4>2, <4>3 DEF Told
      <4>5. QED
        BY <2>3, <3>5, <4>4 DEF x
    <3>6. QED
      BY <3>4, <3>5
  <2>4. ASSUME NEW k \in 1..Len(tr), i = k + Len(events), newEvents[i] = tr[k]
        PROVE  Tells(newEvents[i], newEvents[i].metric, newState[newEvents[i].metric])
    <3>1. newEvents[i].metric = m
      BY <1>4, <2>4
    <3>2. k = Len(tr)
      <4>1. SUFFICES ASSUME k # Len(tr) PROVE FALSE
        OBVIOUS
      <4>2. k + 1 \in 1..Len(tr) /\ (k + 1) + Len(events) > i
        BY <1>8, <2>4, <4>1
      <4>3. /\ (k + 1) + Len(events) \in 1..Len(newEvents)
            /\ newEvents[(k + 1) + Len(events)] = tr[k + 1]
        BY <1>11, <4>2
      <4>4. newEvents[(k + 1) + Len(events)].metric = m
        BY <1>4, <4>2, <4>3
      <4>5. QED
        BY <2>2, <3>1, <4>2, <4>3, <4>4
    <3>3. tr # <<>>
      BY <1>8, <2>4, EmptySeq
    <3>4. Tells(tr[k], m, newState[m])
      BY <1>4, <1>7, <3>2, <3>3
    <3>5. QED
      BY <2>4, <3>1, <3>4
  <2>5. QED
    BY <1>12, <2>3, <2>4
<1>18. ASSUME NEW x \in Metrics, ~About(newEvents, x) PROVE StillTold(found, newState, x)
  <2>1. ~About(events, x)
    BY <1>10, <1>18 DEF About
  <2>2. StillTold(found, state, x)
    BY <1>0, <2>1 DEF Faithful
  <2>3. CASE x # m
    BY <1>7, <2>2, <2>3 DEF StillTold
  <2>4. CASE x = m
    <3>1. tr = <<>>
      BY <1>4, <1>11, <1>16, <1>18, <2>4 DEF About
    <3>2. QED
      BY <1>4, <1>7, <2>2, <2>4, <3>1 DEF StillTold
  <2>5. QED
    BY <2>3, <2>4
<1>19. ASSUME AllBacked(found, <<>>, rows) PROVE AllBacked(newState, newEvents, rows)
  <2>1. AllBacked(state, events, rows)
    BY <1>0, <1>19 DEF Faithful
  <2>2. \A x \in Metrics : Backed(newState[x], x, rows)
    BY <1>5, <1>7, <2>1 DEF AllBacked
  <2>3. Backed(state[m], m, rows)
    BY <1>1, <2>1 DEF AllBacked
  <2>4. \A i \in 1..Len(newEvents) : Backed(newEvents[i], newEvents[i].metric, rows)
    BY <1>4, <1>5, <1>12, <2>1, <2>3 DEF AllBacked
  <2>5. QED
    BY <2>2, <2>4 DEF AllBacked
<1>20. Faithful(newState, newEvents, found, reported, rows)
  BY <1>13, <1>14, <1>17, <1>18, <1>19 DEF Faithful
<1>21. QED
  BY <1>7, <1>8, <1>20 DEF Followed, newState, newEvents, new, tr, m

\* What Handle finds and tells of a record whose rows are stored.
LEMMA ApplyFaithful ==
    ASSUME NEW found \in [Metrics -> States], NEW record, record.at \in Nat,
           record.metrics \in Seq(Samples), NEW rows, InsertRows(record) \subseteq rows
    PROVE  /\ Apply(found, record) \in Outcomes
           /\ Faithful(Apply(found, record).state, Apply(found, record).events,
                       found, Reported(record), rows)
<1> DEFINE n == Len(record.metrics)
           P == {result \in Outcomes :
                   Followed(result.state, result.events, found, Reported(record), rows)}
<1>1. /\ n \in Nat /\ DOMAIN record.metrics = 1..n
      /\ \A i \in 1..n : record.metrics[i] \in Samples
  BY LenProperties, ElementOfSeq
<1>2. Start(found) \in P
  <2>1. Start(found).state = found /\ Start(found).events = <<>> /\ Start(found) \in Outcomes
    BY DEF Start, Outcomes
  <2>2. Followed(found, <<>>, found, Reported(record), rows)
    BY StartFaithful DEF Followed
  <2>3. Followed(Start(found).state, Start(found).events, found, Reported(record), rows)
    BY <2>1, <2>2
  <2>4. QED
    BY <2>1, <2>3
<1>3. ASSUME NEW i \in 1..n, NEW result \in P
      PROVE  Absorb(result, record.metrics[i], record.at) \in P
  <2> DEFINE s == record.metrics[i]
             t == record.at
             next == Absorb(result, s, t)
  <2>1. s \in Samples /\ t \in Nat
    BY <1>1
  <2>2. s.metric \in Reported(record)
    BY <1>1 DEF Reported
  <2>3. s.quality = "GOOD" => [metric |-> s.metric, at |-> t] \in rows
    <3>1. s \in ToSet(record.metrics)
      BY <1>1 DEF ToSet
    <3>2. QED
      BY <3>1 DEF InsertRows
  <2>4. Followed(result.state, result.events, found, Reported(record), rows)
    OBVIOUS
  <2>5. next = [state |-> [result.state EXCEPT ![s.metric] = Renewed(s, t)],
                events |-> result.events \o Transition(s, result.state[s.metric], t)]
    BY DEF Absorb, Renewed
  <2> HIDE DEF s, t, next
  <2> DEFINE st == [result.state EXCEPT ![s.metric] = Renewed(s, t)]
             ev == result.events \o Transition(s, result.state[s.metric], t)
  <2>6. Followed(st, ev, found, Reported(record), rows)
    BY <2>1, <2>2, <2>3, <2>4, SampleFaithful
  <2>7. next.state = st /\ next.events = ev /\ next \in Outcomes
    BY <2>5, <2>6 DEF Outcomes, Followed
  <2> HIDE DEF st, ev
  <2>8. next \in P
    BY <2>6, <2>7
  <2>9. QED
    BY <2>8 DEF next, s, t
<1>4. Apply(found, record) \in P
  <2> HIDE DEF P
  <2>1. QED
    BY <1>1, <1>2, <1>3, ApplyKeeps
<1>5. QED
  BY <1>4 DEF Followed
\* Snapshot.Apply, for a record with any number of samples applied to any
\* snapshot: its last event of each metric tells the new state, a metric without
\* an event is as it was told to be before, and what the record does not report
\* is left alone.
THEOREM ApplyTells ==
    ASSUME NEW record \in Records, NEW found \in [Metrics -> States]
    PROVE  LET result == Apply(found, record)
           IN  /\ LastTells(result.events, result.state)
               /\ \A m \in Metrics :
                    ~About(result.events, m) => StillTold(found, result.state, m)
               /\ \A m \in Metrics \ Reported(record) : result.state[m] = found[m]
<1>1. record.at \in Nat /\ record.metrics \in Seq(Samples)
  BY TelemetryAssumption DEF Parameters
<1> DEFINE rows == InsertRows(record)
           result == Apply(found, record)
<1>2. Faithful(result.state, result.events, found, Reported(record), rows)
  BY <1>1, ApplyFaithful
<1> HIDE DEF rows, result
<1>3. /\ LastTells(result.events, result.state)
      /\ \A m \in Metrics : ~About(result.events, m) => StillTold(found, result.state, m)
      /\ \A m \in Metrics \ Reported(record) : result.state[m] = found[m]
  BY <1>2 DEF Faithful
<1>4. QED
  BY <1>3 DEF result
-----------------------------------------------------------------------------
(* One handler *)

\* What TelemetryIInv says of a handler that is at st with the work w, when the table
\* has rows.
Fine(st, w, rows) ==
    /\ st \in {"idle", "store", "find", "save", "publish"} /\ w \in Works
    /\ st \in {"find", "save", "publish"} => InsertRows(w.record) \subseteq rows
    /\ AllBacked(w.found, w.events, rows)
    /\ st \in {"idle", "store", "find"} => w.events = <<>>
    /\ st # "idle" => w.record \in Records
    /\ st = "save" => w.events = Apply(w.found, w.record).events
    /\ st \in {"save", "publish"} =>
         LastTells(w.events, Apply(w.found, w.record).state)
    /\ st = "publish" => w.events # <<>>
    /\ \A m \in Metrics : About(w.events, m) => m \in Reported(w.record)

LEMMA RecordParts ==
    ASSUME Parameters, NEW record \in {NoWork.record} \cup Records
    PROVE  record.at \in Nat /\ record.metrics \in Seq(Samples)
<1>1. CASE record \in Records
  BY <1>1 DEF Parameters
<1>2. CASE record = NoWork.record
  <2>1. record = [at |-> 0, metrics |-> <<>>]
    BY <1>2 DEF NoWork
  <2>2. record.at = 0 /\ record.metrics = <<>>
    BY <2>1
  <2>3. QED
    BY <2>2
<1>3. QED
  BY <1>1, <1>2

LEMMA RowsType ==
    ASSUME Parameters, NEW record \in {NoWork.record} \cup Records
    PROVE  InsertRows(record) \subseteq [metric : Metrics, at : Nat]
<1>1. record.at \in Nat /\ record.metrics \in Seq(Samples)
  BY RecordParts
<1>2. \A s \in ToSet(record.metrics) : s.metric \in Metrics
  <2>1. \A i \in DOMAIN record.metrics : record.metrics[i] \in Samples
    BY <1>1, ElementOfSeq, LenProperties
  <2>2. QED
    BY <2>1 DEF ToSet, Samples
<1>3. QED
  BY <1>1, <1>2 DEF InsertRows

LEMMA WorkParts ==
    ASSUME NEW w \in Works
    PROVE  /\ w.record \in {NoWork.record} \cup Records
           /\ w.found \in [Metrics -> States] /\ w.events \in Seq(SOEEvents)
BY DEF Works

LEMMA EmptySnapshotParts ==
    /\ EmptySnapshot \in [Metrics -> States]
    /\ NoState.quality = "none"
    /\ \A m \in Metrics : EmptySnapshot[m] = NoState
BY DEF EmptySnapshot, States, NoState

LEMMA NothingBacked ==
    ASSUME NEW rows PROVE AllBacked(EmptySnapshot, <<>>, rows)
BY EmptySnapshotParts DEF AllBacked, Backed

LEMMA NoWorkParts ==
    /\ NoWork \in Works
    /\ NoWork.found = EmptySnapshot /\ NoWork.events = <<>>
<1>1. /\ NoWork.found = EmptySnapshot /\ NoWork.events = <<>>
      /\ NoWork = [record |-> NoWork.record, found |-> EmptySnapshot,
                   events |-> <<>>]
  BY DEF NoWork
<1>2. <<>> \in Seq(SOEEvents)
  OBVIOUS
<1>3. QED
  BY <1>1, <1>2, EmptySnapshotParts DEF Works

LEMMA FineIdle ==
    ASSUME NEW rows PROVE Fine("idle", NoWork, rows)
BY NoWorkParts, NothingBacked DEF Fine, About

LEMMA FineReceive ==
    ASSUME NEW r \in Records, NEW rows
    PROVE  Fine("store", [NoWork EXCEPT !.record = r], rows)
<1> DEFINE w == [NoWork EXCEPT !.record = r]
<1>1. w.record = r /\ w.found = EmptySnapshot /\ w.events = <<>> /\ w \in Works
  BY NoWorkParts DEF NoWork, Works
<1> HIDE DEF w
<1>2. Fine("store", w, rows)
  BY <1>1, NothingBacked DEF Fine, About
<1>3. QED
  BY <1>2 DEF w

\* Rows are never removed.
LEMMA FineGrows ==
    ASSUME NEW st, NEW w, NEW rows, NEW more, Fine(st, w, rows), rows \subseteq more
    PROVE  Fine(st, w, more)
<1>1. AllBacked(w.found, w.events, more)
  BY DEF Fine, AllBacked, Backed
<1>2. QED
  BY <1>1 DEF Fine

LEMMA FineStore ==
    ASSUME NEW w, NEW rows, Fine("store", w, rows)
    PROVE  Fine("find", w, rows \cup InsertRows(w.record))
<1>1. Fine("store", w, rows \cup InsertRows(w.record))
  BY FineGrows
<1>2. QED
  BY <1>1 DEF Fine

LEMMA FineFind ==
    ASSUME Parameters, NEW w, NEW rows, Fine("find", w, rows),
           NEW found \in [Metrics -> States], AllBacked(found, <<>>, rows)
    PROVE  Fine("save", [w EXCEPT !.found = found,
                                  !.events = Apply(found, w.record).events], rows)
<1> DEFINE events == Apply(found, w.record).events
           state == Apply(found, w.record).state
           v == [w EXCEPT !.found = found, !.events = events]
<1>1. w \in Works /\ w.record \in Records /\ InsertRows(w.record) \subseteq rows
  BY DEF Fine
<1>2. w.record.at \in Nat /\ w.record.metrics \in Seq(Samples)
  BY <1>1, RecordParts
<1>3. /\ Apply(found, w.record) \in Outcomes
      /\ Faithful(state, events, found, Reported(w.record), rows)
  BY <1>1, <1>2, ApplyFaithful
<1>4. events \in Seq(SOEEvents)
  BY <1>3 DEF Outcomes
<1> HIDE DEF events
<1>5. v \in Works /\ v.record = w.record /\ v.found = found /\ v.events = events
  BY <1>1, <1>4 DEF Works
<1> HIDE DEF v
<1>6. /\ Apply(v.found, v.record).events = events
      /\ Apply(v.found, v.record).state = state
  BY <1>5 DEF events
<1> HIDE DEF state
<1>7. /\ LastTells(events, state)
      /\ \A m \in Metrics : About(events, m) => m \in Reported(w.record)
  BY <1>3 DEF Faithful
<1>8. AllBacked(found, events, rows)
  <2>1. AllBacked(state, events, rows)
    BY <1>3 DEF Faithful
  <2>2. QED
    BY <2>1 DEF AllBacked
<1>9. Fine("save", v, rows)
  BY <1>1, <1>5, <1>6, <1>7, <1>8 DEF Fine
<1>10. QED
  BY <1>9 DEF v, events

LEMMA FineSave ==
    ASSUME NEW w, NEW rows, Fine("save", w, rows), w.events # <<>>
    PROVE  Fine("publish", w, rows)
BY DEF Fine

LEMMA TailParts ==
    ASSUME NEW events \in Seq(SOEEvents), events # <<>>
    PROVE  /\ Tail(events) \in Seq(SOEEvents) /\ Len(events) \in Nat /\ Len(events) >= 1
           /\ Len(Tail(events)) = Len(events) - 1
           /\ \A i \in 1..(Len(events) - 1) : Tail(events)[i] = events[i + 1]
           /\ Head(events) = events[1]
<1>1. Len(events) \in Nat /\ Len(events) # 0
  BY EmptySeq, LenProperties
<1>2. QED
  BY <1>1, HeadTailProperties

LEMMA FineTail ==
    ASSUME NEW w, NEW rows, Fine("publish", w, rows), Len(w.events) # 1
    PROVE  Fine("publish", [w EXCEPT !.events = Tail(@)], rows)
<1> DEFINE events == w.events
           rest == Tail(events)
           v == [w EXCEPT !.events = rest]
           state == Apply(w.found, w.record).state
<1>1. /\ w \in Works /\ events \in Seq(SOEEvents) /\ events # <<>> /\ Len(events) # 1
      /\ LastTells(events, state) /\ AllBacked(w.found, events, rows)
      /\ \A m \in Metrics : About(events, m) => m \in Reported(w.record)
  BY WorkParts DEF Fine
<1> HIDE DEF events, state
<1>2. /\ rest \in Seq(SOEEvents) /\ Len(events) \in Nat /\ Len(events) > 1
      /\ Len(rest) = Len(events) - 1
      /\ \A i \in 1..(Len(events) - 1) : rest[i] = events[i + 1]
  <2>1. /\ rest \in Seq(SOEEvents) /\ Len(events) \in Nat /\ Len(events) >= 1
        /\ Len(rest) = Len(events) - 1
        /\ \A i \in 1..(Len(events) - 1) : rest[i] = events[i + 1]
    BY <1>1, TailParts
  <2>2. Len(events) > 1
    BY <1>1, <2>1
  <2>3. QED
    BY <2>1, <2>2
<1>3. v \in Works /\ v.record = w.record /\ v.found = w.found /\ v.events = rest
  BY <1>1, <1>2 DEF Works
<1> HIDE DEF rest, v
<1>4. \A i \in 1..Len(rest) : i + 1 \in 1..Len(events) /\ rest[i] = events[i + 1]
  BY <1>2
<1>5. DOMAIN rest = 1..Len(rest) /\ DOMAIN events = 1..Len(events)
  BY <1>1, <1>2, LenProperties
<1>6. LastTells(rest, state)
  <2>1. SUFFICES ASSUME NEW i \in 1..Len(rest),
                        \A j \in 1..Len(rest) : j > i => rest[j].metric # rest[i].metric
                 PROVE  Tells(rest[i], rest[i].metric, state[rest[i].metric])
    BY <1>5 DEF LastTells
  <2>2. ASSUME NEW j \in 1..Len(events), j > i + 1
        PROVE  events[j].metric # events[i + 1].metric
    <3>1. j - 1 \in 1..Len(rest) /\ j - 1 > i /\ (j - 1) + 1 = j
      BY <1>2, <2>2
    <3>2. rest[j - 1] = events[j] /\ rest[i] = events[i + 1]
      BY <1>4, <3>1
    <3>3. QED
      BY <2>1, <3>1, <3>2
  <2>3. QED
    BY <1>1, <1>4, <1>5, <2>2 DEF LastTells
<1>7. AllBacked(w.found, rest, rows)
  BY <1>1, <1>4 DEF AllBacked
<1>8. \A m \in Metrics : About(rest, m) => m \in Reported(w.record)
  BY <1>1, <1>4 DEF About
<1>9. rest # <<>>
  BY <1>2, EmptySeq
<1>10. w.record \in Records /\ InsertRows(w.record) \subseteq rows
  BY DEF Fine
<1>11. Fine("publish", v, rows)
  BY <1>3, <1>6, <1>7, <1>8, <1>9, <1>10 DEF Fine, state
<1>12. QED
  BY <1>11 DEF v, rest, events
-----------------------------------------------------------------------------
(* All handlers *)

\* Handler h still has an event of m to publish.
Owes(h, m) == step[h] = "publish" /\ m \in Pending(h)

Settled(m) ==
    /\ \A h \in Handlers : Owes(h, m) => snapshot[m] = Applied(h).state[m]
    /\ (\E h \in Handlers : Owes(h, m)) \/ Told(last[m], m, snapshot[m])

Globals ==
    /\ stored \subseteq [metric : Metrics, at : Nat]
    /\ snapshot \in [Metrics -> States]
    /\ requests \in 0..MaxRequests
    /\ last \in [Metrics -> {NoEvent} \cup SOEEvents]
    /\ disturbed \subseteq Metrics
    /\ \A m \in Metrics :
         Backed(snapshot[m], m, stored) /\ Backed(last[m], m, stored)

HandlersFine ==
    /\ DOMAIN step = Handlers /\ DOMAIN work = Handlers
    /\ step = [h \in Handlers |-> step[h]] /\ work = [h \in Handlers |-> work[h]]
    /\ \A h \in Handlers : Fine(step[h], work[h], stored)

AllSettled == \A m \in Metrics : m \notin disturbed => Settled(m)

\* The conjuncts of TelemetryIInv, put together by handler and by metric.
Whole == Globals /\ HandlersFine /\ AllSettled

LEMMA PendingIsAbout ==
    ASSUME NEW h \in Handlers, work[h] \in Works
    PROVE  \A m : m \in Pending(h) <=> About(work[h].events, m)
<1>1. DOMAIN work[h].events = 1..Len(work[h].events)
  BY WorkParts, LenProperties
<1>2. QED
  BY <1>1 DEF Pending, About

LEMMA WholeIsIInv == Whole <=> TelemetryIInv
<1> DEFINE Typed == /\ step \in [Handlers -> {"idle", "store", "find", "save", "publish"}]
                    /\ work \in [Handlers -> Works]
<1>1. Whole => Typed
  BY DEF Whole, HandlersFine, Fine
<1>2. TelemetryIInv => Typed
  BY DEF TelemetryIInv, TelemetryTypeOK
<1>3. SUFFICES ASSUME Typed PROVE Whole <=> TelemetryIInv
  BY <1>1, <1>2
<1>4. \A h \in Handlers :
        /\ DOMAIN work[h].events = 1..Len(work[h].events)
        /\ \A m : m \in Pending(h) <=> About(work[h].events, m)
  <2>1. TAKE h \in Handlers
  <2>2. work[h] \in Works
    BY <1>3
  <2>3. QED
    BY <2>2, PendingIsAbout, WorkParts, LenProperties
<1>5. Globals /\ Typed <=> TelemetryTypeOK /\ ToldIsStored
  BY DEF Globals, TelemetryTypeOK, ToldIsStored, Backed
<1>6. AllSettled <=> EventsTellTheState /\ PublishersWroteLast
  <2>1. \A m \in Metrics :
          (\E h \in Handlers : Owes(h, m)) \/ Told(last[m], m, snapshot[m]) <=>
            LET now == snapshot[m] IN
            \/ InFlight(m)
            \/ last[m] = NoEvent /\ now.quality \in {"none", "GOOD"}
            \/ /\ last[m].quality = now.quality
               /\ m \in DiscreteMetrics /\ now.quality = "GOOD" => last[m].value = now.value
    BY DEF Owes, Told, Tells, InFlight
  <2>2. QED
    BY <2>1 DEF AllSettled, Settled, EventsTellTheState, PublishersWroteLast, Owes
<1>7. HandlersFine <=> WorkIsStored /\ EventsOfRecord
  <2>1. HandlersFine <=> \A h \in Handlers : Fine(step[h], work[h], stored)
    BY <1>3 DEF HandlersFine
  <2>2. ASSUME NEW h \in Handlers
        PROVE  Fine(step[h], work[h], stored) <=>
                 /\ /\ step[h] \in {"find", "save", "publish"} =>
                         InsertRows(work[h].record) \subseteq stored
                    /\ \A m \in Metrics : Backed(work[h].found[m], m, stored)
                    /\ \A i \in DOMAIN work[h].events :
                          Backed(work[h].events[i], work[h].events[i].metric, stored)
                 /\ /\ step[h] \in {"idle", "store", "find"} => work[h].events = <<>>
                    /\ step[h] # "idle" => work[h].record \in Records
                    /\ step[h] = "save" => work[h].events = Applied(h).events
                    /\ step[h] \in {"save", "publish"} =>
                         LastTells(work[h].events, Applied(h).state)
                    /\ step[h] = "publish" => work[h].events # <<>>
                    /\ Pending(h) \subseteq Reported(work[h].record)
    <3>1. Pending(h) \subseteq Metrics
      <4>1. \A i \in 1..Len(work[h].events) : work[h].events[i].metric \in Metrics
        BY <1>3, WorkParts, EventMetric
      <4>2. QED
        BY <1>4, <4>1 DEF Pending
    <3>2. Pending(h) \subseteq Reported(work[h].record) <=>
            \A m \in Metrics : About(work[h].events, m) => m \in Reported(work[h].record)
      BY <1>4, <3>1
    <3>3. /\ step[h] \in {"idle", "store", "find", "save", "publish"} /\ work[h] \in Works
      BY <1>3
    <3>4. AllBacked(work[h].found, work[h].events, stored) <=>
            /\ \A m \in Metrics : Backed(work[h].found[m], m, stored)
            /\ \A i \in DOMAIN work[h].events :
                  Backed(work[h].events[i], work[h].events[i].metric, stored)
      BY <1>4 DEF AllBacked
    <3> HIDE DEF Typed
    <3>5. QED
      BY <3>2, <3>3, <3>4 DEF Fine, Applied
  <2>3. QED
    BY <2>1, <2>2 DEF WorkIsStored, EventsOfRecord
<1>8. QED
  <2>1. Whole <=> Whole /\ Typed
    BY <1>1
  <2> HIDE DEF Typed
  <2>2. QED
    BY <1>3, <1>5, <1>6, <1>7 DEF Whole, TelemetryIInv
-----------------------------------------------------------------------------
(* What a handler's step does to itself and to the others *)

Moves(h, st, w) == step' = [step EXCEPT ![h] = st] /\ work' = [work EXCEPT ![h] = w]

OthersStay(h) == \A g \in Handlers \ {h} : step'[g] = step[g] /\ work'[g] = work[g]

SameDebt(g, m) == /\ Owes(g, m)' <=> Owes(g, m)
                  /\ Owes(g, m) => Applied(g)' = Applied(g)

LEMMA HandlerMoves ==
    ASSUME HandlersFine, NEW h \in Handlers, NEW st, NEW w, Moves(h, st, w)
    PROVE  step'[h] = st /\ work'[h] = w /\ OthersStay(h)
BY DEF HandlersFine, Moves, OthersStay

LEMMA MovedFine ==
    ASSUME HandlersFine, NEW h \in Handlers, NEW st, NEW w, Moves(h, st, w),
           stored \subseteq stored', Fine(st, w, stored')
    PROVE  HandlersFine'
<1>1. step'[h] = st /\ work'[h] = w /\ OthersStay(h)
  BY HandlerMoves
<1>2. \A g \in Handlers : Fine(step[g], work[g], stored')
  BY FineGrows DEF HandlersFine
<1>3. \A g \in Handlers : Fine(step'[g], work'[g], stored')
  BY <1>1, <1>2 DEF OthersStay
<1>4. /\ DOMAIN step' = Handlers /\ DOMAIN work' = Handlers
      /\ step' = [g \in Handlers |-> step'[g]] /\ work' = [g \in Handlers |-> work'[g]]
  BY DEF HandlersFine, Moves
<1>5. QED
  BY <1>3, <1>4 DEF HandlersFine

LEMMA OthersOwe ==
    ASSUME NEW h, OthersStay(h), NEW g \in Handlers \ {h}, NEW m
    PROVE  SameDebt(g, m)
<1>1. step'[g] = step[g] /\ work'[g] = work[g]
  BY DEF OthersStay
<1>2. QED
  BY <1>1 DEF SameDebt, Owes, Pending, Applied

\* A metric stays settled when what is owed about it does not change.
LEMMA StaysSettled ==
    ASSUME NEW m \in Metrics, Settled(m), snapshot'[m] = snapshot[m], last'[m] = last[m],
           \A g \in Handlers : SameDebt(g, m)
    PROVE  Settled(m)'
<1>1. ASSUME NEW g \in Handlers, Owes(g, m)' PROVE snapshot'[m] = Applied(g)'.state[m]
  BY <1>1 DEF Settled, SameDebt
<1>2. (\E g \in Handlers : Owes(g, m)') <=> (\E g \in Handlers : Owes(g, m))
  BY DEF SameDebt
<1>3. Told(last[m], m, snapshot[m]) => Told(last[m], m, snapshot[m])'
  BY DEF Told, Tells
<1>4. QED
  BY <1>1, <1>2, <1>3 DEF Settled

LEMMA QuietStep ==
    ASSUME AllSettled, snapshot' = snapshot, last' = last, disturbed \subseteq disturbed',
           \A g \in Handlers, m \in Metrics : m \notin disturbed' => SameDebt(g, m)
    PROVE  AllSettled'
<1>1. ASSUME NEW m \in Metrics, m \notin disturbed' PROVE Settled(m)'
  BY <1>1, StaysSettled DEF AllSettled
<1>2. QED
  BY <1>1 DEF AllSettled

LEMMA Returns ==
    ASSUME HandlersFine, NEW h \in Handlers, Return(h)
    PROVE  Moves(h, "idle", NoWork)
BY DEF Return, Goto, Moves

LEMMA StaysAtWork ==
    ASSUME HandlersFine, NEW h \in Handlers, NEW st, Goto(h, st), work' = work
    PROVE  Moves(h, st, work[h])
BY DEF HandlersFine, Goto, Moves

\* A handler that is not at "publish" owes nothing.
LEMMA OwesNothing ==
    ASSUME NEW h \in Handlers, step[h] # "publish", step'[h] # "publish", NEW m
    PROVE  SameDebt(h, m)
BY DEF SameDebt, Owes

LEMMA BeforePublishing ==
    ASSUME HandlersFine, AllSettled, NEW h \in Handlers, NEW st, NEW w, Moves(h, st, w),
           step[h] # "publish", st # "publish",
           snapshot' = snapshot, last' = last, disturbed' = disturbed
    PROVE  AllSettled'
<1>1. step'[h] = st /\ OthersStay(h)
  BY HandlerMoves
<1>2. \A g \in Handlers, m \in Metrics : SameDebt(g, m)
  BY <1>1, OthersOwe, OwesNothing
<1>3. QED
  BY <1>2, QuietStep

LEMMA GlobalsGrow ==
    ASSUME Globals, stored \subseteq stored', stored' \subseteq [metric : Metrics, at : Nat],
           snapshot' = snapshot, last' = last, disturbed' \subseteq Metrics,
           requests' \in 0..MaxRequests
    PROVE  Globals'
BY DEF Globals, Backed
-----------------------------------------------------------------------------
(* Until the snapshot is written *)

LEMMA ReceiveKeeps ==
    ASSUME Parameters, Whole, NEW h \in Handlers, Receive(h) PROVE Whole'
<1>1. PICK r \in Records : work' = [work EXCEPT ![h] = [NoWork EXCEPT !.record = r]]
  BY DEF Receive
<1> DEFINE w == [NoWork EXCEPT !.record = r]
<1>2. Fine("store", w, stored') /\ stored' = stored
  BY FineReceive DEF Receive
<1>3. Moves(h, "store", w)
  BY <1>1 DEF Receive, Goto, Moves
<1> HIDE DEF w
<1>4. HandlersFine'
  BY <1>2, <1>3, MovedFine DEF Whole
<1>5. AllSettled'
  BY <1>3, BeforePublishing DEF Whole, Receive
<1>6. Globals'
  <2>1. requests' \in 0..MaxRequests
    BY DEF Receive, Whole, Globals, Parameters
  <2>2. QED
    BY <2>1, GlobalsGrow DEF Receive, Whole, Globals
<1>7. QED
  BY <1>4, <1>5, <1>6 DEF Whole

LEMMA RowsOfWork ==
    ASSUME Parameters, HandlersFine, NEW h \in Handlers
    PROVE  /\ work[h] \in Works
           /\ InsertRows(work[h].record) \subseteq [metric : Metrics, at : Nat]
<1>1. work[h] \in Works
  BY DEF HandlersFine, Fine
<1>2. QED
  BY <1>1, WorkParts, RowsType

LEMMA StoreKeeps ==
    ASSUME Parameters, Whole, NEW h \in Handlers, Store(h) PROVE Whole'
<1>1. Fine("find", work[h], stored')
  BY FineStore DEF Store, Whole, HandlersFine
<1>2. Moves(h, "find", work[h])
  BY StaysAtWork DEF Store, Whole
<1>3. HandlersFine'
  BY <1>1, <1>2, MovedFine DEF Whole, Store
<1>4. AllSettled'
  BY <1>2, BeforePublishing DEF Whole, Store
<1>5. Globals'
  BY RowsOfWork, GlobalsGrow DEF Store, Whole, Globals
<1>6. QED
  BY <1>3, <1>4, <1>5 DEF Whole

LEMMA StoreFailsKeeps ==
    ASSUME Parameters, Whole, NEW h \in Handlers, StoreFails(h) PROVE Whole'
<1>1. Moves(h, "idle", NoWork)
  BY Returns DEF StoreFails, AfterStoreFailure, Whole
<1>2. stored \subseteq stored' /\ stored' \subseteq stored \cup InsertRows(work[h].record)
  BY DEF StoreFails
<1>3. HandlersFine'
  BY <1>1, <1>2, FineIdle, MovedFine DEF Whole
<1>4. AllSettled'
  BY <1>1, BeforePublishing DEF Whole, StoreFails
<1>5. Globals'
  BY <1>2, RowsOfWork, GlobalsGrow DEF StoreFails, Whole, Globals
<1>6. QED
  BY <1>3, <1>4, <1>5 DEF Whole

LEMMA FindKeeps ==
    ASSUME Parameters, Whole, NEW h \in Handlers, Find(h) PROVE Whole'
<1>1. PICK found \in {snapshot, EmptySnapshot} :
        work' = [work EXCEPT ![h].found = found,
                             ![h].events = Apply(found, work[h].record).events]
  BY DEF Find
<1> DEFINE w == [work[h] EXCEPT !.found = found,
                                !.events = Apply(found, work[h].record).events]
<1>2. found \in [Metrics -> States] /\ AllBacked(found, <<>>, stored)
  <2>1. AllBacked(snapshot, <<>>, stored)
    BY DEF Whole, Globals, AllBacked
  <2>2. QED
    BY <2>1, EmptySnapshotParts, NothingBacked DEF Whole, Globals
<1>3. Fine("save", w, stored') /\ stored' = stored
  BY <1>2, FineFind DEF Find, Whole, HandlersFine
<1>4. Moves(h, "save", w)
  BY <1>1 DEF Find, Goto, Moves, Whole, HandlersFine
<1> HIDE DEF w
<1>5. HandlersFine'
  BY <1>3, <1>4, MovedFine DEF Whole
<1>6. AllSettled'
  BY <1>4, BeforePublishing DEF Whole, Find
<1>7. Globals'
  BY GlobalsGrow DEF Find, Whole, Globals
<1>8. QED
  BY <1>5, <1>6, <1>7 DEF Whole
-----------------------------------------------------------------------------
(* The snapshot is written *)

LEMMA ReportedMetrics ==
    ASSUME Parameters, HandlersFine, NEW h \in Handlers
    PROVE  Reported(work[h].record) \subseteq Metrics
<1>1. work[h].record.metrics \in Seq(Samples)
  BY RowsOfWork, WorkParts, RecordParts
<1>2. DOMAIN work[h].record.metrics = 1..Len(work[h].record.metrics)
  BY <1>1, LenProperties
<1>3. \A i \in 1..Len(work[h].record.metrics) : work[h].record.metrics[i] \in Samples
  BY <1>1, ElementOfSeq
<1>4. \A i \in DOMAIN work[h].record.metrics : work[h].record.metrics[i].metric \in Metrics
  BY <1>2, <1>3 DEF Samples
<1>5. QED
  BY <1>4 DEF Reported

\* What a handler that is about to save has applied.
LEMMA ToBeSaved ==
    ASSUME Parameters, HandlersFine, NEW h \in Handlers, step[h] = "save"
    PROVE  /\ Applied(h) \in Outcomes
           /\ Faithful(Applied(h).state, work[h].events, work[h].found,
                       Reported(work[h].record), stored)
           /\ AllBacked(Applied(h).state, work[h].events, stored)
<1>1. /\ work[h] \in Works /\ work[h].record \in Records
      /\ InsertRows(work[h].record) \subseteq stored
      /\ work[h].events = Applied(h).events
      /\ AllBacked(work[h].found, work[h].events, stored)
  BY DEF HandlersFine, Fine, Applied
<1>2. work[h].record.at \in Nat /\ work[h].record.metrics \in Seq(Samples)
  BY <1>1, RecordParts
<1>3. work[h].found \in [Metrics -> States]
  BY <1>1, WorkParts
<1>4. /\ Applied(h) \in Outcomes
      /\ Faithful(Applied(h).state, Applied(h).events, work[h].found,
                  Reported(work[h].record), stored)
  BY <1>1, <1>2, <1>3, ApplyFaithful DEF Applied
<1>5. AllBacked(work[h].found, <<>>, stored)
  BY <1>1 DEF AllBacked
<1>6. QED
  BY <1>1, <1>4, <1>5 DEF Faithful

\* After the write a handler publishes what it has to tell, if anything.
LEMMA AfterSaveMoves ==
    ASSUME Parameters, HandlersFine, NEW h \in Handlers, step[h] = "save",
           AfterSave(h), stored' = stored
    PROVE  /\ HandlersFine' /\ OthersStay(h)
           /\ \A m \in Metrics : /\ Owes(h, m)' <=> About(work[h].events, m)
                                 /\ Owes(h, m)' => Applied(h)' = Applied(h)
<1>1. Fine("save", work[h], stored) /\ work[h] \in Works
  BY DEF HandlersFine, Fine
<1>2. \A m : m \in Pending(h) <=> About(work[h].events, m)
  BY <1>1, PendingIsAbout
<1>3. CASE work[h].events = <<>>
  <2>1. Moves(h, "idle", NoWork)
    BY <1>3, Returns DEF AfterSave
  <2>2. step'[h] = "idle" /\ OthersStay(h)
    BY <2>1, HandlerMoves
  <2>3. HandlersFine'
    BY <2>1, FineIdle, MovedFine
  <2>4. \A m \in Metrics : ~About(work[h].events, m)
    BY <1>3 DEF About
  <2>5. QED
    BY <2>2, <2>3, <2>4 DEF Owes
<1>4. CASE work[h].events # <<>>
  <2>1. Moves(h, "publish", work[h])
    BY <1>4, StaysAtWork DEF AfterSave
  <2>2. step'[h] = "publish" /\ work'[h] = work[h] /\ OthersStay(h)
    BY <2>1, HandlerMoves
  <2>3. HandlersFine'
    BY <1>1, <1>4, <2>1, FineSave, MovedFine
  <2>4. Pending(h)' = Pending(h) /\ Applied(h)' = Applied(h)
    BY <2>2 DEF Pending, Applied
  <2>5. QED
    BY <1>2, <2>2, <2>3, <2>4 DEF Owes
<1>5. QED
  BY <1>3, <1>4

\* Handler h at "save" and a metric it has no event of.
LEMMA NothingToTell ==
    ASSUME NEW h \in Handlers, step[h] = "save", OthersStay(h), NEW m \in Metrics,
           Owes(h, m)' <=> About(work[h].events, m), ~About(work[h].events, m)
    PROVE  \A g \in Handlers : SameDebt(g, m)
<1>1. SameDebt(h, m)
  BY DEF SameDebt, Owes
<1>2. QED
  BY <1>1, OthersOwe

LEMMA SaveFailsKeeps ==
    ASSUME Parameters, Whole, NEW h \in Handlers, SaveFails(h) PROVE Whole'
<1>1. /\ HandlersFine' /\ OthersStay(h)
      /\ \A m \in Metrics : Owes(h, m)' <=> About(work[h].events, m)
  BY AfterSaveMoves DEF SaveFails, Whole
<1>2. /\ Faithful(Applied(h).state, work[h].events, work[h].found,
                  Reported(work[h].record), stored)
      /\ step[h] = "save"
  BY ToBeSaved DEF SaveFails, Whole
<1>3. ASSUME NEW m \in Metrics, m \notin disturbed' PROVE ~About(work[h].events, m)
  BY <1>2, <1>3 DEF SaveFails, Faithful
<1>4. AllSettled'
  <2>1. \A g \in Handlers, m \in Metrics : m \notin disturbed' => SameDebt(g, m)
    BY <1>1, <1>2, <1>3, NothingToTell
  <2>2. QED
    BY <2>1, QuietStep DEF SaveFails, Whole
<1>5. Globals'
  <2>1. Reported(work[h].record) \subseteq Metrics
    BY ReportedMetrics DEF Whole
  <2>2. disturbed' \subseteq Metrics
    BY <2>1 DEF SaveFails, Whole, Globals
  <2>3. QED
    BY <2>2, GlobalsGrow DEF SaveFails, Whole, Globals
<1>6. QED
  BY <1>1, <1>4, <1>5 DEF Whole

LEMMA SaveKeeps ==
    ASSUME Parameters, Whole, NEW h \in Handlers, Save(h) PROVE Whole'
<1> DEFINE state == Applied(h).state
           found == work[h].found
           events == work[h].events
<1>1. /\ HandlersFine' /\ OthersStay(h)
      /\ \A m \in Metrics : /\ Owes(h, m)' <=> About(events, m)
                            /\ Owes(h, m)' => Applied(h)' = Applied(h)
  BY AfterSaveMoves DEF Save, Whole
<1>2. /\ Applied(h) \in Outcomes
      /\ Faithful(state, events, found, Reported(work[h].record), stored)
      /\ AllBacked(state, events, stored) /\ step[h] = "save"
  BY ToBeSaved DEF Save, Whole
<1>3. snapshot' = state
  BY DEF Save, Applied
<1>4. ASSUME NEW m \in Metrics, m \notin disturbed'
      PROVE  /\ m \notin disturbed /\ found[m] = snapshot[m] /\ Settled(m)
             /\ m \in Reported(work[h].record) =>
                  \A g \in Handlers \ {h} : m \notin Pending(g)
  BY <1>4 DEF Save, PendingElsewhere, Whole, AllSettled
<1> HIDE DEF state, found, events
<1>5. ASSUME NEW m \in Metrics, m \notin disturbed' PROVE Settled(m)'
  <2>1. CASE m \notin Reported(work[h].record)
    <3>1. ~About(events, m) /\ state[m] = found[m]
      BY <1>2, <2>1 DEF Faithful
    <3>2. \A g \in Handlers : SameDebt(g, m)
      BY <1>1, <1>2, <3>1, NothingToTell DEF events
    <3>3. snapshot'[m] = snapshot[m] /\ last'[m] = last[m]
      BY <1>3, <1>4, <1>5, <3>1 DEF Save
    <3>4. QED
      BY <1>4, <1>5, <3>2, <3>3, StaysSettled
  <2>2. CASE m \in Reported(work[h].record)
    <3>1. \A g \in Handlers \ {h} : ~Owes(g, m) /\ ~Owes(g, m)'
      <4>1. \A g \in Handlers \ {h} : m \notin Pending(g)
        BY <1>4, <1>5, <2>2
      <4>2. QED
        BY <1>1, <4>1, OthersOwe DEF SameDebt, Owes
    <3>2. ASSUME NEW g \in Handlers, Owes(g, m)' PROVE snapshot'[m] = Applied(g)'.state[m]
      BY <1>1, <1>3, <3>1, <3>2 DEF state
    <3>3. CASE About(events, m)
      <4>1. Owes(h, m)'
        BY <1>1, <3>3
      <4>2. QED
        BY <3>2, <4>1 DEF Settled
    <3>4. CASE ~About(events, m)
      <4>1. ~Owes(h, m)
        BY <1>2 DEF Owes
      <4>2. Told(last[m], m, found[m])
        BY <1>4, <1>5, <3>1, <4>1 DEF Settled
      <4>3. last[m] \in {NoEvent} \cup SOEEvents /\ StillTold(found, state, m)
        BY <1>2, <3>4 DEF Faithful, Whole, Globals
      <4>4. Told(last[m], m, state[m])
        BY <4>2, <4>3 DEF StillTold
      <4>5. Told(last[m], m, snapshot[m])'
        BY <1>3, <4>4 DEF Save, Told, Tells
      <4>6. QED
        BY <3>2, <4>5 DEF Settled
    <3>5. QED
      BY <3>3, <3>4
  <2>3. QED
    BY <2>1, <2>2
<1>6. Globals'
  <2>1. snapshot' \in [Metrics -> States]
    BY <1>2, <1>3 DEF Outcomes, state
  <2>2. \A m \in Metrics : Backed(snapshot'[m], m, stored)
    BY <1>2, <1>3 DEF AllBacked
  <2>3. disturbed' \subseteq Metrics
    <3>1. Reported(work[h].record) \subseteq Metrics
      BY ReportedMetrics DEF Whole
    <3>2. QED
      BY <3>1 DEF Save, Whole, Globals
  <2>4. QED
    BY <2>1, <2>2, <2>3 DEF Save, Whole, Globals, Backed
<1>7. QED
  BY <1>1, <1>5, <1>6 DEF Whole, AllSettled
-----------------------------------------------------------------------------
(* The events are published *)

\* One event of a handler that publishes leaves its list.
Rest(h) == [work[h] EXCEPT !.events = Tail(@)]

LEMMA AtHead ==
    ASSUME HandlersFine, NEW h \in Handlers, step[h] = "publish"
    PROVE  LET events == work[h].events
               e == Head(events)
           IN  /\ work[h] \in Works /\ events \in Seq(SOEEvents)
               /\ Len(events) \in Nat /\ Len(events) >= 1 /\ DOMAIN events = 1..Len(events)
               /\ e = events[1] /\ e \in SOEEvents /\ e.metric \in Metrics
               /\ Backed(e, e.metric, stored)
<1> DEFINE events == work[h].events
           e == Head(events)
<1>1. /\ work[h] \in Works /\ events \in Seq(SOEEvents) /\ events # <<>>
      /\ AllBacked(work[h].found, events, stored)
  BY WorkParts DEF HandlersFine, Fine
<1> HIDE DEF events
<1>2. Len(events) \in Nat /\ Len(events) >= 1 /\ e = events[1] /\ DOMAIN events = 1..Len(events)
  BY <1>1, TailParts, LenProperties
<1>3. 1 \in 1..Len(events)
  BY <1>2
<1>4. e \in SOEEvents /\ e.metric \in Metrics
  BY <1>1, <1>2, <1>3, EventMetric
<1>5. Backed(e, e.metric, stored)
  BY <1>1, <1>2, <1>3 DEF AllBacked
<1>6. QED
  BY <1>1, <1>2, <1>4, <1>5 DEF events

LEMMA RestParts ==
    ASSUME HandlersFine, NEW h \in Handlers, step[h] = "publish"
    PROVE  /\ Rest(h).record = work[h].record /\ Rest(h).found = work[h].found
           /\ Rest(h).events = Tail(work[h].events)
BY AtHead DEF Rest, Works

LEMMA AfterPublishMoves ==
    ASSUME HandlersFine, NEW h \in Handlers, step[h] = "publish", AfterPublish(h),
           stored' = stored
    PROVE  /\ HandlersFine' /\ OthersStay(h)
           /\ \/ step'[h] = "idle" /\ work'[h] = NoWork /\ Len(work[h].events) = 1
              \/ step'[h] = "publish" /\ work'[h] = Rest(h) /\ Len(work[h].events) # 1
<1>1. CASE Len(work[h].events) = 1
  <2>1. Moves(h, "idle", NoWork)
    BY <1>1, Returns DEF AfterPublish
  <2>2. HandlersFine'
    BY <2>1, FineIdle, MovedFine
  <2>3. QED
    BY <1>1, <2>1, <2>2, HandlerMoves
<1>2. CASE Len(work[h].events) # 1
  <2>1. Moves(h, "publish", Rest(h))
    BY <1>2 DEF AfterPublish, Moves, Rest, HandlersFine
  <2>2. Fine("publish", Rest(h), stored)
    BY <1>2, FineTail DEF HandlersFine, Rest
  <2>3. HandlersFine'
    BY <2>1, <2>2, MovedFine
  <2>4. QED
    BY <1>2, <2>1, <2>3, HandlerMoves
<1>3. QED
  BY <1>1, <1>2

\* What it owes afterwards: the same, but for the event at the head.
LEMMA AfterPublishOwes ==
    ASSUME HandlersFine, NEW h \in Handlers, step[h] = "publish", AfterPublish(h),
           stored' = stored, NEW m
    PROVE  /\ Owes(h, m)' <=> \E i \in 2..Len(work[h].events) : work[h].events[i].metric = m
           /\ Owes(h, m) <=> Owes(h, m)' \/ Head(work[h].events).metric = m
           /\ Owes(h, m)' => Applied(h)' = Applied(h)
<1> DEFINE events == work[h].events
           later == \E i \in 2..Len(events) : events[i].metric = m
<1>1. /\ events \in Seq(SOEEvents) /\ Len(events) \in Nat /\ Len(events) >= 1
      /\ DOMAIN events = 1..Len(events) /\ Head(events) = events[1]
  BY AtHead
<1>2. HandlersFine' /\ OthersStay(h)
  BY AfterPublishMoves
<1>3. Owes(h, m) <=> later \/ Head(events).metric = m
  <2>1. Owes(h, m) <=> \E i \in 1..Len(events) : events[i].metric = m
    BY <1>1 DEF Owes, Pending
  <2> HIDE DEF events
  <2>2. \A i \in 1..Len(events) : i = 1 \/ i \in 2..Len(events)
    BY <1>1
  <2>3. 1 \in 1..Len(events) /\ \A i \in 2..Len(events) : i \in 1..Len(events)
    BY <1>1
  <2>4. QED
    BY <1>1, <2>1, <2>2, <2>3
<1>4. CASE step'[h] = "idle" /\ work'[h] = NoWork /\ Len(events) = 1
  <2>1. ~Owes(h, m)'
    BY <1>4 DEF Owes
  <2>2. 2..Len(events) = {}
    BY <1>4
  <2>3. QED
    BY <1>3, <2>1, <2>2
<1>5. CASE step'[h] = "publish" /\ work'[h] = Rest(h) /\ Len(events) # 1
  <2>1. /\ work'[h].record = work[h].record /\ work'[h].found = work[h].found
        /\ work'[h].events = Tail(events)
    BY <1>5, RestParts
  <2>2. Applied(h)' = Applied(h)
    BY <2>1 DEF Applied
  <2>3. events # <<>>
    BY <1>1, EmptySeq
  <2> HIDE DEF events
  <2>4. /\ Tail(events) \in Seq(SOEEvents) /\ Len(Tail(events)) = Len(events) - 1
        /\ \A i \in 1..(Len(events) - 1) : Tail(events)[i] = events[i + 1]
    BY <1>1, <2>3, TailParts
  <2>5. DOMAIN Tail(events) = 1..(Len(events) - 1)
    BY <2>4, LenProperties
  <2>6. Owes(h, m)' <=> \E i \in 1..(Len(events) - 1) : events[i + 1].metric = m
    BY <1>5, <2>1, <2>4, <2>5 DEF Owes, Pending
  <2>7. /\ \A i \in 1..(Len(events) - 1) : i + 1 \in 2..Len(events)
        /\ \A i \in 2..Len(events) : i - 1 \in 1..(Len(events) - 1) /\ (i - 1) + 1 = i
    BY <1>1
  <2>8. Owes(h, m)' <=> later
    <3>1. ASSUME Owes(h, m)' PROVE later
      BY <2>6, <2>7, <3>1
    <3>2. ASSUME later PROVE Owes(h, m)'
      <4>1. PICK i \in 2..Len(events) : events[i].metric = m
        BY <3>2
      <4>2. i - 1 \in 1..(Len(events) - 1) /\ events[(i - 1) + 1].metric = m
        BY <2>7, <4>1
      <4>3. QED
        BY <2>6, <4>2
    <3>3. QED
      BY <3>1, <3>2
  <2>9. QED
    BY <1>3, <2>2, <2>8 DEF events
<1>6. QED
  BY <1>4, <1>5, AfterPublishMoves

\* An event that leaves changes nothing of the other metrics.
LEMMA OtherMetrics ==
    ASSUME HandlersFine, NEW h \in Handlers, step[h] = "publish", AfterPublish(h),
           stored' = stored, NEW m, m # Head(work[h].events).metric
    PROVE  \A g \in Handlers : SameDebt(g, m)
<1>1. SameDebt(h, m)
  BY AfterPublishOwes DEF SameDebt
<1>2. OthersStay(h)
  BY AfterPublishMoves
<1>3. QED
  BY <1>1, <1>2, OthersOwe

LEMMA PublishFailsKeeps ==
    ASSUME Whole, NEW h \in Handlers, PublishFails(h) PROVE Whole'
<1>1. HandlersFine' /\ step[h] = "publish"
  BY AfterPublishMoves DEF PublishFails, Whole
<1>2. \A g \in Handlers, m \in Metrics : m \notin disturbed' => SameDebt(g, m)
  BY OtherMetrics DEF PublishFails, Whole
<1>3. AllSettled'
  BY <1>2, QuietStep DEF PublishFails, Whole
<1>4. Head(work[h].events).metric \in Metrics
  BY <1>1, AtHead DEF Whole
<1>5. Globals'
  BY <1>4, GlobalsGrow DEF PublishFails, Whole, Globals
<1>6. QED
  BY <1>1, <1>3, <1>5 DEF Whole

\* The last event of a metric tells the state its handler has applied.
LEMMA LastEventTells ==
    ASSUME HandlersFine, NEW h \in Handlers, step[h] = "publish", AfterPublish(h),
           stored' = stored, NEW m, m = Head(work[h].events).metric, ~Owes(h, m)'
    PROVE  Tells(Head(work[h].events), m, Applied(h).state[m])
<1> DEFINE events == work[h].events
<1>1. /\ Len(events) \in Nat /\ Len(events) >= 1 /\ DOMAIN events = 1..Len(events)
      /\ Head(events) = events[1]
  BY AtHead
<1>2. LastTells(events, Applied(h).state)
  BY DEF HandlersFine, Fine, Applied
<1>3. ~\E i \in 2..Len(events) : events[i].metric = m
  BY AfterPublishOwes
<1> HIDE DEF events
<1>4. \A j \in 1..Len(events) : j > 1 => events[j].metric # m
  BY <1>1, <1>3
<1>5. 1 \in 1..Len(events)
  BY <1>1
<1>6. Tells(events[1], events[1].metric, Applied(h).state[events[1].metric])
  BY <1>1, <1>2, <1>4, <1>5 DEF LastTells, events
<1>7. QED
  BY <1>1, <1>6 DEF events

LEMMA PublishKeeps ==
    ASSUME Whole, NEW h \in Handlers, Publish(h) PROVE Whole'
<1> DEFINE e == Head(work[h].events)
<1>1. /\ HandlersFine' /\ OthersStay(h) /\ step[h] = "publish"
  BY AfterPublishMoves DEF Publish, Whole
<1>2. e \in SOEEvents /\ e.metric \in Metrics /\ Backed(e, e.metric, stored)
  BY <1>1, AtHead DEF Whole
<1>3. /\ last' = [last EXCEPT ![e.metric] = e] /\ snapshot' = snapshot /\ stored' = stored
      /\ disturbed' = IF SetsRight(h, e.metric) THEN disturbed \ {e.metric} ELSE disturbed
      /\ requests' = requests /\ AfterPublish(h)
  BY DEF Publish
<1>4. last'[e.metric] = e /\ \A m \in Metrics : m # e.metric => last'[m] = last[m]
  BY <1>2, <1>3 DEF Whole, Globals
<1> HIDE DEF e
<1>5. ASSUME NEW m \in Metrics, m \notin disturbed' PROVE Settled(m)'
  <2>1. CASE m # e.metric
    <3>1. Settled(m)
      BY <1>3, <1>5, <2>1 DEF Whole, AllSettled
    <3>2. \A g \in Handlers : SameDebt(g, m)
      BY <1>1, <1>3, <2>1, OtherMetrics DEF Whole, e
    <3>3. QED
      BY <1>3, <1>4, <2>1, <3>1, <3>2, StaysSettled
  <2>2. CASE m = e.metric
    <3>1. \/ m \notin disturbed /\ Settled(m)
          \/ SetsRight(h, m)
      BY <1>3, <1>5, <2>2 DEF Whole, AllSettled
    <3>2. Owes(h, m)
      BY <1>1, <1>3, <2>2, AfterPublishOwes DEF Whole, e
    <3>3. snapshot[m] = Applied(h).state[m]
      BY <3>1, <3>2 DEF Settled, SetsRight, Applied
    <3>4. ASSUME NEW g \in Handlers \ {h}, Owes(g, m)'
          PROVE  snapshot'[m] = Applied(g)'.state[m]
      <4>1. Owes(g, m) /\ Applied(g)' = Applied(g)
        BY <1>1, <3>4, OthersOwe DEF SameDebt
      <4>2. ~SetsRight(h, m)
        BY <4>1 DEF SetsRight, PendingElsewhere, Owes
      <4>3. snapshot[m] = Applied(g).state[m]
        BY <3>1, <4>1, <4>2 DEF Settled
      <4>4. QED
        BY <1>3, <4>1, <4>3
    <3>5. Owes(h, m)' => Applied(h)' = Applied(h)
      BY <1>1, <1>3, AfterPublishOwes DEF Whole
    <3>6. ASSUME NEW g \in Handlers, Owes(g, m)' PROVE snapshot'[m] = Applied(g)'.state[m]
      BY <1>3, <3>3, <3>4, <3>5, <3>6
    <3>7. CASE Owes(h, m)'
      BY <3>6, <3>7 DEF Settled
    <3>8. CASE ~Owes(h, m)'
      <4>1. Tells(e, m, Applied(h).state[m])
        BY <1>1, <1>3, <2>2, <3>8, LastEventTells DEF Whole, e
      <4>2. Told(last[m], m, snapshot[m])'
        BY <1>3, <1>4, <2>2, <3>3, <4>1 DEF Told, Tells
      <4>3. QED
        BY <3>6, <4>2 DEF Settled
    <3>9. QED
      BY <3>7, <3>8
  <2>3. QED
    BY <2>1, <2>2
<1>6. Globals'
  BY <1>2, <1>3, <1>4 DEF Whole, Globals, Backed
<1>7. QED
  BY <1>1, <1>5, <1>6 DEF Whole, AllSettled
-----------------------------------------------------------------------------
(* Crashes and expired snapshots *)

LEMMA CrashKeeps ==
    ASSUME Whole, ServerCrash PROVE Whole'
<1>1. \A h \in Handlers : step'[h] = "idle" /\ work'[h] = NoWork /\ ~\E m : Owes(h, m)'
  BY DEF ServerCrash, Owes
<1>2. HandlersFine'
  BY <1>1, FineIdle DEF ServerCrash, HandlersFine
<1>3. ASSUME NEW m \in Metrics, m \notin disturbed' PROVE Settled(m)'
  <2>1. m \notin disturbed /\ \A h \in Handlers : ~Owes(h, m)
    BY <1>3 DEF ServerCrash, Owes
  <2>2. Told(last[m], m, snapshot[m])
    BY <2>1 DEF Whole, AllSettled, Settled
  <2>3. Told(last[m], m, snapshot[m])'
    BY <2>2 DEF ServerCrash, Told, Tells
  <2>4. QED
    BY <1>1, <2>3 DEF Settled
<1>4. disturbed' \subseteq Metrics
  <2>1. \A h \in Handlers : Pending(h) \subseteq Metrics
    <3>1. TAKE h \in Handlers
    <3>2. work[h] \in Works /\ work[h].events \in Seq(SOEEvents)
      BY WorkParts DEF Whole, HandlersFine, Fine
    <3>3. \A i \in 1..Len(work[h].events) : work[h].events[i].metric \in Metrics
      BY <3>2, EventMetric
    <3>4. QED
      BY <3>2, <3>3, LenProperties DEF Pending
  <2>2. QED
    BY <2>1 DEF ServerCrash, Whole, Globals
<1>5. Globals'
  BY <1>4, GlobalsGrow DEF ServerCrash, Whole, Globals
<1>6. QED
  BY <1>2, <1>3, <1>5 DEF Whole, AllSettled

LEMMA ExpireKeeps ==
    ASSUME Whole, Expire PROVE Whole'
<1>1. HandlersFine'
  BY DEF Whole, HandlersFine, Expire
<1>2. ASSUME NEW m \in Metrics, m \notin disturbed' PROVE Settled(m)'
  <2>1. m \notin disturbed /\ snapshot[m].quality = "none" /\ snapshot[m] \in States
    BY <1>2 DEF Expire, Exists, Whole, Globals
  <2>2. snapshot[m] = NoState
    BY <2>1, StateParts DEF Qualities
  <2>3. snapshot'[m] = snapshot[m] /\ last'[m] = last[m]
    BY <2>2, EmptySnapshotParts DEF Expire
  <2>4. \A g \in Handlers : SameDebt(g, m)
    BY DEF Expire, SameDebt, Owes, Pending, Applied
  <2>5. Settled(m)
    BY <2>1 DEF Whole, AllSettled
  <2>6. QED
    BY <2>3, <2>4, <2>5, StaysSettled
<1>3. Globals'
  <2>1. \A m \in Metrics : Backed(snapshot'[m], m, stored)
    BY EmptySnapshotParts DEF Expire, Backed
  <2>2. QED
    BY <2>1, EmptySnapshotParts DEF Expire, Whole, Globals, Backed
<1>4. QED
  BY <1>1, <1>2, <1>3 DEF Whole, AllSettled
-----------------------------------------------------------------------------
(* The theorems.                                                            *)

LEMMA InitWhole ==
    ASSUME Parameters, TelemetryInit PROVE Whole
<1>1. Globals
  BY EmptySnapshotParts DEF TelemetryInit, Globals, Backed, Parameters, NoEvent
<1>2. HandlersFine
  BY FineIdle DEF TelemetryInit, HandlersFine
<1>3. \A m \in Metrics : Settled(m)
  BY EmptySnapshotParts DEF TelemetryInit, Settled, Owes, Told
<1>4. QED
  BY <1>1, <1>2, <1>3 DEF Whole, AllSettled

LEMMA StutterKeeps ==
    ASSUME Whole, UNCHANGED telemetryVars PROVE Whole'
<1>1. Globals'
  BY DEF telemetryVars, Whole, Globals, Backed
<1>2. HandlersFine'
  BY DEF telemetryVars, Whole, HandlersFine
<1>3. \A g \in Handlers, m \in Metrics : SameDebt(g, m)
  BY DEF telemetryVars, SameDebt, Owes, Pending, Applied
<1>4. AllSettled'
  BY <1>3, QuietStep DEF telemetryVars, Whole
<1>5. QED
  BY <1>1, <1>2, <1>4 DEF Whole

\* The strengthening of TelemetryIngest is an invariant of the ingest of one
\* control unit: it holds at first and every action keeps it.
THEOREM TelemetryInvariance == TelemetrySpec => []TelemetryIInv
<1>1. TelemetryInit => Whole
  BY TelemetryAssumption, InitWhole
<1>2. Whole /\ [TelemetryNext]_telemetryVars => Whole'
  <2>1. SUFFICES ASSUME Whole, [TelemetryNext]_telemetryVars PROVE Whole'
    OBVIOUS
  <2>2. ASSUME NEW h \in Handlers, Handle(h) PROVE Whole'
    <3>1. CASE Receive(h) BY <3>1, <2>1, TelemetryAssumption, ReceiveKeeps
    <3>2. CASE Store(h) BY <3>2, <2>1, TelemetryAssumption, StoreKeeps
    <3>3. CASE StoreFails(h) BY <3>3, <2>1, TelemetryAssumption, StoreFailsKeeps
    <3>4. CASE Find(h) BY <3>4, <2>1, TelemetryAssumption, FindKeeps
    <3>5. CASE Save(h) BY <3>5, <2>1, TelemetryAssumption, SaveKeeps
    <3>6. CASE SaveFails(h) BY <3>6, <2>1, TelemetryAssumption, SaveFailsKeeps
    <3>7. CASE Publish(h) BY <3>7, <2>1, PublishKeeps
    <3>8. CASE PublishFails(h) BY <3>8, <2>1, PublishFailsKeeps
    <3>9. QED
      BY <2>2, <3>1, <3>2, <3>3, <3>4, <3>5, <3>6, <3>7, <3>8 DEF Handle
  <2>3. QED
    BY <2>1, <2>2, CrashKeeps, ExpireKeeps, StutterKeeps DEF TelemetryNext
<1>3. Whole => TelemetryIInv
  BY WholeIsIInv
<1>4. QED
  BY <1>1, <1>2, <1>3, PTL DEF TelemetrySpec

\* Snapshot.Apply and Handle's events: unless something disturbed a metric and
\* no event has set it right since, its last event in the topic tells its state
\* in the snapshot, or a handler has yet to publish one.
THEOREM EventsFollowTheState == TelemetrySpec => []EventsTellTheState
<1>1. TelemetryIInv => EventsTellTheState
  BY DEF TelemetryIInv
<1>2. QED
  BY <1>1, TelemetryInvariance, PTL

\* ingestTelemetryHandler.Handle: neither the snapshot nor the topic has a good
\* sample that TimescaleDB does not have.
THEOREM WhatIsToldWasStored == TelemetrySpec => []ToldIsStored
<1>1. TelemetryIInv => ToldIsStored
  BY DEF TelemetryIInv
<1>2. QED
  BY <1>1, TelemetryInvariance, PTL
=============================================================================
