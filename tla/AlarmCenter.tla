---------------------------- MODULE AlarmCenter ----------------------------
(* vpp-alarm: two Kafka consumers, one for vpp.soe.events and one for       *)
(* vpp.dispatch.events, that file events as alarms, and the operators who   *)
(* acknowledge and close them over HTTP.                                    *)
(*                                                                          *)
(* A consumer takes one message at a time through the whole handler and     *)
(* then commits its offset; a transient failure repeats the same message.   *)
(* Filing is one SQL statement: the row of alarm_event_dedup first, then    *)
(* the alarm.  An event id is a hash of the whole fact, a fingerprint of    *)
(* the part that alarms merge by, so an event determines its fingerprint.   *)
(* The id of an alarm is the candidate id drawn for the event that opened   *)
(* it: the event stands for the id.                                         *)
EXTENDS Naturals, Sequences, FiniteSets

CONSTANTS Events,         \* ids of the events that match an enabled rule
          Dispatch,       \* those that come from vpp.dispatch.events
          Skipped,        \* messages committed unfiled: poison, other types, no rule
          FingerprintOf,  \* of each event
          OccurredAt,     \* of each event
          Logs,           \* the contents of the two topics that are considered
          Clients,        \* concurrent HTTP requests
          NoAlarm,
          MaxGivenUp,     \* bound on the messages given up as poison
          MaxCrashes      \* bound

Sources == {"soe", "dispatch"}
Ops == {"ack", "close"}

ASSUME EventsAssumption ==
    /\ IsFiniteSet(Events) /\ Dispatch \subseteq Events
    /\ Skipped \cap Events = {} /\ NoAlarm \notin Events \cup Clients
    /\ OccurredAt \in [Events -> Nat]
    /\ DOMAIN FingerprintOf = Events
    /\ Logs \subseteq [Sources -> Seq(Events \cup Skipped)]
    /\ MaxGivenUp \in Nat /\ MaxCrashes \in Nat

\* FingerprintDispatch hashes the event id, and no hashes collide.
ASSUME DispatchFingerprints ==
    \A d \in Dispatch, e \in Events : FingerprintOf[d] = FingerprintOf[e] => d = e

VARIABLES
    log,        \* Kafka: the messages of each topic
    committed,  \* Kafka: the committed offset of each consumer group
    fetched,    \* each reader: how many messages it has fetched
    at,         \* each consumer: what runReader does next with the last of them
    dedup,      \* table alarm_event_dedup
    alarms,     \* table alarms
    request,    \* each HTTP request: acknowledge or close
    countedIn,  \* history: the alarm an event was counted in
    givenUp,    \* history: the events committed as poison after an error
    crashes     \* history: bounds Crash

consumers == <<log, committed, fetched, at>>
tables == <<dedup, alarms, countedIn>>
vars == <<consumers, tables, request, givenUp, crashes>>

\* lastEvent stands for last_event_id, title and summary, which are written
\* together; last is last_occurred_at.
NoRow == [status |-> "none", count |-> 0, version |-> 0, last |-> 0,
          lastEvent |-> NoAlarm, attributes |-> NoAlarm, ackBy |-> NoAlarm, closedBy |-> NoAlarm]
NoRequest == [step |-> "idle", op |-> "ack", alarm |-> NoAlarm,
              version |-> 0, seen |-> 0, answer |-> "none"]

Init ==
    /\ log \in Logs
    /\ committed = [s \in Sources |-> 0]
    /\ fetched = [s \in Sources |-> 0]
    /\ at = [s \in Sources |-> "fetch"]
    /\ dedup = {}
    /\ alarms = [a \in Events |-> NoRow]
    /\ request = [c \in Clients |-> NoRequest]
    /\ countedIn = [e \in Events |-> NoAlarm]
    /\ givenUp = {}
    /\ crashes = 0
-----------------------------------------------------------------------------
(* The repository *)

Live(a) == alarms[a].status \in {"open", "acknowledged"}

\* Mutant of MergesInto: acknowledged alarms are thought to be out of the index.
MergesIntoOpen(e) ==
    IF e \in Dispatch THEN {}
    ELSE {a \in Events : /\ alarms[a].status = "open"
                         /\ FingerprintOf[a] = FingerprintOf[e]}

\* The row the partial unique index of open fingerprints finds for an event.
\* Only the statement for SOE events has an ON CONFLICT clause.
MergesInto(e) ==
    IF e \in Dispatch THEN {}
    ELSE {a \in Events : Live(a) /\ FingerprintOf[a] = FingerprintOf[e]}

Opened(e) ==
    [status |-> "open", count |-> 1, version |-> 1, last |-> OccurredAt[e],
     lastEvent |-> e, attributes |-> e, ackBy |-> NoAlarm, closedBy |-> NoAlarm]

\* What every merge writes, and what only one that is not older writes.
Counted(row, e) == [row EXCEPT !.count = @ + 1, !.version = @ + 1, !.lastEvent = e]
Shows(row, e) == [row EXCEPT !.last = OccurredAt[e], !.attributes = e]

\* Mutants of Merged: the last event to arrive wins; the version stays.
MergedLastWins(row, e) == Shows(Counted(row, e), e)
MergedSameVersion(row, e) ==
    LET counted == [row EXCEPT !.count = @ + 1, !.lastEvent = e]
    IN  IF OccurredAt[e] >= row.last THEN Shows(counted, e) ELSE counted

Merged(row, e) ==
    IF OccurredAt[e] >= row.last THEN Shows(Counted(row, e), e) ELSE Counted(row, e)

File(e, a) ==
    /\ alarms' = [alarms EXCEPT ![a] =
                     IF a \in MergesInto(e) THEN Merged(@, e) ELSE Opened(e)]
    /\ countedIn' = [countedIn EXCEPT ![e] = a]

\* Mutant of Known: the alarm is written whether the dedup row is new or not.
NeverKnown(e) == FALSE

Known(e) == e \in dedup

\* One statement: the alarm is written only from the inserted dedup row.
IngestStatement(e) ==
    /\ dedup' = dedup \cup {e}
    /\ IF Known(e) THEN UNCHANGED <<alarms, countedIn>>
       ELSE IF MergesInto(e) = {} THEN File(e, e)
       ELSE \E a \in MergesInto(e) : File(e, a)
-----------------------------------------------------------------------------
(* The consumers *)

Current(s) == log[s][fetched[s]]

Go(s, step) == at' = [at EXCEPT ![s] = step]

Fetch(s) ==
    /\ at[s] = "fetch" /\ fetched[s] < Len(log[s])
    /\ fetched' = [fetched EXCEPT ![s] = @ + 1]
    /\ Go(s, "handle")
    /\ UNCHANGED <<log, committed, tables, request, givenUp, crashes>>

\* Poison, another event type or no matching rule: nothing is written.
Skip(s) ==
    /\ at[s] = "handle" /\ Current(s) \in Skipped
    /\ Go(s, "commit")
    /\ UNCHANGED <<log, committed, fetched, tables, request, givenUp, crashes>>

\* ok or dedup_hit; the notification that follows a new alarm is only logged.
Ingest(s) ==
    /\ at[s] = "handle" /\ Current(s) \in Events
    /\ IngestStatement(Current(s))
    /\ Go(s, "commit")
    /\ UNCHANGED <<log, committed, fetched, request, givenUp, crashes>>

\* Mutants of AfterTransient: the message is committed, or left for the next one.
AfterTransientCommit == "commit"
AfterTransientFetch == "fetch"

\* What the loop does next after a transient failure: the same message again.
AfterTransient == "handle"

\* A failure mapDBError knows to be transient, before the statement ran or
\* after it committed.
Transient(s) ==
    /\ at[s] = "handle" /\ Current(s) \in Events
    /\ IngestStatement(Current(s)) \/ UNCHANGED tables
    /\ Go(s, AfterTransient)
    /\ UNCHANGED <<log, committed, fetched, request, givenUp, crashes>>

\* Any other error is poison for Classify: the message is committed as it is.
GiveUp(s) ==
    /\ at[s] = "handle" /\ Current(s) \in Events
    /\ Cardinality(givenUp) < MaxGivenUp
    /\ givenUp' = givenUp \cup {Current(s)}
    /\ IngestStatement(Current(s)) \/ UNCHANGED tables
    /\ Go(s, "commit")
    /\ UNCHANGED <<log, committed, fetched, request, crashes>>

\* CommitMessages succeeds or fails; either way the next message is fetched.
Commit(s) ==
    /\ at[s] = "commit"
    /\ \E offset \in {committed[s], fetched[s]} :
          committed' = [committed EXCEPT ![s] = offset]
    /\ Go(s, "fetch")
    /\ UNCHANGED <<log, fetched, tables, request, givenUp, crashes>>

\* The service stops and starts again: memory is lost, tables and offsets stay.
Crash ==
    /\ crashes < MaxCrashes
    /\ crashes' = crashes + 1
    /\ fetched' = committed
    /\ at' = [s \in Sources |-> "fetch"]
    /\ request' = [c \in Clients |-> NoRequest]
    /\ UNCHANGED <<log, committed, tables, givenUp>>
-----------------------------------------------------------------------------
(* Acknowledge and Close *)

\* The version comes from FindByID when the body gives none, or from an
\* earlier read of the client; the count is what that reader saw.
Look(c, op, a) ==
    /\ request[c].step = "idle"
    /\ alarms[a].status # "none"
    /\ request' = [request EXCEPT ![c] =
                     [step |-> "update", op |-> op, alarm |-> a,
                      version |-> alarms[a].version, seen |-> alarms[a].count,
                      answer |-> "none"]]
    /\ UNCHANGED <<consumers, tables, givenUp, crashes>>

Allowed(op) == IF op = "ack" THEN {"open"} ELSE {"open", "acknowledged"}

\* Mutant of Matches: the UPDATE asks for the version only.
MatchesVersion(row, r) == row.version = r.version

Matches(row, r) == row.version = r.version /\ row.status \in Allowed(r.op)

Decided(row, op, c) ==
    IF op = "ack"
    THEN [row EXCEPT !.status = "acknowledged", !.ackBy = c, !.version = @ + 1]
    ELSE [row EXCEPT !.status = "closed", !.closedBy = c, !.version = @ + 1]

Update(c) ==
    /\ request[c].step = "update"
    /\ Matches(alarms[request[c].alarm], request[c])
    /\ alarms' = [alarms EXCEPT ![request[c].alarm] = Decided(@, request[c].op, c)]
    /\ request' = [request EXCEPT ![c].step = "done", ![c].answer = "ok"]
    /\ UNCHANGED <<consumers, dedup, countedIn, givenUp, crashes>>

UpdateNothing(c) ==
    /\ request[c].step = "update"
    /\ ~Matches(alarms[request[c].alarm], request[c])
    /\ request' = [request EXCEPT ![c].step = "explain"]
    /\ UNCHANGED <<consumers, tables, givenUp, crashes>>

\* onZero of mutate, over a second read of the row.
Reason(row, r) ==
    IF row.status = "closed" THEN "already_closed"
    ELSE IF r.op = "ack" /\ row.status = "acknowledged" THEN "already_acknowledged"
    ELSE IF row.version # r.version THEN "conflict"
    ELSE "invalid_transition"

Explain(c) ==
    /\ request[c].step = "explain"
    /\ request' = [request EXCEPT ![c].step = "done",
                     ![c].answer = Reason(alarms[request[c].alarm], request[c])]
    /\ UNCHANGED <<consumers, tables, givenUp, crashes>>
-----------------------------------------------------------------------------
Consume(s) == \/ Fetch(s) \/ Skip(s) \/ Ingest(s) \/ Transient(s)
              \/ GiveUp(s) \/ Commit(s)

Serve(c) == \/ \E op \in Ops, a \in Events : Look(c, op, a)
            \/ Update(c) \/ UpdateNothing(c) \/ Explain(c)

Next == Crash \/ (\E s \in Sources : Consume(s)) \/ (\E c \in Clients : Serve(c))

Spec == Init /\ [][Next]_vars

\* The loops of the consumers run on, and the database does not fail for ever.
Fairness ==
    \A s \in Sources :
      WF_vars(Fetch(s)) /\ WF_vars(Skip(s)) /\ SF_vars(Ingest(s)) /\ WF_vars(Commit(s))

FairSpec == Spec /\ Fairness
-----------------------------------------------------------------------------
Rows == [status : {"none", "open", "acknowledged", "closed"}, count : Nat,
         version : Nat, last : Nat, lastEvent : Events \cup {NoAlarm},
         attributes : Events \cup {NoAlarm},
         ackBy : Clients \cup {NoAlarm}, closedBy : Clients \cup {NoAlarm}]

Requests == [step : {"idle", "update", "explain", "done"}, op : Ops,
             alarm : Events \cup {NoAlarm}, version : Nat, seen : Nat,
             answer : {"none", "ok", "already_acknowledged", "already_closed",
                       "conflict", "invalid_transition"}]

TypeOK ==
    /\ log \in [Sources -> Seq(Events \cup Skipped)]
    /\ committed \in [Sources -> Nat] /\ fetched \in [Sources -> Nat]
    /\ \A s \in Sources : committed[s] <= fetched[s] /\ fetched[s] <= Len(log[s])
    /\ at \in [Sources -> {"fetch", "handle", "commit"}]
    /\ \A s \in Sources : at[s] # "fetch" => fetched[s] > 0
    /\ dedup \subseteq Events
    /\ alarms \in [Events -> Rows]
    /\ request \in [Clients -> Requests]
    /\ \A c \in Clients : request[c].step # "idle" => request[c].alarm \in Events
    /\ countedIn \in [Events -> Events \cup {NoAlarm}]
    /\ givenUp \subseteq Events
    /\ crashes \in Nat

CountedEvents(a) == {e \in Events : countedIn[e] = a}

\* "Exactly once" (README of alarm): the count of an alarm is the number of
\* different events it stands for, and every event with a dedup row is counted
\* in one alarm of its own fingerprint, whatever was redelivered or lost.
CountedOnce ==
    /\ dedup = {e \in Events : countedIn[e] # NoAlarm}
    /\ \A e \in dedup : /\ FingerprintOf[countedIn[e]] = FingerprintOf[e]
                        /\ alarms[countedIn[e]].status # "none"
    /\ \A a \in Events : alarms[a].count = Cardinality(CountedEvents(a))

\* The index of open fingerprints: events merge into one alarm until it is
\* closed, and the insert for dispatch events never collides with it.
OneOpenPerFingerprint ==
    \A a, b \in Events :
      Live(a) /\ Live(b) /\ FingerprintOf[a] = FingerprintOf[b] => a = b

\* No message is lost unseen: what lies below a committed offset was filed or
\* was given up as poison, unless there was nothing to file in it.
NothingPassed ==
    \A s \in Sources : \A i \in 1..committed[s] :
      log[s][i] \in Skipped \cup dedup \cup givenUp

\* A late event does not turn back what the statement guards by occurred_at:
\* last_occurred_at and the attributes are those of one event counted in the
\* alarm, and no event counted in it is newer.
AttributesAreNewest ==
    \A a \in Events : alarms[a].status # "none" =>
      /\ alarms[a].attributes \in CountedEvents(a)
      /\ alarms[a].last = OccurredAt[alarms[a].attributes]
      /\ \A e \in CountedEvents(a) : OccurredAt[e] <= alarms[a].last

\* README of alarm on events that arrive late: the last_* columns of an alarm
\* do not go back.  The statement guards last_occurred_at only: last_event_id,
\* the title and the summary become those of the late event.
LastDoesNotRegress ==
    [][\A a \in Events : alarms[a].status # "none" =>
         /\ alarms'[a].last >= alarms[a].last
         /\ OccurredAt[alarms'[a].lastEvent] >= OccurredAt[alarms[a].lastEvent]]_vars

\* Who acknowledges or closes has seen every event counted so far: a merge
\* between the read and the update makes the update fail.
DecidedOnWhatWasSeen ==
    [][\A a \in Events :
         alarms[a].status # "none" /\ alarms'[a].status # alarms[a].status =>
           \E c \in Clients : /\ request[c].step = "update" /\ request[c].alarm = a
                              /\ request[c].seen = alarms[a].count]_vars

\* Every answer stays true: a success is not overwritten by another client,
\* and the loser of a race learns what it lost to, never invalid_transition.
AnswersAreTrue ==
    \A c \in Clients : request[c].step = "done" =>
      LET row == alarms[request[c].alarm]
          answer == request[c].answer
      IN  /\ answer \notin {"none", "invalid_transition"}
          /\ answer = "ok" => (IF request[c].op = "ack" THEN row.ackBy ELSE row.closedBy) = c
          /\ answer = "already_acknowledged" => row.ackBy # NoAlarm
          /\ answer = "already_closed" => row.status = "closed"
          /\ answer = "conflict" => row.version > request[c].version

\* Every event that is not given up is filed in the end, however often the
\* database fails and the process restarts.
EventuallyFiled ==
    <>[](\A s \in Sources : \A i \in 1..Len(log[s]) :
           log[s][i] \in Skipped \cup dedup \cup givenUp)
=============================================================================
