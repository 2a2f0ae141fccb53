----------------------------- MODULE ImportJobs -----------------------------
(* Import jobs of vpp-resource.  Every replica runs one worker that polls   *)
(* the table for a job, creates its items chunk by chunk, each chunk in a   *)
(* transaction of its own, and writes the whole row of the job after every  *)
(* chunk and at the end.  A failed job has its chunks deleted again and may *)
(* be retried by a client; a job whose worker died is claimed again when it *)
(* has been running for longer than stuckJobTimeout.                        *)
(*                                                                          *)
(* Left out: counters and messages, and next_retry_at, which Fail sets and  *)
(* only pending jobs are asked for: the two never meet.                     *)
EXTENDS Naturals, FiniteSets

CONSTANTS Workers, Clients,
          Jobs,          \* in the order of created_at
          Chunks,        \* a job's items, as many as fill one batch each
          MaxAttempts,
          StuckTimeout,  \* in ticks
          MaxRuns        \* bound: claims of one job

ASSUME JobAssumption ==
    /\ Jobs \subseteq Nat /\ Chunks \in Nat \ {0}
    /\ MaxAttempts \in Nat \ {0} /\ StuckTimeout \in Nat /\ MaxRuns \in Nat

VARIABLES
    kind,   \* of each job: "asset" (or cu), or "point", which has unique keys
    row,    \* import_jobs
    live,   \* the created resources that are not deleted
    step,   \* each worker: what it does next
    copy,   \* each worker: the job in its memory
    read,   \* each client: the job its retry has read
    runs,   \* history: how often each job was claimed
    faults  \* history: what went wrong with each job besides a failing chunk

vars == <<kind, row, live, step, copy, read, runs, faults>>

\* age: ticks since started_at, as long as that matters.
Rows == [status : {"pending", "running", "success", "failed"}, attempts : Nat,
         age : 0..StuckTimeout + 1, result : SUBSET [job : Jobs, run : Nat, chunk : Nat]]
NewRow == [status |-> "pending", attempts |-> 0, age |-> 0, result |-> {}]

NoJob == [job |-> 0, run |-> 0, row |-> NewRow, next |-> 0, made |-> {}]
NoRead == [job |-> 0, row |-> NewRow]

Init ==
    /\ kind \in [Jobs -> {"asset", "point"}]
    /\ row = [j \in Jobs |-> NewRow]
    /\ live = {}
    /\ step = [w \in Workers |-> "idle"]
    /\ copy = [w \in Workers |-> NoJob]
    /\ read = [c \in Clients |-> NoRead]
    /\ runs = [j \in Jobs |-> 0]
    /\ faults = [j \in Jobs |-> {}]

Working(w, j) == step[w] # "idle" /\ copy[w].job = j
Mark(j, fault) == faults' = [faults EXCEPT ![j] = @ \cup {fault}]
-----------------------------------------------------------------------------
(* Claiming *)

Stuck(r) == r.status = "running" /\ r.age > StuckTimeout

\* History: a worker has been at the job for too long, but has not died.
StillWorkedOn(j) == \E w \in Workers : Working(w, j) /\ copy[w].row.age > StuckTimeout

\* Mutants of Claimable: nobody takes over what a dead worker left; a
\* running job is taken whatever its age.
ClaimablePending(r) == r.attempts < MaxAttempts /\ r.status = "pending"

ClaimableRunning(r) == r.attempts < MaxAttempts /\ r.status \in {"pending", "running"}

Claimable(r) == r.attempts < MaxAttempts /\ (r.status = "pending" \/ Stuck(r))

Queue == {j \in Jobs : Claimable(row[j]) /\ runs[j] < MaxRuns}

\* ClaimPendingJob: one statement takes the oldest job there is.
Claim(w) ==
    /\ step[w] = "idle"
    /\ \E j \in Queue :
         LET taken == [row[j] EXCEPT !.status = "running", !.attempts = @ + 1, !.age = 0] IN
         /\ \A i \in Queue : j <= i
         /\ row' = [row EXCEPT ![j] = taken]
         /\ runs' = [runs EXCEPT ![j] = @ + 1]
         /\ copy' = [copy EXCEPT ![w] = [job |-> j, run |-> runs[j] + 1, row |-> taken,
                                         next |-> 1, made |-> {}]]
         /\ IF StillWorkedOn(j) THEN Mark(j, "overtaken") ELSE UNCHANGED faults
    /\ step' = [step EXCEPT ![w] = "create"]
    /\ UNCHANGED <<kind, live, read>>
-----------------------------------------------------------------------------
(* Execute: BatchCreateAssets, BatchCreateCUs, BatchCreatePoints *)

Goto(w, s) == step' = [step EXCEPT ![w] = s]
Resource(w) == [job |-> copy[w].job, run |-> copy[w].run, chunk |-> copy[w].next]

\* uq_points_active_metric.
Duplicate(w) ==
    kind[copy[w].job] = "point" /\
    \E r \in live : r.job = copy[w].job /\ r.chunk = copy[w].next

CreateChunk(w) ==
    /\ step[w] = "create" /\ ~Duplicate(w)
    /\ live' = live \cup {Resource(w)}
    /\ copy' = [copy EXCEPT ![w].made = @ \cup {Resource(w)}]
    /\ Goto(w, "report")
    /\ UNCHANGED <<kind, row, read, runs, faults>>

\* Mutant of AfterFailure: the chunks before the failing one are forgotten.
AfterFailureFail(w) == "fail"

\* compensateCreated.
AfterFailure(w) == IF copy[w].made = {} THEN "fail" ELSE "compensate"

ChunkFails(w) ==
    /\ step[w] = "create"
    /\ Goto(w, AfterFailure(w))
    /\ UNCHANGED <<kind, row, live, copy, read, runs, faults>>

\* The transaction commits and the answer is lost: an error like any other.
ChunkAnswerLost(w) ==
    /\ step[w] = "create" /\ ~Duplicate(w)
    /\ live' = live \cup {Resource(w)}
    /\ Mark(copy[w].job, "answer lost")
    /\ Goto(w, AfterFailure(w))
    /\ UNCHANGED <<kind, row, copy, read, runs>>

\* SaveJob writes every column from memory; all it asks for is the id.
SaveRow(j, r) == row' = [row EXCEPT ![j] = r]

\* The callback after a chunk; its error is dropped.
Report(w) ==
    /\ step[w] = "report"
    /\ SaveRow(copy[w].job, copy[w].row) \/ UNCHANGED row
    /\ copy' = [copy EXCEPT ![w].next = @ + 1]
    /\ Goto(w, IF copy[w].next = Chunks THEN "complete" ELSE "create")
    /\ UNCHANGED <<kind, live, read, runs, faults>>

\* Mutant of Undo: whatever there is of the job.
UndoJob(w) == {r \in live : r.job = copy[w].job}

Undo(w) == copy[w].made

Compensate(w) ==
    /\ step[w] = "compensate"
    /\ live' = live \ Undo(w)
    /\ copy' = [copy EXCEPT ![w].made = {}]
    /\ Goto(w, "fail")
    /\ UNCHANGED <<kind, row, read, runs, faults>>

CompensateFails(w) ==
    /\ step[w] = "compensate"
    /\ Mark(copy[w].job, "not deleted")
    /\ copy' = [copy EXCEPT ![w].made = {}]
    /\ Goto(w, "fail")
    /\ UNCHANGED <<kind, row, live, read, runs>>
-----------------------------------------------------------------------------
(* processNext: the end of a job *)

Rest(w) ==
    /\ Goto(w, "idle")
    /\ copy' = [copy EXCEPT ![w] = NoJob]

Failed(r) == [r EXCEPT !.status = "failed"]
Completed(r, made) == [r EXCEPT !.status = "success", !.result = made]

\* Fail.  When the write is lost the job stays running until it is stuck.
Fail(w) ==
    /\ step[w] = "fail"
    /\ SaveRow(copy[w].job, Failed(copy[w].row)) \/ UNCHANGED row
    /\ Rest(w)
    /\ UNCHANGED <<kind, live, read, runs, faults>>

Complete(w) ==
    /\ step[w] = "complete"
    /\ SaveRow(copy[w].job, Completed(copy[w].row, copy[w].made))
    /\ Rest(w)
    /\ UNCHANGED <<kind, live, read, runs, faults>>

\* The last write fails and is only logged: a finished job looks stuck.
CompleteFails(w) ==
    /\ step[w] = "complete"
    /\ Mark(copy[w].job, "not saved")
    /\ Rest(w)
    /\ UNCHANGED <<kind, row, live, read, runs>>

Crash(w) ==
    /\ step[w] # "idle"
    /\ Mark(copy[w].job, "crash")
    /\ Rest(w)
    /\ UNCHANGED <<kind, row, live, read, runs>>
-----------------------------------------------------------------------------
(* RetryJob: a client reads the job and writes it back. *)

CanRetry(r) == r.status = "failed" /\ r.attempts < MaxAttempts

ReadForRetry(c) ==
    /\ read[c] = NoRead
    /\ \E j \in Jobs : CanRetry(row[j]) /\ read' = [read EXCEPT ![c] = [job |-> j, row |-> row[j]]]
    /\ UNCHANGED <<kind, row, live, step, copy, runs, faults>>

ResetForRetry(r) == [r EXCEPT !.status = "pending", !.age = 0]

\* Nothing tells whether the row is still the one that was read.
Retry(c) ==
    LET j == read[c].job IN
    /\ read[c] # NoRead
    /\ SaveRow(j, ResetForRetry(read[c].row))
    /\ IF row[j] # read[c].row THEN Mark(j, "overtaken") ELSE UNCHANGED faults
    /\ read' = [read EXCEPT ![c] = NoRead]
    /\ UNCHANGED <<kind, live, step, copy, runs>>

RetryFails(c) ==
    /\ read[c] # NoRead
    /\ read' = [read EXCEPT ![c] = NoRead]
    /\ UNCHANGED <<kind, row, live, step, copy, runs, faults>>
-----------------------------------------------------------------------------
Older(r) == [r EXCEPT !.age = IF @ <= StuckTimeout THEN @ + 1 ELSE @]

OlderIfRunning(r) == IF r.status = "running" THEN Older(r) ELSE r

Tick ==
    /\ row' = [j \in Jobs |-> OlderIfRunning(row[j])]
    /\ copy' = [w \in Workers |-> [copy[w] EXCEPT !.row = OlderIfRunning(@)]]
    /\ UNCHANGED <<kind, live, step, read, runs, faults>>

Work(w) == \/ Claim(w) \/ CreateChunk(w) \/ ChunkFails(w) \/ ChunkAnswerLost(w) \/ Report(w)
           \/ Compensate(w) \/ CompensateFails(w) \/ Fail(w) \/ Complete(w) \/ CompleteFails(w)

Next ==
    \/ \E w \in Workers : Work(w) \/ Crash(w)
    \/ \E c \in Clients : ReadForRetry(c) \/ Retry(c) \/ RetryFails(c)
    \/ Tick

Spec == Init /\ [][Next]_vars

\* The workers poll and work; time passes.
FairSpec == Spec /\ WF_vars(Tick) /\ \A w \in Workers : WF_vars(Work(w))
-----------------------------------------------------------------------------
MadeFor(j) == UNION {copy[w].made : w \in {v \in Workers : Working(v, j)}}

\* ImportWorker.processNext, whatever happens: what a job reported as successful
\* says it created is there, one resource for every item.
SuccessIsReal ==
    \A j \in Jobs : row[j].status = "success" =>
      /\ row[j].result \subseteq live
      /\ \A i \in 1..Chunks : \E r \in row[j].result : r.job = j /\ r.chunk = i

\* compensateCreated and RetryJob: failing chunks and retries, however often
\* and whoever asks for them, leave nothing behind.  The resources of a job are
\* those of its result and those its worker is about to report or to delete.
NothingLeftBehind ==
    \A j \in Jobs : faults[j] = {} =>
      {r \in live : r.job = j} = row[j].result \cup MadeFor(j)

\* ClaimPendingJob and SaveJob: a job is executed as often as its attempts say
\* and not more often than it may, and its success is the last word, unless a
\* copy of the row that was read earlier has been written over a later one.
AttemptsCounted ==
    \A j \in Jobs : "overtaken" \notin faults[j] =>
      /\ runs[j] = row[j].attempts /\ runs[j] <= MaxAttempts
      /\ row[j].status = "success" => \A w \in Workers : ~Working(w, j)

\* import_worker.go: no two pods run the same job.  The lock of ClaimPendingJob
\* lasts for the statement only; after stuckJobTimeout a job is claimed again,
\* whether its first worker has died or is just slow.
OneWorkerPerJob ==
    \A j \in Jobs : \A v, w \in Workers : Working(v, j) /\ Working(w, j) => v = w

\* Its last attempt broke off: nobody will claim the job again, and RetryJob
\* refuses it, as it still says running.
Abandoned(j) ==
    row[j].attempts >= MaxAttempts /\ row[j].status = "running" /\ \A w \in Workers : ~Working(w, j)

\* The poll of the import workers: every job comes to an end, however many
\* workers die, unless that happens in its last attempt.
EventuallyDecided ==
    \A j \in Jobs : []<>(\/ row[j].status \in {"success", "failed"} \/ Abandoned(j)
                         \/ "overtaken" \in faults[j])
-----------------------------------------------------------------------------
(* The strengthening that makes the three invariants inductive.             *)

Resources == [job : Jobs, run : Nat, chunk : Nat]
Copies == [job : Nat, run : Nat, row : Rows, next : Nat, made : SUBSET Resources]
Steps == {"idle", "create", "report", "compensate", "fail", "complete"}

TypeOK ==
    /\ row \in [Jobs -> Rows]
    /\ live \subseteq Resources
    /\ step \in [Workers -> Steps]
    /\ copy \in [Workers -> Copies]
    /\ read \in [Clients -> [job : Nat, row : Rows]]
    /\ runs \in [Jobs -> Nat]
    /\ faults \in [Jobs -> SUBSET {"overtaken", "answer lost", "not deleted", "not saved", "crash"}]

Covers(made, n) == \A i \in 1..n : \E r \in made : r.chunk = i

\* Only a successful job has a result, which one of its runs has made.
RowFine(j) ==
    /\ row[j].status # "success" => row[j].result = {}
    /\ \A r \in row[j].result : r.job = j /\ r.run <= runs[j]

\* What a worker with step s and memory y has made is there, is its own, and
\* is no job's result yet.
WorkFine(s, y) ==
    s # "idle" =>
      /\ y.job \in Jobs /\ y.run <= runs[y.job]
      /\ y.row.status = "running" /\ y.row.result = {}
      /\ y.made \subseteq live
      /\ \A r \in y.made : r.job = y.job /\ r.run = y.run
      /\ \A r \in row[y.job].result : r.run # y.run
      /\ s \in {"create", "report"} => y.next \in 1..Chunks
      /\ s = "create" => Covers(y.made, y.next - 1)
      /\ s = "report" => Covers(y.made, y.next)
      /\ s = "complete" => Covers(y.made, Chunks)
      /\ s = "fail" => y.made = {}

ReadFine(x) == x # NoRead => x.job \in Jobs /\ x.row.status = "failed" /\ x.row.result = {}

\* Two workers at one job are at different runs of it.
RunsApart ==
    \A v, w \in Workers :
      v # w /\ step[v] # "idle" /\ step[w] # "idle" /\ copy[v].job = copy[w].job
        => copy[v].run # copy[w].run

\* Without a stale write, one worker at most is at a job, and its copy of the
\* row is the row.
OneAtATime(j) ==
    "overtaken" \notin faults[j] =>
      /\ runs[j] = row[j].attempts /\ runs[j] <= MaxAttempts
      /\ \A w \in Workers : Working(w, j) => copy[w].row = row[j]
      /\ \A v, w \in Workers : Working(v, j) /\ Working(w, j) => v = w

IInv ==
    /\ TypeOK /\ SuccessIsReal /\ NothingLeftBehind /\ RunsApart
    /\ \A j \in Jobs : RowFine(j) /\ OneAtATime(j)
    /\ \A w \in Workers : WorkFine(step[w], copy[w])
    /\ \A c \in Clients : ReadFine(read[c])
=============================================================================
