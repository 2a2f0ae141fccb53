----------------------------- MODULE PlanOutbox -----------------------------
(***************************************************************************)
(* internal/decision: the outbox that turns a stored plan into one Dispatch *)
(* task.  Workers (PlanExecutionLoop; no leader) pick a due row, claim it   *)
(* with a compare-and-swap on its lease token, check the catalog, call      *)
(* Dispatch.SubmitTask under an idempotency key that every attempt shares,  *)
(* and record the outcome in a transaction fenced by the token.             *)
(*                                                                          *)
(* ImmediatePlanner makes plans of one step, so a plan, its step and its    *)
(* outbox row are one thing here.  Time is two flags of a row: "due"        *)
(* (available_at has passed) and "live" (the lease has not).  The lease     *)
(* check of finish compares lease_until = now + lease with the same now the *)
(* row was claimed at, so it never fails: the token alone protects.         *)
(***************************************************************************)
EXTENDS Naturals, Sequences

CONSTANTS
    Workers,     \* worker processes
    Plans,       \* stored plans
    MaxFaults,   \* bound: errors, timeouts, crashes and slow workers
    MaxAttempts  \* bound: claims of a plan that can no longer be settled

ASSUME OutboxAssumption == MaxFaults \in Nat /\ MaxAttempts \in Nat

VARIABLES
    row,         \* row[p]: the outbox row [status, token, live, due]
    attempts,    \* attempts[p]: statuses of its execution rows, by attempt
    status,      \* status[p]: status of the plan and of its step
    worker,      \* worker[w]: [pc, plan, token, mark]
    requests,    \* SubmitTask calls on their way: <<plan, attempt>>
    replies,     \* answers of Dispatch on their way: <<plan, attempt>>
    tasks,       \* tasks[p]: Dispatch tasks created for p
    deleted,     \* Resource: the plans whose scope's root node is deleted
    faults

vars == <<row, attempts, status, worker, requests, replies, tasks, deleted, faults>>
network == <<requests, replies, tasks>>

Open == {"pending", "claimed"}
Settled == {"submitted", "stale", "failed"}
RowStatus == Open \cup Settled         \* outboxDone is called "submitted" here
ExecutionStatus == {"claimed", "submitted", "uncertain", "failed", "stale"}
PlanStatus == {"ready", "submitted", "stale"}

Idle == [pc |-> "idle"]
Busy == [pc : {"picked", "claimed", "calling"}, plan : Plans, token : Nat]
        \cup [pc : {"marking"}, plan : Plans, token : Nat,
              mark : Settled \cup {"uncertain"}]

\* Worker w knows what became of its claim and goes on to record it.
ToMark(w, m) ==
    worker' = [worker EXCEPT ![w] = [pc |-> "marking", plan |-> @.plan,
                                     token |-> @.token, mark |-> m]]
Leave(w) == worker' = [worker EXCEPT ![w] = Idle]

Fault == faults < MaxFaults /\ faults' = faults + 1

-----------------------------------------------------------------------------
\* PlanRepository.Save has stored every plan ready with its row pending.
Init ==
    /\ row = [p \in Plans |-> [status |-> "pending", token |-> 0,
                               live |-> FALSE, due |-> TRUE]]
    /\ attempts = [p \in Plans |-> <<>>]
    /\ status = [p \in Plans |-> "ready"]
    /\ worker = [w \in Workers |-> Idle]
    /\ requests = {} /\ replies = {}
    /\ tasks = [p \in Plans |-> 0]
    /\ deleted = {}
    /\ faults = 0

\* Mutant of Due: only pending rows are looked at.
DueIfPending(p) == row[p].status = "pending" /\ row[p].due

\* firstDue: a row that is due and whose lease, if any, is over.
Due(p) == row[p].status \in Open /\ row[p].due /\ ~row[p].live

\* claimOnce, the read.  The bound is on plans whose scope is gone only: each
\* of their attempts ends uncertain, and the code never stops trying.
Pick(w, p) ==
    /\ worker[w] = Idle
    /\ Due(p)
    /\ p \in deleted => row[p].token < MaxAttempts
    /\ worker' = [worker EXCEPT ![w] = [pc |-> "picked", plan |-> p,
                                        token |-> row[p].token]]
    /\ UNCHANGED <<row, attempts, status, network, deleted, faults>>

\* Mutant of Unclaimed: the update does not compare the token.
UnclaimedAnyToken(p, t) == row[p].status \in Open

\* The condition of the update in claimOnce: nobody claimed the row meanwhile.
Unclaimed(p, t) == row[p].token = t /\ row[p].status \in Open

\* Mutant of NewAttempt: the abandoned attempt stays claimed.
NewAttemptOnly(a) == Append(a, "claimed")

\* loadClaim: an attempt still claimed becomes uncertain, a new one is created.
NewAttempt(a) ==
    Append([i \in DOMAIN a |-> IF a[i] = "claimed" THEN "uncertain" ELSE a[i]],
           "claimed")

\* claimOnce, the rest of its transaction; the worker starts again if contended.
Claim(w) ==
    /\ worker[w].pc = "picked"
    /\ LET p == worker[w].plan
           t == worker[w].token
       IN  \/ /\ Unclaimed(p, t)
              /\ row' = [row EXCEPT ![p] = [status |-> "claimed", token |-> @.token + 1,
                                            live |-> TRUE, due |-> @.due]]
              /\ attempts' = [attempts EXCEPT ![p] = NewAttempt(@)]
              /\ worker' = [worker EXCEPT ![w] = [pc |-> "claimed", plan |-> p,
                                                  token |-> t + 1]]
           \/ /\ ~Unclaimed(p, t)
              /\ Leave(w)
              /\ UNCHANGED <<row, attempts>>
    /\ UNCHANGED <<status, network, deleted, faults>>

\* execute, ResolveScope: the catalog matches the plan, has changed, no longer
\* has the scope, or cannot be asked.  The last two are the same to the loop.
\* (taskFromClaim cannot fail on a stored plan.)
CatalogMatches(w) ==
    /\ worker[w].pc = "claimed"
    /\ worker[w].plan \notin deleted
    /\ worker' = [worker EXCEPT ![w].pc = "calling"]
    /\ requests' = requests \cup {<<worker[w].plan, worker[w].token>>}
    /\ UNCHANGED <<row, attempts, status, replies, tasks, deleted, faults>>
CatalogChanged(w) ==
    /\ worker[w].pc = "claimed"
    /\ worker[w].plan \notin deleted
    /\ ToMark(w, "stale")
    /\ UNCHANGED <<row, attempts, status, network, deleted, faults>>
ScopeGone(w) ==
    /\ worker[w].pc = "claimed"
    /\ worker[w].plan \in deleted
    /\ ToMark(w, "uncertain")
    /\ UNCHANGED <<row, attempts, status, network, deleted, faults>>
CatalogError(w) ==
    /\ worker[w].pc = "claimed"
    /\ Fault
    /\ ToMark(w, "uncertain")
    /\ UNCHANGED <<row, attempts, status, network, deleted>>

\* Resource deletes the root of a plan's scope.  Ids are drawn anew for every
\* node, so ResolveScope answers ErrScopeNotFound from then on.
DeleteScope(p) ==
    /\ p \notin deleted
    /\ deleted' = deleted \cup {p}
    /\ UNCHANGED <<row, attempts, status, worker, network, faults>>

\* Mutant of KnownKey: the key names the attempt, so no two calls share one.
KnownKeyOfAttempt(p, t) == FALSE

\* Dispatch stored a task under the key of attempt t of plan p before.  The key
\* does not depend on t (StepIdempotencyKey).
KnownKey(p, t) == tasks[p] > 0

\* Dispatch handles a call, however late: the task stored under the key is
\* returned, or a new one is created.
Deliver(p, t) ==
    /\ <<p, t>> \in requests
    /\ requests' = requests \ {<<p, t>>}
    /\ replies' = replies \cup {<<p, t>>}
    /\ tasks' = IF KnownKey(p, t) THEN tasks ELSE [tasks EXCEPT ![p] = @ + 1]
    /\ UNCHANGED <<row, attempts, status, worker, deleted, faults>>

\* SubmitTask returns to the worker: a task id, an error taken for a definite
\* refusal (Dispatch turned the call down, or failed after it stored the task
\* with a text that toGRPCError reads as the caller's fault), or an error that
\* leaves the result unknown.
Answer(w) ==
    /\ worker[w].pc = "calling"
    /\ <<worker[w].plan, worker[w].token>> \in replies
    /\ ToMark(w, "submitted")
    /\ replies' = replies \ {<<worker[w].plan, worker[w].token>>}
    /\ UNCHANGED <<row, attempts, status, requests, tasks, deleted, faults>>
Refuse(w) ==
    /\ worker[w].pc = "calling"
    /\ <<worker[w].plan, worker[w].token>> \in requests \cup replies
    /\ ToMark(w, "failed")
    /\ requests' = requests \ {<<worker[w].plan, worker[w].token>>}
    /\ replies' = replies \ {<<worker[w].plan, worker[w].token>>}
    /\ UNCHANGED <<row, attempts, status, tasks, deleted, faults>>
Timeout(w) ==
    /\ worker[w].pc = "calling"
    /\ Fault
    /\ ToMark(w, "uncertain")
    /\ UNCHANGED <<row, attempts, status, network, deleted>>

\* What finish and the updates it runs compare before anything is written: the
\* row still carries the claim, the attempt is open, the plan is ready.
MayMark(p, t, m) ==
    /\ row[p].status = "claimed" /\ row[p].token = t
    /\ attempts[p][t] = "claimed"
    /\ m \in {"submitted", "stale"} => status[p] = "ready"

\* MarkSubmitted and MarkStale change the plan and its step, MarkFailed does not.
StatusAfter(p, m) == IF m \in {"submitted", "stale"} THEN m ELSE status[p]

\* MarkSubmitted, MarkUncertain, MarkStale and MarkFailed: one transaction, or
\* ErrLeaseLost, which is logged.
Mark(w) ==
    /\ worker[w].pc = "marking"
    /\ LET p == worker[w].plan
           t == worker[w].token
           m == worker[w].mark
       IN  \/ /\ MayMark(p, t, m)
              /\ attempts' = [attempts EXCEPT ![p][t] = m]
              /\ status' = [status EXCEPT ![p] = StatusAfter(p, m)]
              /\ row' = [row EXCEPT ![p] =
                    [status |-> IF m = "uncertain" THEN "pending" ELSE m,
                     token |-> @.token, live |-> FALSE,
                     due |-> m # "uncertain" /\ @.due]]
           \/ /\ ~MayMark(p, t, m)
              /\ UNCHANGED <<row, attempts, status>>
    /\ Leave(w)
    /\ UNCHANGED <<network, deleted, faults>>

\* The process dies, or recording the outcome fails: the claim is orphaned.
Crash(w) ==
    /\ worker[w] # Idle
    /\ Fault
    /\ Leave(w)
    /\ UNCHANGED <<row, attempts, status, network, deleted>>

\* lease_until passes.  Under a worker that still holds the claim that is a
\* slow worker, one of the bounded faults.
Held(p) == \E w \in Workers : /\ worker[w].pc \in {"claimed", "calling", "marking"}
                              /\ worker[w].plan = p
                              /\ worker[w].token = row[p].token
Expire(p) ==
    /\ row[p].live
    /\ IF Held(p) THEN Fault ELSE UNCHANGED faults
    /\ row' = [row EXCEPT ![p].live = FALSE]
    /\ UNCHANGED <<attempts, status, worker, network, deleted>>

\* available_at passes: now + retryAfter is reached.
BecomeDue(p) ==
    /\ ~row[p].due
    /\ row' = [row EXCEPT ![p].due = TRUE]
    /\ UNCHANGED <<attempts, status, worker, network, deleted, faults>>

Step(w) == \/ \E p \in Plans : Pick(w, p)
           \/ Claim(w) \/ CatalogMatches(w) \/ CatalogChanged(w)
           \/ ScopeGone(w) \/ CatalogError(w)
           \/ Answer(w) \/ Refuse(w) \/ Timeout(w) \/ Mark(w)

Next == \/ \E w \in Workers : Step(w) \/ Crash(w)
        \/ \E p \in Plans : Expire(p) \/ BecomeDue(p) \/ DeleteScope(p)
        \/ \E p \in Plans, t \in 1..(MaxFaults + 1) : Deliver(p, t)

Spec == Init /\ [][Next]_vars

\* Workers tick for ever, clocks advance, Dispatch handles what reaches it.
FairSpec ==
    /\ Spec
    /\ \A w \in Workers : WF_vars(Step(w))
    /\ \A p \in Plans : /\ WF_vars(Expire(p)) /\ WF_vars(BecomeDue(p))
                        /\ \A t \in 1..(MaxFaults + 1) : WF_vars(Deliver(p, t))
-----------------------------------------------------------------------------
\* The shape of the state.
TypeOK ==
    /\ row \in [Plans -> [status : RowStatus, token : Nat,
                          live : BOOLEAN, due : BOOLEAN]]
    /\ attempts \in [Plans -> Seq(ExecutionStatus)]
    /\ status \in [Plans -> PlanStatus]
    /\ worker \in [Workers -> {Idle} \cup Busy]
    /\ requests \subseteq Plans \X Nat
    /\ replies \subseteq Plans \X Nat
    /\ tasks \in [Plans -> Nat]
    /\ deleted \subseteq Plans
    /\ faults \in 0..MaxFaults

\* The three tables that record an execution (outbox row, execution rows, plan
\* and step) never disagree, whichever worker wrote last: the row's status is
\* that of the last attempt, the attempts before it all ended uncertain, and
\* the plan has left "ready" exactly when the row says submitted or stale.
RecordsAgree ==
    \A p \in Plans :
      LET r == row[p]
          n == Len(attempts[p])
      IN  /\ r.token = n
          /\ \A i \in 1..(n - 1) : attempts[p][i] = "uncertain"
          /\ r.status = "pending" => n = 0 \/ attempts[p][n] = "uncertain"
          /\ r.status # "pending" => n > 0 /\ attempts[p][n] = r.status
          /\ status[p] = IF r.status \in {"submitted", "stale"} THEN r.status
                                                              ELSE "ready"

\* Two workers never hold the same claim: the token of a claim has one owner.
OneOwner ==
    \A v, w \in Workers :
      (/\ v # w
       /\ {worker[v].pc, worker[w].pc} \subseteq {"claimed", "calling", "marking"}
       /\ worker[v].plan = worker[w].plan)
        => worker[v].token # worker[w].token

\* At most one Dispatch task per plan, a plan settled once, and as submitted
\* only if its task exists: see PlanContract.
Outcome == [p \in Plans |-> IF row[p].status \in Open THEN "open" ELSE row[p].status]
Contract == INSTANCE PlanContract WITH outcome <- Outcome
ContractSpec == Contract!Spec

\* Every stored plan is settled in the end: a crashed worker's claim, a lost
\* answer or a lease that ran out never leaves it waiting for ever.  The one
\* excuse is a deleted scope, over which the loop tries again for ever.
EventuallySettled ==
    \A p \in Plans : <>(row[p].status \in Settled \/ p \in deleted)

\* The comments and tests of plan executions: a plan becomes stale before it is
\* dispatched.  The loop checks the catalog again after an attempt whose answer
\* was lost, and Dispatch may run the task of a plan that is then marked stale.
StaleIsUndispatched == \A p \in Plans : status[p] = "stale" => tasks[p] = 0

\* The strengthening that makes these inductive: a worker's token was handed out
\* by the row it names, and whoever saw an answer saw a stored task.
TokensHandedOut ==
    \A w \in Workers :
      worker[w].pc # "idle" =>
        /\ worker[w].token <= row[worker[w].plan].token
        /\ worker[w].pc # "picked" => worker[w].token > 0
AnswersAreTasks ==
    /\ \A p \in Plans : tasks[p] <= 1
    /\ \A r \in replies : tasks[r[1]] = 1
    /\ \A w \in Workers :
         worker[w].pc = "marking" /\ worker[w].mark = "submitted"
           => tasks[worker[w].plan] = 1

IInv == TypeOK /\ RecordsAgree /\ OneOwner /\ TokensHandedOut /\ AnswersAreTasks
=============================================================================
