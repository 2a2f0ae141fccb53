-------------------------- MODULE DispatchService --------------------------
(***************************************************************************)
(* internal/dispatch as it runs: SubmitTask, the Kafka command-result      *)
(* consumer, the TimeoutScanner and CancelTask work on the same rows at    *)
(* the same time.  Each handler loads the whole tree into its own memory,  *)
(* calls the Dispatcher on that copy and writes back row by row, without a *)
(* transaction, a lock or a version check.  The gateway executes a command *)
(* and publishes its CommandCompleted event before the RPC that asked for  *)
(* it returns.                                                             *)
(*                                                                         *)
(* A step is one access to something shared, with the work in memory that  *)
(* follows it: one load, one row update, one RPC.  A load (three SELECTs   *)
(* of loadTaskTree) is one step; deadlines are abstract: the scanner may   *)
(* find any command in flight expired.                                     *)
(***************************************************************************)
EXTENDS DispatchTree, Sequences

CONSTANTS
    Faults,      \* what may go wrong, a subset of
                 \*   {"reject", "rpcError", "eventLost", "cancel", "dbError"}
    MaxCrashes   \* bound: how often the process may crash and restart

ASSUME ServiceAssumption ==
    /\ Faults \subseteq {"reject", "rpcError", "eventLost", "cancel", "dbError"}
    /\ MaxCrashes \in Nat

Handlers == {"submit", "consumer", "scanner", "cancel"}

VARIABLES
    db,          \* the rows of the task
    at,          \* at[h]: what handler h is doing
    mem,         \* mem[h]: the tree in the memory of handler h
    writes,      \* writes[h]: rows persistOutcome has still to write
    todo,        \* todo[h]: the queue of dispatchCommands
    topic,       \* vpp.command.events, one partition: the successful commands
                 \* whose messages the consumer group has not committed
    fetched,     \* how many of them the consumer has fetched
    executed,    \* history: the device got a command 0, 1 or (2) more times
    givenUp,     \* history: commands some handler marked failed or cancelled
    published,   \* history: terminal task events published
    interrupted, \* history: some handler was cut short by a failure or a crash
    crashes

vars == <<db, at, mem, writes, todo, topic, fetched, executed, givenUp,
          published, interrupted, crashes>>
handlers == <<at, mem, writes, todo, givenUp>>
ends == <<interrupted, crashes>>
kafka == <<topic, fetched>>

\* A row to write: the command, action or task row, or the terminal event.
Row(kind, id) == [kind |-> kind, id |-> id]
Rows == [kind : {"cmd", "act", "task", "event"}, id : Nat]

\* The elements of S in the order of the slices they come from: the i-th has
\* i - 1 elements before it.
InOrder(S) == [i \in 1..Cardinality(S) |->
                 CHOOSE x \in S : Cardinality({y \in S : y < x}) = i - 1]

RowSeq(kind, S) == [i \in 1..Cardinality(S) |-> Row(kind, InOrder(S)[i])]

\* What persistOutcome writes after the Dispatcher turned tree t into u for
\* command c: c first, then the other changed commands, the changed actions in
\* the same order, then the task and its terminal event.
Persist(c, t, u) ==
    LET cmds == {d \in Commands : t.cmd[d] # u.cmd[d]}
        acts == {a \in Actions : t.act[a] # u.act[a]}
    IN  RowSeq("cmd", cmds \cap {c}) \o RowSeq("cmd", cmds \ {c})
        \o RowSeq("act", acts \cap {ActionOf[c]}) \o RowSeq("act", acts \ {ActionOf[c]})
        \o IF t.task # u.task THEN <<Row("task", 0), Row("event", 0)>> ELSE <<>>

\* Mutant of PersistCancel: the task row is forgotten.
PersistCancelNoTask(t) ==
    LET acts == {a \in Actions : t.act[a] \in {"pending", "running"}}
    IN  RowSeq("cmd", {c \in Commands : ActionOf[c] \in acts /\ t.cmd[c] = "pending"})
        \o RowSeq("act", acts)

\* What it writes after Dispatcher.Cancel: every cancelled command, also one
\* cancelled before, of an action that was not over, those actions, the task.
PersistCancel(t) ==
    LET acts == {a \in Actions : t.act[a] \in {"pending", "running"}}
    IN  RowSeq("cmd", {c \in Commands : /\ ActionOf[c] \in acts
                                        /\ Cancelled(t).cmd[c] = "cancelled"})
        \o RowSeq("act", acts) \o <<Row("task", 0), Row("event", 0)>>

\* Handler h goes on with tree u in memory, rows w to write and queue q.
GivenUpIn(t) == {c \in Commands : t.cmd[c] \in {"failed", "cancelled"}}
Work(h, u, w, q) ==
    /\ mem' = [mem EXCEPT ![h] = u]
    /\ givenUp' = givenUp \cup GivenUpIn(u)
    /\ writes' = [writes EXCEPT ![h] = w]
    /\ todo' = [todo EXCEPT ![h] = q]

\* Where a handler is between two runs: the request handlers run once here.
Rest(h) == IF h \in {"submit", "cancel"} THEN "done" ELSE "idle"

\* Handler h returns: its memory is dropped.
Return(h) ==
    /\ at' = [at EXCEPT ![h] = Rest(h)]
    /\ Work(h, NewTree, <<>>, <<>>)

-----------------------------------------------------------------------------
Init ==
    /\ db = NewTree
    /\ at = [h \in Handlers |-> IF h = "submit" THEN "new" ELSE "idle"]
    /\ mem = [h \in Handlers |-> NewTree]
    /\ writes = [h \in Handlers |-> <<>>]
    /\ todo = [h \in Handlers |-> <<>>]
    /\ topic = <<>> /\ fetched = 0
    /\ executed = [c \in Commands |-> 0]
    /\ givenUp = {} /\ published = {}
    /\ interrupted = FALSE /\ crashes = 0

\* SubmitTask, after Save stored the tree: start the task and its first action.
Submit ==
    /\ at["submit"] = "new"
    /\ at' = [at EXCEPT !["submit"] = "work"]
    /\ LET t == Started(NewTree)
           first == NextPendingAction(NewTree)
       IN  Work("submit", t, <<Row("task", 0)>> \o RowSeq("act", first),
                InOrder(UNION {CommandsToDispatch(t, a) : a \in first}))
    /\ UNCHANGED <<db, kafka, executed, published, ends>>

\* CommitMessages for the last of n fetched messages commits those before it.
Commit(n) == topic' = SubSeq(topic, n + 1, Len(topic)) /\ fetched' = 0

\* The consumer fetches the next message, loads the tree of its command and
\* calls HandleCommandResult: a terminal command or a finished task is
\* ignored, an error leaves the message uncommitted and goes on.
Consume ==
    /\ at["consumer"] = "idle"
    /\ fetched < Len(topic)
    /\ LET c == topic[fetched + 1]
           o == OnSuccess(db, c)
       IN  \/ /\ IsTerminal(db.cmd[c]) \/ IsFinished(db)
              /\ Commit(fetched + 1)
              /\ UNCHANGED handlers
           \/ /\ ~IsTerminal(db.cmd[c]) /\ ~IsFinished(db)
              /\ o.ok
              /\ fetched' = fetched + 1
              /\ at' = [at EXCEPT !["consumer"] = "work"]
              /\ Work("consumer", o.tree, Persist(c, db, o.tree),
                      InOrder(o.next))
              /\ UNCHANGED topic
           \/ /\ ~IsTerminal(db.cmd[c]) /\ ~IsFinished(db)
              /\ ~o.ok
              /\ fetched' = fetched + 1
              /\ UNCHANGED <<topic, handlers>>
    /\ UNCHANGED <<db, executed, published, ends>>

\* The scanner loads the tree of a command it found expired; a finished task
\* is skipped, an error of OnCommandTimeout is only logged.
Scan(c) ==
    /\ at["scanner"] = "idle"
    /\ db.cmd[c] = "sending"
    /\ ~IsFinished(db)
    /\ LET o == OnTimeout(db, c)
       IN  /\ o.ok
           /\ at' = [at EXCEPT !["scanner"] = "work"]
           /\ Work("scanner", o.tree, Persist(c, db, o.tree), InOrder(o.next))
    /\ UNCHANGED <<db, kafka, executed, published, ends>>

\* CancelTask: Dispatcher.Cancel on the loaded tree (one call).
CancelTask ==
    /\ "cancel" \in Faults
    /\ at["cancel"] = "idle"
    /\ ~IsFinished(db)
    /\ at' = [at EXCEPT !["cancel"] = "work"]
    /\ Work("cancel", Cancelled(db), PersistCancel(db), <<>>)
    /\ UNCHANGED <<db, kafka, executed, published, ends>>

\* persistOutcome: the next UPDATE by id, or the event after the task row.
WriteRow(h) ==
    /\ at[h] = "work" /\ writes[h] # <<>>
    /\ LET row == Head(writes[h])
           t == mem[h]
       IN  /\ db' = CASE row.kind = "cmd" ->
                           [db EXCEPT !.cmd[row.id] = t.cmd[row.id],
                                      !.retries[row.id] = t.retries[row.id]]
                      [] row.kind = "act" -> [db EXCEPT !.act[row.id] = t.act[row.id]]
                      [] row.kind = "task" -> [db EXCEPT !.task = t.task]
                      [] row.kind = "event" -> db
           /\ published' = IF row.kind = "event" THEN published \cup {t.task}
                                                 ELSE published
    /\ writes' = [writes EXCEPT ![h] = Tail(@)]
    /\ UNCHANGED <<at, mem, todo, kafka, executed, givenUp, ends>>

\* Mutant of Accepted: the Sending row is never stored.
AcceptedInMemory(h, c, q) == Work(h, SetCmd(mem[h], c, "sending"), <<>>, q)

\* dispatchOne after GatewayAccepted: MarkSending in memory, to be stored.
Accepted(h, c, q) == Work(h, SetCmd(mem[h], c, "sending"), <<Row("cmd", c)>>, q)

\* dispatchOne after a rejection or an error: applyFailure.
Rejected(h, c, q) ==
    LET o == OnFailure(mem[h], c)
    IN  \/ /\ o.ok
           /\ Work(h, o.tree, Persist(c, mem[h], o.tree), q \o InOrder(o.next))
           /\ UNCHANGED at
        \/ ~o.ok /\ Return(h)

\* Gateway ExecuteCommand of a command it does not reject: the device gets it,
\* CommandCompleted is published as best effort.
Execute(c) ==
    /\ executed' = [executed EXCEPT ![c] = IF @ < 2 THEN @ + 1 ELSE 2]
    /\ \/ topic' = Append(topic, c)
       \/ "eventLost" \in Faults /\ topic' = topic

\* dispatchCommands calls the gateway for the first command that is still
\* pending in the tree in memory.  The gateway may reject it; the answer of an
\* executed command may be lost on the way back, which is taken for a failure.
NextTodo(h) ==
    {i \in 1..Len(todo[h]) :
       /\ mem[h].cmd[todo[h][i]] = "pending"
       /\ \A j \in 1..(i - 1) : mem[h].cmd[todo[h][j]] # "pending"}
Call(h) ==
    /\ at[h] = "work" /\ writes[h] = <<>>
    /\ ~IsFinished(mem[h])
    /\ \E i \in NextTodo(h) :
         LET c == todo[h][i]
             q == SubSeq(todo[h], i + 1, Len(todo[h]))
         IN  \/ /\ Execute(c)
                /\ \/ Accepted(h, c, q) /\ UNCHANGED at
                   \/ "rpcError" \in Faults /\ Rejected(h, c, q)
             \/ /\ "reject" \in Faults
                /\ Rejected(h, c, q)
                /\ UNCHANGED <<executed, topic>>
    /\ UNCHANGED <<db, fetched, published, ends>>

\* The handler returns; the consumer then commits its message.
Finish(h) ==
    /\ at[h] = "work" /\ writes[h] = <<>>
    /\ NextTodo(h) = {} \/ IsFinished(mem[h])
    /\ Return(h)
    /\ \/ h = "consumer" /\ Commit(fetched)
       \/ h # "consumer" /\ UNCHANGED kafka
    /\ UNCHANGED <<db, executed, published, ends>>

\* A row update or a publication fails, or the request's context ends: the
\* handler returns the error and leaves its remaining rows unwritten; a message
\* stays uncommitted.
Abandon(h) ==
    /\ "dbError" \in Faults
    /\ at[h] = "work" /\ writes[h] # <<>>
    /\ Return(h)
    /\ interrupted' = TRUE
    /\ UNCHANGED <<db, kafka, executed, published, crashes>>

\* The process dies and restarts: every handler's memory is gone, nothing
\* resumes SubmitTask, the consumer starts again at the committed offset.
Crash ==
    /\ crashes < MaxCrashes
    /\ crashes' = crashes + 1 /\ interrupted' = TRUE
    /\ at' = [h \in Handlers |-> IF at[h] = "idle" THEN "idle" ELSE Rest(h)]
    /\ mem' = [h \in Handlers |-> NewTree]
    /\ writes' = [h \in Handlers |-> <<>>]
    /\ todo' = [h \in Handlers |-> <<>>]
    /\ fetched' = 0
    /\ UNCHANGED <<db, topic, executed, givenUp, published>>

Step(h) == WriteRow(h) \/ Call(h) \/ Finish(h)

Next == \/ Submit \/ Consume \/ CancelTask \/ Crash
        \/ \E c \in Commands : Scan(c)
        \/ \E h \in Handlers : Step(h) \/ Abandon(h)

Spec == Init /\ [][Next]_vars

\* Every goroutine keeps running: a handler that started goes on, the consumer
\* polls, the scanner ticks.  No fairness for CancelTask, Crash or the faults.
Fairness ==
    /\ WF_vars(Submit) /\ WF_vars(Consume)
    /\ \A c \in Commands : WF_vars(Scan(c))
    /\ \A h \in Handlers : WF_vars(Step(h))

FairSpec == Spec /\ Fairness
-----------------------------------------------------------------------------
TypeOK ==
    /\ db \in Trees
    /\ at \in [Handlers -> {"new", "idle", "work", "done"}]
    /\ mem \in [Handlers -> Trees]
    /\ writes \in [Handlers -> Seq(Rows)] /\ todo \in [Handlers -> Seq(Commands)]
    /\ topic \in Seq(Commands) /\ fetched \in 0..Len(topic)
    /\ executed \in [Commands -> 0..2]
    /\ givenUp \subseteq Commands
    /\ published \subseteq {"completed", "failed", "cancelled"}
    /\ interrupted \in BOOLEAN /\ crashes \in 0..MaxCrashes

\* A completed task was carried out: when task.completed is published or
\* stored, the device has received every command of the task.  (Not what the
\* code does when a handler gives up some command at the same time.)
Completed == "completed" \in published \cup {db.task}
CompletedMeansExecuted == Completed => \A c \in Commands : executed[c] > 0

\* A command is settled when the device has received it, or some handler gave
\* it up: the gateway rejected it, its retries ran out, or it was cancelled.
Settled(c) == executed[c] > 0 \/ c \in givenUp

\* What a completed task promises: every command was executed, except those a
\* handler gave up.  No command is ever simply passed over, whatever stale
\* copies, half-written rows, crashes and redelivered events come together.
CompletedMeansSettled == Completed => \A c \in Commands : Settled(c)

\* The plan's order: the commands of earlier actions come before c, and so do
\* the earlier commands of its own sequential action.
Precedes(d, c) ==
    \/ ActionOf[d] < ActionOf[c]
    \/ ActionOf[d] = ActionOf[c] /\ Policy[ActionOf[c]] = "sequential" /\ d < c

\* The order of the plan reaches the device: no command is executed before
\* every command that precedes it was executed at least once or given up.
DeviceOrder ==
    \A c, d \in Commands : executed[c] > 0 /\ Precedes(d, c) => Settled(d)

\* Unless a handler is cut short by a crash or a failed write, the stored task
\* reaches a terminal status and keeps one: lost callbacks are covered by the
\* scanner.
EventuallyFinished == <>[](IsFinished(db) \/ interrupted)

-----------------------------------------------------------------------------
(* The strengthening that makes the invariants above inductive.  It is     *)
(* about every copy of the tree alike: Settled never becomes false again,  *)
(* so what a stale copy says of settled commands stays true.               *)

\* What a copy of the tree says is so when the device has got the commands G
\* and the handlers have given up the commands L: those in flight or succeeded
\* are in G, those failed or cancelled in L, and an action or a task is only
\* over when all its commands are in one of them.  One action runs at a time.
TreeTells(t, G, L) ==
    /\ \A c \in Commands :
         /\ t.cmd[c] \in {"sending", "succeeded"} => c \in G
         /\ t.cmd[c] \in {"failed", "cancelled"} => c \in L
         /\ t.cmd[c] # "timeout"
         /\ t.act[ActionOf[c]] \in {"completed", "failed", "cancelled"} => c \in G \cup L
         /\ t.task = "completed" => c \in G \cup L
         /\ t.retries[c] <= MaxRetries[c]
    /\ \A a, b \in Actions : t.act[a] = "running" /\ t.act[b] = "running" => a = b
Received == {c \in Commands : executed[c] > 0}
TreesTell == /\ TreeTells(db, Received, givenUp)
             /\ \A h \in Handlers : TreeTells(mem[h], Received, givenUp)

\* The i-th row that handler h has still to write starts action a.
StartsRow(h, i, a) == writes[h][i] = Row("act", a) /\ mem[h].act[a] = "running"

\* Only SubmitTask and the consumer start actions, and before the row that
\* starts one comes the row that ends the action running in the database.
\* Terminal events are published of terminal tasks.
RowsInOrder ==
    \A h \in Handlers : \A i \in 1..Len(writes[h]) :
      /\ \A a \in Actions : StartsRow(h, i, a) =>
           /\ h \in {"submit", "consumer"}
           /\ \A b \in Actions : db.act[b] = "running" /\ b # a =>
                \E j \in 1..(i - 1) : writes[h][j] = Row("act", b)
      /\ writes[h][i].kind = "event" => IsFinished(mem[h])

\* Until SubmitTask has stored its first action as running nothing was sent,
\* so neither the consumer nor the scanner has anything to do.
Starting ==
    \/ at["submit"] = "new"
    \/ \E i \in 1..Len(writes["submit"]), a \in Actions : StartsRow("submit", i, a)
SubmitFirst ==
    /\ Starting => /\ at["consumer"] = "idle" /\ at["scanner"] = "idle"
                   /\ \A c \in Commands : executed[c] = 0
    /\ at["submit"] = "new" => \A a \in Actions : db.act[a] # "running"
    /\ \A h \in Handlers : at[h] # "work" => writes[h] = <<>>

\* A command is queued when all that precede it are settled.
QueuedInOrder ==
    /\ \A h \in Handlers : \A i \in 1..Len(todo[h]) : \A d \in Commands :
         Precedes(d, todo[h][i]) => Settled(d)
    /\ todo["cancel"] = <<>>

IInv == /\ TypeOK /\ TreesTell /\ RowsInOrder /\ SubmitFirst /\ QueuedInOrder
        /\ DeviceOrder /\ CompletedMeansSettled
=============================================================================
