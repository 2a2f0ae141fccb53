---------------------------- MODULE DispatchTask ----------------------------
(***************************************************************************)
(* The life of one DispatchTask aggregate when every handler of the        *)
(* application layer runs alone: SubmitTask starts it, dispatchCommands    *)
(* hands its commands to the gateway one at a time, HandleCommandResult,   *)
(* TimeoutScanner and CancelTask each load it, call the Dispatcher and     *)
(* store the outcome.  (DispatchService removes that assumption.)          *)
(***************************************************************************)
EXTENDS DispatchTree

VARIABLES
    tree,    \* the task tree
    queue,   \* commands the Dispatcher handed out and nobody has sent yet
    sent     \* history: commands given to the gateway at least once

vars == <<tree, queue, sent>>

\* Store an outcome and queue its NextCommands; a handler of a finished task
\* stops sending (the task.IsFinished test of dispatchCommands).
Apply(o, q) ==
    /\ o.ok
    /\ tree' = o.tree
    /\ queue' = IF IsFinished(o.tree) THEN {} ELSE q \cup o.next

-----------------------------------------------------------------------------
Init == tree = NewTree /\ queue = {} /\ sent = {}

\* SubmitTask after Save: startTaskAndFirstAction.
Start ==
    /\ CanStart(tree)
    /\ tree' = Started(tree)
    /\ queue' = UNION {CommandsToDispatch(Started(tree), a) :
                         a \in NextPendingAction(tree)}
    /\ UNCHANGED sent

\* dispatchOne, the gateway accepts: the command is in flight.
Accept(c) ==
    /\ c \in queue
    /\ tree.cmd[c] = "pending"
    /\ tree' = SetCmd(tree, c, "sending")
    /\ queue' = queue \ {c}
    /\ sent' = sent \cup {c}

\* dispatchOne, the gateway rejects or the call fails: applyFailure.
Reject(c) ==
    /\ c \in queue
    /\ tree.cmd[c] = "pending"
    /\ Apply(OnFailure(tree, c), queue \ {c})
    /\ sent' = sent \cup {c}

\* HandleCommandResult, success.  Results exist only for commands that were
\* sent; those of a terminal command or of a finished task are dropped.
Success(c) ==
    /\ c \in sent
    /\ ~IsTerminal(tree.cmd[c]) /\ ~IsFinished(tree)
    /\ Apply(OnSuccess(tree, c), queue)
    /\ UNCHANGED sent

\* HandleCommandResult, failure.
Failure(c) ==
    /\ c \in sent
    /\ ~IsTerminal(tree.cmd[c]) /\ ~IsFinished(tree)
    /\ Apply(OnFailure(tree, c), queue)
    /\ UNCHANGED sent

\* TimeoutScanner.handleExpired for a command found past its deadline.
Timeout(c) ==
    /\ tree.cmd[c] = "sending" /\ ~IsFinished(tree)
    /\ Apply(OnTimeout(tree, c), queue)
    /\ UNCHANGED sent

\* CancelTask.
Cancel ==
    /\ ~IsFinished(tree)
    /\ tree' = Cancelled(tree)
    /\ queue' = {}
    /\ UNCHANGED sent

Next == \/ Start
        \/ Cancel
        \/ \E c \in Commands : \/ Accept(c) \/ Reject(c)
                               \/ Success(c) \/ Failure(c) \/ Timeout(c)

Spec == Init /\ [][Next]_vars

\* SubmitTask and dispatchCommands run to their end, and the scanner ticks
\* for ever: a command in flight is timed out unless its result comes first.
FairSpec ==
    /\ Spec
    /\ WF_vars(Start)
    /\ \A c \in Commands : /\ WF_vars(Accept(c) \/ Reject(c))
                           /\ WF_vars(Timeout(c))
-----------------------------------------------------------------------------
\* The shape of the state.
TypeOK == tree \in Trees /\ queue \subseteq Commands /\ sent \subseteq Commands

\* The task's status agrees with its actions': a running task has exactly one
\* running action, all earlier ones completed and all later ones pending; a
\* completed task has only completed actions; in a failed task one action
\* failed and the later ones were cancelled; nothing of a cancelled task is
\* left pending or running.  (Dispatcher: applyCircuitBreaker, Cancel, advance.)
TaskAgreesWithActions ==
    /\ tree.task = "pending" => \A a \in Actions : tree.act[a] = "pending"
    /\ tree.task = "running" =>
         \E a \in Actions : /\ tree.act[a] = "running"
                            /\ \A b \in Actions :
                                 /\ b < a => tree.act[b] = "completed"
                                 /\ b > a => tree.act[b] = "pending"
    /\ tree.task = "completed" => \A a \in Actions : tree.act[a] = "completed"
    /\ tree.task = "failed" =>
         \E a \in Actions : /\ tree.act[a] = "failed"
                            /\ \A b \in Actions :
                                 /\ b < a => tree.act[b] = "completed"
                                 /\ b > a => tree.act[b] = "cancelled"
    /\ tree.task = "cancelled" =>
         \A a \in Actions : tree.act[a] \in {"completed", "cancelled"}

\* An action's status agrees with its commands': a completed action has only
\* succeeded commands, a failed one has a failed command, and no finished
\* action has a pending command that nobody would ever send.
ActionAgreesWithCommands ==
    \A c \in Commands :
      LET s == tree.act[ActionOf[c]]
      IN  /\ s = "pending" => tree.cmd[c] = "pending" /\ c \notin sent
          /\ s = "running" => tree.cmd[c] \in {"pending", "sending", "succeeded"}
          /\ s = "completed" => tree.cmd[c] = "succeeded"
          /\ s = "failed" => \E d \in CommandsOf(ActionOf[c]) : tree.cmd[d] = "failed"
          /\ s \in {"failed", "cancelled"} => tree.cmd[c] # "pending"
          /\ tree.cmd[c] # "timeout"

\* Nothing is forgotten: while the task runs, its running action has a command
\* in flight (which its result or the scanner moves on) or a pending command
\* that was handed out to be sent; all pending commands of a parallel action are.
NothingForgotten ==
    \A a \in Actions :
      tree.act[a] = "running" =>
        /\ \E c \in CommandsOf(a) : tree.cmd[c] = "sending" \/ c \in queue
        /\ Policy[a] = "parallel" => PendingOf(tree, a) \subseteq queue
        /\ \A c \in queue : ActionOf[c] = a /\ tree.cmd[c] = "pending"

\* Never more attempts than MaxRetries allows (CanRetry / ResetForRetry).
RetriesBounded == \A c \in Commands : tree.retries[c] <= MaxRetries[c]

\* The task keeps the promises of TaskContract: order between actions, order
\* inside sequential actions, completion exactly with the last success.
Contract == INSTANCE TaskContract WITH
              status <- tree.task,
              succeeded <- {c \in Commands : tree.cmd[c] = "succeeded"}
ContractSpec == Contract!Spec

\* Every task reaches a terminal status: no mix of results, retries and
\* failures leaves it running for ever.
EventuallyFinished == <>IsFinished(tree)

\* The strengthening that makes the invariants above inductive: what each task
\* status says of the actions, that actions start in order, that the commands of
\* a sequential action are handed out in order, and that only commands that
\* were sent are in flight or succeeded.
StatusInv ==
    /\ tree.task = "pending" =>
         (\A a \in Actions : tree.act[a] = "pending") /\ queue = {}
    /\ tree.task = "running" =>
         /\ \E a \in Actions : tree.act[a] = "running"
         /\ \A a \in Actions : tree.act[a] \in {"completed", "running", "pending"}
    /\ tree.task = "completed" => \A a \in Actions : tree.act[a] = "completed"
    /\ tree.task = "failed" =>
         /\ \E a \in Actions : tree.act[a] = "failed"
         /\ \A a \in Actions : tree.act[a] \in {"completed", "failed", "cancelled"}
    /\ tree.task = "cancelled" =>
         \A a \in Actions : tree.act[a] \in {"completed", "cancelled"}
    /\ IsFinished(tree) => queue = {}
ActionsInOrder ==
    \A a, b \in Actions :
      a < b /\ tree.act[b] \in {"running", "completed", "failed"}
        => tree.act[a] = "completed"
CommandsInOrder ==
    \A c, d \in Commands :
      (/\ ActionOf[c] = ActionOf[d] /\ Policy[ActionOf[d]] = "sequential"
       /\ c < d /\ d \in sent \cup queue)
        => tree.cmd[c] = "succeeded"
SentInv ==
    \A c \in Commands : tree.cmd[c] \in {"sending", "succeeded"} => c \in sent

IInv == /\ TypeOK /\ RetriesBounded
        /\ StatusInv /\ ActionsInOrder /\ CommandsInOrder /\ SentInv
        /\ ActionAgreesWithCommands /\ NothingForgotten
=============================================================================
