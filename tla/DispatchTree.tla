---------------------------- MODULE DispatchTree ----------------------------
(***************************************************************************)
(* The DispatchTask aggregate of internal/dispatch and the functions of    *)
(* its stateless domain service Dispatcher (domain/service/dispatcher.go). *)
(*                                                                         *)
(* A task is a tree: DispatchTask -> DispatchAction -> ControlCommand.     *)
(* The Dispatcher receives one tree in memory, changes it and returns a    *)
(* CommandResultOutcome.  Every operator below is such a function: it maps *)
(* a tree (a record of four status tables) to the changed tree.            *)
(*                                                                         *)
(* An action is identified by its rank in the order of its Sequence number *)
(* (Validator.ValidateTask: the numbers are unique, there is at least one  *)
(* action and every action has a command).  A command is identified by a   *)
(* natural number, and < is the slice order inside its action.             *)
(***************************************************************************)
EXTENDS Naturals, FiniteSets

CONSTANTS
    NumActions,   \* number of actions in the task
    Commands,     \* all commands of the task
    ActionOf,     \* ActionOf[c]: the action that hosts command c
    Policy,       \* Policy[a]: the ExecutionPolicy of action a
    MaxRetries    \* MaxRetries[c]: timeout retries allowed for command c

Actions == 1..NumActions
CommandsOf(a) == {c \in Commands : ActionOf[c] = a}

ASSUME ShapeAssumption ==
    /\ NumActions \in Nat \ {0}
    /\ Commands \subseteq Nat
    /\ IsFiniteSet(Commands)
    /\ ActionOf \in [Commands -> Actions]
    /\ Policy \in [Actions -> {"sequential", "parallel"}]
    /\ MaxRetries \in [Commands -> Nat]
    /\ \A a \in Actions : \E c \in Commands : ActionOf[c] = a

TaskStatus == {"pending", "running", "completed", "failed", "cancelled"}
ActionStatus == {"pending", "running", "completed", "failed", "cancelled"}
CommandStatus ==
    {"pending", "sending", "succeeded", "failed", "timeout", "cancelled"}

Trees == [task : TaskStatus,
          act : [Actions -> ActionStatus],
          cmd : [Commands -> CommandStatus],
          retries : [Commands -> Nat]]

\* The tree SubmitTask builds and saves: everything pending.
NewTree == [task |-> "pending",
            act |-> [a \in Actions |-> "pending"],
            cmd |-> [c \in Commands |-> "pending"],
            retries |-> [c \in Commands |-> 0]]

-----------------------------------------------------------------------------
(* Queries on a tree *)

IsFinished(t) == t.task \in {"completed", "failed", "cancelled"}

IsTerminal(s) == s \in {"succeeded", "failed", "cancelled"}

PendingOf(t, a) == {c \in CommandsOf(a) : t.cmd[c] = "pending"}

AllCommandsFinished(t, a) == \A c \in CommandsOf(a) : IsTerminal(t.cmd[c])

AnyCommandFailed(t, a) == \E c \in CommandsOf(a) : t.cmd[c] = "failed"

\* Mutant of CommandsToDispatch: a sequential action is treated as parallel.
DispatchAllPending(t, a) == PendingOf(t, a)

\* CommandsToDispatch: all pending commands of a parallel action; of a
\* sequential one the first pending command, and nothing while one is in flight.
CommandsToDispatch(t, a) ==
    IF Policy[a] = "parallel"
    THEN PendingOf(t, a)
    ELSE {c \in PendingOf(t, a) :
            /\ \A d \in PendingOf(t, a) : c <= d
            /\ \A d \in CommandsOf(a) : t.cmd[d] # "sending"}

\* Mutant of CanRetry: one attempt too many.
CanRetryOnceMore(t, c) == t.retries[c] <= MaxRetries[c]

CanRetry(t, c) == t.retries[c] < MaxRetries[c]

PendingActions(t) == {a \in Actions : t.act[a] = "pending"}

\* NextPendingAction: the pending action with the lowest sequence number,
\* as a set with at most one element.
NextPendingAction(t) ==
    {a \in PendingActions(t) : \A b \in PendingActions(t) : a <= b}

-----------------------------------------------------------------------------
(* Changes to a tree.  The guard of a transition method (MarkSending,      *)
(* MarkSucceeded, MarkFailed, Action.Complete, Action.Fail, Task.Start...) *)
(* is the condition under which it returns no error.                       *)

SetCmd(t, c, s) == [t EXCEPT !.cmd[c] = s]

CanMarkFailed(t, c) == t.cmd[c] \in {"sending", "pending", "timeout"}

\* startTaskAndFirstAction: Task.Start, then Start of the first pending action.
CanStart(t) == t.task = "pending" /\ PendingActions(t) # {}
Started(t) ==
    [t EXCEPT !.task = "running",
              !.act = [a \in Actions |->
                         IF a \in NextPendingAction(t) THEN "running" ELSE @[a]]]

\* ResetForRetry after MarkTimeout: back to pending with one more attempt.
Reset(t, c) == [t EXCEPT !.cmd[c] = "pending", !.retries[c] = @ + 1]

CanBreak(t, a) == t.act[a] = "running" /\ t.task = "running"

\* Mutants of Broken: the later actions are left pending; the pending commands
\* of the failing action are left pending.
BrokenThisActionOnly(t, a) ==
    [t EXCEPT !.task = "failed",
              !.act[a] = "failed",
              !.cmd = [c \in Commands |-> IF ActionOf[c] = a /\ @[c] = "pending"
                                          THEN "cancelled" ELSE @[c]]]
BrokenOtherActionsOnly(t, a) ==
    [t EXCEPT !.task = "failed",
              !.act = [b \in Actions |-> IF b = a THEN "failed"
                                         ELSE IF @[b] = "pending" THEN "cancelled"
                                         ELSE @[b]],
              !.cmd = [c \in Commands |-> IF t.act[ActionOf[c]] = "pending"
                                          THEN "cancelled" ELSE @[c]]]

\* applyCircuitBreaker for the action a of a command that has just failed: the
\* action fails, its pending commands, every other pending action and the
\* pending commands of those are cancelled, the task fails.
Broken(t, a) ==
    [t EXCEPT
       !.task = "failed",
       !.act = [b \in Actions |-> IF b = a THEN "failed"
                                  ELSE IF @[b] = "pending" THEN "cancelled"
                                  ELSE @[b]],
       !.cmd = [c \in Commands |->
                  IF @[c] = "pending" /\ (ActionOf[c] = a
                                          \/ t.act[ActionOf[c]] = "pending")
                  THEN "cancelled" ELSE @[c]]]

\* Dispatcher.Cancel of an unfinished task: pending and running actions are
\* cancelled with their pending commands; commands in flight are left alone.
Cancelled(t) ==
    [t EXCEPT
       !.task = "cancelled",
       !.act = [a \in Actions |-> IF @[a] \in {"pending", "running"}
                                  THEN "cancelled" ELSE @[a]],
       !.cmd = [c \in Commands |->
                  IF @[c] = "pending"
                     /\ t.act[ActionOf[c]] \in {"pending", "running"}
                  THEN "cancelled" ELSE @[c]]]

CanAdvance(t, a) ==
    t.act[a] = "running" /\ (t.task = "running" \/ PendingActions(t) # {})

\* Mutants of Advanced: the task completes with its first action; the task is
\* never completed.
AdvancedToCompletion(t, a) ==
    [t EXCEPT !.act[a] = "completed", !.task = "completed"]
AdvancedNotCompleted(t, a) ==
    [t EXCEPT !.act = [b \in Actions |-> IF b = a THEN "completed"
                                         ELSE IF b \in NextPendingAction(t) THEN "running"
                                         ELSE @[b]]]

\* Action.Complete, then Start of the next pending action, or Task.Complete
\* when there is none.
Advanced(t, a) ==
    [t EXCEPT
       !.act = [b \in Actions |-> IF b = a THEN "completed"
                                  ELSE IF b \in NextPendingAction(t) THEN "running"
                                  ELSE @[b]],
       !.task = IF PendingActions(t) = {} THEN "completed" ELSE @]

-----------------------------------------------------------------------------
(* The Dispatcher's entry points.  An outcome carries the changed tree, the *)
(* commands to dispatch next (NextCommands) and whether the call succeeded; *)
(* on an error the caller drops the tree it was working on.                 *)

Outcome(t, next) == [ok |-> TRUE, tree |-> t, next |-> next]
Error(t) == [ok |-> FALSE, tree |-> t, next |-> {}]

CircuitBreak(t, a) ==
    IF CanBreak(t, a) THEN Outcome(Broken(t, a), {}) ELSE Error(t)

\* Mutant of AdvanceAfterSuccess: an action completes with its first success.
AdvanceOnFirstSuccess(t, a) ==
    IF CanAdvance(t, a)
    THEN Outcome(Advanced(t, a), UNION {CommandsToDispatch(Advanced(t, a), b) :
                                          b \in NextPendingAction(t)})
    ELSE Error(t)

\* What follows a success in action a: more commands of the action, a wait
\* for those in flight, or the end of the action.
AdvanceAfterSuccess(t, a) ==
    IF CommandsToDispatch(t, a) # {} THEN Outcome(t, CommandsToDispatch(t, a))
    ELSE IF ~AllCommandsFinished(t, a) THEN Outcome(t, {})
    ELSE IF AnyCommandFailed(t, a) THEN CircuitBreak(t, a)
    ELSE IF CanAdvance(t, a)
         THEN Outcome(Advanced(t, a),
                      UNION {CommandsToDispatch(Advanced(t, a), b) :
                               b \in NextPendingAction(t)})
    ELSE Error(t)

\* OnCommandResult with result.Success.
OnSuccess(t, c) ==
    IF t.cmd[c] = "sending"
    THEN AdvanceAfterSuccess(SetCmd(t, c, "succeeded"), ActionOf[c])
    ELSE Error(t)

\* Mutant of OnFailure: result.Success is not looked at.
OnFailureIgnored(t, c) ==
    IF CanMarkFailed(t, c)
    THEN AdvanceAfterSuccess(SetCmd(t, c, "succeeded"), ActionOf[c])
    ELSE Error(t)

\* OnCommandResult without result.Success.
OnFailure(t, c) ==
    IF CanMarkFailed(t, c)
    THEN CircuitBreak(SetCmd(t, c, "failed"), ActionOf[c])
    ELSE Error(t)

\* Mutant of OnTimeout: the reset command is not handed out again.
OnTimeoutForgets(t, c) ==
    IF t.cmd[c] # "sending" THEN Outcome(t, {})
    ELSE IF CanRetry(t, c) THEN Outcome(Reset(t, c), {})
    ELSE OnFailure(t, c)

\* OnCommandTimeout of a command in flight: retry, or fail once the retries
\* are used up.  A command not in flight is left alone.
OnTimeout(t, c) ==
    IF t.cmd[c] # "sending" THEN Outcome(t, {})
    ELSE IF CanRetry(t, c) THEN Outcome(Reset(t, c), {c})
    ELSE OnFailure(t, c)
=============================================================================
