------------------------ MODULE DispatchTask_proofs ------------------------
(***************************************************************************)
(* Theorems about DispatchTask for every shape of task: its invariants     *)
(* (Invariance) and that it implements TaskContract (Refinement).          *)
(***************************************************************************)
EXTENDS DispatchTask, WellFoundedInduction, TLAPS

-----------------------------------------------------------------------------
(* What the operators on trees return.                                     *)

\* A non-empty set of natural numbers has a least element: the first pending
\* command of an action, the pending action with the lowest sequence number.
LEMMA LeastElement ==
  ASSUME NEW T \in SUBSET Nat, T # {}
  PROVE  \E x \in T : \A y \in T : x <= y
<1> DEFINE R == OpToRel(<, Nat)
<1>1. IsWellFoundedOn(R, Nat)
  BY NatLessThanWellFounded
<1>2. \A x \in Nat, y \in Nat : y < x => <<y, x>> \in R
  BY DEF OpToRel
<1> HIDE DEF R
<1>3. PICK x \in T : \A y \in T : ~(<<y, x>> \in R)
  BY <1>1, WFMin
<1>4. ASSUME NEW y \in T PROVE x <= y
  <2>1. x \in Nat /\ y \in Nat
    OBVIOUS
  <2>2. ~(y < x)
    BY <1>2, <1>3, <2>1, Zenon
  <2> QED
    BY <2>1, <2>2
<1> QED
  BY <1>4

\* Action numbers and command numbers are natural numbers.
LEMMA Shape ==
  /\ Actions \subseteq Nat /\ Commands \subseteq Nat
  /\ \A c \in Commands : ActionOf[c] \in Actions /\ MaxRetries[c] \in Nat
  /\ \A a \in Actions : Policy[a] \in {"sequential", "parallel"}
  /\ \A a \in Actions : CommandsOf(a) # {} /\ CommandsOf(a) \subseteq Commands
BY ShapeAssumption DEF Actions, CommandsOf

\* The next pending action exists when some action is pending, is unique and
\* comes before every other pending action.
LEMMA NextPending ==
  ASSUME NEW t, PendingActions(t) # {}
  PROVE  \E a \in PendingActions(t) :
           /\ NextPendingAction(t) = {a}
           /\ \A b \in PendingActions(t) : a <= b
<1>1. PendingActions(t) \in SUBSET Nat
  BY Shape DEF PendingActions
<1>2. PICK a \in PendingActions(t) : \A b \in PendingActions(t) : a <= b
  BY <1>1, LeastElement
<1>3. \A b \in PendingActions(t) : b <= a /\ a <= b => b = a
  BY <1>1
<1>4. NextPendingAction(t) = {a}
  BY <1>2, <1>3 DEF NextPendingAction
<1> QED
  BY <1>2, <1>4

\* An action with a pending command and none in flight has one to dispatch.
LEMMA SomethingToDispatch ==
  ASSUME NEW t, NEW a \in Actions, PendingOf(t, a) # {},
         \A d \in CommandsOf(a) : t.cmd[d] # "sending"
  PROVE  CommandsToDispatch(t, a) # {}
<1>1. PendingOf(t, a) \in SUBSET Nat
  BY Shape DEF PendingOf
<1>2. PICK c \in PendingOf(t, a) : \A d \in PendingOf(t, a) : c <= d
  BY <1>1, LeastElement
<1> QED
  BY <1>2 DEF CommandsToDispatch

\* What is dispatched is pending; of a parallel action all that is pending, of
\* a sequential one the first pending command, with none in flight.
LEMMA DispatchedCommands ==
  ASSUME NEW t, NEW a \in Actions
  PROVE  /\ CommandsToDispatch(t, a) \subseteq PendingOf(t, a)
         /\ Policy[a] = "parallel" => CommandsToDispatch(t, a) = PendingOf(t, a)
         /\ Policy[a] = "sequential" =>
              \A c \in CommandsToDispatch(t, a) :
                /\ \A d \in PendingOf(t, a) : c <= d
                /\ \A d \in CommandsOf(a) : t.cmd[d] # "sending"
BY Shape DEF CommandsToDispatch

LEMMA ResetFields ==
  ASSUME NEW t \in Trees, NEW c \in Commands
  PROVE  /\ Reset(t, c) \in Trees
         /\ Reset(t, c).task = t.task
         /\ Reset(t, c).act = t.act
         /\ \A d \in Commands :
              /\ Reset(t, c).cmd[d] = IF d = c THEN "pending" ELSE t.cmd[d]
              /\ Reset(t, c).retries[d] =
                   IF d = c THEN t.retries[d] + 1 ELSE t.retries[d]
<1>1. /\ t.cmd \in [Commands -> CommandStatus]
      /\ t.retries \in [Commands -> Nat]
      /\ t.retries[c] + 1 \in Nat
  BY DEF Trees
<1>2. /\ Reset(t, c).task = t.task
      /\ Reset(t, c).act = t.act
      /\ Reset(t, c).cmd = [t.cmd EXCEPT ![c] = "pending"]
      /\ Reset(t, c).retries = [t.retries EXCEPT ![c] = @ + 1]
  BY DEF Reset, Trees
<1>3. Reset(t, c) \in Trees
  <2>1. [t.cmd EXCEPT ![c] = "pending"] \in [Commands -> CommandStatus]
    BY <1>1 DEF CommandStatus
  <2>2. [t.retries EXCEPT ![c] = @ + 1] \in [Commands -> Nat]
    BY <1>1
  <2>3. Reset(t, c) = [t EXCEPT !.cmd = [t.cmd EXCEPT ![c] = "pending"],
                                !.retries = [t.retries EXCEPT ![c] = @ + 1]]
    BY DEF Reset, Trees
  <2> QED
    BY <2>1, <2>2, <2>3 DEF Trees
<1> QED
  BY <1>1, <1>2, <1>3

LEMMA BrokenFields ==
  ASSUME NEW t \in Trees, NEW a \in Actions
  PROVE  /\ Broken(t, a) \in Trees
         /\ Broken(t, a).task = "failed"
         /\ Broken(t, a).retries = t.retries
         /\ \A b \in Actions :
              Broken(t, a).act[b] = IF b = a THEN "failed"
                                    ELSE IF t.act[b] = "pending" THEN "cancelled"
                                    ELSE t.act[b]
         /\ \A c \in Commands :
              Broken(t, a).cmd[c] =
                IF t.cmd[c] = "pending"
                   /\ (ActionOf[c] = a \/ t.act[ActionOf[c]] = "pending")
                THEN "cancelled" ELSE t.cmd[c]
BY DEF Broken, Trees, TaskStatus, ActionStatus, CommandStatus

LEMMA CancelledFields ==
  ASSUME NEW t \in Trees
  PROVE  /\ Cancelled(t) \in Trees
         /\ Cancelled(t).task = "cancelled"
         /\ Cancelled(t).retries = t.retries
         /\ \A b \in Actions :
              Cancelled(t).act[b] = IF t.act[b] \in {"pending", "running"}
                                    THEN "cancelled" ELSE t.act[b]
         /\ \A c \in Commands :
              Cancelled(t).cmd[c] =
                IF t.cmd[c] = "pending"
                   /\ t.act[ActionOf[c]] \in {"pending", "running"}
                THEN "cancelled" ELSE t.cmd[c]
BY DEF Cancelled, Trees, TaskStatus, ActionStatus, CommandStatus

LEMMA StartedFields ==
  ASSUME NEW t \in Trees
  PROVE  /\ Started(t) \in Trees
         /\ Started(t).task = "running"
         /\ Started(t).cmd = t.cmd
         /\ Started(t).retries = t.retries
         /\ \A b \in Actions :
              Started(t).act[b] = IF b \in NextPendingAction(t)
                                  THEN "running" ELSE t.act[b]
BY DEF Started, Trees, TaskStatus, ActionStatus

\* Advancing completes the action, and either starts the next pending one or
\* completes the task.
LEMMA AdvancedFields ==
  ASSUME NEW t \in Trees, NEW a \in Actions
  PROVE  /\ Advanced(t, a) \in Trees
         /\ Advanced(t, a).cmd = t.cmd
         /\ Advanced(t, a).retries = t.retries
         /\ Advanced(t, a).task =
              IF PendingActions(t) = {} THEN "completed" ELSE t.task
         /\ \A b \in Actions :
              Advanced(t, a).act[b] = IF b = a THEN "completed"
                                      ELSE IF b \in NextPendingAction(t)
                                      THEN "running" ELSE t.act[b]
BY DEF Advanced, Trees, TaskStatus, ActionStatus

-----------------------------------------------------------------------------
(* The invariant is preserved.  One lemma per way a handler changes the    *)
(* tree; the actions of Next are combinations of these.                    *)

\* In a tree that satisfies the invariant the command of a running action
\* belongs to a running task, and one that was sent to an unfinished task
\* belongs to the running action.
LEMMA RunningAction ==
  ASSUME IInv, NEW c \in Commands
  PROVE  /\ tree.act[ActionOf[c]] = "running" => tree.task = "running"
         /\ c \in queue => /\ tree.act[ActionOf[c]] = "running"
                           /\ tree.task = "running"
         /\ c \in sent /\ ~IsTerminal(tree.cmd[c]) /\ ~IsFinished(tree)
              => tree.act[ActionOf[c]] = "running"
<1>1. ActionOf[c] \in Actions
  BY Shape
<1>2. tree.task \in TaskStatus /\ tree.act[ActionOf[c]] \in ActionStatus
  BY <1>1 DEF IInv, TypeOK, Trees
<1>3. tree.act[ActionOf[c]] = "running" => tree.task = "running"
  BY <1>1, <1>2 DEF IInv, StatusInv, TaskStatus
<1>4. c \in queue => tree.act[ActionOf[c]] = "running"
  <2> SUFFICES ASSUME c \in queue PROVE tree.act[ActionOf[c]] = "running"
    OBVIOUS
  <2>1. tree.task = "running"
    BY <1>2 DEF IInv, StatusInv, IsFinished, TaskStatus
  <2>2. PICK a \in Actions : tree.act[a] = "running"
    BY <2>1 DEF IInv, StatusInv
  <2> QED
    BY <2>2 DEF IInv, NothingForgotten
<1>5. c \in sent /\ ~IsTerminal(tree.cmd[c]) /\ ~IsFinished(tree)
        => tree.act[ActionOf[c]] = "running"
  <2> SUFFICES ASSUME c \in sent, ~IsTerminal(tree.cmd[c]), ~IsFinished(tree)
               PROVE  tree.act[ActionOf[c]] = "running"
    OBVIOUS
  <2>1. tree.act[ActionOf[c]] \in {"completed", "running", "pending"}
    BY <1>1, <1>2 DEF IInv, StatusInv, IsFinished, TaskStatus
  <2>2. tree.act[ActionOf[c]] # "pending" /\ tree.act[ActionOf[c]] # "completed"
    BY DEF IInv, ActionAgreesWithCommands, IsTerminal
  <2> QED
    BY <2>1, <2>2
<1> QED
  BY <1>3, <1>4, <1>5

\* The circuit breaker, after command c failed in its running action.
LEMMA BreakStep ==
  ASSUME IInv, NEW c \in Commands,
         tree.act[ActionOf[c]] = "running",
         tree.cmd[c] \in {"pending", "sending"},
         tree' = Broken(SetCmd(tree, c, "failed"), ActionOf[c]),
         queue' = {}, sent' = sent \/ sent' = sent \cup {c},
         c \in sent' /\ c \in sent \cup queue
  PROVE  IInv'
<1> DEFINE a == ActionOf[c]
           t == SetCmd(tree, c, "failed")
<1>1. /\ a \in Actions /\ tree \in Trees /\ sent' \subseteq Commands
      /\ tree.task = "running"
  BY Shape, RunningAction DEF IInv, TypeOK
<1>2. /\ t \in Trees /\ t.task = tree.task /\ t.act = tree.act
      /\ t.retries = tree.retries
      /\ \A d \in Commands : t.cmd[d] = IF d = c THEN "failed" ELSE tree.cmd[d]
  BY <1>1 DEF SetCmd, Trees, CommandStatus
<1> HIDE DEF t
<1>3. /\ tree' \in Trees
      /\ tree'.task = "failed"
      /\ tree'.retries = tree.retries
      /\ \A b \in Actions :
           tree'.act[b] = IF b = a THEN "failed"
                          ELSE IF tree.act[b] = "pending" THEN "cancelled"
                          ELSE tree.act[b]
      /\ \A d \in Commands :
           tree'.cmd[d] = IF d = c THEN "failed"
                          ELSE IF /\ tree.cmd[d] = "pending"
                                  /\ \/ ActionOf[d] = a
                                     \/ tree.act[ActionOf[d]] = "pending"
                          THEN "cancelled" ELSE tree.cmd[d]
  BY <1>1, <1>2, BrokenFields DEF t
<1>4. TypeOK' /\ RetriesBounded'
  BY <1>1, <1>3 DEF IInv, TypeOK, RetriesBounded
<1>5. \A b \in Actions : tree.act[b] \in {"completed", "running", "pending"}
  BY <1>1 DEF IInv, StatusInv
<1>6. \A b \in Actions : tree.act[b] = "running" => b = a
  <2> SUFFICES ASSUME NEW b \in Actions, tree.act[b] = "running" PROVE b = a
    OBVIOUS
  <2>1. b \in Nat /\ a \in Nat
    BY <1>1, Shape
  <2>2. ~(b < a) /\ ~(a < b)
    BY <1>1 DEF IInv, ActionsInOrder
  <2> QED
    BY <2>1, <2>2
<1>7. StatusInv'
  BY <1>1, <1>3, <1>5, <1>6 DEF StatusInv, IsFinished
<1>8. ActionsInOrder'
  BY <1>1, <1>3, <1>5, <1>6 DEF IInv, ActionsInOrder
<1>9. CommandsInOrder'
  <2> SUFFICES ASSUME NEW d \in Commands, NEW e \in Commands,
                      ActionOf[d] = ActionOf[e],
                      Policy[ActionOf[e]] = "sequential",
                      d < e, e \in sent'
               PROVE  tree'.cmd[d] = "succeeded"
    BY DEF CommandsInOrder
  <2>1. e \in sent \cup queue
    OBVIOUS
  <2>2. tree.cmd[d] = "succeeded"
    BY <2>1 DEF IInv, CommandsInOrder
  <2>3. d # c /\ tree.cmd[d] # "pending"
    BY <2>2
  <2> QED
    BY <2>2, <2>3, <1>3
<1>10. SentInv'
  BY <1>1, <1>3 DEF IInv, SentInv
<1>11. ActionAgreesWithCommands'
  <2>1. c \in CommandsOf(a) /\ tree'.cmd[c] = "failed"
    BY <1>3 DEF CommandsOf
  <2> SUFFICES
        ASSUME NEW d \in Commands
        PROVE  LET s == tree'.act[ActionOf[d]]
               IN  /\ s = "pending" => tree'.cmd[d] = "pending" /\ d \notin sent'
                   /\ s = "running" => tree'.cmd[d] \in {"pending", "sending", "succeeded"}
                   /\ s = "completed" => tree'.cmd[d] = "succeeded"
                   /\ s = "failed" => \E e \in CommandsOf(ActionOf[d]) : tree'.cmd[e] = "failed"
                   /\ s \in {"failed", "cancelled"} => tree'.cmd[d] # "pending"
                   /\ tree'.cmd[d] # "timeout"
    BY DEF ActionAgreesWithCommands
  <2>2. ActionOf[d] \in Actions
    BY Shape
  <2>3. CASE ActionOf[d] = a
    BY <2>1, <2>3, <1>1, <1>3 DEF IInv, ActionAgreesWithCommands
  <2>4. CASE ActionOf[d] # a
    <3>1. /\ tree.act[ActionOf[d]] \in {"completed", "pending"}
          /\ tree.act[ActionOf[d]] = "pending" => tree.cmd[d] = "pending"
          /\ tree.act[ActionOf[d]] = "completed" => tree.cmd[d] = "succeeded"
      BY <2>2, <2>4, <1>5, <1>6 DEF IInv, ActionAgreesWithCommands
    <3>2. tree'.act[ActionOf[d]] =
            IF tree.act[ActionOf[d]] = "pending" THEN "cancelled" ELSE "completed"
      BY <3>1, <2>2, <2>4, <1>3
    <3>3. d # c
      BY <2>4
    <3>4. tree'.cmd[d] =
            IF tree.act[ActionOf[d]] = "pending" THEN "cancelled" ELSE "succeeded"
      BY <3>1, <3>3, <2>4, <1>3
    <3> QED
      BY <3>1, <3>2, <3>4
  <2> QED
    BY <2>3, <2>4
<1>12. NothingForgotten'
  BY <1>3, <1>5, <1>6 DEF NothingForgotten
<1> QED
  BY <1>4, <1>7, <1>8, <1>9, <1>10, <1>11, <1>12 DEF IInv

\* Only one action of a running task runs; the earlier ones are completed and
\* the later ones are pending.
LEMMA OneRunning ==
  ASSUME IInv, NEW a \in Actions, tree.act[a] = "running"
  PROVE  /\ tree.task = "running"
         /\ \A b \in Actions :
              /\ tree.act[b] \in {"completed", "running", "pending"}
              /\ tree.act[b] = "running" => b = a
              /\ b < a => tree.act[b] = "completed"
              /\ a < b => tree.act[b] = "pending"
<1>1. tree.task \in TaskStatus
  BY DEF IInv, TypeOK, Trees
<1>2. tree.task = "running"
  BY <1>1 DEF IInv, StatusInv, TaskStatus
<1>3. ASSUME NEW b \in Actions
      PROVE  /\ tree.act[b] \in {"completed", "running", "pending"}
             /\ tree.act[b] = "running" => b = a
             /\ b < a => tree.act[b] = "completed"
             /\ a < b => tree.act[b] = "pending"
  <2>1. b \in Nat /\ a \in Nat
    BY Shape
  <2>2. tree.act[b] \in {"completed", "running", "pending"}
    BY <1>2 DEF IInv, StatusInv
  <2>3. b < a => tree.act[b] = "completed"
    BY DEF IInv, ActionsInOrder
  <2>4. a < b /\ tree.act[b] \in {"running", "completed"} => FALSE
    BY DEF IInv, ActionsInOrder
  <2> QED
    BY <2>1, <2>2, <2>3, <2>4
<1> QED
  BY <1>2, <1>3

\* CancelTask.
LEMMA CancelStep ==
  ASSUME IInv, Cancel
  PROVE  IInv'
<1>1. tree \in Trees /\ tree.task \in {"pending", "running"}
  BY DEF IInv, TypeOK, Cancel, IsFinished, Trees, TaskStatus
<1>2. \A a \in Actions : tree.act[a] \in {"completed", "running", "pending"}
  BY <1>1 DEF IInv, StatusInv
<1>3. /\ tree' \in Trees
      /\ tree'.task = "cancelled"
      /\ tree'.retries = tree.retries
      /\ \A a \in Actions :
           tree'.act[a] = IF tree.act[a] \in {"pending", "running"}
                          THEN "cancelled" ELSE tree.act[a]
      /\ \A c \in Commands :
           tree'.cmd[c] = IF /\ tree.cmd[c] = "pending"
                             /\ tree.act[ActionOf[c]] \in {"pending", "running"}
                          THEN "cancelled" ELSE tree.cmd[c]
      /\ queue' = {} /\ sent' = sent
  BY <1>1, CancelledFields DEF Cancel
<1>4. TypeOK' /\ RetriesBounded'
  BY <1>3 DEF IInv, TypeOK, RetriesBounded
<1>5. \A a \in Actions : tree'.act[a] \in {"completed", "cancelled"}
  BY <1>2, <1>3
<1>6. StatusInv'
  BY <1>3, <1>5 DEF StatusInv
<1>7. ActionsInOrder'
  BY <1>2, <1>3, <1>5 DEF IInv, ActionsInOrder
<1>8. CommandsInOrder'
  BY <1>3 DEF IInv, CommandsInOrder
<1>9. SentInv'
  BY <1>3 DEF IInv, SentInv
<1>10. ActionAgreesWithCommands'
  <2> SUFFICES
        ASSUME NEW c \in Commands
        PROVE  /\ tree'.act[ActionOf[c]] = "completed" => tree'.cmd[c] = "succeeded"
               /\ tree'.act[ActionOf[c]] = "cancelled" => tree'.cmd[c] # "pending"
               /\ tree'.cmd[c] # "timeout"
    BY <1>5, Shape DEF ActionAgreesWithCommands
  <2>1. ActionOf[c] \in Actions
    BY Shape
  <2> QED
    BY <1>2, <1>3, <2>1 DEF IInv, ActionAgreesWithCommands
<1>11. NothingForgotten'
  BY <1>5 DEF NothingForgotten
<1> QED
  BY <1>4, <1>6, <1>7, <1>8, <1>9, <1>10, <1>11 DEF IInv

\* A command of the running action is given to the gateway and accepted.
LEMMA AcceptStep ==
  ASSUME IInv, NEW c \in Commands, Accept(c)
  PROVE  IInv'
<1> DEFINE a == ActionOf[c]
<1>1. a \in Actions /\ tree \in Trees /\ c \in queue /\ tree.cmd[c] = "pending"
  BY Shape DEF IInv, TypeOK, Accept
<1>2. tree.act[a] = "running" /\ tree.task = "running"
  BY <1>1, RunningAction
<1>3. /\ tree' \in Trees /\ tree'.task = tree.task /\ tree'.act = tree.act
      /\ tree'.retries = tree.retries
      /\ \A d \in Commands : tree'.cmd[d] = IF d = c THEN "sending" ELSE tree.cmd[d]
      /\ queue' = queue \ {c} /\ sent' = sent \cup {c}
  BY <1>1 DEF Accept, SetCmd, Trees, CommandStatus
<1>4. TypeOK' /\ RetriesBounded'
  BY <1>3 DEF IInv, TypeOK, RetriesBounded
<1>5. StatusInv' /\ ActionsInOrder'
  BY <1>2, <1>3 DEF IInv, StatusInv, ActionsInOrder, IsFinished
<1>6. CommandsInOrder'
  BY <1>1, <1>3 DEF IInv, CommandsInOrder
<1>7. SentInv'
  BY <1>3 DEF IInv, SentInv
<1>8. ActionAgreesWithCommands'
  <2>1. \A d \in Commands : tree.act[ActionOf[d]] # "failed"
    BY Shape, <1>1, <1>2, OneRunning
  <2> QED
    BY <1>1, <1>2, <1>3, <2>1 DEF IInv, ActionAgreesWithCommands
<1>9. NothingForgotten'
  <2>1. c \in CommandsOf(a) /\ tree'.cmd[c] = "sending"
    BY <1>3 DEF CommandsOf
  <2>2. PendingOf(tree', a) = PendingOf(tree, a) \ {c}
    BY <1>3 DEF PendingOf, CommandsOf
  <2>3. \A b \in Actions : tree'.act[b] = "running" => b = a
    BY <1>1, <1>2, <1>3, OneRunning
  <2>4. \A d \in queue : ActionOf[d] = a /\ tree.cmd[d] = "pending"
    BY <1>1, <1>2 DEF IInv, NothingForgotten
  <2>5. \A d \in queue' : ActionOf[d] = a /\ tree'.cmd[d] = "pending"
    BY <1>3, <2>4 DEF IInv, TypeOK
  <2>6. Policy[a] = "parallel" => PendingOf(tree', a) \subseteq queue'
    BY <1>1, <1>2, <1>3, <2>2 DEF IInv, NothingForgotten
  <2> QED
    BY <2>1, <2>3, <2>5, <2>6 DEF NothingForgotten
<1> QED
  BY <1>4, <1>5, <1>6, <1>7, <1>8, <1>9 DEF IInv

\* The scanner resets a command in flight and hands it out again.
LEMMA RetryStep ==
  ASSUME IInv, NEW c \in Commands,
         tree.cmd[c] = "sending", tree.act[ActionOf[c]] = "running",
         CanRetry(tree, c),
         tree' = Reset(tree, c), queue' = queue \cup {c}, sent' = sent
  PROVE  IInv'
<1> DEFINE a == ActionOf[c]
<1>1. a \in Actions /\ tree \in Trees /\ tree.task = "running" /\ c \in sent
  BY Shape, RunningAction DEF IInv, TypeOK, SentInv
<1>2. /\ tree' \in Trees /\ tree'.task = tree.task /\ tree'.act = tree.act
      /\ \A d \in Commands :
           /\ tree'.cmd[d] = IF d = c THEN "pending" ELSE tree.cmd[d]
           /\ tree'.retries[d] = IF d = c THEN tree.retries[d] + 1 ELSE tree.retries[d]
  BY <1>1, ResetFields
<1>3. TypeOK'
  BY <1>2 DEF IInv, TypeOK
<1>4. RetriesBounded'
  <2>1. tree.retries[c] \in Nat /\ MaxRetries[c] \in Nat
    BY <1>1, Shape DEF Trees
  <2>2. tree.retries[c] + 1 <= MaxRetries[c]
    BY <2>1 DEF CanRetry
  <2> QED
    BY <1>2, <2>2 DEF IInv, RetriesBounded
<1>5. StatusInv' /\ ActionsInOrder'
  BY <1>1, <1>2 DEF IInv, StatusInv, ActionsInOrder, IsFinished
<1>6. CommandsInOrder'
  BY <1>1, <1>2 DEF IInv, CommandsInOrder
<1>7. SentInv'
  BY <1>2 DEF IInv, SentInv
<1>8. ActionAgreesWithCommands'
  <2>1. \A d \in Commands : tree.act[ActionOf[d]] # "failed"
    BY Shape, <1>1, OneRunning
  <2> QED
    BY <1>1, <1>2, <2>1 DEF IInv, ActionAgreesWithCommands
<1>9. NothingForgotten'
  <2>1. c \in CommandsOf(a) /\ c \in queue'
    BY DEF CommandsOf
  <2>2. PendingOf(tree', a) = PendingOf(tree, a) \cup {c}
    BY <1>2 DEF PendingOf, CommandsOf
  <2>3. \A b \in Actions : tree'.act[b] = "running" => b = a
    BY <1>1, <1>2, OneRunning
  <2>4. \A d \in queue : ActionOf[d] = a /\ tree.cmd[d] = "pending"
    BY <1>1 DEF IInv, NothingForgotten
  <2>5. \A d \in queue' : ActionOf[d] = a /\ tree'.cmd[d] = "pending"
    BY <1>2, <2>4 DEF IInv, TypeOK
  <2>6. Policy[a] = "parallel" => PendingOf(tree', a) \subseteq queue'
    BY <1>1, <2>2 DEF IInv, NothingForgotten
  <2> QED
    BY <2>1, <2>3, <2>5, <2>6 DEF NothingForgotten
<1> QED
  BY <1>3, <1>4, <1>5, <1>6, <1>7, <1>8, <1>9 DEF IInv

\* SubmitTask starts the task and its first action, and hands out the first
\* commands.
LEMMA StartStep ==
  ASSUME IInv, Start
  PROVE  IInv'
<1>1. /\ tree \in Trees /\ tree.task = "pending" /\ PendingActions(tree) # {}
      /\ queue = {} /\ sent' = sent
      /\ \A b \in Actions : tree.act[b] = "pending"
  BY DEF IInv, TypeOK, StatusInv, Start, CanStart
<1>2. PICK a \in PendingActions(tree) :
        /\ NextPendingAction(tree) = {a}
        /\ \A b \in PendingActions(tree) : a <= b
  BY <1>1, NextPending
<1>3. a \in Actions /\ \A b \in Actions : a <= b
  BY <1>1, <1>2 DEF PendingActions
<1>4. /\ tree' \in Trees /\ tree'.task = "running"
      /\ tree'.cmd = tree.cmd /\ tree'.retries = tree.retries
      /\ \A b \in Actions : tree'.act[b] = IF b = a THEN "running" ELSE "pending"
  BY <1>1, <1>2, StartedFields DEF Start
<1>5. \A c \in Commands : tree'.cmd[c] = "pending" /\ c \notin sent'
  <2> SUFFICES ASSUME NEW c \in Commands
               PROVE  tree.cmd[c] = "pending" /\ c \notin sent
    BY <1>1, <1>4
  <2>1. tree.act[ActionOf[c]] = "pending"
    BY <1>1, Shape
  <2> QED
    BY <2>1 DEF IInv, ActionAgreesWithCommands
<1>6. queue' = CommandsToDispatch(tree', a)
  BY <1>2 DEF Start
<1>7. /\ queue' \subseteq PendingOf(tree', a)
      /\ Policy[a] = "parallel" => queue' = PendingOf(tree', a)
      /\ Policy[a] = "sequential" =>
           \A c \in queue' : \A d \in PendingOf(tree', a) : c <= d
  BY <1>3, <1>6, DispatchedCommands
<1>8. PendingOf(tree', a) = CommandsOf(a) /\ CommandsOf(a) # {}
  BY <1>3, <1>5, Shape DEF PendingOf, CommandsOf
<1>9. queue' # {}
  BY <1>3, <1>5, <1>6, <1>8, SomethingToDispatch DEF CommandsOf
<1>10. TypeOK' /\ RetriesBounded'
  BY <1>1, <1>4, <1>7, <1>8 DEF IInv, TypeOK, RetriesBounded, CommandsOf
<1>11. StatusInv'
  BY <1>3, <1>4 DEF StatusInv, IsFinished
<1>12. ActionsInOrder'
  <2>1. \A b \in Actions : b \in Nat /\ a \in Nat
    BY <1>3, Shape
  <2> QED
    BY <1>3, <1>4, <2>1 DEF ActionsInOrder
<1>13. CommandsInOrder'
  <2> SUFFICES ASSUME NEW c \in Commands, NEW d \in Commands,
                      ActionOf[c] = ActionOf[d],
                      Policy[ActionOf[d]] = "sequential",
                      c < d, d \in queue'
               PROVE  FALSE
    BY <1>5 DEF CommandsInOrder
  <2>1. ActionOf[d] = a /\ c \in PendingOf(tree', a)
    BY <1>7, <1>8 DEF CommandsOf
  <2>2. d <= c
    BY <1>7, <2>1
  <2>3. c \in Nat /\ d \in Nat
    BY Shape
  <2> QED
    BY <2>2, <2>3
<1>14. SentInv'
  BY <1>5 DEF SentInv
<1>15. ActionAgreesWithCommands'
  BY <1>4, <1>5, Shape DEF ActionAgreesWithCommands
<1>16. NothingForgotten'
  BY <1>4, <1>5, <1>7, <1>8, <1>9 DEF NothingForgotten, CommandsOf
<1> QED
  BY <1>10, <1>11, <1>12, <1>13, <1>14, <1>15, <1>16 DEF IInv

-----------------------------------------------------------------------------
(* A success: the action goes on, or it is over.                           *)

\* Command c of the running action succeeds and more of the action is pending
\* or in flight: the commands that may go now are handed out.
LEMMA ContinueStep ==
  ASSUME IInv, NEW c \in Commands,
         tree.cmd[c] = "sending", tree.act[ActionOf[c]] = "running",
         tree' = SetCmd(tree, c, "succeeded"),
         queue' = queue \cup CommandsToDispatch(tree', ActionOf[c]),
         ~AllCommandsFinished(tree', ActionOf[c]),
         sent' = sent
  PROVE  IInv'
<1> DEFINE a == ActionOf[c]
           next == CommandsToDispatch(tree', a)
<1>1. a \in Actions /\ tree \in Trees /\ tree.task = "running" /\ c \in sent
  BY Shape, RunningAction DEF IInv, TypeOK, SentInv
<1>2. /\ tree' \in Trees /\ tree'.task = tree.task /\ tree'.act = tree.act
      /\ tree'.retries = tree.retries
      /\ \A d \in Commands : tree'.cmd[d] = IF d = c THEN "succeeded" ELSE tree.cmd[d]
  BY <1>1 DEF SetCmd, Trees, CommandStatus
<1>3. \A b \in Actions : tree'.act[b] = "running" => b = a
  BY <1>1, <1>2, OneRunning
<1>4. \A d \in CommandsOf(a) : tree'.cmd[d] \in {"pending", "sending", "succeeded"}
  BY <1>1, <1>2 DEF IInv, ActionAgreesWithCommands, CommandsOf
<1>5. /\ next \subseteq PendingOf(tree', a)
      /\ Policy[a] = "parallel" => next = PendingOf(tree', a)
      /\ Policy[a] = "sequential" =>
           \A d \in next : /\ \A e \in PendingOf(tree', a) : d <= e
                           /\ \A e \in CommandsOf(a) : tree'.cmd[e] # "sending"
  BY <1>1, DispatchedCommands
<1>6. \A d \in next : /\ d \in Commands /\ ActionOf[d] = a
                      /\ tree'.cmd[d] = "pending"
  BY <1>5 DEF PendingOf, CommandsOf
<1> HIDE DEF next
<1>7. TypeOK' /\ RetriesBounded'
  BY <1>2, <1>6 DEF IInv, TypeOK, RetriesBounded, next
<1>8. StatusInv' /\ ActionsInOrder'
  BY <1>1, <1>2 DEF IInv, StatusInv, ActionsInOrder, IsFinished
<1>9. CommandsInOrder'
  <2> SUFFICES ASSUME NEW d \in Commands, NEW e \in Commands,
                      ActionOf[d] = ActionOf[e],
                      Policy[ActionOf[e]] = "sequential",
                      d < e, e \in sent \cup queue \cup next
               PROVE  tree'.cmd[d] = "succeeded"
    BY DEF CommandsInOrder, next
  <2>1. CASE e \in sent \cup queue
    <3>1. tree.cmd[d] = "succeeded"
      BY <2>1 DEF IInv, CommandsInOrder
    <3> QED
      BY <3>1, <1>2
  <2>2. CASE e \in next
    <3>1. ActionOf[d] = a /\ Policy[a] = "sequential" /\ d \in CommandsOf(a)
      BY <2>2, <1>6 DEF CommandsOf
    <3>2. tree'.cmd[d] # "sending" /\ d \notin PendingOf(tree', a)
      BY <2>2, <3>1, <1>5, Shape
    <3> QED
      BY <3>1, <3>2, <1>4 DEF PendingOf
  <2> QED
    BY <2>1, <2>2
<1>10. SentInv'
  BY <1>1, <1>2 DEF IInv, SentInv
<1>11. ActionAgreesWithCommands'
  <2>1. \A d \in Commands : tree.act[ActionOf[d]] # "failed"
    BY Shape, <1>1, OneRunning
  <2> QED
    BY <1>1, <1>2, <2>1 DEF IInv, ActionAgreesWithCommands
<1>12. NothingForgotten'
  <2>1. \E d \in CommandsOf(a) : tree'.cmd[d] = "sending" \/ d \in queue'
    <3>1. PICK d \in CommandsOf(a) : tree'.cmd[d] \in {"pending", "sending"}
      BY <1>4 DEF AllCommandsFinished, IsTerminal
    <3>2. CASE tree'.cmd[d] = "sending"
      BY <3>2
    <3>3. CASE /\ tree'.cmd[d] = "pending"
               /\ \A e \in CommandsOf(a) : tree'.cmd[e] # "sending"
      <4>1. PendingOf(tree', a) # {}
        BY <3>3 DEF PendingOf
      <4>2. next # {}
        BY <4>1, <3>3, <1>1, SomethingToDispatch DEF next
      <4> QED
        BY <4>2, <1>6 DEF next, CommandsOf
    <3> QED
      BY <3>1, <3>2, <3>3
  <2>2. \A d \in queue : ActionOf[d] = a /\ tree.cmd[d] = "pending"
    BY <1>1 DEF IInv, NothingForgotten
  <2>3. \A d \in queue' : ActionOf[d] = a /\ tree'.cmd[d] = "pending"
    BY <1>2, <1>6, <2>2 DEF IInv, TypeOK, next
  <2>4. Policy[a] = "parallel" => PendingOf(tree', a) \subseteq queue'
    BY <1>5 DEF next
  <2> QED
    BY <1>3, <2>1, <2>3, <2>4 DEF NothingForgotten
<1> QED
  BY <1>7, <1>8, <1>9, <1>10, <1>11, <1>12 DEF IInv

\* The last command of an action succeeds: its tree, before the Dispatcher
\* moves on, has only succeeded commands in the action and none queued.
LEMMA ActionOver ==
  ASSUME IInv, NEW c \in Commands,
         tree.cmd[c] = "sending", tree.act[ActionOf[c]] = "running",
         AllCommandsFinished(SetCmd(tree, c, "succeeded"), ActionOf[c])
  PROVE  /\ \A d \in CommandsOf(ActionOf[c]) : d = c \/ tree.cmd[d] = "succeeded"
         /\ queue = {}
         /\ c \in sent /\ tree.task = "running"
<1> DEFINE a == ActionOf[c]
<1>1. a \in Actions /\ tree \in Trees /\ tree.task = "running" /\ c \in sent
  BY Shape, RunningAction DEF IInv, TypeOK, SentInv
<1>2. \A d \in Commands :
        SetCmd(tree, c, "succeeded").cmd[d] = IF d = c THEN "succeeded" ELSE tree.cmd[d]
  BY <1>1 DEF SetCmd, Trees, CommandStatus
<1>3. \A d \in CommandsOf(a) : d = c \/ tree.cmd[d] = "succeeded"
  BY <1>1, <1>2
     DEF IInv, ActionAgreesWithCommands, AllCommandsFinished, IsTerminal, CommandsOf
<1>4. \A d \in queue : d \in CommandsOf(a) /\ tree.cmd[d] = "pending"
  BY <1>1 DEF IInv, TypeOK, NothingForgotten, CommandsOf
<1>5. queue = {}
  BY <1>3, <1>4
<1> QED
  BY <1>1, <1>3, <1>5

\* The tree after the last success of action a, and the order of its actions.
LEMMA AdvancedTree ==
  ASSUME IInv, NEW c \in Commands,
         tree.cmd[c] = "sending", tree.act[ActionOf[c]] = "running",
         AllCommandsFinished(SetCmd(tree, c, "succeeded"), ActionOf[c]),
         tree' = Advanced(SetCmd(tree, c, "succeeded"), ActionOf[c])
  PROVE  /\ tree' \in Trees
         /\ tree'.retries = tree.retries
         /\ tree'.task = IF PendingActions(tree) = {} THEN "completed" ELSE "running"
         /\ \A b \in Actions :
              tree'.act[b] = IF b = ActionOf[c] THEN "completed"
                             ELSE IF b \in NextPendingAction(tree)
                             THEN "running" ELSE tree.act[b]
         /\ \A d \in Commands :
              tree'.cmd[d] = IF d = c THEN "succeeded" ELSE tree.cmd[d]
<1> DEFINE a == ActionOf[c]
           t == SetCmd(tree, c, "succeeded")
<1>1. a \in Actions /\ tree \in Trees /\ tree.task = "running"
  BY Shape, RunningAction DEF IInv, TypeOK
<1>2. /\ t \in Trees /\ t.task = tree.task /\ t.act = tree.act
      /\ t.retries = tree.retries
      /\ \A d \in Commands : t.cmd[d] = IF d = c THEN "succeeded" ELSE tree.cmd[d]
  BY <1>1 DEF SetCmd, Trees, CommandStatus
<1>3. PendingActions(t) = PendingActions(tree)
  BY <1>2 DEF PendingActions
<1>4. NextPendingAction(t) = NextPendingAction(tree)
  BY <1>3 DEF NextPendingAction
<1>5. tree' = Advanced(t, a)
  OBVIOUS
<1> HIDE DEF t
<1>6. /\ Advanced(t, a) \in Trees
      /\ Advanced(t, a).cmd = t.cmd
      /\ Advanced(t, a).retries = t.retries
      /\ Advanced(t, a).task = IF PendingActions(t) = {} THEN "completed" ELSE t.task
      /\ \A b \in Actions :
           Advanced(t, a).act[b] = IF b = a THEN "completed"
                                   ELSE IF b \in NextPendingAction(t)
                                   THEN "running" ELSE t.act[b]
  BY <1>1, <1>2, AdvancedFields
<1> QED
  BY <1>1, <1>2, <1>3, <1>4, <1>5, <1>6

\* The last command of the last action succeeds: the task is completed.
LEMMA CompleteStep ==
  ASSUME IInv, NEW c \in Commands,
         tree.cmd[c] = "sending", tree.act[ActionOf[c]] = "running",
         AllCommandsFinished(SetCmd(tree, c, "succeeded"), ActionOf[c]),
         PendingActions(tree) = {},
         tree' = Advanced(SetCmd(tree, c, "succeeded"), ActionOf[c]),
         queue' = {}, sent' = sent
  PROVE  IInv' /\ tree'.task = "completed" /\ \A d \in Commands : tree'.cmd[d] = "succeeded"
<1> DEFINE a == ActionOf[c]
<1>1. a \in Actions /\ c \in sent
  BY Shape, ActionOver
<1>2. /\ tree' \in Trees /\ tree'.task = "completed"
      /\ tree'.retries = tree.retries
      /\ \A b \in Actions : b # a /\ b \notin NextPendingAction(tree)
                              => tree'.act[b] = tree.act[b]
      /\ tree'.act[a] = "completed"
      /\ \A d \in Commands : tree'.cmd[d] = IF d = c THEN "succeeded" ELSE tree.cmd[d]
  BY <1>1, AdvancedTree
<1>3. \A b \in Actions : tree'.act[b] = "completed"
  <2> SUFFICES ASSUME NEW b \in Actions, b # a PROVE tree'.act[b] = "completed"
    BY <1>2
  <2>1. tree.act[b] = "completed"
    BY <1>1, OneRunning DEF PendingActions
  <2>2. b \notin NextPendingAction(tree)
    BY DEF NextPendingAction
  <2> QED
    BY <1>2, <2>1, <2>2
<1>4. \A d \in Commands : tree'.cmd[d] = "succeeded"
  <2> SUFFICES ASSUME NEW d \in Commands, d # c PROVE tree.cmd[d] = "succeeded"
    BY <1>2
  <2>1. CASE ActionOf[d] = a
    BY <2>1, ActionOver DEF CommandsOf
  <2>2. CASE ActionOf[d] # a
    <3>1. ActionOf[d] \in Actions
      BY Shape
    <3>2. tree.act[ActionOf[d]] = "completed"
      BY <2>2, <3>1, <1>1, OneRunning DEF PendingActions
    <3> QED
      BY <3>2 DEF IInv, ActionAgreesWithCommands
  <2> QED
    BY <2>1, <2>2
<1>5. TypeOK' /\ RetriesBounded' /\ StatusInv' /\ ActionsInOrder' /\ CommandsInOrder'
  BY <1>2, <1>3, <1>4
     DEF IInv, TypeOK, RetriesBounded, StatusInv, ActionsInOrder, CommandsInOrder
<1>6. SentInv'
  BY <1>1, <1>2 DEF IInv, SentInv
<1>7. ActionAgreesWithCommands' /\ NothingForgotten'
  BY <1>3, <1>4, Shape DEF ActionAgreesWithCommands, NothingForgotten
<1> QED
  BY <1>2, <1>4, <1>5, <1>6, <1>7 DEF IInv

\* The last command of an action succeeds and another action is pending: the
\* next one starts and its first commands are handed out.
LEMMA NextActionStep ==
  ASSUME IInv, NEW c \in Commands,
         tree.cmd[c] = "sending", tree.act[ActionOf[c]] = "running",
         AllCommandsFinished(SetCmd(tree, c, "succeeded"), ActionOf[c]),
         NEW n \in PendingActions(tree),
         NextPendingAction(tree) = {n},
         \A b \in PendingActions(tree) : n <= b,
         tree' = Advanced(SetCmd(tree, c, "succeeded"), ActionOf[c]),
         queue' = CommandsToDispatch(tree', n), sent' = sent
  PROVE  IInv' /\ tree'.task = "running"
               /\ \E d \in Commands : tree'.cmd[d] # "succeeded"
<1> DEFINE a == ActionOf[c]
<1>1. a \in Actions /\ n \in Actions /\ n # a /\ tree.act[n] = "pending"
  BY Shape DEF PendingActions
<1>2. c \in sent
  BY ActionOver
<1>3. a \in Nat /\ n \in Nat /\ \A b \in Actions : b \in Nat
  BY <1>1, Shape
<1>4. /\ tree' \in Trees /\ tree'.task = "running"
      /\ tree'.retries = tree.retries
      /\ \A b \in Actions :
           tree'.act[b] = IF b = a THEN "completed"
                          ELSE IF b = n THEN "running" ELSE tree.act[b]
      /\ \A d \in Commands : tree'.cmd[d] = IF d = c THEN "succeeded" ELSE tree.cmd[d]
  BY AdvancedTree
<1>5. \A b \in Actions :
        /\ b < n => tree'.act[b] = "completed"
        /\ n < b => tree'.act[b] = "pending"
  <2> SUFFICES ASSUME NEW b \in Actions
               PROVE  /\ b < n => tree'.act[b] = "completed"
                      /\ n < b => tree'.act[b] = "pending"
    OBVIOUS
  <2>1. /\ b < a => tree.act[b] = "completed"
        /\ a < b => tree.act[b] = "pending"
    BY <1>1, OneRunning
  <2>2. tree.act[b] = "pending" => n <= b
    BY DEF PendingActions
  <2>3. a < n
    BY <1>1, <1>3, OneRunning
  <2> QED
    BY <1>3, <1>4, <2>1, <2>2, <2>3
<1>6. \A d \in CommandsOf(n) : tree'.cmd[d] = "pending" /\ d \notin sent /\ d # c
  BY <1>1, <1>4 DEF IInv, ActionAgreesWithCommands, CommandsOf
<1>7. PendingOf(tree', n) = CommandsOf(n) /\ CommandsOf(n) # {}
  BY <1>1, <1>6, Shape DEF PendingOf
<1>8. /\ queue' \subseteq PendingOf(tree', n)
      /\ Policy[n] = "parallel" => queue' = PendingOf(tree', n)
      /\ Policy[n] = "sequential" =>
           \A d \in queue' : \A e \in PendingOf(tree', n) : d <= e
  BY <1>1, DispatchedCommands
<1>9. queue' # {}
  BY <1>1, <1>6, <1>7, SomethingToDispatch
<1>10. TypeOK' /\ RetriesBounded'
  BY <1>4, <1>7, <1>8 DEF IInv, TypeOK, RetriesBounded, CommandsOf
<1>11. StatusInv'
  <2>1. \A b \in Actions : tree'.act[b] \in {"completed", "running", "pending"}
    BY <1>1, <1>4, OneRunning
  <2> QED
    BY <1>1, <1>4, <2>1 DEF StatusInv, IsFinished
<1>12. ActionsInOrder'
  BY <1>1, <1>3, <1>4, <1>5 DEF ActionsInOrder
<1>13. CommandsInOrder'
  <2> SUFFICES ASSUME NEW d \in Commands, NEW e \in Commands,
                      ActionOf[d] = ActionOf[e],
                      Policy[ActionOf[e]] = "sequential",
                      d < e, e \in sent \cup queue'
               PROVE  tree'.cmd[d] = "succeeded"
    BY DEF CommandsInOrder
  <2>1. CASE e \in sent
    <3>1. tree.cmd[d] = "succeeded"
      BY <2>1 DEF IInv, CommandsInOrder
    <3> QED
      BY <3>1, <1>4
  <2>2. CASE e \in queue'
    <3>1. ActionOf[e] = n /\ d \in PendingOf(tree', n)
      BY <2>2, <1>7, <1>8 DEF CommandsOf
    <3>2. e <= d
      BY <2>2, <3>1, <1>8
    <3>3. d \in Nat /\ e \in Nat
      BY Shape
    <3> QED
      BY <3>2, <3>3
  <2> QED
    BY <2>1, <2>2
<1>14. SentInv'
  BY <1>2, <1>4 DEF IInv, SentInv
<1>15. ActionAgreesWithCommands'
  <2> SUFFICES
        ASSUME NEW d \in Commands
        PROVE  LET s == tree'.act[ActionOf[d]]
               IN  /\ s \in {"completed", "running", "pending"}
                   /\ s = "pending" => tree'.cmd[d] = "pending" /\ d \notin sent'
                   /\ s = "running" => tree'.cmd[d] \in {"pending", "sending", "succeeded"}
                   /\ s = "completed" => tree'.cmd[d] = "succeeded"
                   /\ tree'.cmd[d] # "timeout"
    BY DEF ActionAgreesWithCommands
  <2>1. ActionOf[d] \in Actions
    BY Shape
  <2>2. CASE ActionOf[d] = a
    <3>1. tree'.cmd[d] = "succeeded"
      BY <2>2, <1>4, ActionOver DEF CommandsOf
    <3> QED
      BY <2>1, <2>2, <3>1, <1>4
  <2>3. CASE ActionOf[d] = n
    BY <2>1, <2>3, <1>1, <1>4, <1>6 DEF CommandsOf
  <2>4. CASE ActionOf[d] # a /\ ActionOf[d] # n
    <3>1. tree'.act[ActionOf[d]] = tree.act[ActionOf[d]] /\ tree'.cmd[d] = tree.cmd[d]
      BY <2>1, <2>4, <1>4
    <3>2. tree.act[ActionOf[d]] \in {"completed", "pending"}
      BY <2>1, <2>4, <1>1, OneRunning
    <3> QED
      BY <3>1, <3>2 DEF IInv, ActionAgreesWithCommands
  <2> QED
    BY <2>2, <2>3, <2>4
<1>16. NothingForgotten'
  <2>1. \A b \in Actions : tree'.act[b] = "running" => b = n
    BY <1>1, <1>4, OneRunning
  <2>2. \E d \in CommandsOf(n) : d \in queue'
    BY <1>7, <1>8, <1>9
  <2>3. \A d \in queue' : ActionOf[d] = n /\ tree'.cmd[d] = "pending"
    BY <1>8 DEF PendingOf, CommandsOf
  <2>4. Policy[n] = "parallel" => PendingOf(tree', n) \subseteq queue'
    BY <1>8
  <2> QED
    BY <2>1, <2>2, <2>3, <2>4 DEF NothingForgotten
<1>17. \E d \in Commands : tree'.cmd[d] # "succeeded"
  <2>1. PICK d \in CommandsOf(n) : TRUE
    BY <1>7
  <2> QED
    BY <2>1, <1>6 DEF CommandsOf
<1> QED
  BY <1>4, <1>10, <1>11, <1>12, <1>13, <1>14, <1>15, <1>16, <1>17 DEF IInv

-----------------------------------------------------------------------------
(* What an action of Next does, by cases of the Dispatcher's outcome.      *)

\* A success either leaves the action unfinished, ends the task or starts the
\* next action; the circuit breaker branch of advanceAfterSuccess is dead.
LEMMA SuccessCases ==
  ASSUME IInv, NEW c \in Commands, Success(c)
  PROVE  /\ tree.cmd[c] = "sending" /\ tree.act[ActionOf[c]] = "running"
         /\ c \in sent /\ sent' = sent
         /\ \/ /\ tree' = SetCmd(tree, c, "succeeded")
               /\ queue' = queue \cup CommandsToDispatch(tree', ActionOf[c])
               /\ ~AllCommandsFinished(tree', ActionOf[c])
            \/ /\ tree' = Advanced(SetCmd(tree, c, "succeeded"), ActionOf[c])
               /\ AllCommandsFinished(SetCmd(tree, c, "succeeded"), ActionOf[c])
               /\ \/ PendingActions(tree) = {} /\ queue' = {}
                  \/ \E n \in PendingActions(tree) :
                       /\ NextPendingAction(tree) = {n}
                       /\ \A b \in PendingActions(tree) : n <= b
                       /\ queue' = CommandsToDispatch(tree', n)
<1> DEFINE a == ActionOf[c]
           t == SetCmd(tree, c, "succeeded")
           o == AdvanceAfterSuccess(t, a)
<1>1. /\ tree.cmd[c] = "sending" /\ c \in sent /\ sent' = sent
      /\ ~IsFinished(tree)
      /\ o.ok /\ tree' = o.tree
      /\ queue' = IF IsFinished(o.tree) THEN {} ELSE queue \cup o.next
  BY DEF Success, Apply, OnSuccess, Error
<1>2. tree.act[a] = "running" /\ tree.task = "running" /\ a \in Actions /\ tree \in Trees
  BY <1>1, RunningAction, Shape DEF IInv, TypeOK, IsTerminal
<1>3. /\ t \in Trees /\ t.task = tree.task /\ t.act = tree.act
      /\ \A d \in Commands : t.cmd[d] = IF d = c THEN "succeeded" ELSE tree.cmd[d]
  BY <1>2 DEF SetCmd, Trees, CommandStatus
<1>4. ~AnyCommandFailed(t, a)
  BY <1>2, <1>3 DEF IInv, ActionAgreesWithCommands, AnyCommandFailed, CommandsOf
<1>5. PendingActions(t) = PendingActions(tree)
  BY <1>3 DEF PendingActions
<1>6. NextPendingAction(t) = NextPendingAction(tree)
  BY <1>5 DEF NextPendingAction
<1> HIDE DEF t
<1>7. CommandsToDispatch(t, a) # {} => ~AllCommandsFinished(t, a)
  <2> SUFFICES ASSUME NEW d \in CommandsToDispatch(t, a)
               PROVE  ~AllCommandsFinished(t, a)
    OBVIOUS
  <2>1. d \in PendingOf(t, a)
    BY <1>2, DispatchedCommands
  <2> QED
    BY <2>1 DEF PendingOf, AllCommandsFinished, IsTerminal
<1>8. CASE ~AllCommandsFinished(t, a)
  <2>1. o = Outcome(t, CommandsToDispatch(t, a))
    BY <1>8 DEF AdvanceAfterSuccess
  <2>2. tree' = t /\ queue' = queue \cup CommandsToDispatch(t, a)
    BY <1>1, <1>2, <1>3, <2>1 DEF Outcome, IsFinished
  <2> QED
    BY <1>1, <1>2, <1>8, <2>2 DEF t
<1>9. CASE AllCommandsFinished(t, a)
  <2> DEFINE next == UNION {CommandsToDispatch(Advanced(t, a), b) :
                              b \in NextPendingAction(t)}
  <2>1. o = Outcome(Advanced(t, a), next)
    BY <1>1, <1>4, <1>7, <1>9 DEF AdvanceAfterSuccess, Error
  <2>2. /\ tree' = Advanced(t, a)
        /\ queue' = IF IsFinished(tree') THEN {} ELSE queue \cup next
    BY <1>1, <2>1 DEF Outcome
  <2>3. tree'.task = IF PendingActions(tree) = {} THEN "completed" ELSE "running"
    BY <1>1, <1>2, <1>9, <2>2, AdvancedTree DEF t
  <2>4. queue = {}
    BY <1>1, <1>2, <1>9, ActionOver DEF t
  <2>5. CASE PendingActions(tree) = {}
    BY <1>1, <1>2, <1>9, <2>2, <2>3, <2>5 DEF IsFinished, t
  <2>6. CASE PendingActions(tree) # {}
    <3>1. PICK n \in PendingActions(tree) :
            /\ NextPendingAction(tree) = {n}
            /\ \A b \in PendingActions(tree) : n <= b
      BY <2>6, NextPending
    <3>2. next = CommandsToDispatch(tree', n)
      BY <1>6, <2>2, <3>1
    <3>3. queue' = CommandsToDispatch(tree', n)
      BY <2>2, <2>3, <2>4, <2>6, <3>2 DEF IsFinished
    <3> QED
      BY <1>1, <1>2, <1>9, <2>2, <3>1, <3>3 DEF t
  <2> QED
    BY <2>5, <2>6
<1> QED
  BY <1>8, <1>9

\* Reject, Failure and a timeout without retries left break the task.
LEMMA FailureCases ==
  ASSUME IInv, NEW c \in Commands,
         \/ Reject(c)
         \/ Failure(c)
         \/ Timeout(c) /\ ~CanRetry(tree, c)
  PROVE  /\ tree.act[ActionOf[c]] = "running"
         /\ tree.cmd[c] \in {"pending", "sending"}
         /\ tree' = Broken(SetCmd(tree, c, "failed"), ActionOf[c])
         /\ queue' = {}
         /\ c \in sent' /\ c \in sent \cup queue
         /\ \/ sent' = sent
            \/ c \in queue /\ sent' = sent \cup {c}
<1> DEFINE a == ActionOf[c]
           t == SetCmd(tree, c, "failed")
           o == CircuitBreak(t, a)
<1>1. /\ CanMarkFailed(tree, c) /\ o.ok /\ tree' = o.tree
      /\ \E q : queue' = IF IsFinished(o.tree) THEN {} ELSE q \cup o.next
  BY DEF Reject, Failure, Timeout, Apply, OnTimeout, OnFailure, Error
<1>2. /\ tree.cmd[c] \in {"pending", "sending"}
      /\ tree \in Trees /\ a \in Actions
  BY <1>1, Shape DEF IInv, TypeOK, ActionAgreesWithCommands, CanMarkFailed
<1>3. tree' = Broken(t, a) /\ o.tree = Broken(t, a)
  BY <1>1 DEF CircuitBreak, Error, Outcome
<1>4. tree'.task = "failed"
  <2>1. t \in Trees
    BY <1>2 DEF SetCmd, Trees, CommandStatus
  <2> QED
    BY <1>2, <1>3, <2>1, BrokenFields
<1>5. queue' = {}
  BY <1>1, <1>3, <1>4 DEF IsFinished
<1>6. /\ c \in sent' /\ c \in sent \cup queue
      /\ sent' = sent \/ (c \in queue /\ sent' = sent \cup {c})
      /\ c \in queue \/ (c \in sent /\ ~IsTerminal(tree.cmd[c]) /\ ~IsFinished(tree))
  BY DEF Reject, Failure, Timeout, IsTerminal, IInv, SentInv
<1>7. tree.act[a] = "running"
  BY <1>6, RunningAction
<1> QED
  BY <1>2, <1>3, <1>5, <1>6, <1>7

\* A timeout with a retry left resets the command.
LEMMA RetryCases ==
  ASSUME IInv, NEW c \in Commands, Timeout(c), CanRetry(tree, c)
  PROVE  /\ tree.cmd[c] = "sending" /\ tree.act[ActionOf[c]] = "running"
         /\ tree' = Reset(tree, c) /\ queue' = queue \cup {c} /\ sent' = sent
<1>1. /\ tree.cmd[c] = "sending" /\ ~IsFinished(tree) /\ sent' = sent
      /\ tree' = Reset(tree, c)
      /\ queue' = IF IsFinished(Reset(tree, c)) THEN {} ELSE queue \cup {c}
  BY DEF Timeout, Apply, OnTimeout, Outcome
<1>2. tree.act[ActionOf[c]] = "running"
  BY <1>1, RunningAction DEF IInv, SentInv, IsTerminal
<1>3. tree \in Trees
  BY DEF IInv, TypeOK
<1>4. Reset(tree, c).task = tree.task
  BY <1>3, ResetFields
<1> QED
  BY <1>1, <1>2, <1>4 DEF IsFinished

\* Every action preserves the invariant.
LEMMA NextPreserves ==
  ASSUME IInv, [Next]_vars
  PROVE  IInv'
<1>1. CASE Start
  BY <1>1, StartStep
<1>2. CASE Cancel
  BY <1>2, CancelStep
<1>3. ASSUME NEW c \in Commands, Accept(c)
      PROVE  IInv'
  BY <1>3, AcceptStep
<1>4. ASSUME NEW c \in Commands,
             Reject(c) \/ Failure(c) \/ (Timeout(c) /\ ~CanRetry(tree, c))
      PROVE  IInv'
  BY <1>4, FailureCases, BreakStep
<1>5. ASSUME NEW c \in Commands, Success(c)
      PROVE  IInv'
  <2>1. CASE tree' = SetCmd(tree, c, "succeeded")
             /\ ~AllCommandsFinished(tree', ActionOf[c])
             /\ queue' = queue \cup CommandsToDispatch(tree', ActionOf[c])
    BY <1>5, <2>1, SuccessCases, ContinueStep
  <2>2. CASE /\ tree' = Advanced(SetCmd(tree, c, "succeeded"), ActionOf[c])
             /\ AllCommandsFinished(SetCmd(tree, c, "succeeded"), ActionOf[c])
             /\ PendingActions(tree) = {} /\ queue' = {}
    BY <1>5, <2>2, SuccessCases, CompleteStep
  <2>3. ASSUME /\ tree' = Advanced(SetCmd(tree, c, "succeeded"), ActionOf[c])
               /\ AllCommandsFinished(SetCmd(tree, c, "succeeded"), ActionOf[c]),
               NEW n \in PendingActions(tree),
               /\ NextPendingAction(tree) = {n}
               /\ \A b \in PendingActions(tree) : n <= b
               /\ queue' = CommandsToDispatch(tree', n)
        PROVE  IInv'
    BY <1>5, <2>3, SuccessCases, NextActionStep
  <2> QED
    BY <1>5, <2>1, <2>2, <2>3, SuccessCases
<1>6. ASSUME NEW c \in Commands, Timeout(c), CanRetry(tree, c)
      PROVE  IInv'
  BY <1>6, RetryCases, RetryStep
<1>7. CASE UNCHANGED vars
  BY <1>7 DEF vars, IInv, TypeOK, RetriesBounded, StatusInv, ActionsInOrder,
              CommandsInOrder, SentInv, ActionAgreesWithCommands,
              NothingForgotten, PendingOf, IsFinished
<1> QED
  BY <1>1, <1>2, <1>3, <1>4, <1>5, <1>6, <1>7 DEF Next

-----------------------------------------------------------------------------
(* The theorems.                                                           *)

LEMMA InitIInv == Init => IInv
<1> SUFFICES ASSUME Init PROVE IInv
  OBVIOUS
<1>1. /\ tree \in Trees /\ tree.task = "pending"
      /\ \A a \in Actions : tree.act[a] = "pending"
      /\ \A c \in Commands : tree.cmd[c] = "pending" /\ tree.retries[c] = 0
      /\ queue = {} /\ sent = {}
  BY DEF Init, NewTree, Trees, TaskStatus, ActionStatus, CommandStatus
<1>2. TypeOK /\ RetriesBounded
  BY <1>1, Shape DEF TypeOK, RetriesBounded
<1>3. StatusInv /\ ActionsInOrder /\ CommandsInOrder /\ SentInv
  BY <1>1 DEF StatusInv, ActionsInOrder, CommandsInOrder, SentInv, IsFinished
<1>4. ActionAgreesWithCommands /\ NothingForgotten
  BY <1>1, Shape DEF ActionAgreesWithCommands, NothingForgotten
<1> QED
  BY <1>2, <1>3, <1>4 DEF IInv

\* The inductive invariant holds in every state of every behaviour.
THEOREM Invariance == Spec => []IInv
<1>1. Init => IInv
  BY InitIInv
<1>2. IInv /\ [Next]_vars => IInv'
  BY NextPreserves
<1> QED
  BY <1>1, <1>2, PTL DEF Spec

\* The state keeps its shape.
THEOREM TypeCorrect == Spec => []TypeOK
<1>1. IInv => TypeOK
  BY DEF IInv
<1> QED
  BY <1>1, Invariance, PTL

\* The task's status always agrees with the status of its actions
\* (Dispatcher.advanceAfterSuccess, applyCircuitBreaker, Cancel).
THEOREM TaskCoherent == Spec => []TaskAgreesWithActions
<1>1. IInv => TaskAgreesWithActions
  <2> SUFFICES ASSUME IInv PROVE TaskAgreesWithActions
    OBVIOUS
  <2>1. tree.task = "running" =>
          \E a \in Actions : /\ tree.act[a] = "running"
                             /\ \A b \in Actions :
                                  /\ b < a => tree.act[b] = "completed"
                                  /\ b > a => tree.act[b] = "pending"
    <3> SUFFICES ASSUME tree.task = "running"
                 PROVE  \E a \in Actions :
                          /\ tree.act[a] = "running"
                          /\ \A b \in Actions :
                               /\ b < a => tree.act[b] = "completed"
                               /\ b > a => tree.act[b] = "pending"
      OBVIOUS
    <3>1. PICK a \in Actions : tree.act[a] = "running"
      BY DEF IInv, StatusInv
    <3>2. \A b \in Actions : b \in Nat /\ a \in Nat
      BY Shape
    <3> QED
      BY <3>1, <3>2, OneRunning
  <2>2. tree.task = "failed" =>
          \E a \in Actions : /\ tree.act[a] = "failed"
                             /\ \A b \in Actions :
                                  /\ b < a => tree.act[b] = "completed"
                                  /\ b > a => tree.act[b] = "cancelled"
    <3> SUFFICES ASSUME tree.task = "failed"
                 PROVE  \E a \in Actions :
                          /\ tree.act[a] = "failed"
                          /\ \A b \in Actions :
                               /\ b < a => tree.act[b] = "completed"
                               /\ b > a => tree.act[b] = "cancelled"
      OBVIOUS
    <3>1. PICK a \in Actions : tree.act[a] = "failed"
      BY DEF IInv, StatusInv
    <3>2. \A b \in Actions : b \in Nat /\ a \in Nat
      BY Shape
    <3>3. \A b \in Actions : b < a => tree.act[b] = "completed"
      BY <3>1 DEF IInv, ActionsInOrder
    <3>4. \A b \in Actions : a < b => tree.act[b] \notin {"completed", "failed"}
      BY <3>1 DEF IInv, ActionsInOrder
    <3>5. \A b \in Actions : tree.act[b] \in {"completed", "failed", "cancelled"}
      BY DEF IInv, StatusInv
    <3> QED
      BY <3>1, <3>2, <3>3, <3>4, <3>5
  <2> QED
    BY <2>1, <2>2 DEF IInv, StatusInv, TaskAgreesWithActions
<1> QED
  BY <1>1, Invariance, PTL

\* An action's status always agrees with the status of its commands, and no
\* finished action keeps a pending command.
THEOREM ActionCoherent == Spec => []ActionAgreesWithCommands
<1>1. IInv => ActionAgreesWithCommands
  BY DEF IInv
<1> QED
  BY <1>1, Invariance, PTL

\* A running task always has a command in flight or handed out: the
\* Dispatcher's NextCommands never forget one.
THEOREM NeverForgotten == Spec => []NothingForgotten
<1>1. IInv => NothingForgotten
  BY DEF IInv
<1> QED
  BY <1>1, Invariance, PTL

\* No command is attempted more often than its retry budget allows.
THEOREM RetryBudget == Spec => []RetriesBounded
<1>1. IInv => RetriesBounded
  BY DEF IInv
<1> QED
  BY <1>1, Invariance, PTL

\* Every action of the task is a step of its contract, or leaves it unchanged.
LEMMA StepContract ==
  ASSUME IInv, [Next]_vars
  PROVE  [Contract!Next]_(Contract!vars)
<1> DEFINE succ == {c \in Commands : tree.cmd[c] = "succeeded"}
<1>1. CASE Start
  <2>1. tree.task = "pending" /\ tree \in Trees /\ sent' = sent
    BY <1>1 DEF Start, CanStart, IInv, TypeOK
  <2>2. tree'.task = "running" /\ tree'.cmd = tree.cmd
    BY <1>1, <2>1, StartedFields DEF Start
  <2>3. Contract!Begin
    BY <2>1, <2>2 DEF Contract!Begin
  <2> QED
    BY <2>3 DEF Contract!Next
<1>2. CASE Cancel
  <2>1. /\ tree \in Trees /\ tree.task \in {"pending", "running"} /\ sent' = sent
    BY <1>2 DEF Cancel, IInv, TypeOK, IsFinished, Trees, TaskStatus
  <2>2. /\ tree'.task = "cancelled"
        /\ \A c \in Commands : tree'.cmd[c] = "succeeded" <=> tree.cmd[c] = "succeeded"
    BY <1>2, <2>1, CancelledFields DEF Cancel
  <2>3. succ' = succ
    BY <2>2
  <2>4. Contract!Abort
    BY <2>1, <2>2, <2>3 DEF Contract!Abort
  <2> QED
    BY <2>4 DEF Contract!Next
<1>3. ASSUME NEW c \in Commands, c \in queue
      PROVE  tree.task = "running" /\ Contract!Before(c) \subseteq succ
  <2>1. tree.act[ActionOf[c]] = "running" /\ tree.task = "running"
    BY <1>3, RunningAction
  <2>2. ASSUME NEW d \in Contract!Before(c)
        PROVE  d \in Commands /\ tree.cmd[d] = "succeeded"
    <3>1. d \in Commands
      BY DEF Contract!Before
    <3>2. CASE ActionOf[d] < ActionOf[c]
      <4>1. tree.act[ActionOf[d]] = "completed"
        BY <2>1, <3>1, <3>2, OneRunning, Shape
      <4> QED
        BY <3>1, <4>1 DEF IInv, ActionAgreesWithCommands
    <3>3. CASE /\ ActionOf[d] = ActionOf[c] /\ d < c
               /\ Policy[ActionOf[c]] = "sequential"
      BY <1>3, <3>1, <3>3 DEF IInv, CommandsInOrder
    <3> QED
      BY <3>2, <3>3 DEF Contract!Before
  <2> QED
    BY <2>1, <2>2
<1>4. ASSUME NEW c \in Commands, Accept(c)
      PROVE  Contract!Next
  <2>1. /\ tree \in Trees /\ c \in queue /\ tree.cmd[c] = "pending"
        /\ sent' = sent \cup {c}
    BY <1>4 DEF Accept, IInv, TypeOK
  <2>2. /\ tree'.task = tree.task
        /\ \A d \in Commands : tree'.cmd[d] = IF d = c THEN "sending" ELSE tree.cmd[d]
    BY <1>4, <2>1 DEF Accept, SetCmd, Trees, CommandStatus
  <2>3. succ' = succ
    BY <2>1, <2>2
  <2>4. Contract!Send(c)
    BY <1>3, <2>1, <2>2, <2>3 DEF Contract!Send
  <2> QED
    BY <2>4 DEF Contract!Next
<1>5. ASSUME NEW c \in Commands,
             Reject(c) \/ Failure(c) \/ (Timeout(c) /\ ~CanRetry(tree, c))
      PROVE  Contract!Next
  <2>1. /\ tree.act[ActionOf[c]] = "running"
        /\ tree.cmd[c] \in {"pending", "sending"}
        /\ tree' = Broken(SetCmd(tree, c, "failed"), ActionOf[c])
        /\ \/ sent' = sent
           \/ c \in queue /\ sent' = sent \cup {c}
    BY <1>5, FailureCases
  <2>2. tree \in Trees /\ ActionOf[c] \in Actions /\ tree.task = "running"
    BY <2>1, Shape, RunningAction DEF IInv, TypeOK
  <2> DEFINE t == SetCmd(tree, c, "failed")
  <2>3. /\ t \in Trees
        /\ \A d \in Commands : t.cmd[d] = IF d = c THEN "failed" ELSE tree.cmd[d]
    BY <2>2 DEF SetCmd, Trees, CommandStatus
  <2> HIDE DEF t
  <2>4. /\ tree'.task = "failed"
        /\ \A d \in Commands : tree'.cmd[d] = "succeeded" <=> t.cmd[d] = "succeeded"
    BY <2>1, <2>2, <2>3, BrokenFields DEF t
  <2>5. succ' = succ
    BY <2>1, <2>3, <2>4
  <2>6. CASE sent' = sent
    <3>1. Contract!Abort
      BY <2>2, <2>4, <2>5, <2>6 DEF Contract!Abort
    <3> QED
      BY <3>1 DEF Contract!Next
  <2>7. CASE c \in queue /\ sent' = sent \cup {c}
    <3>1. Contract!Send(c)
      BY <1>3, <2>2, <2>4, <2>5, <2>7 DEF Contract!Send
    <3> QED
      BY <3>1 DEF Contract!Next
  <2> QED
    BY <2>1, <2>6, <2>7
<1>6. ASSUME NEW c \in Commands, Success(c)
      PROVE  Contract!Next
  <2>1. /\ tree.cmd[c] = "sending" /\ tree.act[ActionOf[c]] = "running"
        /\ c \in sent /\ sent' = sent
    BY <1>6, SuccessCases
  <2>2. tree \in Trees /\ ActionOf[c] \in Actions /\ tree.task = "running"
    BY <2>1, Shape, RunningAction DEF IInv, TypeOK
  <2>3. SUFFICES
          /\ tree'.task = IF succ' = Commands THEN "completed" ELSE "running"
          /\ \A d \in Commands : tree'.cmd[d] = IF d = c THEN "succeeded" ELSE tree.cmd[d]
    <3>1. succ' = succ \cup {c} /\ c \notin succ
      BY <2>1, <2>3
    <3>2. Contract!Succeed(c)
      BY <2>1, <2>2, <2>3, <3>1 DEF Contract!Succeed
    <3> QED
      BY <3>2 DEF Contract!Next
  <2>4. CASE /\ tree' = SetCmd(tree, c, "succeeded")
             /\ ~AllCommandsFinished(tree', ActionOf[c])
    <3>1. /\ tree'.task = tree.task
          /\ \A d \in Commands : tree'.cmd[d] = IF d = c THEN "succeeded" ELSE tree.cmd[d]
      BY <2>2, <2>4 DEF SetCmd, Trees, CommandStatus
    <3>2. PICK d \in CommandsOf(ActionOf[c]) : ~IsTerminal(tree'.cmd[d])
      BY <2>4 DEF AllCommandsFinished
    <3>3. d \in Commands /\ d \notin succ'
      BY <3>2 DEF CommandsOf, IsTerminal
    <3>4. succ' # Commands
      BY <3>3
    <3> QED
      BY <2>2, <3>1, <3>4
  <2>5. CASE /\ tree' = Advanced(SetCmd(tree, c, "succeeded"), ActionOf[c])
             /\ AllCommandsFinished(SetCmd(tree, c, "succeeded"), ActionOf[c])
    <3>1. \A d \in Commands : tree'.cmd[d] = IF d = c THEN "succeeded" ELSE tree.cmd[d]
      BY <2>1, <2>5, AdvancedTree
    <3>2. CASE PendingActions(tree) = {} /\ queue' = {}
      <4>1. tree'.task = "completed" /\ \A d \in Commands : tree'.cmd[d] = "succeeded"
        BY <2>1, <2>5, <3>2, CompleteStep
      <4>2. succ' = Commands
        BY <4>1
      <4> QED
        BY <3>1, <4>1, <4>2
    <3>3. ASSUME NEW n \in PendingActions(tree),
                 /\ NextPendingAction(tree) = {n}
                 /\ \A b \in PendingActions(tree) : n <= b
                 /\ queue' = CommandsToDispatch(tree', n)
          PROVE  tree'.task = "running" /\ succ' # Commands
      <4>1. tree'.task = "running" /\ \E d \in Commands : tree'.cmd[d] # "succeeded"
        BY <2>1, <2>5, <3>3, NextActionStep
      <4> QED
        BY <4>1
    <3>4. \/ PendingActions(tree) = {} /\ queue' = {}
          \/ \E n \in PendingActions(tree) :
               /\ NextPendingAction(tree) = {n}
               /\ \A b \in PendingActions(tree) : n <= b
               /\ queue' = CommandsToDispatch(tree', n)
      BY <1>6, <2>4, <2>5, SuccessCases
    <3> QED
      BY <3>1, <3>2, <3>3, <3>4
  <2> QED
    BY <1>6, <2>4, <2>5, SuccessCases
<1>7. ASSUME NEW c \in Commands, Timeout(c), CanRetry(tree, c)
      PROVE  UNCHANGED Contract!vars
  <2>1. /\ tree.cmd[c] = "sending" /\ tree' = Reset(tree, c) /\ sent' = sent
        /\ tree \in Trees
    BY <1>7, RetryCases DEF IInv, TypeOK
  <2>2. /\ tree'.task = tree.task
        /\ \A d \in Commands : tree'.cmd[d] = IF d = c THEN "pending" ELSE tree.cmd[d]
    BY <2>1, ResetFields
  <2>3. succ' = succ
    BY <2>1, <2>2
  <2> QED
    BY <2>1, <2>2, <2>3 DEF Contract!vars
<1>8. CASE UNCHANGED vars
  BY <1>8 DEF vars, Contract!vars
<1> QED
  BY <1>1, <1>2, <1>4, <1>5, <1>6, <1>7, <1>8 DEF Next

\* A DispatchTask keeps its contract: actions and sequential commands in order,
\* completed exactly by the success of the last command, final once finished.
THEOREM Refinement == Spec => ContractSpec
<1>1. Init => Contract!Init
  <2> SUFFICES ASSUME Init PROVE Contract!Init
    OBVIOUS
  <2>1. /\ tree.task = "pending" /\ sent = {}
        /\ \A c \in Commands : tree.cmd[c] = "pending"
    BY DEF Init, NewTree
  <2> QED
    BY <2>1 DEF Contract!Init
<1>2. IInv /\ [Next]_vars => [Contract!Next]_(Contract!vars)
  BY StepContract
<1> QED
  BY <1>1, <1>2, Invariance, PTL DEF Spec, ContractSpec, Contract!Spec
=============================================================================
