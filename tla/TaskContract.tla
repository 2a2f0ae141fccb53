---------------------------- MODULE TaskContract ----------------------------
(***************************************************************************)
(* What internal/dispatch promises about one control task, without saying  *)
(* how: actions run in ascending order, the commands of a sequential       *)
(* action one after the other, a task is completed by the success of its   *)
(* last command and by nothing else, and a finished task never changes.    *)
(***************************************************************************)
EXTENDS DispatchTree

VARIABLES
    status,      \* status of the task
    sent,        \* commands handed to the gateway at least once
    succeeded    \* commands whose success was recorded

vars == <<status, sent, succeeded>>

\* The commands that must have succeeded before c may be sent.
Before(c) ==
    {d \in Commands : \/ ActionOf[d] < ActionOf[c]
                      \/ /\ ActionOf[d] = ActionOf[c]
                         /\ Policy[ActionOf[c]] = "sequential"
                         /\ d < c}

Init == status = "pending" /\ sent = {} /\ succeeded = {}

Begin == status = "pending" /\ status' = "running" /\ UNCHANGED <<sent, succeeded>>

Send(c) ==
    /\ status = "running"
    /\ Before(c) \subseteq succeeded
    /\ sent' = sent \cup {c}
    /\ status' \in {"running", "failed"}   \* the gateway may reject it
    /\ UNCHANGED succeeded

Succeed(c) ==
    /\ status = "running"
    /\ c \in sent \ succeeded
    /\ succeeded' = succeeded \cup {c}
    /\ status' = IF succeeded' = Commands THEN "completed" ELSE "running"
    /\ UNCHANGED sent

Abort ==
    /\ \/ status = "running" /\ status' = "failed"
       \/ status \in {"pending", "running"} /\ status' = "cancelled"
    /\ UNCHANGED <<sent, succeeded>>

Next == Begin \/ Abort \/ \E c \in Commands : Send(c) \/ Succeed(c)

Spec == Init /\ [][Next]_vars
=============================================================================
