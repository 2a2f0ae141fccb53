-------------------------- MODULE DispatchRetries --------------------------
(* How often the TimeoutScanner retries a command of DispatchService.  The  *)
(* stored counter cannot tell: a handler that sends the command from a copy *)
(* it loaded before a retry writes the old counter back.                    *)
EXTENDS DispatchService

VARIABLE retried     \* history: the timeout retries of each command

retryVars == <<vars, retried>>

\* OnCommandTimeout has reset the command in the scanner's copy.
HandsOutRetry(c) ==
    /\ at["scanner"] = "idle" /\ at'["scanner"] = "work"
    /\ mem'["scanner"].retries[c] = db.retries[c] + 1

RetryInit == Init /\ retried = [c \in Commands |-> 0]

RetryNext ==
    /\ Next
    /\ retried' = [c \in Commands |-> IF HandsOutRetry(c) THEN retried[c] + 1
                                                          ELSE retried[c]]

RetrySpec == RetryInit /\ [][RetryNext]_retryVars
-----------------------------------------------------------------------------
\* control_command.go: MaxRetries is the "max number of timeout retries" of a
\* command, whoever else has sent it in the meantime.
RetriesWithinLimit == \A c \in Commands : retried[c] <= MaxRetries[c]
=============================================================================
