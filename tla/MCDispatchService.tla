------------------------- MODULE MCDispatchService -------------------------
(* Four shapes of task: one command, two parallel commands in one action,   *)
(* and two or three actions of one command each.  Every command may be      *)
(* retried once, the least SubmitTask can store (its default replaces 0).   *)
EXTENDS DispatchService

MCSingleCommands == 1..1
MCSingleActionOf == <<1>>
MCSingleRetry == <<1>>

MCPairCommands == 1..2
MCPairActionOf == <<1, 1>>
MCPairPolicy == <<"parallel">>

MCChainActionOf == <<1, 2>>
MCChainPolicy == <<"sequential", "sequential">>

MCOneRetry == <<1, 1>>

MCTripleCommands == 1..3
MCTripleActionOf == <<1, 2, 3>>
MCTriplePolicy == <<"sequential", "sequential", "sequential">>
MCTripleRetry == <<1, 1, 1>>
=============================================================================
