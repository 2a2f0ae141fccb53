--------------------------- MODULE MCDispatchTask ---------------------------
(* A task of three actions: two parallel commands, then a sequential pair,  *)
(* then one command, with different retry budgets.                          *)
EXTENDS DispatchTask

MCCommands == 1..5
MCActionOf == <<1, 1, 2, 2, 3>>
MCPolicy == <<"parallel", "sequential", "sequential">>
MCMaxRetries == <<1, 1, 1, 2, 1>>
=============================================================================
