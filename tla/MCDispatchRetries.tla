------------------------- MODULE MCDispatchRetries -------------------------
(* Two parallel commands, each to be retried at most once.                  *)
EXTENDS DispatchRetries

MCPairCommands == 1..2
MCPairActionOf == <<1, 1>>
MCPairPolicy == <<"parallel">>
MCPairRetries == <<1, 1>>
=============================================================================
