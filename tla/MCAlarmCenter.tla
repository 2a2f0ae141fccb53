--------------------------- MODULE MCAlarmCenter ---------------------------
(* Two SOE events of one fingerprint, delivered newest first and the first  *)
(* of them twice; or a poison message in one topic and a failed task in the *)
(* other.                                                                   *)
EXTENDS AlarmCenter

MCFingerprintOf == [e \in Events |-> CASE e \in {"bad1", "bad2"} -> "bad"
                                       [] OTHER -> e]
MCOccurredAt == [e \in Events |-> CASE e = "bad1" -> 1 [] e = "bad2" -> 2
                                    [] OTHER -> 1]
MCLogs == {[soe |-> <<"bad2", "bad1", "bad2">>, dispatch |-> <<>>],
           [soe |-> <<"poison">>, dispatch |-> <<"task1">>]}
=============================================================================
