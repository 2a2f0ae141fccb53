---------------------------- MODULE MCImportJobs ----------------------------
(* Two workers and two clients on one job of two chunks, which may run      *)
(* three times: once more than its attempts, when a stale copy resets them. *)
EXTENDS ImportJobs
=============================================================================
