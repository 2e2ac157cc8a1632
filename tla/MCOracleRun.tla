----------------------------- MODULE MCOracleRun -----------------------------
(* A route with two waits around a sync-log, and a PRESENT count. *)
EXTENDS OracleRun

MCRoute == << [op |-> "wait", arg |-> "ready"], [op |-> "sleep", arg |-> 2],
              [op |-> "sync", arg |-> ""], [op |-> "wait", arg |-> "ready"],
              [op |-> "present", arg |-> 1], [op |-> "capture", arg |-> "hud"] >>
=============================================================================
