--------------------------- MODULE MCTrackerSystem ---------------------------
(***************************************************************************)
(* Instances of TrackerSystem for TLC: RETENTION_DAYS 2 and a clock of     *)
(* four days.                                                              *)
(***************************************************************************)
EXTENDS MCMessageHandler, TrackerSystem

SystemDays == 0..4

\* One request, reported on when it arrives and again on the next days.
Reported(day) == Said(r1, "a", "", "ok", "svc", "", day, 0)

Reports  == {Reported(0), Reported(1)}
LongTask == {Reported(0), Reported(2)}

=============================================================================
