---------------------------- MODULE MCReadClients ----------------------------
(***************************************************************************)
(* Instances of ReadClients for TLC: two requests, one reported on twice   *)
(* by a service, with and without a source, the second time with an        *)
(* account; retention of one day.                                          *)
(***************************************************************************)
EXTENDS MCMessageHandler, ReadClients

\* The clock shows day 2; a message of day 0 comes late, one of day 3 early.
ReadDays == {0, 2, 3}

Reports == {Said(r1, "",  "", "ok", "svc", "",    2, 0),
            Said(r1, "b", "", "ok", "svc", "src", 3, 0),
            Said(r2, "a", "", "ok", "svc", "src", 0, 0)}

MCCollation == [v \in MCValues \cup MCNames |->
    CASE v = "" -> 0 [] v = "OK" -> 1 [] v = "a" -> 2
      [] v = "b" -> 3 [] v = "ok" -> 4 [] v = "src" -> 5 [] OTHER -> 6]

\* All payloads tie in org_id.
MCWalks == {[sortBy |-> by, sortDir |-> "asc", pageSize |-> 1] : by \in {"created_at", "account"}}
           \cup {[sortBy |-> "org_id", sortDir |-> "desc", pageSize |-> 2]}

=============================================================================
