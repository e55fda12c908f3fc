--------------------------- MODULE MCMessageHandler ---------------------------
(***************************************************************************)
(* Instances of MessageHandler for TLC.                                    *)
(***************************************************************************)
EXTENDS StatusLogRefinement, TLC

CONSTANTS c1, c2, r1, r2, NoValue

MCRequests == {r1, r2}
MCColumns  == {"account", "org_id"}
MCValues   == {"", "a", "b"}
MCNames    == {"", "OK", "ok", "svc", "src"}
MCDays     == {1, 2}
OneDay     == {1}

MCLower  == [n \in MCNames |-> IF n = "OK" THEN "ok" ELSE n]
MCLength == [r \in MCRequests |-> IF r = r1 THEN 32 ELSE 5]

Said(r, account, org, status, service, source, day, id) ==
    [request   |-> r,
     columns   |-> [account |-> account, org_id |-> org],
     names     |-> [status |-> status, service |-> service, source |-> source],
     date      |-> day,
     payloadId |-> id]

\* Two services report on one request, one of them with a source and in
\* capitals, and each knows a column the other does not.
First  == Said(r1, "a", "", "OK", "svc", "",    1, 0)
Second == Said(r1, "", "b", "ok", "svc", "src", 1, 0)
\* Another request on the next day; an id too short for the length check.
Other  == Said(r2, "b", "", "ok", "svc", "",    2, 0)
\* Another request on the same day; its id fails the length check too.
Short  == Said(r2, "b", "", "ok", "svc", "",    1, 0)
\* A message that names the payload's id.
Chosen == Said(r2, "", "",  "ok", "svc", "",    1, 1)

OneRequest  == {First, Second, Short}
TwoRequests == {First, Other}
WithChosen  == {First, Second, Chosen}

ConsumerSymmetry == Permutations(Consumers)

=============================================================================
