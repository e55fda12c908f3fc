------------------------------ MODULE ApiRequest ------------------------------
(***************************************************************************)
(* What the API reads of a request before it turns to the database or to   *)
(* storage-broker: internal/endpoints.  A parameter is "" when the request *)
(* does not have it; a number or a timestamp otherwise parses or it does   *)
(* not, and the identity header has got as far as checkForRole follows it. *)
(***************************************************************************)
CONSTANT RequestSet   \* the requests clients may send

Listings   == {"payloads", "details", "statuses"}
Endpoints  == Listings \cup {"archiveLink", "kibanaLink", "roles", "lubdub",
                             "root", "health", "archive"}
Parsed     == {"", "parses", "malformed"}
Identities == {"missing", "not base64", "not JSON", "no role", "role"}

ASSUME RequestAssumption ==
    RequestSet \subseteq [endpoint : Endpoints, sort_by : STRING, sort_dir : STRING,
                          page : Parsed, page_size : Parsed,
                          created_at : Parsed, date : Parsed,
                          identity : Identities, uuid : BOOLEAN]

validAllSortBy      == {"account", "org_id", "inventory_id", "system_id", "created_at"}
validIDSortBy       == {"service", "source", "status_msg", "date", "created_at"}
validStatusesSortBy == {"service", "source", "request_id", "status", "status_msg",
                        "date", "created_at"}
validSortDir        == {"asc", "desc"}

SortColumns(endpoint) == CASE endpoint = "payloads" -> validAllSortBy
                           [] endpoint = "details"  -> validIDSortBy
                           [] OTHER                 -> validStatusesSortBy

(***************************************************************************)
(* initQuery takes any sort column and direction that is given; of page    *)
(* and page_size, both read into one err, the last one given decides.      *)
(***************************************************************************)
\* Mutant: an absent number is parsed as well.
initQuery_err_Absent(r) == r.page # "parses" \/ r.page_size # "parses"

initQuery_err(r) == IF r.page_size # "" THEN r.page_size = "malformed"
                                        ELSE r.page = "malformed"

\* /payloads has a default sort column of its own.
SortBy(r)  == IF r.sort_by # "" THEN r.sort_by
              ELSE IF r.endpoint = "payloads" THEN "created_at" ELSE "date"
SortDir(r) == IF r.sort_dir # "" THEN r.sort_dir ELSE "desc"

validTimestamps(r, all) == r.created_at # "malformed" /\ (all => r.date # "malformed")

\* Payloads, RequestIdPayloads and Statuses, up to their queries.
Refused(r) ==
    \/ initQuery_err(r)
    \/ SortBy(r) \notin SortColumns(r.endpoint)
    \/ SortDir(r) \notin validSortDir
    \/ r.endpoint # "details" /\ ~validTimestamps(r, r.endpoint = "statuses")

\* The status code, and the security event that goes with a refusal.
checkForRole(r) == CASE r.identity = "role"    -> [code |-> 200, event |-> "none"]
                     [] r.identity = "no role" -> [code |-> 403, event |-> "AUTHZ_FAILURE"]
                     [] OTHER                  -> [code |-> 401, event |-> "AUTH_FAILURE"]

=============================================================================
