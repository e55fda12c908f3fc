----------------------------- MODULE ReadQueries -----------------------------
(***************************************************************************)
(* The queries of internal/queries/queries_api.go as operators on the      *)
(* tables.  PostgreSQL returns rows that tie in the sort column in any     *)
(* order, so a query is the set of the answers it may give.                *)
(***************************************************************************)
EXTENDS TrackerTables, Integers, Sequences
Fn   == INSTANCE Functions
Seqs == INSTANCE SequencesExt
Sets == INSTANCE FiniteSetsExt

CONSTANTS
    Collation,   \* the place of each column value and name in the sort order
    IntLimit     \* a Go int is one of -IntLimit .. IntLimit - 1

ASSUME QueryAssumption == /\ Collation \in [Values \cup Names -> Nat]
                          /\ IntLimit \in Nat \ {0}
                          /\ Days \subseteq Nat

Verbosities == {"0", "1", "2"}
Directions  == {"asc", "desc"}

\* The answers of SELECT ... ORDER BY; key has the selected rows for domain
\* and gives what each has in the sort column.
OrderBy(key, dir) ==
    {s \in Fn!Bijection(1..Cardinality(DOMAIN key), DOMAIN key) :
        \A i, j \in DOMAIN s :
            i < j => IF dir = "asc" THEN key[s[i]] <= key[s[j]] ELSE key[s[i]] >= key[s[j]]}

(***************************************************************************)
(* Limit(pageSize).Offset(pageSize * page): the product wraps around, and  *)
(* gorm writes no LIMIT below zero and no OFFSET that is not above it.     *)
(***************************************************************************)
Wrapped(n) == ((n + IntLimit) % (2 * IntLimit)) - IntLimit

\* Mutant: pages are counted from one.
Offset_FromOne(page, pageSize) == Wrapped(pageSize * (page - 1))

Offset(page, pageSize) == Wrapped(pageSize * page)

\* Mutant: one more row than a page holds.
Page_OneMore(s, page, pageSize) ==
    LET skipped == IF Offset(page, pageSize) > 0 THEN Offset(page, pageSize) ELSE 0
        last    == IF skipped + pageSize + 1 > Len(s) THEN Len(s) ELSE skipped + pageSize + 1
    IN  SubSeq(s, skipped + 1, last)

Page(s, page, pageSize) ==
    LET skipped == IF Offset(page, pageSize) > 0 THEN Offset(page, pageSize) ELSE 0
        last    == IF pageSize < 0 \/ skipped + pageSize > Len(s) THEN Len(s)
                   ELSE skipped + pageSize
    IN  SubSeq(s, skipped + 1, last)

(***************************************************************************)
(* A window holds the bounds that a query gives on one of the timestamps,  *)
(* by their operator; all of them have to hold.                            *)
(***************************************************************************)
chainTimeConditions(t, window) ==
    \A op \in DOMAIN window :
        \/ op = "lt"  /\ t <  window[op]
        \/ op = "lte" /\ t <= window[op]
        \/ op = "gt"  /\ t >  window[op]
        \/ op = "gte" /\ t >= window[op]

-----------------------------------------------------------------------------
\* /payloads.  The total of the answer is 0 whatever the tables hold.
PayloadKey(id, by) == IF by = "created_at" THEN payloads[id].created
                      ELSE Collation[payloads[id].columns[by]]

PayloadMatches(id, q) ==
    /\ \A x \in Columns : q.filters[x] \in {Blank, payloads[id].columns[x]}
    /\ chainTimeConditions(payloads[id].created, q.created)

RetrievePayloads(q) ==
    LET key == [id \in {p \in DOMAIN payloads : PayloadMatches(p, q)} |->
                   PayloadKey(id, q.sortBy)]
    IN  {Page(s, q.page, q.pageSize) : s \in OrderBy(key, q.sortDir)}

-----------------------------------------------------------------------------
(***************************************************************************)
(* The statuses that are left when payload_statuses is joined with         *)
(* payloads and with the lookup tables in kinds.  All these joins are by   *)
(* primary key, so a status is found once or not at all.                   *)
(***************************************************************************)
Joined(kinds) ==
    {s \in DOMAIN statuses :
        /\ statuses[s].payload \in DOMAIN payloads
        /\ \A k \in kinds : statuses[s].refs[k] \in DOMAIN lookups[k]}

NameOf(s, k) == IF statuses[s].refs[k] \in DOMAIN lookups[k]
                THEN lookups[k][statuses[s].refs[k]] ELSE Blank

\* The columns that tell statuses apart; any order for the others.
StatusKey(s, by) == IF by = "date" THEN statuses[s].date
                    ELSE IF by \in Kinds THEN Collation[NameOf(s, by)]
                    ELSE 0

\* /statuses: the sources are joined by an inner join.  Of the messages and
\* the creation times of statuses, also filters, the tables here keep nothing.
StatusMatches(s, q) ==
    /\ \A k \in Kinds : q.names[k] \in {Blank, NameOf(s, k)}
    /\ chainTimeConditions(statuses[s].date, q.date)

RetrieveStatuses(q) ==
    LET key == [s \in {t \in Joined(Kinds) : StatusMatches(t, q)} |-> StatusKey(s, q.sortBy)]
    IN  {Page(s, q.page, q.pageSize) : s \in OrderBy(key, q.sortDir)}

(***************************************************************************)
(* /payloads/{request_id}: the sources come by a full outer join, whose    *)
(* rows without a status the WHERE clause drops.                           *)
(*                                                                         *)
(* ORDER BY takes a name for a column of the result first, and then for a  *)
(* column of the joined tables, which must be the only one of that name.   *)
(* A query that fails leaves the result empty: its error is not looked at. *)
(***************************************************************************)
\* Mutant: the sources of the details are joined as those of /statuses are.
DetailRows_InnerJoin(r) ==
    {s \in Joined(Kinds) : payloads[statuses[s].payload].request = r}

DetailRows(r) ==
    {s \in Joined(Kinds \ {"source"}) : payloads[statuses[s].payload].request = r}

defineVerbosity(v) ==
    CASE v = "1" -> {"service", "status", "inventory_id", "date", "status_msg"}
      [] v = "2" -> {"service", "status", "date"}
      [] OTHER   -> {"id", "request_id", "account", "org_id", "system_id", "inventory_id",
                     "status_msg", "date", "created_at", "service", "source", "status"}

JoinedTables == [
    payload_statuses |-> {"id", "payload_id", "service_id", "source_id", "status_id",
                          "status_msg", "date", "created_at"},
    payloads |-> {"id", "request_id", "account", "org_id", "system_id", "inventory_id",
                  "created_at"},
    services |-> {"id", "name"}, sources |-> {"id", "name"}, statuses |-> {"id", "name"}]

SortResolves(by, v) ==
    \/ by \in defineVerbosity(v)
    \/ Cardinality({t \in DOMAIN JoinedTables : by \in JoinedTables[t]}) = 1

Selected(s, v) == [service |-> NameOf(s, "service"),
                   source  |-> IF "source" \in defineVerbosity(v) THEN NameOf(s, "source")
                               ELSE Blank,
                   date    |-> statuses[s].date]

RetrieveRequestIdPayloads(r, by, dir, v) ==
    LET key == [s \in DetailRows(r) |-> StatusKey(s, by)]
    IN  IF ~SortResolves(by, v) THEN {<<>>}
        ELSE {[i \in DOMAIN s |-> Selected(s[i], v)] : s \in OrderBy(key, dir)}

-----------------------------------------------------------------------------
(***************************************************************************)
(* CalculateDurations: per service and source the time from the earliest   *)
(* date to the latest, the sum of these, and the time of the whole list.   *)
(* A service and a source are joined by a colon, of which their names are  *)
(* taken to have none.                                                     *)
(***************************************************************************)
ServiceSource(row) == <<row.service, IF row.source = Blank THEN "undefined" ELSE row.source>>

\* Mutant: the branches in one, so that the earliest date is never moved.
updateMinMax_MaxOnly(t, store) == IF t > store[2] THEN <<store[1], t>> ELSE store

updateMinMax(t, store) == IF t < store[1] THEN <<t, store[2]>>
                          ELSE IF t > store[2] THEN <<store[1], t>>
                          ELSE store

\* One round of the loop: the times of the row's service and source, which are
\* new if there are none, and those of the whole list.
Measure(seen, row) ==
    LET key == ServiceSource(row)
        old == IF key \in DOMAIN seen.times THEN seen.times[key] ELSE <<row.date, row.date>>
    IN  [times |-> WithRow(seen.times, key, updateMinMax(row.date, old)),
         whole |-> updateMinMax(row.date, seen.whole)]

CalculateDurations(rows) ==
    LET none      == [times |-> NoRows, whole |-> <<rows[1].date, rows[1].date>>]
        seen      == Seqs!FoldLeft(Measure, none, rows)
        Span(key) == seen.times[key][2] - seen.times[key][1]
    IN  [services                |-> [key \in DOMAIN seen.times |-> Span(key)],
         total_time_in_services  |-> Sets!MapThenSumSet(Span, DOMAIN seen.times),
         total_time              |-> seen.whole[2] - seen.whole[1]]

=============================================================================
