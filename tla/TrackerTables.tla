---------------------------- MODULE TrackerTables ----------------------------
(***************************************************************************)
(* The PostgreSQL tables the consumers write, as                           *)
(* migrations/000001_create_payload_tracker_tables.up.sql creates them,    *)
(* and the statements of internal/queries/queries_consumer.go as           *)
(* operators on them.                                                      *)
(*                                                                         *)
(* A table is a function from the ids of its rows to the rows.  A sequence *)
(* is the last value it handed out: PostgreSQL takes a value for every     *)
(* attempt to insert a row without an id and never gives it back, so a     *)
(* failed insert burns one.                                                *)
(***************************************************************************)
EXTENDS Naturals, FiniteSets

CONSTANTS
    Requests,   \* the request ids that messages carry
    Columns,    \* the optional columns of a payload (account, org_id, ...)
    Values,     \* the values of those columns
    Names,      \* the names of statuses, services and sources
    Blank,      \* the empty string, as a column value and as a name
    Days        \* the days that payload_statuses is partitioned by

NoId  == 0
Kinds == {"status", "service", "source"}

Message == [request   : Requests,
            columns   : [Columns -> Values],
            names     : [Kinds -> Names],
            date      : Days,
            payloadId : Nat]

ASSUME BlankAssumption == Blank \in Values /\ Blank \in Names

VARIABLES
    payloads,    \* payloads: id -> request_id, optional columns, created_at
    payloadSeq,  \* payloads_id_seq
    lookups,     \* statuses, services and sources: kind -> id -> name
    lookupSeq,   \* the sequence of each lookup table
    statuses,    \* payload_statuses: id -> payload_id, references, date
    statusSeq,   \* payload_statuses_id_seq
    partitions   \* the days payload_statuses has a partition for

tables == <<payloads, payloadSeq, lookups, lookupSeq,
            statuses, statusSeq, partitions>>

(***************************************************************************)
(* A status row also carries the number of the delivery that wrote it: a   *)
(* history field, read by no statement.                                    *)
(***************************************************************************)
PayloadRow == [request : Requests, columns : [Columns -> Values], created : Days]
StatusRow  == [payload : Nat, refs : [Kinds -> Nat], date : Days, delivery : Nat]

IsTable(f, Rows) == /\ DOMAIN f \subseteq Nat \ {NoId}
                    /\ f \in [DOMAIN f -> Rows]

TablesTypeOK ==
    /\ IsTable(payloads, PayloadRow)
    /\ payloadSeq \in Nat
    /\ lookups = [k \in Kinds |-> lookups[k]]
    /\ \A k \in Kinds : IsTable(lookups[k], Names)
    /\ lookupSeq \in [Kinds -> Nat]
    /\ IsTable(statuses, StatusRow)
    /\ statusSeq \in Nat
    /\ partitions \subseteq Days

NoRows == [id \in {} |-> {}]

TablesInit ==
    /\ payloads = NoRows
    /\ payloadSeq = 0
    /\ lookups = [k \in Kinds |-> NoRows]
    /\ lookupSeq = [k \in Kinds |-> 0]
    /\ statuses = NoRows
    /\ statusSeq = 0

\* The table with one row more, or with one row replaced.
WithRow(table, id, row) ==
    [i \in DOMAIN table \cup {id} |-> IF i = id THEN row ELSE table[i]]

-----------------------------------------------------------------------------
(***************************************************************************)
(* UpsertPayloadByRequestId: INSERT ... ON CONFLICT (request_id) DO UPDATE *)
(* of the columns the message has a value for; created_at keeps the value  *)
(* of the first message.  The id is the message's own PayloadID when it    *)
(* has one, else the next of the sequence, and the statement returns the   *)
(* id of the row it inserted or updated.                                   *)
(***************************************************************************)
\* Mutants: no ON CONFLICT clause; a conflict with any row.
RowsOfRequest_None(r) == {}
RowsOfRequest_Any(r)  == DOMAIN payloads

RowsOfRequest(r) == {id \in DOMAIN payloads : payloads[id].request = r}

ProposedId(m) == IF m.payloadId = NoId THEN payloadSeq + 1 ELSE m.payloadId

UpsertedId(m) == IF RowsOfRequest(m.request) = {}
                 THEN ProposedId(m)
                 ELSE CHOOSE id \in RowsOfRequest(m.request) : TRUE

\* Mutant: every column is updated, the absent ones too.
Merge_AllColumns(old, new) == new

Merge(old, new) == [x \in Columns |-> IF new[x] = Blank THEN old[x] ELSE new[x]]

UpsertedRow(m) ==
    IF RowsOfRequest(m.request) = {}
    THEN [request |-> m.request, columns |-> m.columns, created |-> m.date]
    ELSE [payloads[UpsertedId(m)] EXCEPT !.columns = Merge(@, m.columns)]

\* Mutant: a second message of a request is a conflict, not an update.
UpsertRejected_OnUpdate(m) == \/ RowsOfRequest(m.request) # {}
                              \/ ProposedId(m) \in DOMAIN payloads

\* ON CONFLICT names request_id only: a taken primary key is an error.
UpsertRejected(m) == /\ RowsOfRequest(m.request) = {}
                     /\ ProposedId(m) \in DOMAIN payloads

TakePayloadId(m) ==
    payloadSeq' = IF m.payloadId = NoId THEN payloadSeq + 1 ELSE payloadSeq

UpsertPayloadByRequestId(m) ==
    payloads' = WithRow(payloads, UpsertedId(m), UpsertedRow(m))

-----------------------------------------------------------------------------
(***************************************************************************)
(* PayloadFieldsRepositoryFromDB.GetStatus, GetService and GetSource, and  *)
(* CreateStatusTableEntry, CreateServiceTableEntry and                     *)
(* CreateSourceTableEntry.  Names are unique in each of the three tables.  *)
(***************************************************************************)
RowsNamed(k, n) == {id \in DOMAIN lookups[k] : lookups[k][id] = n}

\* Mutant: the SELECT never finds a row.
GetFromDB_Nothing(k, n) == NoId

GetFromDB(k, n) == IF RowsNamed(k, n) = {} THEN NoId
                   ELSE CHOOSE id \in RowsNamed(k, n) : TRUE

\* Mutant: the value the sequence handed out last.
EntryId_Current(k) == lookupSeq[k]

EntryId(k) == lookupSeq[k] + 1

EntryRejected(k, n) == RowsNamed(k, n) # {} \/ EntryId(k) \in DOMAIN lookups[k]

TakeEntryId(k) == lookupSeq' = [lookupSeq EXCEPT ![k] = @ + 1]

CreateTableEntry(k, n) ==
    lookups' = [lookups EXCEPT ![k] = WithRow(@, EntryId(k), n)]

-----------------------------------------------------------------------------
(***************************************************************************)
(* InsertPayloadStatus: the row must fall in a partition and its           *)
(* references must resolve; source_id is omitted (null, NoId here) when    *)
(* the message has no source.  gorm first writes the referenced lookup     *)
(* rows ON CONFLICT DO NOTHING: they are there, as no statement deletes    *)
(* one, so that writes nothing.                                            *)
(***************************************************************************)
RefsResolve(refs) ==
    /\ \A k \in Kinds \ {"source"} : refs[k] \in DOMAIN lookups[k]
    /\ refs["source"] \in DOMAIN lookups["source"] \cup {NoId}

InsertRejected(id, row) ==
    \/ id \in DOMAIN statuses
    \/ row.date \notin partitions
    \/ row.payload \notin DOMAIN payloads
    \/ ~RefsResolve(row.refs)

InsertPayloadStatus(id, row) == statuses' = WithRow(statuses, id, row)

=============================================================================
