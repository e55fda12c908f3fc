---------------------------- MODULE MessageHandler ----------------------------
(***************************************************************************)
(* handler.onMessage of internal/kafka/handler.go, run by several consumer *)
(* processes that share one database.  Every statement is a transaction of *)
(* its own, so the handlers interleave between statements: one action per  *)
(* statement, with the local steps that follow it.                         *)
(*                                                                         *)
(* Any statement may fail, before it reaches the database, after it was    *)
(* applied (the acknowledgement of the commit is lost), or in between; a   *)
(* consumer may be killed at any step.  MaxFaults and MaxCrashes bound     *)
(* how often.                                                              *)
(***************************************************************************)
EXTENDS TrackerTables, Sequences

CONSTANTS
    Consumers,                \* the consumer processes
    Garbage,                  \* a message that is not a JSON status message
    Messages,                 \* the other messages Kafka may hand over
    Lower,                    \* strings.ToLower on names
    Length,                   \* len() of a request id
    ValidateRequestIDLength,  \* cfg.RequestConfig, 0 turns the check off
    DBRetries,                \* cfg.DatabaseConfig.DBRetries
    UseCache,                 \* ConsumerPayloadFieldsRepoImpl = "db_with_cache"
    MaxDeliveries,            \* bound: messages handed to onMessage
    MaxFaults,                \* bound: statements that fail
    MaxCrashes                \* bound: consumers killed

ASSUME MessagesAssumption == Messages \subseteq Message /\ Garbage \notin Message
ASSUME LowerAssumption ==
    /\ Lower \in [Names -> Names]
    /\ \A n \in Names : Lower[n] = Blank <=> n = Blank
ASSUME ConfigAssumption ==
    /\ Length \in [Requests -> Nat]
    /\ ValidateRequestIDLength \in Nat
    /\ DBRetries \in Nat
    /\ UseCache \in BOOLEAN
ASSUME BoundsAssumption ==
    MaxDeliveries \in Nat /\ MaxFaults \in Nat /\ MaxCrashes \in Nat

VARIABLES
    task,       \* what each consumer's onMessage call is doing
    cache,      \* each consumer's LRU caches: kind -> name -> id, NoId if absent
    \* History: no action's guard reads these, but for the bounds.
    delivered,  \* every message handed to onMessage, and to which consumer
    counted,    \* per delivery, how often it moved each exported counter
    races,      \* the lookup rows a consumer tried to create too late
    killed,     \* the deliveries that were in flight when a consumer was killed
    faults,     \* the statements that failed so far
    crashes     \* the consumers killed so far

local   == <<task, cache>>
history == <<delivered, counted, races, killed, faults, crashes>>
vars    == <<tables, local, history>>

Deliveries == 1..MaxDeliveries
Counters   == {"invalid", "processed", "errors"}
Steps      == {"idle", "upsert", "get", "create", "insert"}

NoRefs == [k \in Kinds |-> NoId]

Task == [pc : Steps, kind : Kinds, msg : Message \cup {Garbage}, delivery : Nat,
         payload : Nat, refs : [Kinds -> Nat], statusId : Nat, attempts : Nat]

Idle == [pc |-> "idle", kind |-> "status", msg |-> Garbage, delivery |-> 0,
         payload |-> NoId, refs |-> NoRefs, statusId |-> NoId, attempts |-> 0]

EmptyCache == [k \in Kinds |-> [n \in Names |-> NoId]]

TypeOK ==
    /\ TablesTypeOK
    /\ task \in [Consumers -> Task]
    /\ cache \in [Consumers -> [Kinds -> [Names -> Nat]]]
    /\ delivered \in Seq([msg : Messages \cup {Garbage}, by : Consumers])
    /\ Len(delivered) <= MaxDeliveries
    /\ counted \in [Counters -> [Deliveries -> Nat]]
    /\ races \subseteq [by : Consumers, kind : Kinds, name : Names, delivery : Deliveries]
    /\ killed \subseteq Deliveries
    /\ faults \in 0..MaxFaults
    /\ crashes \in 0..MaxCrashes

Init ==
    /\ TablesInit
    /\ partitions \in SUBSET Days
    /\ task = [c \in Consumers |-> Idle]
    /\ cache = [c \in Consumers |-> EmptyCache]
    /\ delivered = << >>
    /\ counted = [x \in Counters |-> [d \in Deliveries |-> 0]]
    /\ races = {}
    /\ killed = {}
    /\ faults = 0
    /\ crashes = 0

-----------------------------------------------------------------------------
(***************************************************************************)
(* The local steps of onMessage.                                           *)
(***************************************************************************)
validateRequestID(r) ==
    ValidateRequestIDLength # 0 => Length[r] = ValidateRequestIDLength

\* Mutant: names keep their capitals.
sanitizePayload_AsIs(m) == m

sanitizePayload(m) == [m EXCEPT !.names = [k \in Kinds |-> Lower[m.names[k]]]]

Accepted(m) == m # Garbage /\ validateRequestID(m.request)

Count(x, d) == counted' = [counted EXCEPT ![x][d] = @ + 1]

\* Where a call goes: the step it takes next and the lookup it is about.
At(t, pc, kind) == [t EXCEPT !.pc = pc, !.kind = kind]

\* Status and service are both looked up before either is created.
AfterStatusAndService(t) ==
    IF t.refs["status"] = NoId THEN At(t, "create", "status")
    ELSE IF t.refs["service"] = NoId THEN At(t, "create", "service")
    ELSE IF t.msg.names["source"] # Blank /\ t.refs["source"] = NoId
         THEN At(t, "get", "source")
    ELSE At(t, "insert", "source")

AfterGet(t) ==
    IF t.kind = "status" THEN At(t, "get", "service")
    ELSE IF t.kind = "service" THEN AfterStatusAndService(t)
    ELSE IF t.refs["source"] = NoId THEN At(t, "create", "source")
    ELSE At(t, "insert", "source")

AfterCreate(t) == AfterStatusAndService(t)

\* IncMessagesProcessed runs before the first insert is attempted.
\* Mutant: every statement counts the message as processed.
Advance_CountsAlways(c, t) ==
    task' = [task EXCEPT ![c] = t] /\ Count("processed", t.delivery)

Advance(c, t) ==
    /\ task' = [task EXCEPT ![c] = t]
    /\ IF t.pc = "insert" THEN Count("processed", t.delivery)
                          ELSE UNCHANGED counted

Finish(c) == task' = [task EXCEPT ![c] = Idle]

Drop(c) == Finish(c) /\ Count("errors", task[c].delivery)

Fault == /\ faults < MaxFaults
         /\ faults' = faults + 1

-----------------------------------------------------------------------------
(***************************************************************************)
(* Unmarshalling, validateRequestID and sanitizePayload, before the first  *)
(* statement.  Kafka may hand over any message, one it handed over before  *)
(* included.                                                               *)
(***************************************************************************)
Handed(c, m) ==
    /\ task[c].pc = "idle"
    /\ Len(delivered) < MaxDeliveries
    /\ delivered' = Append(delivered, [msg |-> m, by |-> c])

Refuse(c, m) ==
    /\ Handed(c, m)
    /\ ~Accepted(m)
    /\ Count("invalid", Len(delivered) + 1)
    /\ UNCHANGED <<tables, local, races, killed, faults, crashes>>

Accept(c, m) ==
    /\ Handed(c, m)
    /\ Accepted(m)
    /\ task' = [task EXCEPT ![c] =
                  [Idle EXCEPT !.pc = "upsert", !.msg = sanitizePayload(m),
                               !.delivery = Len(delivered) + 1]]
    /\ UNCHANGED <<tables, cache, counted, races, killed, faults, crashes>>

(***************************************************************************)
(* UpsertPayloadByRequestId.  An error ends the call: the message is not   *)
(* tried again.                                                            *)
(***************************************************************************)
OtherThanPayloads == <<lookups, lookupSeq, statuses, statusSeq, partitions>>

Upsert(c) ==
    LET m == task[c].msg IN
    /\ task[c].pc = "upsert"
    /\ TakePayloadId(m)
    /\ IF UpsertRejected(m)
       THEN Drop(c) /\ UNCHANGED payloads
       ELSE /\ UpsertPayloadByRequestId(m)
            /\ Advance(c, [At(task[c], "get", "status")
                             EXCEPT !.payload = UpsertedId(m)])
    /\ UNCHANGED <<OtherThanPayloads, cache, delivered, races, killed, faults, crashes>>

UpsertFault(c) ==
    LET m == task[c].msg IN
    /\ task[c].pc = "upsert"
    /\ Fault
    /\ Drop(c)
    /\ \/ UNCHANGED <<payloads, payloadSeq>>
       \/ TakePayloadId(m) /\ UNCHANGED payloads
       \/ TakePayloadId(m) /\ ~UpsertRejected(m) /\ UpsertPayloadByRequestId(m)
    /\ UNCHANGED <<OtherThanPayloads, cache, delivered, races, killed, crashes>>

(***************************************************************************)
(* GetStatus, GetService and GetSource.  A found row enters the cache; a   *)
(* missing one does not, nor does the row that is then created.            *)
(***************************************************************************)
Cached(c) == LET t == task[c] IN
    IF UseCache THEN cache[c][t.kind][t.msg.names[t.kind]] ELSE NoId

Got(c, id) == Advance(c, AfterGet([task[c] EXCEPT !.refs[task[c].kind] = id]))

\* Mutant: into the cache of statuses, whatever was looked up.
Remember_WrongCache(c, id) ==
    cache' = [cache EXCEPT ![c]["status"][task[c].msg.names[task[c].kind]] = id]

Remember(c, id) == LET t == task[c] IN
    cache' = IF UseCache
             THEN [cache EXCEPT ![c][t.kind][t.msg.names[t.kind]] = id]
             ELSE cache

Get(c) ==
    LET t == task[c] IN
    /\ t.pc = "get"
    /\ IF Cached(c) # NoId
       THEN Got(c, Cached(c)) /\ UNCHANGED cache
       ELSE LET id == GetFromDB(t.kind, t.msg.names[t.kind])
            IN  Got(c, id) /\ Remember(c, id)
    /\ UNCHANGED <<tables, delivered, races, killed, faults, crashes>>

\* The error of the SELECT is not looked at: it reads as a missing row.
GetFault(c) ==
    /\ task[c].pc = "get"
    /\ Cached(c) = NoId
    /\ Fault
    /\ Got(c, NoId)
    /\ UNCHANGED <<tables, cache, delivered, races, killed, crashes>>

(***************************************************************************)
(* CreateStatusTableEntry, CreateServiceTableEntry and                     *)
(* CreateSourceTableEntry.  When another consumer created the name since   *)
(* Get, the unique constraint rejects the row and the message is dropped.  *)
(***************************************************************************)
OtherThanLookups == <<payloads, payloadSeq, statuses, statusSeq, partitions>>

Create(c) ==
    LET t == task[c]
        n == t.msg.names[t.kind] IN
    /\ t.pc = "create"
    /\ TakeEntryId(t.kind)
    /\ IF EntryRejected(t.kind, n)
       THEN /\ Drop(c)
            /\ races' = races \cup
                 {[by |-> c, kind |-> t.kind, name |-> n, delivery |-> t.delivery]}
            /\ UNCHANGED lookups
       ELSE /\ CreateTableEntry(t.kind, n)
            /\ Advance(c, AfterCreate([t EXCEPT !.refs[t.kind] = EntryId(t.kind)]))
            /\ UNCHANGED races
    /\ UNCHANGED <<OtherThanLookups, cache, delivered, killed, faults, crashes>>

CreateFault(c) ==
    LET t == task[c]
        n == t.msg.names[t.kind] IN
    /\ t.pc = "create"
    /\ Fault
    /\ Drop(c)
    /\ \/ UNCHANGED <<lookups, lookupSeq>>
       \/ TakeEntryId(t.kind) /\ UNCHANGED lookups
       \/ TakeEntryId(t.kind) /\ ~EntryRejected(t.kind, n) /\ CreateTableEntry(t.kind, n)
    /\ UNCHANGED <<OtherThanLookups, cache, delivered, races, killed, crashes>>

(***************************************************************************)
(* The retry loop around InsertPayloadStatus.  All attempts use the same   *)
(* struct: once RETURNING has set its ID, later attempts insert that id.   *)
(***************************************************************************)
OtherThanStatuses == <<payloads, payloadSeq, lookups, lookupSeq, partitions>>

Inserting(c) == task[c].pc = "insert" /\ task[c].attempts < DBRetries

\* Mutant: source_id is always omitted.
StatusOf_NoSource(t) ==
    [payload |-> t.payload, refs |-> [t.refs EXCEPT !["source"] = NoId],
     date |-> t.msg.date, delivery |-> t.delivery]

StatusOf(t) == [payload |-> t.payload, refs |-> t.refs, date |-> t.msg.date,
                delivery |-> t.delivery]

\* Mutant: every attempt takes a new id.
InsertId_Fresh(t) == statusSeq + 1

InsertId(t) == IF t.statusId = NoId THEN statusSeq + 1 ELSE t.statusId

TakeStatusId(t) ==
    statusSeq' = IF t.statusId = NoId THEN statusSeq + 1 ELSE statusSeq

Retry(c, id) ==
    task' = [task EXCEPT ![c].attempts = @ + 1, ![c].statusId = id]

Insert(c) ==
    LET t == task[c] IN
    /\ Inserting(c)
    /\ TakeStatusId(t)
    /\ IF InsertRejected(InsertId(t), StatusOf(t))
       THEN Retry(c, t.statusId) /\ UNCHANGED statuses
       ELSE InsertPayloadStatus(InsertId(t), StatusOf(t)) /\ Finish(c)
    /\ UNCHANGED <<OtherThanStatuses, cache, delivered, counted, races, killed,
                   faults, crashes>>

(***************************************************************************)
(* A failed attempt: it did not reach the database, or failed in it before *)
(* an id was returned, or its commit failed, or its commit was applied and *)
(* only the acknowledgement was lost.                                      *)
(***************************************************************************)
InsertFault(c) ==
    LET t == task[c] IN
    /\ Inserting(c)
    /\ Fault
    /\ \/ Retry(c, t.statusId) /\ UNCHANGED <<statuses, statusSeq>>
       \/ Retry(c, t.statusId) /\ TakeStatusId(t) /\ UNCHANGED statuses
       \/ /\ ~InsertRejected(InsertId(t), StatusOf(t))
          /\ Retry(c, InsertId(t))
          /\ TakeStatusId(t)
          /\ \/ UNCHANGED statuses
             \/ InsertPayloadStatus(InsertId(t), StatusOf(t))
    /\ UNCHANGED <<OtherThanStatuses, cache, delivered, counted, races, killed,
                   crashes>>

\* Mutants: the loop is left without counting; it is left too late.
GiveUp_Silent(c) ==
    /\ task[c].pc = "insert" /\ task[c].attempts >= DBRetries
    /\ Finish(c)
    /\ UNCHANGED <<tables, cache, counted, delivered, races, killed, faults, crashes>>
GiveUp_OffByOne(c) ==
    /\ task[c].pc = "insert" /\ task[c].attempts > DBRetries
    /\ Drop(c)
    /\ UNCHANGED <<tables, cache, delivered, races, killed, faults, crashes>>

GiveUp(c) ==
    /\ task[c].pc = "insert"
    /\ task[c].attempts >= DBRetries
    /\ IF DBRetries > 0 THEN Drop(c) ELSE Finish(c) /\ UNCHANGED counted
    /\ UNCHANGED <<tables, cache, delivered, races, killed, faults, crashes>>

(***************************************************************************)
(* A cache entry outlives its 12 hours; a consumer is killed and starts    *)
(* again with empty caches.                                                *)
(***************************************************************************)
Expire(c, k, n) ==
    /\ cache[c][k][n] # NoId
    /\ cache' = [cache EXCEPT ![c][k][n] = NoId]
    /\ UNCHANGED <<tables, task, history>>

Crash(c) ==
    /\ crashes < MaxCrashes
    /\ crashes' = crashes + 1
    /\ killed' = killed \cup ({task[c].delivery} \ {0})
    /\ Finish(c)
    /\ cache' = [cache EXCEPT ![c] = EmptyCache]
    /\ UNCHANGED <<tables, delivered, counted, races, faults>>

-----------------------------------------------------------------------------
\* The steps of one call that a running process is certain to take.
Work(c) == \/ Upsert(c) \/ UpsertFault(c)
           \/ Get(c)    \/ GetFault(c)
           \/ Create(c) \/ CreateFault(c)
           \/ Insert(c) \/ InsertFault(c)
           \/ GiveUp(c)

Receive(c) == \E m \in Messages \cup {Garbage} : Refuse(c, m) \/ Accept(c, m)

Forget(c) == \E k \in Kinds, n \in Names : Expire(c, k, n)

Next == \E c \in Consumers : Receive(c) \/ Work(c) \/ Forget(c) \/ Crash(c)

Spec == Init /\ [][Next]_vars

\* onMessage never waits: a process that runs takes its next step.
FairSpec == Spec /\ \A c \in Consumers : WF_vars(Work(c))

-----------------------------------------------------------------------------
(***************************************************************************)
(* What the handler is relied on for.                                      *)
(***************************************************************************)
Known == 1..Len(delivered)

Stored(d) == \E id \in DOMAIN statuses : statuses[id].delivery = d

\* The call for delivery d came to its own end.
Finished(d) == /\ d \notin killed
               /\ \A c \in Consumers : task[c].delivery # d

\* No message that was accepted so far named the id of its payload.
NoChosenIds ==
    \A e \in Known : Accepted(delivered[e].msg) => delivered[e].msg.payloadId = NoId

\* Reference ref of lookup table k stands for the name n of a message.
StandsFor(k, ref, n) ==
    IF k = "source" /\ n = Blank
    THEN ref = NoId
    ELSE ref \in DOMAIN lookups[k] /\ lookups[k][ref] = Lower[n]

\* What delivery d asks to be recorded, as the row says it.
RowMatches(row, m) ==
    /\ row.date = m.date
    /\ row.payload \in DOMAIN payloads
    /\ payloads[row.payload].request = m.request
    /\ \A k \in Kinds : StandsFor(k, row.refs[k], m.names[k])

(***************************************************************************)
(* Every stored status, read through its references, says what the message *)
(* that caused it said: the request, the lower-cased status, service and   *)
(* source, no source exactly when the message has none, and the date.  It  *)
(* was an acceptable message.  This is what handler.go:57-122 assembles    *)
(* over up to seven statements, with ids from a cache that may be old.     *)
(***************************************************************************)
StatusResolves ==
    \A id \in DOMAIN statuses :
        /\ statuses[id].delivery \in Known
        /\ Accepted(delivered[statuses[id].delivery].msg)
        /\ RowMatches(statuses[id], delivered[statuses[id].delivery].msg)

(***************************************************************************)
(* The retry loop of handler.go:128-138 never stores one delivery twice,   *)
(* though an attempt that was applied may be reported as failed.           *)
(***************************************************************************)
OneRowPerDelivery ==
    \A i, j \in DOMAIN statuses :
        statuses[i].delivery = statuses[j].delivery => i = j

(***************************************************************************)
(* All the statuses of one request hang on one payload row, whichever      *)
(* consumers wrote them (the conflict clause of queries_consumer.go:166),  *)
(* so that GET /payloads/{request_id} shows them together.                 *)
(***************************************************************************)
OnePayloadPerRequest ==
    \A i, j \in DOMAIN statuses :
        delivered[statuses[i].delivery].msg.request
            = delivered[statuses[j].delivery].msg.request
        => statuses[i].payload = statuses[j].payload

(***************************************************************************)
(* What a consumer's caches hold is what the tables hold: an entry names a *)
(* row of the right table with that very name (queries_consumer.go:57-100, *)
(* three nearly identical copies over three caches).                       *)
(***************************************************************************)
CacheCoherent ==
    \A c \in Consumers, k \in Kinds, n \in Names :
        cache[c][k][n] # NoId =>
            /\ cache[c][k][n] \in DOMAIN lookups[k]
            /\ lookups[k][cache[c][k][n]] = n

(***************************************************************************)
(* With retries configured no message disappears without a trace: a call   *)
(* that came to its end stored the status, or counted the message as       *)
(* invalid, or counted an error.                                           *)
(***************************************************************************)
NoSilentLoss ==
    DBRetries > 0 =>
        \A d \in Known : Finished(d) =>
            \/ Stored(d)
            \/ counted["invalid"][d] > 0
            \/ counted["errors"][d] > 0

(***************************************************************************)
(* The exported counters count messages: each at most once, an invalid one *)
(* in no other counter and never stored, and whatever was stored was       *)
(* counted as processed.                                                   *)
(***************************************************************************)
CountersAgree ==
    \A d \in Known :
        /\ \A x \in Counters : counted[x][d] <= 1
        /\ counted["invalid"][d] > 0 =>
               /\ counted["processed"][d] = 0
               /\ counted["errors"][d] = 0
               /\ ~Stored(d)
        /\ Stored(d) => counted["processed"][d] = 1

(***************************************************************************)
(* A payload's optional columns hold only what messages of its own request *)
(* said, whatever the order in which upserts of several consumers ran.     *)
(***************************************************************************)
ColumnsFromMessages ==
    \A id \in DOMAIN payloads, x \in Columns :
        \E d \in Known : LET m == delivered[d].msg IN
            /\ Accepted(m)
            /\ m.request = payloads[id].request
            /\ m.columns[x] = payloads[id].columns[x]

(***************************************************************************)
(* A step never takes a payload away, never changes its request or its     *)
(* created_at, and never blanks a column it had (the column list that      *)
(* UpsertPayloadByRequestId builds at queries_consumer.go:151-164).        *)
(***************************************************************************)
ColumnsNeverErased ==
    [][\A id \in DOMAIN payloads :
        /\ id \in DOMAIN payloads'
        /\ payloads'[id].request = payloads[id].request
        /\ payloads'[id].created = payloads[id].created
        /\ \A x \in Columns : payloads'[id].columns[x] = Blank
                              => payloads[id].columns[x] = Blank]_vars

(***************************************************************************)
(* Losing the race to create a name costs a consumer one message: while    *)
(* statements do not fail, its next message with that name finds the row.  *)
(***************************************************************************)
RaceLostOnce ==
    faults = 0 =>
        \A r, s \in races :
            r.by = s.by /\ r.kind = s.kind /\ r.name = s.name => r = s

(***************************************************************************)
(* While statements do not fail, a message ends in the error counter only  *)
(* because another consumer created one of its names first, because its    *)
(* day has no partition, or because some message chose its payload's id.   *)
(***************************************************************************)
DropsExplained ==
    faults = 0 =>
        \A d \in Known : counted["errors"][d] > 0 =>
            \/ \E r \in races : r.delivery = d
            \/ delivered[d].msg.date \notin partitions
            \/ ~NoChosenIds

(***************************************************************************)
(* "On valid payload status message / Creates the required DB entries"     *)
(* (internal/kafka/handler_test.go:72-73), which the test reads back by    *)
(* the request id: once every consumer is idle, the request of an accepted *)
(* message whose day has a partition has a status that says what the       *)
(* message said, unless its call was killed or some statement failed.      *)
(***************************************************************************)
AllIdle == \A c \in Consumers : task[c].pc = "idle"

ValidMessageStored ==
    faults = 0 /\ AllIdle =>
        \A d \in Known :
            /\ Finished(d)
            /\ Accepted(delivered[d].msg)
            /\ delivered[d].msg.date \in partitions
            => \E id \in DOMAIN statuses : RowMatches(statuses[id], delivered[d].msg)

(***************************************************************************)
(* Every call ends: the insert loop of handler.go:128-138 gives up after   *)
(* DBRetries attempts, whatever the database answers.                      *)
(***************************************************************************)
CallEnds == \A c \in Consumers : task[c].pc # "idle" ~> task[c].pc = "idle"

=============================================================================
