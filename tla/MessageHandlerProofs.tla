------------------------- MODULE MessageHandlerProofs -------------------------
(***************************************************************************)
(* Proofs about MessageHandler for any number of consumers, any messages,  *)
(* any configuration and any number of deliveries, faults and crashes.     *)
(***************************************************************************)
EXTENDS MessageHandler, SequenceTheorems, TLAPS

-----------------------------------------------------------------------------
(***************************************************************************)
(* Tables.                                                                 *)
(***************************************************************************)

\* Adding or replacing a row leaves a table a table and every other row as
\* it was: what every INSERT and UPDATE of queries_consumer.go does.
LEMMA WithRowTable ==
    ASSUME NEW Rows, NEW table, IsTable(table, Rows),
           NEW id \in Nat \ {NoId}, NEW row \in Rows
    PROVE  /\ IsTable(WithRow(table, id, row), Rows)
           /\ DOMAIN WithRow(table, id, row) = DOMAIN table \cup {id}
           /\ WithRow(table, id, row)[id] = row
           /\ \A i \in DOMAIN table \ {id} : WithRow(table, id, row)[i] = table[i]
BY DEF WithRow, IsTable

\* The record the handler keeps for a call is well formed wherever it goes.
LEMMA IdleIsTask == Idle \in Task
BY DEF Idle, Task, Steps, Kinds, NoRefs, NoId

\* Moving a call to another step changes its pc and kind only.
LEMMA AtIsTask ==
    ASSUME NEW t \in Task, NEW pc \in Steps, NEW kind \in Kinds
    PROVE  /\ At(t, pc, kind) \in Task
           /\ At(t, pc, kind).pc = pc
           /\ At(t, pc, kind).kind = kind
           /\ At(t, pc, kind).msg = t.msg
           /\ At(t, pc, kind).delivery = t.delivery
           /\ At(t, pc, kind).payload = t.payload
           /\ At(t, pc, kind).refs = t.refs
           /\ At(t, pc, kind).statusId = t.statusId
           /\ At(t, pc, kind).attempts = t.attempts
BY DEF At, Task

\* Setting one reference of a call changes nothing else of it.
LEMMA RefIsTask ==
    ASSUME NEW t \in Task, NEW k \in Kinds, NEW id \in Nat
    PROVE  LET u == [t EXCEPT !.refs[k] = id] IN
           /\ u \in Task
           /\ u.pc = t.pc /\ u.kind = t.kind
           /\ u.msg = t.msg
           /\ u.delivery = t.delivery
           /\ u.payload = t.payload
           /\ u.refs = [t.refs EXCEPT ![k] = id]
           /\ u.statusId = t.statusId
           /\ u.attempts = t.attempts
BY DEF Task

\* t and u are the same call at possibly different steps.
SameCall(t, u) ==
    /\ u.msg = t.msg /\ u.delivery = t.delivery /\ u.payload = t.payload
    /\ u.refs = t.refs /\ u.statusId = t.statusId /\ u.attempts = t.attempts

\* u is a place where call t can go on.
Continues(t, u) ==
    /\ u \in Task
    /\ u.pc \in {"get", "create", "insert"}
    /\ SameCall(t, u)

\* Moving to a statement keeps what the call is about.
LEMMA AtContinues ==
    ASSUME NEW t \in Task, NEW pc \in {"get", "create", "insert"}, NEW k \in Kinds
    PROVE  Continues(t, At(t, pc, k))
<1>1. pc \in Steps
  BY DEF Steps
<1>2. QED
  BY <1>1, AtIsTask DEF Continues, SameCall

\* ... whichever statement comes once status and service were read,
LEMMA AfterStatusAndServiceContinues ==
    ASSUME NEW t \in Task
    PROVE  Continues(t, AfterStatusAndService(t))
<1>1. /\ Continues(t, At(t, "create", "status"))
      /\ Continues(t, At(t, "create", "service"))
      /\ Continues(t, At(t, "get", "source"))
      /\ Continues(t, At(t, "insert", "source"))
  BY AtContinues DEF Kinds
<1>2. QED
  BY <1>1 DEF AfterStatusAndService

\* ... or after any lookup.
LEMMA AfterGetContinues ==
    ASSUME NEW t \in Task
    PROVE  Continues(t, AfterGet(t))
<1>1. /\ Continues(t, At(t, "get", "service"))
      /\ Continues(t, At(t, "create", "source"))
      /\ Continues(t, At(t, "insert", "source"))
  BY AtContinues DEF Kinds
<1>2. QED
  BY <1>1, AfterStatusAndServiceContinues DEF AfterGet

-----------------------------------------------------------------------------
(***************************************************************************)
(* Types.  TypeOK alone is not inductive: that a payload row is well       *)
(* formed depends on the message of the call that writes it, which is the  *)
(* sanitized form of an acceptable message that was handed over.           *)
(***************************************************************************)
CallOK(t) ==
    /\ t.pc = "idle" => t = Idle
    /\ t.pc # "idle" => /\ t.delivery \in Known
                        /\ Accepted(delivered[t.delivery].msg)
                        /\ t.msg = sanitizePayload(delivered[t.delivery].msg)

CallsOK == \A c \in Consumers : CallOK(task[c])

\* sanitizePayload lower-cases the names and leaves the rest as it was.
LEMMA SanitizedIsMessage ==
    ASSUME NEW m \in Message
    PROVE  /\ sanitizePayload(m) \in Message
           /\ sanitizePayload(m).request = m.request
           /\ sanitizePayload(m).columns = m.columns
           /\ sanitizePayload(m).names = [k \in Kinds |-> Lower[m.names[k]]]
           /\ sanitizePayload(m).date = m.date
           /\ sanitizePayload(m).payloadId = m.payloadId
BY LowerAssumption DEF sanitizePayload, Message

\* An accepted delivery is a status message, not garbage.
LEMMA DeliveredIsMessage ==
    ASSUME TypeOK, NEW d \in Known, Accepted(delivered[d].msg)
    PROVE  delivered[d].msg \in Message
<1>1. delivered[d] \in [msg : Messages \cup {Garbage}, by : Consumers]
  BY ElementOfSeq DEF TypeOK, Known
<1>2. QED
  BY <1>1, MessagesAssumption DEF Accepted

\* A call under way has a message and a delivery number.
LEMMA CallMessage ==
    ASSUME TypeOK, NEW c \in Consumers, CallOK(task[c]), task[c].pc # "idle"
    PROVE  /\ task[c].msg \in Message
           /\ task[c].delivery \in Deliveries
<1>1. task[c].delivery \in Known /\ Accepted(delivered[task[c].delivery].msg)
  BY DEF CallOK
<1>2. task[c].msg \in Message
  BY <1>1, DeliveredIsMessage, SanitizedIsMessage DEF CallOK
<1>3. Len(delivered) \in Nat /\ Len(delivered) <= MaxDeliveries
  BY DEF TypeOK
<1>4. QED
  BY <1>1, <1>2, <1>3, BoundsAssumption DEF Known, Deliveries

\* Counting keeps the counters' type.
LEMMA CountType ==
    ASSUME counted \in [Counters -> [Deliveries -> Nat]],
           NEW x \in Counters, NEW d \in Deliveries, Count(x, d)
    PROVE  counted' \in [Counters -> [Deliveries -> Nat]]
<1>1. [counted[x] EXCEPT ![d] = @ + 1] \in [Deliveries -> Nat]
  OBVIOUS
<1>2. counted' = [counted EXCEPT ![x] = [counted[x] EXCEPT ![d] = @ + 1]]
  BY DEF Count
<1>3. QED
  BY <1>1, <1>2

\* What Advance does to the calls, with or without counting.
LEMMA AdvanceType ==
    ASSUME TypeOK, NEW c \in Consumers, NEW t \in Task, Advance(c, t),
           t.delivery \in Deliveries
    PROVE  /\ task' = [task EXCEPT ![c] = t]
           /\ task' \in [Consumers -> Task]
           /\ counted' \in [Counters -> [Deliveries -> Nat]]
<1>1. "processed" \in Counters
  BY DEF Counters
<1>2. QED
  BY <1>1, CountType DEF Advance, TypeOK

\* Ending a call keeps the type of the calls,
LEMMA FinishType ==
    ASSUME TypeOK, NEW c \in Consumers, Finish(c)
    PROVE  task' \in [Consumers -> Task]
BY IdleIsTask DEF Finish, TypeOK

\* ... and so does ending it with an error counted.
LEMMA DropType ==
    ASSUME TypeOK, NEW c \in Consumers, Drop(c), task[c].delivery \in Deliveries
    PROVE  /\ task' \in [Consumers -> Task]
           /\ counted' \in [Counters -> [Deliveries -> Nat]]
<1>1. "errors" \in Counters
  BY DEF Counters
<1>2. QED
  BY <1>1, FinishType, CountType DEF Drop, TypeOK

\* A failed statement keeps within MaxFaults.
LEMMA FaultType ==
    ASSUME TypeOK, Fault
    PROVE  faults' \in 0..MaxFaults
BY BoundsAssumption DEF Fault, TypeOK

-----------------------------------------------------------------------------
(***************************************************************************)
(* What each statement does to its table when it is applied.               *)
(***************************************************************************)

\* Rows of payloads keep their request; rows of the lookup tables their
\* name.  No statement of the consumers deletes either.
PayloadsKept ==
    \A id \in DOMAIN payloads :
        /\ id \in DOMAIN payloads'
        /\ payloads'[id].request = payloads[id].request

LookupsKept ==
    \A k \in Kinds : \A id \in DOMAIN lookups[k] :
        /\ id \in DOMAIN lookups'[k]
        /\ lookups'[k][id] = lookups[k][id]

\* The upsert leaves a table, holding the request at the id it returns, and
\* takes no row away.
LEMMA UpsertTable ==
    ASSUME TypeOK, NEW m \in Message,
           ~UpsertRejected(m), UpsertPayloadByRequestId(m)
    PROVE  /\ IsTable(payloads', PayloadRow)
           /\ UpsertedId(m) \in Nat
           /\ UpsertedId(m) \in DOMAIN payloads'
           /\ DOMAIN payloads' = DOMAIN payloads \cup {UpsertedId(m)}
           /\ payloads'[UpsertedId(m)].request = m.request
           /\ PayloadsKept
<1> DEFINE id == UpsertedId(m)
           row == UpsertedRow(m)
<1>1. IsTable(payloads, PayloadRow) /\ payloadSeq \in Nat
  BY DEF TypeOK, TablesTypeOK
<1>2. /\ id \in Nat \ {NoId}
      /\ row \in PayloadRow
      /\ row.request = m.request
      /\ id \in DOMAIN payloads => payloads[id].request = row.request
  <2>1. CASE RowsOfRequest(m.request) = {}
    <3>1. id = ProposedId(m) /\ id \notin DOMAIN payloads
      BY <2>1 DEF UpsertedId, UpsertRejected
    <3>2. row = [request |-> m.request, columns |-> m.columns, created |-> m.date]
      BY <2>1 DEF UpsertedRow
    <3>3. ProposedId(m) \in Nat \ {NoId}
      BY <1>1 DEF ProposedId, Message, NoId
    <3>4. QED
      BY <3>1, <3>2, <3>3 DEF PayloadRow, Message
  <2>2. CASE RowsOfRequest(m.request) # {}
    <3>1. id \in DOMAIN payloads /\ payloads[id].request = m.request
      BY <2>2 DEF UpsertedId, RowsOfRequest
    <3>2. payloads[id] \in PayloadRow /\ id \in Nat \ {NoId}
      BY <1>1, <3>1 DEF IsTable
    <3>3. Merge(payloads[id].columns, m.columns) \in [Columns -> Values]
      BY <3>2 DEF Merge, PayloadRow, Message
    <3>4. row = [payloads[id] EXCEPT !.columns = Merge(payloads[id].columns, m.columns)]
      BY <2>2 DEF UpsertedRow
    <3>5. QED
      BY <3>1, <3>2, <3>3, <3>4 DEF PayloadRow
  <2>3. QED
    BY <2>1, <2>2
<1>3. payloads' = WithRow(payloads, id, row)
  BY DEF UpsertPayloadByRequestId
<1>4. /\ IsTable(payloads', PayloadRow)
      /\ DOMAIN payloads' = DOMAIN payloads \cup {id}
      /\ payloads'[id] = row
      /\ \A i \in DOMAIN payloads \ {id} : payloads'[i] = payloads[i]
  <2> HIDE DEF id, row
  <2>1. IsTable(payloads, PayloadRow) /\ id \in Nat \ {NoId} /\ row \in PayloadRow
    BY <1>1, <1>2
  <2>2. /\ IsTable(WithRow(payloads, id, row), PayloadRow)
        /\ DOMAIN WithRow(payloads, id, row) = DOMAIN payloads \cup {id}
        /\ WithRow(payloads, id, row)[id] = row
        /\ \A i \in DOMAIN payloads \ {id} :
              WithRow(payloads, id, row)[i] = payloads[i]
    BY ONLY <2>1, WithRowTable
  <2>3. QED
    BY ONLY <1>3, <2>2
<1>5. PayloadsKept
  <2> HIDE DEF id, row
  <2> QED
    BY <1>2, <1>4 DEF PayloadsKept
<1>6. QED
  BY <1>2, <1>4, <1>5

\* Creating an entry adds its name at its id and takes no entry away.
LEMMA CreateTable ==
    ASSUME TypeOK, NEW k \in Kinds, NEW n \in Names,
           ~EntryRejected(k, n), CreateTableEntry(k, n)
    PROVE  /\ lookups' = [j \in Kinds |-> lookups'[j]]
           /\ \A j \in Kinds : IsTable(lookups'[j], Names)
           /\ EntryId(k) \in Nat \ {NoId}
           /\ EntryId(k) \in DOMAIN lookups'[k]
           /\ lookups'[k][EntryId(k)] = n
           /\ LookupsKept
<1> DEFINE id == EntryId(k)
<1>1. /\ lookups = [j \in Kinds |-> lookups[j]]
      /\ \A j \in Kinds : IsTable(lookups[j], Names)
      /\ lookupSeq[k] \in Nat
  BY DEF TypeOK, TablesTypeOK
<1>2. id \in Nat \ {NoId} /\ id \notin DOMAIN lookups[k]
  BY <1>1 DEF EntryId, EntryRejected, NoId
<1>3. lookups' = [lookups EXCEPT ![k] = WithRow(lookups[k], id, n)]
  BY DEF CreateTableEntry
<1>4. /\ lookups'[k] = WithRow(lookups[k], id, n)
      /\ \A j \in Kinds \ {k} : lookups'[j] = lookups[j]
      /\ lookups' = [j \in Kinds |-> lookups'[j]]
  BY <1>1, <1>3
<1> HIDE DEF id
<1>5. /\ IsTable(lookups'[k], Names)
      /\ DOMAIN lookups'[k] = DOMAIN lookups[k] \cup {id}
      /\ lookups'[k][id] = n
      /\ \A i \in DOMAIN lookups[k] \ {id} : lookups'[k][i] = lookups[k][i]
  <2>1. IsTable(lookups[k], Names) /\ id \in Nat \ {NoId} /\ n \in Names
    BY <1>1, <1>2
  <2>2. /\ IsTable(WithRow(lookups[k], id, n), Names)
        /\ DOMAIN WithRow(lookups[k], id, n) = DOMAIN lookups[k] \cup {id}
        /\ WithRow(lookups[k], id, n)[id] = n
        /\ \A i \in DOMAIN lookups[k] \ {id} :
              WithRow(lookups[k], id, n)[i] = lookups[k][i]
    BY ONLY <2>1, WithRowTable
  <2>3. QED
    BY ONLY <1>4, <2>2
<1>6. LookupsKept
  BY <1>2, <1>4, <1>5 DEF LookupsKept
<1>7. \A j \in Kinds : IsTable(lookups'[j], Names)
  BY <1>1, <1>4, <1>5
<1>8. QED
  BY <1>2, <1>4, <1>5, <1>6, <1>7 DEF id

\* Inserting a status leaves a table.
LEMMA InsertTable ==
    ASSUME TypeOK, NEW id \in Nat \ {NoId}, NEW row \in StatusRow,
           InsertPayloadStatus(id, row)
    PROVE  IsTable(statuses', StatusRow)
<1>1. IsTable(statuses, StatusRow)
  BY DEF TypeOK, TablesTypeOK
<1>2. QED
  BY <1>1, WithRowTable DEF InsertPayloadStatus

-----------------------------------------------------------------------------
(***************************************************************************)
(* What each action does, as far as types go.                              *)
(***************************************************************************)

\* Messages handed over are never forgotten or changed.
LogKept == /\ Len(delivered') >= Len(delivered)
           /\ \A d \in Known : delivered'[d] = delivered[d]

\* A delivery is appended to the log; earlier ones stay.
LEMMA HandedOver ==
    ASSUME TypeOK, NEW c \in Consumers, NEW m \in Messages \cup {Garbage}, Handed(c, m)
    PROVE  /\ delivered' \in Seq([msg : Messages \cup {Garbage}, by : Consumers])
           /\ Len(delivered') = Len(delivered) + 1
           /\ Len(delivered') <= MaxDeliveries
           /\ delivered'[Len(delivered')].msg = m
           /\ Len(delivered') \in Deliveries
           /\ LogKept
<1> DEFINE S == [msg : Messages \cup {Garbage}, by : Consumers]
           e == [msg |-> m, by |-> c]
<1>1. delivered \in Seq(S) /\ Len(delivered) \in Nat
  BY LenProperties DEF TypeOK
<1>2. e \in S
  OBVIOUS
<1>3. delivered' = Append(delivered, e) /\ Len(delivered) < MaxDeliveries
  BY DEF Handed
<1>4. e.msg = m
  OBVIOUS
<1> HIDE DEF S, e
<1>5. /\ delivered' \in Seq(S)
      /\ Len(delivered') = Len(delivered) + 1
      /\ delivered'[Len(delivered) + 1] = e
      /\ \A d \in 1..Len(delivered) : delivered'[d] = delivered[d]
  BY <1>1, <1>2, <1>3, AppendProperties
<1>6. QED
  BY <1>1, <1>3, <1>4, <1>5, BoundsAssumption DEF Known, Deliveries, LogKept, S

\* A lookup leaves the call with the id it got, which may be none.
LEMMA GotType ==
    ASSUME TypeOK, NEW c \in Consumers, CallOK(task[c]), task[c].pc = "get",
           NEW id \in Nat, Got(c, id)
    PROVE  /\ task' \in [Consumers -> Task]
           /\ counted' \in [Counters -> [Deliveries -> Nat]]
<1> DEFINE u == [task[c] EXCEPT !.refs[task[c].kind] = id]
<1>1. task[c] \in Task /\ task[c].kind \in Kinds /\ task[c].delivery \in Deliveries
  <2>1. task[c] \in Task
    BY DEF TypeOK
  <2>2. QED
    BY <2>1, CallMessage DEF Task
<1>2. u \in Task /\ u.delivery = task[c].delivery
  BY <1>1, RefIsTask
<1>3. Advance(c, AfterGet(u))
  BY DEF Got
<1> HIDE DEF u
<1>4. AfterGet(u) \in Task /\ AfterGet(u).delivery \in Deliveries
  BY <1>1, <1>2, AfterGetContinues DEF Continues, SameCall
<1>5. QED
  BY <1>3, <1>4, AdvanceType

\* What a call inserts is a row with a proper id.
LEMMA CallStatusRow ==
    ASSUME TypeOK, NEW c \in Consumers, CallOK(task[c]), task[c].pc = "insert"
    PROVE  /\ StatusOf(task[c]) \in StatusRow
           /\ InsertId(task[c]) \in Nat \ {NoId}
<1>1. task[c] \in Task /\ statusSeq \in Nat
  BY DEF TypeOK, TablesTypeOK
<1>2. task[c].msg \in Message
  BY CallMessage
<1>3. StatusOf(task[c]) \in StatusRow
  BY <1>1, <1>2 DEF StatusOf, StatusRow, Task, Message
<1>4. InsertId(task[c]) \in Nat \ {NoId}
  BY <1>1 DEF InsertId, Task, NoId
<1>5. QED
  BY <1>3, <1>4

\* Another attempt changes the attempts and the id of that one call.
LEMMA RetryType ==
    ASSUME TypeOK, NEW c \in Consumers, NEW id \in Nat, Retry(c, id)
    PROVE  /\ task' \in [Consumers -> Task]
           /\ task'[c] = [task[c] EXCEPT !.attempts = @ + 1, !.statusId = id]
           /\ \A e \in Consumers \ {c} : task'[e] = task[e]
<1> DEFINE n == task[c].attempts + 1
<1>1. task[c] \in Task
  BY DEF TypeOK
<1>2. n \in Nat
  BY <1>1 DEF Task
<1>3. task' = [task EXCEPT ![c] = [task[c] EXCEPT !.attempts = n, !.statusId = id]]
  BY DEF Retry, TypeOK
<1> HIDE DEF n
<1>4. [task[c] EXCEPT !.attempts = n, !.statusId = id] \in Task
  BY <1>1, <1>2 DEF Task
<1>5. QED
  BY <1>3, <1>4 DEF TypeOK, n

-----------------------------------------------------------------------------
\* The initial states are well typed.
LEMMA TypeInit == Init => TypeOK
<1> SUFFICES ASSUME Init PROVE TypeOK
  OBVIOUS
<1>1. TablesTypeOK
  <2>1. NoRows = << >> /\ DOMAIN NoRows = {}
    BY DEF NoRows
  <2>2. IsTable(NoRows, PayloadRow) /\ IsTable(NoRows, Names) /\ IsTable(NoRows, StatusRow)
    BY DEF IsTable, NoRows
  <2>3. QED
    BY <2>2 DEF Init, TablesInit, TablesTypeOK
<1>2. task \in [Consumers -> Task]
  BY IdleIsTask DEF Init
<1>3. cache \in [Consumers -> [Kinds -> [Names -> Nat]]]
  BY DEF Init, EmptyCache, NoId
<1>4. /\ delivered \in Seq([msg : Messages \cup {Garbage}, by : Consumers])
      /\ Len(delivered) = 0
  BY EmptySeq DEF Init
<1>5. counted \in [Counters -> [Deliveries -> Nat]]
  BY DEF Init
<1>6. /\ races = {} /\ killed = {}
      /\ faults \in 0..MaxFaults /\ crashes \in 0..MaxCrashes
      /\ 0 <= MaxDeliveries
  BY BoundsAssumption DEF Init
<1>7. QED
  BY <1>1, <1>2, <1>3, <1>4, <1>5, <1>6 DEF TypeOK

\* Every step of every handler keeps the types.
LEMMA TypeStep ==
    ASSUME TypeOK, CallsOK, [Next]_vars
    PROVE  TypeOK'
<1> USE DEF TypeOK, TablesTypeOK
<1>1. CASE UNCHANGED vars
  BY <1>1 DEF vars, tables, local, history
<1>2. ASSUME NEW c \in Consumers, NEW m \in Messages \cup {Garbage}, Refuse(c, m)
      PROVE  TypeOK'
  <2>1. Len(delivered) + 1 \in Deliveries /\ "invalid" \in Counters
    BY <1>2, HandedOver DEF Refuse, Counters
  <2>2. counted' \in [Counters -> [Deliveries -> Nat]]
    BY <1>2, <2>1, CountType DEF Refuse
  <2>3. QED
    BY <1>2, <2>2, HandedOver DEF Refuse, tables, local
<1>3. ASSUME NEW c \in Consumers, NEW m \in Messages \cup {Garbage}, Accept(c, m)
      PROVE  TypeOK'
  <2>1. m \in Message
    BY <1>3, MessagesAssumption DEF Accept, Accepted
  <2>2. Len(delivered) + 1 \in Nat
    BY <1>3, HandedOver DEF Accept, Deliveries
  <2>3. [Idle EXCEPT !.pc = "upsert", !.msg = sanitizePayload(m),
                     !.delivery = Len(delivered) + 1] \in Task
    BY <2>1, <2>2, SanitizedIsMessage, IdleIsTask DEF Task, Steps
  <2>4. QED
    BY <1>3, <2>3, HandedOver DEF Accept, tables
<1>4. ASSUME NEW c \in Consumers, task[c].pc # "idle"
      PROVE  /\ CallOK(task[c]) /\ task[c] \in Task
             /\ task[c].msg \in Message
             /\ task[c].delivery \in Deliveries
             /\ task[c].kind \in Kinds
             /\ \A k \in Kinds : task[c].msg.names[k] \in Names
  <2>1. CallOK(task[c]) /\ task[c] \in Task
    BY DEF CallsOK
  <2>2. QED
    BY <1>4, <2>1, CallMessage DEF Task, Message
<1>5. ASSUME NEW c \in Consumers, Upsert(c)
      PROVE  TypeOK'
  <2> DEFINE m == task[c].msg
             u == [At(task[c], "get", "status") EXCEPT !.payload = UpsertedId(m)]
  <2>1. m \in Message /\ task[c] \in Task /\ task[c].delivery \in Deliveries
    BY <1>4, <1>5 DEF Upsert
  <2>2. payloadSeq' \in Nat
    BY <1>5 DEF Upsert, TakePayloadId
  <2>3. CASE UpsertRejected(m)
    <3>1. Drop(c) /\ UNCHANGED payloads
      BY <1>5, <2>3 DEF Upsert
    <3>2. QED
      BY <1>5, <2>1, <2>2, <3>1, DropType DEF Upsert, OtherThanPayloads
  <2>4. CASE ~UpsertRejected(m)
    <3>1. UpsertPayloadByRequestId(m) /\ Advance(c, u)
      BY <1>5, <2>4 DEF Upsert
    <3>2. IsTable(payloads', PayloadRow) /\ UpsertedId(m) \in Nat
      BY <2>1, <2>4, <3>1, UpsertTable
    <3>3. u \in Task /\ u.delivery = task[c].delivery
      BY <2>1, <3>2 DEF At, Task, Steps, Kinds
    <3>4. task' \in [Consumers -> Task] /\ counted' \in [Counters -> [Deliveries -> Nat]]
      BY <2>1, <3>1, <3>3, AdvanceType
    <3>5. QED
      BY <1>5, <2>2, <3>2, <3>4 DEF Upsert, OtherThanPayloads
  <2>5. QED
    BY <2>3, <2>4
<1>6. ASSUME NEW c \in Consumers, UpsertFault(c)
      PROVE  TypeOK'
  <2> DEFINE m == task[c].msg
  <2>1. m \in Message /\ task[c].delivery \in Deliveries
    BY <1>4, <1>6 DEF UpsertFault
  <2>2. IsTable(payloads', PayloadRow) /\ payloadSeq' \in Nat
    <3>1. UNCHANGED payloads \/ (~UpsertRejected(m) /\ UpsertPayloadByRequestId(m))
      BY <1>6 DEF UpsertFault
    <3>2. UNCHANGED payloadSeq \/ TakePayloadId(m)
      BY <1>6 DEF UpsertFault
    <3> HIDE DEF m
    <3>3. IsTable(payloads', PayloadRow)
      BY <2>1, <3>1, UpsertTable
    <3>4. payloadSeq' \in Nat
      BY <3>2 DEF TakePayloadId
    <3>5. QED
      BY <3>3, <3>4
  <2>3. QED
    BY <1>6, <2>1, <2>2, DropType, FaultType DEF UpsertFault, OtherThanPayloads
<1>7. ASSUME NEW c \in Consumers, Get(c)
      PROVE  TypeOK'
  <2> DEFINE t == task[c]
             id == GetFromDB(t.kind, t.msg.names[t.kind])
  <2>1. /\ CallOK(t) /\ t.kind \in Kinds
        /\ t.msg.names[t.kind] \in Names /\ t.pc = "get"
    BY <1>4, <1>7 DEF Get
  <2>2. Cached(c) \in Nat
    BY <2>1 DEF Cached, NoId
  <2>3. id \in Nat
    BY <2>1 DEF GetFromDB, RowsNamed, IsTable, NoId
  <2>4. CASE Cached(c) # NoId
    <3>1. Got(c, Cached(c)) /\ UNCHANGED cache /\ task[c].pc = "get"
      BY <1>7, <2>4 DEF Get
    <3>2. UNCHANGED <<tables, delivered, races, killed, faults, crashes>>
      BY <1>7 DEF Get
    <3>3. QED
      BY <2>1, <2>2, <3>1, <3>2, GotType DEF tables
  <2>5. CASE Cached(c) = NoId
    <3>1. Got(c, id) /\ Remember(c, id)
      BY <1>7, <2>5 DEF Get
    <3>2. cache' \in [Consumers -> [Kinds -> [Names -> Nat]]]
      <4>1. cache \in [Consumers -> [Kinds -> [Names -> Nat]]]
        BY DEF TypeOK
      <4>2. cache' = cache
            \/ cache' = [cache EXCEPT ![c][t.kind][t.msg.names[t.kind]] = id]
        BY <3>1 DEF Remember
      <4> DEFINE k == t.kind
                 n == t.msg.names[t.kind]
      <4>3. k \in Kinds /\ n \in Names /\ id \in Nat
        BY <2>1, <2>3
      <4>4. cache' = cache \/ cache' = [cache EXCEPT ![c][k][n] = id]
        BY <4>2
      <4> HIDE DEF id, k, n
      <4>5. [cache[c][k] EXCEPT ![n] = id] \in [Names -> Nat]
        BY <4>1, <4>3
      <4>6. [cache[c] EXCEPT ![k] = [cache[c][k] EXCEPT ![n] = id]]
                \in [Kinds -> [Names -> Nat]]
        BY <4>1, <4>3, <4>5
      <4>7. QED
        BY <4>1, <4>4, <4>6
    <3>3. QED
      <4>1. UNCHANGED <<tables, delivered, races, killed, faults, crashes>>
        BY <1>7 DEF Get
      <4>2. /\ task' \in [Consumers -> Task]
            /\ counted' \in [Counters -> [Deliveries -> Nat]]
        BY <2>1, <2>3, <3>1, GotType
      <4>3. QED
        BY <3>2, <4>1, <4>2 DEF tables
  <2>6. QED
    BY <2>4, <2>5
<1>8. ASSUME NEW c \in Consumers, GetFault(c)
      PROVE  TypeOK'
  <2>1. CallOK(task[c]) /\ NoId \in Nat
    BY <1>4, <1>8 DEF GetFault, NoId
  <2>2. QED
    BY <1>8, <2>1, GotType, FaultType DEF GetFault, tables
<1>9. ASSUME NEW c \in Consumers, Create(c)
      PROVE  TypeOK'
  <2> DEFINE t == task[c]
             n == t.msg.names[t.kind]
             u == [t EXCEPT !.refs[t.kind] = EntryId(t.kind)]
  <2>1. /\ t \in Task /\ t.kind \in Kinds /\ n \in Names
        /\ t.delivery \in Deliveries
    BY <1>4, <1>9 DEF Create
  <2>2. lookupSeq' \in [Kinds -> Nat]
    <3>1. lookupSeq[t.kind] + 1 \in Nat
      BY <2>1
    <3>2. QED
      BY <1>9, <3>1 DEF Create, TakeEntryId
  <2>3. CASE EntryRejected(t.kind, n)
    <3>1. /\ Drop(c) /\ UNCHANGED lookups
          /\ races' = races \cup
               {[by |-> c, kind |-> t.kind, name |-> n, delivery |-> t.delivery]}
      BY <1>9, <2>3 DEF Create
    <3>2. races' \subseteq [by : Consumers, kind : Kinds, name : Names, delivery : Deliveries]
      BY <2>1, <3>1
    <3>3. QED
      BY <1>9, <2>1, <2>2, <3>1, <3>2, DropType DEF Create, OtherThanLookups
  <2>4. CASE ~EntryRejected(t.kind, n)
    <3>1. CreateTableEntry(t.kind, n) /\ Advance(c, AfterCreate(u)) /\ UNCHANGED races
      BY <1>9, <2>4 DEF Create
    <3>2. /\ lookups' = [j \in Kinds |-> lookups'[j]]
          /\ \A j \in Kinds : IsTable(lookups'[j], Names)
          /\ EntryId(t.kind) \in Nat
      BY <2>1, <2>4, <3>1, CreateTable
    <3>3. u \in Task /\ u.delivery = t.delivery
      BY <2>1, <3>2, RefIsTask
    <3> HIDE DEF u
    <3>4. AfterCreate(u) \in Task /\ AfterCreate(u).delivery = t.delivery
      BY <3>3, AfterStatusAndServiceContinues DEF AfterCreate, Continues, SameCall
    <3>5. task' \in [Consumers -> Task] /\ counted' \in [Counters -> [Deliveries -> Nat]]
      BY <2>1, <3>1, <3>4, AdvanceType
    <3>6. QED
      BY <1>9, <2>2, <3>1, <3>2, <3>5 DEF Create, OtherThanLookups
  <2>5. QED
    BY <2>3, <2>4
<1>10. ASSUME NEW c \in Consumers, CreateFault(c)
       PROVE  TypeOK'
  <2> DEFINE t == task[c]
             n == t.msg.names[t.kind]
  <2>1. t.kind \in Kinds /\ n \in Names /\ t.delivery \in Deliveries
    BY <1>4, <1>10 DEF CreateFault
  <2>2. lookupSeq' \in [Kinds -> Nat]
    BY <1>10 DEF CreateFault, TakeEntryId
  <2>3. /\ lookups' = [j \in Kinds |-> lookups'[j]]
        /\ \A j \in Kinds : IsTable(lookups'[j], Names)
    BY <1>10, <2>1, CreateTable DEF CreateFault
  <2>4. QED
    BY <1>10, <2>1, <2>2, <2>3, DropType, FaultType DEF CreateFault, OtherThanLookups
<1>11. ASSUME NEW c \in Consumers, task[c].pc = "insert", TakeStatusId(task[c])
       PROVE  statusSeq' \in Nat
  BY <1>11 DEF TakeStatusId
<1>12. ASSUME NEW c \in Consumers, task[c].pc = "insert"
       PROVE  /\ StatusOf(task[c]) \in StatusRow
              /\ InsertId(task[c]) \in Nat \ {NoId}
              /\ InsertId(task[c]) \in Nat
              /\ task[c].statusId \in Nat
  BY <1>4, <1>12, CallStatusRow DEF Task
<1>13. ASSUME NEW c \in Consumers, Insert(c)
       PROVE  TypeOK'
  <2> DEFINE t == task[c]
  <2>1. t.pc = "insert" /\ statusSeq' \in Nat
    BY <1>11, <1>13 DEF Insert, Inserting
  <2>2. CASE InsertRejected(InsertId(t), StatusOf(t))
    <3>1. Retry(c, t.statusId) /\ UNCHANGED statuses
      BY <1>13, <2>2 DEF Insert
    <3>2. task' \in [Consumers -> Task]
      BY <1>12, <2>1, <3>1, RetryType
    <3>3. QED
      BY <1>13, <2>1, <3>1, <3>2 DEF Insert, OtherThanStatuses
  <2>3. CASE ~InsertRejected(InsertId(t), StatusOf(t))
    <3>1. InsertPayloadStatus(InsertId(t), StatusOf(t)) /\ Finish(c)
      BY <1>13, <2>3 DEF Insert
    <3>2. IsTable(statuses', StatusRow)
      BY <1>12, <2>1, <3>1, InsertTable
    <3>3. task' \in [Consumers -> Task]
      BY <3>1, FinishType
    <3>4. QED
      BY <1>13, <2>1, <3>2, <3>3 DEF Insert, OtherThanStatuses
  <2>4. QED
    BY <2>2, <2>3
<1>14. ASSUME NEW c \in Consumers, InsertFault(c)
       PROVE  TypeOK'
  <2> DEFINE t == task[c]
  <2>1. t.pc = "insert"
    BY <1>14 DEF InsertFault, Inserting
  <2>2. statusSeq' \in Nat
    BY <1>11, <1>14, <2>1 DEF InsertFault
  <2>3. task' \in [Consumers -> Task]
    <3>1. Retry(c, t.statusId) \/ Retry(c, InsertId(t))
      BY <1>14 DEF InsertFault
    <3>2. QED
      BY <1>12, <2>1, <3>1, RetryType
  <2>4. IsTable(statuses', StatusRow)
    <3>1. UNCHANGED statuses \/ InsertPayloadStatus(InsertId(t), StatusOf(t))
      BY <1>14 DEF InsertFault
    <3>2. QED
      BY <1>12, <2>1, <3>1, InsertTable
  <2>5. QED
    BY <1>14, <2>2, <2>3, <2>4, FaultType DEF InsertFault, OtherThanStatuses
<1>15. ASSUME NEW c \in Consumers, GiveUp(c)
       PROVE  TypeOK'
  BY <1>4, <1>15, DropType, FinishType DEF GiveUp, tables
<1>16. ASSUME NEW c \in Consumers, NEW k \in Kinds, NEW n \in Names, Expire(c, k, n)
       PROVE  TypeOK'
  <2>1. cache' \in [Consumers -> [Kinds -> [Names -> Nat]]]
    BY <1>16 DEF Expire, NoId
  <2>2. QED
    BY <1>16, <2>1 DEF Expire, tables, history
<1>17. ASSUME NEW c \in Consumers, Crash(c)
       PROVE  TypeOK'
  <2>1. cache' \in [Consumers -> [Kinds -> [Names -> Nat]]]
    BY <1>17 DEF Crash, EmptyCache, NoId
  <2>2. task[c].delivery \in Deliveries \cup {0}
    <3>1. CASE task[c].pc = "idle"
      BY <3>1 DEF CallsOK, CallOK, Idle
    <3>2. CASE task[c].pc # "idle"
      BY <1>4, <3>2
    <3>3. QED
      BY <3>1, <3>2
  <2>3. killed' \subseteq Deliveries /\ crashes' \in 0..MaxCrashes
    BY <1>17, <2>2, BoundsAssumption DEF Crash
  <2>4. QED
    BY <1>17, <2>1, <2>3, FinishType DEF Crash, tables
<1>18. QED
  BY <1>1, <1>2, <1>3, <1>5, <1>6, <1>7, <1>8, <1>9, <1>10, <1>13, <1>14,
     <1>15, <1>16, <1>17 DEF Next, Receive, Work, Forget

-----------------------------------------------------------------------------
(***************************************************************************)
(* What a step does to the calls.  At most one call changes: it ends, it   *)
(* goes on with the message it has, or it begins with a message that was   *)
(* just handed over.                                                       *)
(***************************************************************************)
Ends(c) == task'[c] = Idle

GoesOn(c) == /\ task[c].pc # "idle"
             /\ task'[c].pc # "idle"
             /\ task'[c].msg = task[c].msg
             /\ task'[c].delivery = task[c].delivery

Begins(c) == \E m \in Message :
    /\ task[c].pc = "idle"
    /\ Accepted(m)
    /\ Len(delivered') = Len(delivered) + 1
    /\ delivered'[Len(delivered')].msg = m
    /\ task'[c] = [Idle EXCEPT !.pc = "upsert", !.msg = sanitizePayload(m),
                               !.delivery = Len(delivered')]

OneCallMoves ==
    \/ UNCHANGED task
    \/ \E c \in Consumers :
          /\ \A e \in Consumers \ {c} : task'[e] = task[e]
          /\ Ends(c) \/ GoesOn(c) \/ Begins(c)

\* The four ways a step moves a call: it ends,
LEMMA FinishEnds ==
    ASSUME TypeOK, NEW c \in Consumers, Finish(c)
    PROVE  OneCallMoves /\ Ends(c)
BY DEF TypeOK, Finish, OneCallMoves, Ends

\* ... goes on to its next statement,
LEMMA AdvanceGoesOn ==
    ASSUME TypeOK, NEW c \in Consumers, task[c].pc # "idle",
           NEW u \in Task, u.pc # "idle", u.msg = task[c].msg,
           u.delivery = task[c].delivery, Advance(c, u)
    PROVE  OneCallMoves /\ GoesOn(c)
BY DEF TypeOK, Advance, OneCallMoves, GoesOn

\* ... goes on with what a lookup found,
LEMMA GotGoesOn ==
    ASSUME TypeOK, NEW c \in Consumers, task[c].pc = "get", NEW id \in Nat, Got(c, id)
    PROVE  OneCallMoves /\ GoesOn(c)
<1> DEFINE u == [task[c] EXCEPT !.refs[task[c].kind] = id]
<1>1. task[c] \in Task /\ task[c].kind \in Kinds
  BY DEF TypeOK, Task
<1>2. u \in Task /\ u.delivery = task[c].delivery /\ u.msg = task[c].msg
  BY <1>1, RefIsTask
<1>3. Advance(c, AfterGet(u))
  BY DEF Got
<1> HIDE DEF u
<1>4. /\ AfterGet(u) \in Task /\ AfterGet(u).pc # "idle"
      /\ AfterGet(u).delivery = task[c].delivery /\ AfterGet(u).msg = task[c].msg
  BY <1>2, AfterGetContinues DEF Continues, SameCall
<1>5. QED
  BY <1>3, <1>4, AdvanceGoesOn

\* ... or tries its insert again.
LEMMA RetryGoesOn ==
    ASSUME TypeOK, NEW c \in Consumers, task[c].pc = "insert", NEW id \in Nat,
           Retry(c, id)
    PROVE  OneCallMoves /\ GoesOn(c)
<1>1. /\ task'[c] = [task[c] EXCEPT !.attempts = @ + 1, !.statusId = id]
      /\ \A e \in Consumers \ {c} : task'[e] = task[e]
      /\ task[c] \in Task
  BY RetryType DEF TypeOK
<1>2. GoesOn(c)
  BY <1>1 DEF GoesOn, Task
<1>3. QED
  BY <1>1, <1>2 DEF OneCallMoves

\* A step moves one call at most.
LEMMA OneCallMovesStep ==
    ASSUME TypeOK, CallsOK, [Next]_vars
    PROVE  OneCallMoves
<1>1. CASE UNCHANGED vars
  BY <1>1 DEF vars, local, OneCallMoves
<1>2. ASSUME NEW c \in Consumers, NEW m \in Messages \cup {Garbage}, Refuse(c, m)
      PROVE  OneCallMoves
  BY <1>2 DEF Refuse, local, OneCallMoves
<1>3. ASSUME NEW c \in Consumers, NEW m \in Messages \cup {Garbage}, Accept(c, m)
      PROVE  OneCallMoves
  <2>1. m \in Message /\ Accepted(m) /\ task[c].pc = "idle"
    BY <1>3, MessagesAssumption DEF Accept, Accepted, Handed
  <2>2. /\ Len(delivered') = Len(delivered) + 1
        /\ delivered'[Len(delivered')].msg = m
    BY <1>3, HandedOver DEF Accept
  <2>3. /\ task'[c] = [Idle EXCEPT !.pc = "upsert", !.msg = sanitizePayload(m),
                                   !.delivery = Len(delivered')]
        /\ \A e \in Consumers \ {c} : task'[e] = task[e]
    BY <1>3, <2>2 DEF Accept, TypeOK
  <2>4. QED
    BY <2>1, <2>2, <2>3 DEF Begins, OneCallMoves
<1>4. ASSUME NEW c \in Consumers, Drop(c)
      PROVE  OneCallMoves
  BY <1>4, FinishEnds DEF Drop
<1>5. ASSUME NEW c \in Consumers, task[c].pc # "idle"
      PROVE  /\ task[c] \in Task
             /\ task[c].msg \in Message
             /\ task[c].kind \in Kinds
             /\ \A k \in Kinds : task[c].msg.names[k] \in Names
             /\ \A k \in Kinds : GetFromDB(k, task[c].msg.names[k]) \in Nat
             /\ Cached(c) \in Nat
             /\ EntryId(task[c].kind) \in Nat
             /\ task[c].statusId \in Nat
             /\ InsertId(task[c]) \in Nat
  <2>1. task[c] \in Task /\ task[c].msg \in Message
    BY <1>5, CallMessage DEF TypeOK, CallsOK
  <2>2. /\ task[c].kind \in Kinds
        /\ \A k \in Kinds : task[c].msg.names[k] \in Names
        /\ task[c].statusId \in Nat
    BY <2>1 DEF Task, Message
  <2>3. \A k \in Kinds : GetFromDB(k, task[c].msg.names[k]) \in Nat
    BY DEF GetFromDB, RowsNamed, TypeOK, TablesTypeOK, IsTable, NoId
  <2>4. Cached(c) \in Nat
    BY <2>2 DEF Cached, TypeOK, NoId
  <2>5. EntryId(task[c].kind) \in Nat /\ InsertId(task[c]) \in Nat
    BY <2>2 DEF EntryId, InsertId, TypeOK, TablesTypeOK
  <2>6. QED
    BY <2>1, <2>2, <2>3, <2>4, <2>5
<1>6. ASSUME NEW c \in Consumers, Upsert(c)
      PROVE  OneCallMoves
  <2> DEFINE m == task[c].msg
             u == [At(task[c], "get", "status") EXCEPT !.payload = UpsertedId(m)]
  <2>1. task[c] \in Task /\ m \in Message /\ task[c].pc = "upsert"
    BY <1>5, <1>6 DEF Upsert
  <2>2. CASE UpsertRejected(m)
    BY <1>4, <1>6, <2>2 DEF Upsert
  <2>3. CASE ~UpsertRejected(m)
    <3>1. UpsertPayloadByRequestId(m) /\ Advance(c, u)
      BY <1>6, <2>3 DEF Upsert
    <3>2. UpsertedId(m) \in Nat
      BY <2>1, <2>3, <3>1, UpsertTable
    <3>3. u \in Task /\ u.pc = "get" /\ u.msg = m /\ u.delivery = task[c].delivery
      BY <2>1, <3>2 DEF At, Task, Steps, Kinds
    <3>4. QED
      BY <2>1, <3>1, <3>3, AdvanceGoesOn
  <2>4. QED
    BY <2>2, <2>3
<1>7. ASSUME NEW c \in Consumers, Get(c) \/ GetFault(c)
      PROVE  OneCallMoves
  <2>1. task[c].pc = "get"
    BY <1>7 DEF Get, GetFault
  <2>2. \E id \in Nat : Got(c, id)
    BY <1>5, <1>7, <2>1 DEF Get, GetFault, NoId
  <2>3. QED
    BY <2>1, <2>2, GotGoesOn
<1>8. ASSUME NEW c \in Consumers, Create(c)
      PROVE  OneCallMoves
  <2> DEFINE t == task[c]
             u == [t EXCEPT !.refs[t.kind] = EntryId(t.kind)]
  <2>1. t \in Task /\ t.kind \in Kinds /\ EntryId(t.kind) \in Nat /\ t.pc = "create"
    BY <1>5, <1>8 DEF Create
  <2>2. Drop(c) \/ Advance(c, AfterCreate(u))
    BY <1>8 DEF Create
  <2>3. u \in Task /\ u.delivery = t.delivery /\ u.msg = t.msg
    BY <2>1, RefIsTask
  <2> HIDE DEF u
  <2>4. /\ AfterCreate(u) \in Task /\ AfterCreate(u).pc # "idle"
        /\ AfterCreate(u).delivery = t.delivery /\ AfterCreate(u).msg = t.msg
    BY <2>3, AfterStatusAndServiceContinues DEF AfterCreate, Continues, SameCall
  <2>5. QED
    BY <1>4, <2>1, <2>2, <2>4, AdvanceGoesOn
<1>9. ASSUME NEW c \in Consumers, Insert(c) \/ InsertFault(c)
      PROVE  OneCallMoves
  <2>1. task[c].pc = "insert"
    BY <1>9 DEF Insert, InsertFault, Inserting
  <2>2. Finish(c) \/ \E id \in Nat : Retry(c, id)
    BY <1>5, <1>9, <2>1 DEF Insert, InsertFault
  <2>3. QED
    BY <2>1, <2>2, FinishEnds, RetryGoesOn
<1>10. ASSUME NEW c \in Consumers, UpsertFault(c) \/ CreateFault(c) \/ GiveUp(c) \/ Crash(c)
       PROVE  OneCallMoves
  BY <1>10, FinishEnds DEF UpsertFault, CreateFault, GiveUp, Crash, Drop
<1>11. ASSUME NEW c \in Consumers, NEW k \in Kinds, NEW n \in Names, Expire(c, k, n)
       PROVE  OneCallMoves
  BY <1>11 DEF Expire, OneCallMoves
<1>12. QED
  BY <1>1, <1>2, <1>3, <1>6, <1>7, <1>8, <1>9, <1>10, <1>11
     DEF Next, Receive, Work, Forget

\* No step changes what was delivered.
LEMMA LogKeptStep ==
    ASSUME TypeOK, [Next]_vars
    PROVE  LogKept
<1>1. Len(delivered) \in Nat
  BY LenProperties DEF TypeOK
<1>2. CASE delivered' = delivered
  BY <1>1, <1>2 DEF LogKept
<1>3. CASE \E c \in Consumers, m \in Messages \cup {Garbage} : Handed(c, m)
  BY <1>3, HandedOver
<1>4. (delivered' = delivered) \/ (\E c \in Consumers, m \in Messages \cup {Garbage} : Handed(c, m))
  <2>1. ASSUME NEW c \in Consumers, Receive(c)
        PROVE  \E m \in Messages \cup {Garbage} : Handed(c, m)
    BY <2>1 DEF Receive, Refuse, Accept
  <2>2. ASSUME NEW c \in Consumers, Work(c)
        PROVE  delivered' = delivered
    BY <2>2 DEF Work, Upsert, UpsertFault, Get, GetFault, Create, CreateFault,
                Insert, InsertFault, GiveUp
  <2>3. ASSUME NEW c \in Consumers, Forget(c) \/ Crash(c)
        PROVE  delivered' = delivered
    BY <2>3 DEF Forget, Expire, Crash, history
  <2>4. CASE UNCHANGED vars
    BY <2>4 DEF vars, history
  <2>5. QED
    BY <2>1, <2>2, <2>3, <2>4 DEF Next
<1>5. QED
  BY <1>2, <1>3, <1>4

\* A call under way keeps working on an accepted delivery.
LEMMA CallsStep ==
    ASSUME TypeOK, CallsOK, [Next]_vars
    PROVE  CallsOK'
<1>1. LogKept /\ OneCallMoves /\ TypeOK' /\ Len(delivered) \in Nat
  BY LogKeptStep, OneCallMovesStep, TypeStep, LenProperties DEF TypeOK
<1>2. Len(delivered') \in Nat /\ Len(delivered') >= Len(delivered)
  BY <1>1, LenProperties DEF TypeOK, LogKept
<1>3. \A d \in Known : d \in Known' /\ delivered'[d] = delivered[d]
  BY <1>1, <1>2 DEF LogKept, Known
<1>4. ASSUME NEW c \in Consumers, task'[c] = task[c] PROVE CallOK(task[c])'
  <2>1. CallOK(task[c])
    BY DEF CallsOK
  <2>2. CASE task[c].pc = "idle"
    BY <1>4, <2>1, <2>2 DEF CallOK
  <2>3. CASE task[c].pc # "idle"
    BY <1>4, <1>3, <2>1, <2>3 DEF CallOK, Accepted
  <2>4. QED
    BY <2>2, <2>3
<1>5. ASSUME NEW c \in Consumers, Ends(c) PROVE CallOK(task[c])'
  BY <1>5 DEF Ends, CallOK, Idle
<1>6. ASSUME NEW c \in Consumers, GoesOn(c) PROVE CallOK(task[c])'
  BY <1>6, <1>3 DEF GoesOn, CallsOK, CallOK, Accepted
<1>7. ASSUME NEW c \in Consumers, Begins(c) PROVE CallOK(task[c])'
  <2>1. PICK m \in Message :
          /\ Accepted(m)
          /\ Len(delivered') = Len(delivered) + 1
          /\ delivered'[Len(delivered')].msg = m
          /\ task'[c] = [Idle EXCEPT !.pc = "upsert", !.msg = sanitizePayload(m),
                                     !.delivery = Len(delivered')]
    BY <1>7 DEF Begins
  <2>2. /\ task'[c].pc = "upsert" /\ task'[c].msg = sanitizePayload(m)
        /\ task'[c].delivery = Len(delivered')
    BY <2>1 DEF Idle
  <2>3. Len(delivered') \in 1..Len(delivered')
    BY <1>1, <2>1
  <2>4. QED
    BY <2>1, <2>2, <2>3 DEF CallOK, Known, Accepted
<1>8. QED
  BY <1>1, <1>4, <1>5, <1>6, <1>7 DEF OneCallMoves, CallsOK

\* No call is under way at first.
LEMMA CallsInit == Init => CallsOK
BY DEF Init, CallsOK, CallOK, Idle

(***************************************************************************)
(* Every variable of the consumers and of the tables keeps its type, and   *)
(* every running call works on the sanitized form of an accepted message.  *)
(***************************************************************************)
THEOREM TypeCorrect == Spec => [](TypeOK /\ CallsOK)
<1>1. Init => TypeOK /\ CallsOK
  BY TypeInit, CallsInit
<1>2. TypeOK /\ CallsOK /\ [Next]_vars => (TypeOK /\ CallsOK)'
  BY TypeStep, CallsStep
<1>3. QED
  BY <1>1, <1>2, PTL DEF Spec

-----------------------------------------------------------------------------
(***************************************************************************)
(* What a step does to one call, in more detail: what it learnt from the   *)
(* tables, and the tables it learnt it from.                               *)
(***************************************************************************)
Upserted(c) == LET m == task[c].msg IN
    /\ task[c].pc = "upsert"
    /\ ~UpsertRejected(m)
    /\ UpsertPayloadByRequestId(m)
    /\ Advance(c, [At(task[c], "get", "status") EXCEPT !.payload = UpsertedId(m)])

LookedUp(c) == LET t == task[c] IN
    /\ t.pc = "get"
    /\ \E id \in {NoId, Cached(c), GetFromDB(t.kind, t.msg.names[t.kind])} : Got(c, id)
    /\ UNCHANGED lookups

Created(c) == LET t == task[c] IN
    /\ t.pc = "create"
    /\ ~EntryRejected(t.kind, t.msg.names[t.kind])
    /\ CreateTableEntry(t.kind, t.msg.names[t.kind])
    /\ Advance(c, AfterCreate([t EXCEPT !.refs[t.kind] = EntryId(t.kind)]))

Retried(c) == LET t == task[c] IN
    /\ t.pc = "insert"
    /\ t.attempts < DBRetries
    /\ \E id \in {t.statusId, InsertId(t)} : Retry(c, id)

Moves(c) == \/ task'[c] = task[c]
            \/ Ends(c) \/ Begins(c)
            \/ Upserted(c) \/ LookedUp(c) \/ Created(c) \/ Retried(c)

\* Every step moves a given call in one of the named ways, or not at all.
LEMMA MovesStep ==
    ASSUME TypeOK, CallsOK, [Next]_vars, NEW e \in Consumers
    PROVE  Moves(e)
<1>1. CASE UNCHANGED vars
  BY <1>1 DEF vars, local, Moves
<1>2. ASSUME NEW c \in Consumers, NEW m \in Messages \cup {Garbage},
             Refuse(c, m) \/ Accept(c, m)
      PROVE  Moves(e)
  <2>1. CASE Refuse(c, m)
    BY <2>1 DEF Refuse, local, Moves
  <2>2. CASE Accept(c, m) /\ e # c
    BY <2>2 DEF Accept, TypeOK, Moves
  <2>3. CASE Accept(c, m) /\ e = c
    <3>1. m \in Message /\ Accepted(m) /\ task[c].pc = "idle"
      BY <2>3, MessagesAssumption DEF Accept, Accepted, Handed
    <3>2. /\ Len(delivered') = Len(delivered) + 1
          /\ delivered'[Len(delivered')].msg = m
      BY <2>3, HandedOver DEF Accept
    <3>3. task'[c] = [Idle EXCEPT !.pc = "upsert", !.msg = sanitizePayload(m),
                                  !.delivery = Len(delivered')]
      BY <2>3, <3>2 DEF Accept, TypeOK
    <3>4. Begins(c)
      BY <3>1, <3>2, <3>3 DEF Begins
    <3>5. QED
      BY <2>3, <3>4 DEF Moves
  <2>4. QED
    BY <1>2, <2>1, <2>2, <2>3
<1>3. ASSUME NEW c \in Consumers, Work(c) \/ Forget(c) \/ Crash(c), e # c
      PROVE  Moves(e)
  <2>1. \/ UNCHANGED task
        \/ \E t : task' = [task EXCEPT ![c] = t]
    BY <1>3 DEF Work, Upsert, UpsertFault, Get, GetFault, Create, CreateFault,
       Insert, InsertFault, GiveUp, Forget, Expire, Crash, Got, Advance, Drop,
       Finish, Retry
  <2>2. QED
    BY <1>3, <2>1 DEF TypeOK, Moves
<1>4. ASSUME Finish(e) PROVE Moves(e)
  BY <1>4, FinishEnds DEF Moves
<1>5. ASSUME Upsert(e) PROVE Moves(e)
  BY <1>4, <1>5 DEF Upsert, Drop, Moves, Upserted
<1>6. ASSUME Get(e) \/ GetFault(e) PROVE Moves(e)
  <2>1. CASE Get(e)
    BY <2>1 DEF Get, tables, Moves, LookedUp
  <2>2. CASE GetFault(e)
    BY <2>2 DEF GetFault, tables, Moves, LookedUp
  <2>3. QED
    BY <1>6, <2>1, <2>2
<1>7. ASSUME Create(e) PROVE Moves(e)
  BY <1>4, <1>7 DEF Create, Drop, Moves, Created
<1>8. ASSUME Insert(e) PROVE Moves(e)
  BY <1>4, <1>8 DEF Insert, Inserting, Moves, Retried
<1>9. ASSUME InsertFault(e) PROVE Moves(e)
  BY <1>9 DEF InsertFault, Inserting, Moves, Retried
<1>10. ASSUME UpsertFault(e) \/ CreateFault(e) \/ GiveUp(e) \/ Crash(e)
       PROVE  Moves(e)
  BY <1>4, <1>10 DEF UpsertFault, CreateFault, GiveUp, Crash, Drop
<1>11. ASSUME Forget(e) PROVE Moves(e)
  BY <1>11 DEF Forget, Expire, Moves
<1>12. QED
  BY <1>1, <1>2, <1>3, <1>5, <1>6, <1>7, <1>8, <1>9, <1>10, <1>11
     DEF Next, Receive, Work

\* Payloads are written by upserts only, lookup entries by creations only.
LEMMA WhoWrites ==
    ASSUME [Next]_vars
    PROVE  \/ UNCHANGED <<payloads, lookups>>
           \/ UNCHANGED lookups
              /\ \E c \in Consumers : Upsert(c) \/ UpsertFault(c)
           \/ UNCHANGED payloads
              /\ \E c \in Consumers : Create(c) \/ CreateFault(c)
<1>1. ASSUME NEW c \in Consumers, Receive(c)
      PROVE  UNCHANGED <<payloads, lookups>>
  BY <1>1 DEF Receive, Refuse, Accept, tables
<1>2. ASSUME NEW c \in Consumers,
             Get(c) \/ GetFault(c) \/ GiveUp(c) \/ Forget(c) \/ Crash(c)
      PROVE  UNCHANGED <<payloads, lookups>>
  BY <1>2 DEF Get, GetFault, GiveUp, Forget, Expire, Crash, tables
<1>3. ASSUME NEW c \in Consumers, Insert(c) \/ InsertFault(c)
      PROVE  UNCHANGED <<payloads, lookups>>
  BY <1>3 DEF Insert, InsertFault, OtherThanStatuses
<1>4. ASSUME NEW c \in Consumers, Upsert(c) \/ UpsertFault(c)
      PROVE  UNCHANGED lookups
  BY <1>4 DEF Upsert, UpsertFault, OtherThanPayloads
<1>5. ASSUME NEW c \in Consumers, Create(c) \/ CreateFault(c)
      PROVE  UNCHANGED payloads
  BY <1>5 DEF Create, CreateFault, OtherThanLookups
<1>6. UNCHANGED vars => UNCHANGED <<payloads, lookups>>
  BY DEF vars, tables
<1>7. QED
  BY <1>1, <1>2, <1>3, <1>4, <1>5, <1>6 DEF Next, Work

\* No step takes a payload or a lookup entry away or renames it.
LEMMA KeptStep ==
    ASSUME TypeOK, CallsOK, [Next]_vars
    PROVE  PayloadsKept /\ LookupsKept
<1>1. ASSUME NEW c \in Consumers, task[c].pc # "idle"
      PROVE  task[c].msg \in Message /\ task[c].kind \in Kinds
             /\ task[c].msg.names[task[c].kind] \in Names
  BY <1>1, CallMessage DEF CallsOK, TypeOK, Task, Message
<1>2. UNCHANGED payloads => PayloadsKept
  BY DEF PayloadsKept
<1>3. UNCHANGED lookups => LookupsKept
  BY DEF LookupsKept
<1>4. ASSUME NEW c \in Consumers, Upsert(c) \/ UpsertFault(c)
      PROVE  PayloadsKept /\ UNCHANGED lookups
  <2>1. task[c].msg \in Message
    BY <1>1, <1>4 DEF Upsert, UpsertFault
  <2>2. \/ UNCHANGED payloads
        \/ ~UpsertRejected(task[c].msg) /\ UpsertPayloadByRequestId(task[c].msg)
    BY <1>4 DEF Upsert, UpsertFault
  <2>3. UNCHANGED lookups
    BY <1>4 DEF Upsert, UpsertFault, OtherThanPayloads
  <2>4. QED
    BY <1>2, <2>1, <2>2, <2>3, UpsertTable
<1>5. ASSUME NEW c \in Consumers, Create(c) \/ CreateFault(c)
      PROVE  LookupsKept /\ UNCHANGED payloads
  <2> DEFINE k == task[c].kind
             n == task[c].msg.names[k]
  <2>1. k \in Kinds /\ n \in Names
    BY <1>1, <1>5 DEF Create, CreateFault
  <2>2. UNCHANGED lookups \/ (~EntryRejected(k, n) /\ CreateTableEntry(k, n))
    BY <1>5 DEF Create, CreateFault
  <2>3. UNCHANGED payloads
    BY <1>5 DEF Create, CreateFault, OtherThanLookups
  <2>4. QED
    BY <1>3, <2>1, <2>2, <2>3, CreateTable
<1>6. \/ UNCHANGED <<payloads, lookups>>
      \/ \E c \in Consumers : Upsert(c) \/ UpsertFault(c)
      \/ \E c \in Consumers : Create(c) \/ CreateFault(c)
  BY WhoWrites
<1>7. QED
  BY <1>2, <1>3, <1>4, <1>5, <1>6

-----------------------------------------------------------------------------
(***************************************************************************)
(* What a call has learnt is true.  The payload it upserted is its         *)
(* request's; each reference it holds is a row with its message's name;    *)
(* and it reaches the insert only with every reference it needs.           *)
(***************************************************************************)
PayloadTrue(t) ==
    t.pc \notin {"idle", "upsert"} =>
        /\ t.payload \in DOMAIN payloads
        /\ payloads[t.payload].request = t.msg.request

RefsTrue(t) ==
    \A k \in Kinds : t.refs[k] # NoId =>
        /\ t.refs[k] \in DOMAIN lookups[k]
        /\ lookups[k][t.refs[k]] = t.msg.names[k]

AtSource(t) == t.pc \in {"get", "create"} /\ t.kind = "source"

Placed(t) ==
    /\ t.pc \in {"idle", "upsert"} => t.refs = NoRefs
    /\ t.pc # "idle" /\ t.msg.names["source"] = Blank => t.refs["source"] = NoId
    /\ AtSource(t) => t.msg.names["source"] # Blank
    /\ AtSource(t) \/ t.pc = "insert" => /\ t.refs["status"] # NoId
                                         /\ t.refs["service"] # NoId
    /\ t.pc = "insert" /\ t.msg.names["source"] # Blank => t.refs["source"] # NoId

Gathered(t) == RefsTrue(t) /\ Placed(t)

CallTrue(t) == PayloadTrue(t) /\ Gathered(t)

AllGathered == \A c \in Consumers : Gathered(task[c])

CallsTrue == \A c \in Consumers : CallTrue(task[c])

SourceAgrees(t) == t.msg.names["source"] = Blank => t.refs["source"] = NoId

HasStatusAndService(t) == t.refs["status"] # NoId /\ t.refs["service"] # NoId

\* A call may move to a statement when it holds what that statement needs,
LEMMA AtPlaced ==
    ASSUME NEW t \in Task, NEW pc \in {"get", "create", "insert"}, NEW k \in Kinds,
           SourceAgrees(t),
           pc = "insert" \/ k = "source" => HasStatusAndService(t),
           pc # "insert" /\ k = "source" => t.msg.names["source"] # Blank,
           pc = "insert" /\ t.msg.names["source"] # Blank => t.refs["source"] # NoId
    PROVE  Placed(At(t, pc, k))
<1> DEFINE u == At(t, pc, k)
<1>1. pc \in Steps
  BY DEF Steps
<1>2. u.pc = pc /\ u.kind = k /\ u.msg = t.msg /\ u.refs = t.refs
  BY <1>1, AtIsTask
<1> HIDE DEF u
<1>3. Placed(u)
  BY <1>2 DEF Placed, AtSource, SourceAgrees, HasStatusAndService
<1>4. QED
  BY <1>3 DEF u

\* ... which it does once status and service were read,
LEMMA AfterStatusAndServicePlaced ==
    ASSUME NEW t \in Task, SourceAgrees(t)
    PROVE  Placed(AfterStatusAndService(t))
<1>1. Placed(At(t, "create", "status"))
  BY AtPlaced DEF Kinds
<1>2. Placed(At(t, "create", "service"))
  BY AtPlaced DEF Kinds
<1>3. HasStatusAndService(t) /\ t.msg.names["source"] # Blank
        => Placed(At(t, "get", "source"))
  BY AtPlaced DEF Kinds
<1>4. /\ HasStatusAndService(t)
      /\ t.msg.names["source"] # Blank => t.refs["source"] # NoId
      => Placed(At(t, "insert", "source"))
  BY AtPlaced DEF Kinds
<1>5. QED
  BY <1>1, <1>2, <1>3, <1>4 DEF AfterStatusAndService, HasStatusAndService

\* ... and after any lookup.
LEMMA AfterGetPlaced ==
    ASSUME NEW t \in Task, SourceAgrees(t),
           t.kind = "source" => /\ t.msg.names["source"] # Blank
                                /\ HasStatusAndService(t)
    PROVE  Placed(AfterGet(t))
<1>1. Placed(At(t, "get", "service"))
  BY AtPlaced DEF Kinds
<1>2. t.kind = "source" => Placed(At(t, "create", "source"))
  BY AtPlaced DEF Kinds
<1>3. t.kind = "source" /\ t.refs["source"] # NoId => Placed(At(t, "insert", "source"))
  BY AtPlaced DEF Kinds
<1>4. t.kind \in {"status", "service", "source"}
  BY DEF Task, Kinds
<1>5. QED
  BY <1>1, <1>2, <1>3, <1>4, AfterStatusAndServicePlaced DEF AfterGet

\* A SELECT that finds a row finds one of that name,
LEMMA FoundIsNamed ==
    ASSUME TypeOK, NEW k \in Kinds, NEW n \in Names, GetFromDB(k, n) # NoId
    PROVE  /\ GetFromDB(k, n) \in DOMAIN lookups[k]
           /\ lookups[k][GetFromDB(k, n)] = n
BY DEF GetFromDB, RowsNamed

\* ... and so does a coherent cache.
LEMMA CachedIsNamed ==
    ASSUME TypeOK, CacheCoherent, NEW c \in Consumers, task[c].kind \in Kinds,
           task[c].msg.names[task[c].kind] \in Names, Cached(c) # NoId
    PROVE  /\ Cached(c) \in DOMAIN lookups[task[c].kind]
           /\ lookups[task[c].kind][Cached(c)] = task[c].msg.names[task[c].kind]
BY DEF Cached, CacheCoherent

\* A call that learnt one more reference, and went on.
LEMMA OneMoreRef ==
    ASSUME LookupsKept, NEW t \in Task, Gathered(t),
           t.pc \in {"get", "create"},
           NEW id \in Nat,
           id # NoId => /\ id \in DOMAIN lookups'[t.kind]
                        /\ lookups'[t.kind][id] = t.msg.names[t.kind],
           NEW u, Continues([t EXCEPT !.refs[t.kind] = id], u),
           Placed(u)
    PROVE  Gathered(u)'
<1> DEFINE v == [t EXCEPT !.refs[t.kind] = id]
<1>1. t.kind \in Kinds /\ t.refs \in [Kinds -> Nat]
  BY DEF Task
<1>2. /\ v.msg = t.msg /\ v.payload = t.payload
      /\ v.refs = [t.refs EXCEPT ![t.kind] = id]
  BY <1>1, RefIsTask
<1> HIDE DEF v
<1>3. /\ u.msg = t.msg /\ u.payload = t.payload
      /\ u.refs = [t.refs EXCEPT ![t.kind] = id]
  BY <1>2 DEF Continues, SameCall, v
<1>4. RefsTrue(u)'
  <2>1. \A k \in Kinds : t.refs[k] # NoId =>
           /\ t.refs[k] \in DOMAIN lookups'[k]
           /\ lookups'[k][t.refs[k]] = t.msg.names[k]
    BY DEF Gathered, RefsTrue, LookupsKept
  <2>2. QED
    BY <1>1, <1>3, <2>1 DEF RefsTrue
<1>5. QED
  BY <1>4 DEF Gathered, Placed, AtSource

\* The names a call has gathered stay true of the tables while others write.
LEMMA GatheredStep ==
    ASSUME TypeOK, CallsOK, AllGathered, CacheCoherent, [Next]_vars
    PROVE  AllGathered'
<1> SUFFICES ASSUME NEW c \in Consumers PROVE Gathered(task[c])'
  BY DEF AllGathered
<1> DEFINE t == task[c]
<1>1. LookupsKept /\ Moves(c)
  BY KeptStep, MovesStep
<1>2. t \in Task /\ Gathered(t) /\ RefsTrue(t) /\ Placed(t)
  BY DEF TypeOK, AllGathered, Gathered
<1>3. t.pc # "idle" => /\ t.msg \in Message /\ t.kind \in Kinds
                       /\ t.msg.names[t.kind] \in Names
                       /\ t.delivery \in Deliveries
  BY <1>2, CallMessage DEF CallsOK, Task, Message
<1>4. CASE task'[c] = t
  <2>1. RefsTrue(t)'
    BY <1>1, <1>2, <1>4 DEF LookupsKept, RefsTrue
  <2>2. Placed(t)'
    BY <1>2, <1>4 DEF Placed, AtSource
  <2>3. QED
    BY <2>1, <2>2 DEF Gathered
<1>5. CASE Ends(c)
  <2>1. task'[c].pc = "idle" /\ task'[c].refs = NoRefs
    BY <1>5 DEF Ends, Idle
  <2>2. QED
    BY <2>1 DEF Gathered, RefsTrue, Placed, AtSource, NoRefs, Kinds
<1>6. CASE Begins(c)
  <2>1. task'[c].pc = "upsert" /\ task'[c].refs = NoRefs
    BY <1>6 DEF Begins, Idle
  <2>2. QED
    BY <2>1 DEF Gathered, RefsTrue, Placed, AtSource, NoRefs, Kinds
<1>7. CASE Upserted(c)
  <2> DEFINE u == [At(t, "get", "status") EXCEPT !.payload = UpsertedId(t.msg)]
  <2>1. /\ t.pc = "upsert" /\ t.msg \in Message
        /\ UpsertPayloadByRequestId(t.msg) /\ ~UpsertRejected(t.msg)
        /\ Advance(c, u)
    BY <1>3, <1>7 DEF Upserted
  <2>2. /\ UpsertedId(t.msg) \in DOMAIN payloads'
        /\ payloads'[UpsertedId(t.msg)].request = t.msg.request
        /\ UpsertedId(t.msg) \in Nat
    BY <2>1, UpsertTable
  <2>3. /\ u.pc = "get" /\ u.kind = "status" /\ u.msg = t.msg
        /\ u.payload = UpsertedId(t.msg) /\ u.refs = t.refs
    BY <1>2 DEF At, Task
  <2>4. task'[c] = u
    BY <2>1 DEF Advance, TypeOK
  <2>5. t.refs = NoRefs
    BY <1>2, <2>1 DEF Placed
  <2> HIDE DEF u
  <2>6. QED
    BY <2>2, <2>3, <2>4, <2>5 DEF Gathered, RefsTrue, Placed,
       AtSource, NoRefs, Kinds
<1>8. CASE LookedUp(c)
  <2>1. t.pc = "get" /\ UNCHANGED lookups
    BY <1>8 DEF LookedUp
  <2>2. PICK id \in {NoId, Cached(c), GetFromDB(t.kind, t.msg.names[t.kind])} : Got(c, id)
    BY <1>8 DEF LookedUp
  <2>3. id # NoId => /\ id \in DOMAIN lookups[t.kind]
                     /\ lookups[t.kind][id] = t.msg.names[t.kind]
    BY <1>3, <2>1, <2>2, CachedIsNamed, FoundIsNamed
  <2>4. id \in Nat
    BY <1>3, <2>1, <2>3 DEF TypeOK, TablesTypeOK, IsTable, NoId
  <2> DEFINE v == [t EXCEPT !.refs[t.kind] = id]
  <2>5. /\ v \in Task /\ v.msg = t.msg /\ v.kind = t.kind
        /\ v.refs = [t.refs EXCEPT ![t.kind] = id]
    BY <1>2, <1>3, <2>1, <2>4, RefIsTask
  <2>6. Advance(c, AfterGet(v))
    BY <2>2 DEF Got
  <2>7. task'[c] = AfterGet(v)
    BY <2>6 DEF Advance, TypeOK
  <2>8. Continues(v, AfterGet(v))
    BY <2>5, AfterGetContinues
  <2>9. Placed(AfterGet(v))
    <3>1. /\ t.kind = "source" => /\ t.msg.names["source"] # Blank
                                  /\ t.refs["status"] # NoId
                                  /\ t.refs["service"] # NoId
          /\ t.msg.names["source"] = Blank => t.refs["source"] = NoId
      BY <1>2, <2>1 DEF Placed, AtSource
    <3>2. t.refs \in [Kinds -> Nat] /\ t.kind \in Kinds
      BY <1>2 DEF Task
    <3> HIDE DEF v
    <3>3. /\ v.kind = "source" => /\ v.msg.names["source"] # Blank
                                  /\ HasStatusAndService(v)
          /\ SourceAgrees(v)
      BY <2>5, <3>1, <3>2 DEF HasStatusAndService, SourceAgrees, Kinds
    <3>4. QED
      BY <2>5, <3>3, AfterGetPlaced
  <2>10. ASSUME NEW u, u = task'[c] PROVE Gathered(u)'
    BY <1>1, <1>2, <2>1, <2>3, <2>4, <2>7, <2>8, <2>9, <2>10, OneMoreRef
  <2>11. QED
    BY <2>10 DEF Gathered, RefsTrue, Placed, AtSource
<1>9. CASE Created(c)
  <2> DEFINE id == EntryId(t.kind)
             v == [t EXCEPT !.refs[t.kind] = id]
  <2>1. /\ t.pc = "create"
        /\ ~EntryRejected(t.kind, t.msg.names[t.kind])
        /\ CreateTableEntry(t.kind, t.msg.names[t.kind])
        /\ Advance(c, AfterCreate(v))
    BY <1>9 DEF Created
  <2>2. /\ id \in Nat \ {NoId}
        /\ id \in DOMAIN lookups'[t.kind]
        /\ lookups'[t.kind][id] = t.msg.names[t.kind]
    BY <1>3, <2>1, CreateTable
  <2>3. /\ v \in Task /\ v.msg = t.msg
        /\ v.refs = [t.refs EXCEPT ![t.kind] = id]
    BY <1>2, <1>3, <2>1, <2>2, RefIsTask
  <2>4. task'[c] = AfterCreate(v)
    BY <2>1 DEF Advance, TypeOK
  <2>5. Continues(v, AfterCreate(v))
    BY <2>3, AfterStatusAndServiceContinues DEF AfterCreate
  <2>6. Placed(AfterCreate(v))
    <3>1. /\ t.kind = "source" => t.msg.names["source"] # Blank
          /\ t.msg.names["source"] = Blank => t.refs["source"] = NoId
      BY <1>2, <2>1 DEF Placed, AtSource
    <3>2. t.refs \in [Kinds -> Nat] /\ t.kind \in Kinds
      BY <1>2 DEF Task
    <3> HIDE DEF v, id
    <3>3. SourceAgrees(v)
      BY <2>3, <3>1, <3>2 DEF SourceAgrees, Kinds
    <3>4. QED
      BY <2>3, <3>3, AfterStatusAndServicePlaced DEF AfterCreate
  <2>7. ASSUME NEW u, u = task'[c] PROVE Gathered(u)'
    BY <1>1, <1>2, <2>1, <2>2, <2>4, <2>5, <2>6, <2>7, OneMoreRef
  <2>8. QED
    BY <2>7 DEF Gathered, RefsTrue, Placed, AtSource
<1>10. CASE Retried(c)
  <2>1. t.pc = "insert" /\ t.statusId \in Nat /\ InsertId(t) \in Nat
    BY <1>2, <1>10 DEF Retried, InsertId, Task, TypeOK, TablesTypeOK
  <2>2. PICK id \in Nat : Retry(c, id)
    BY <1>10, <2>1 DEF Retried
  <2>3. task'[c] = [t EXCEPT !.attempts = @ + 1, !.statusId = id]
    BY <2>2, RetryType
  <2>4. /\ task'[c].pc = t.pc /\ task'[c].kind = t.kind
        /\ task'[c].msg = t.msg /\ task'[c].refs = t.refs
        /\ task'[c].payload = t.payload
    BY <1>2, <2>3 DEF Task
  <2>5. RefsTrue(task[c])'
    BY <1>1, <1>2, <2>4 DEF RefsTrue, LookupsKept
  <2>6. Placed(task[c])'
    BY <1>2, <2>4 DEF Placed, AtSource
  <2>7. QED
    BY <2>5, <2>6 DEF Gathered
<1>11. QED
  BY <1>1, <1>4, <1>5, <1>6, <1>7, <1>8, <1>9, <1>10 DEF Moves

\* Where a call's payload comes from: its own upsert, and then it stays.
LEMMA PayloadMoves ==
    ASSUME TypeOK, CallsOK, NEW c \in Consumers, Moves(c),
           task'[c].pc \notin {"idle", "upsert"}
    PROVE  /\ task'[c].msg = task[c].msg /\ task'[c].delivery = task[c].delivery
           /\ \/ /\ task[c].pc \notin {"idle", "upsert"}
                 /\ task'[c].payload = task[c].payload
              \/ /\ task[c].pc = "upsert" /\ task[c].msg \in Message
                 /\ ~UpsertRejected(task[c].msg)
                 /\ UpsertPayloadByRequestId(task[c].msg)
                 /\ task'[c].payload = UpsertedId(task[c].msg)
<1> DEFINE t == task[c]
<1>1. t \in Task
  BY DEF TypeOK
<1>2. t.pc # "idle" => /\ t.msg \in Message /\ t.kind \in Kinds
                       /\ t.msg.names[t.kind] \in Names
  BY <1>1, CallMessage DEF CallsOK, Task, Message
<1>3. ~Ends(c) /\ ~Begins(c)
  <2>1. ~Ends(c)
    BY DEF Ends, Idle
  <2>2. ~Begins(c)
    <3> SUFFICES ASSUME NEW m \in Message,
                        task'[c] = [Idle EXCEPT !.pc = "upsert", !.msg = sanitizePayload(m),
                                                !.delivery = Len(delivered')]
                 PROVE  FALSE
      BY DEF Begins
    <3> QED
      BY DEF Idle
  <2> QED
    BY <2>1, <2>2
<1>4. CASE Upserted(c)
  <2> DEFINE u == [At(t, "get", "status") EXCEPT !.payload = UpsertedId(t.msg)]
  <2>1. t.pc = "upsert" /\ task'[c] = u
    BY <1>4 DEF Upserted, Advance, TypeOK
  <2>2. u.payload = UpsertedId(t.msg) /\ u.msg = t.msg /\ u.delivery = t.delivery
    BY <1>1 DEF At, Task
  <2> HIDE DEF u
  <2>3. task'[c].payload = UpsertedId(t.msg) /\ task'[c].msg = t.msg
        /\ task'[c].delivery = t.delivery
    BY <2>1, <2>2
  <2> QED
    BY <1>2, <1>4, <2>1, <2>3 DEF Upserted
<1>5. CASE LookedUp(c)
  <2>1. PICK id \in {NoId, Cached(c), GetFromDB(t.kind, t.msg.names[t.kind])} : Got(c, id)
    BY <1>5 DEF LookedUp
  <2>2. t.pc = "get"
    BY <1>5 DEF LookedUp
  <2>3. id \in Nat
    <3>0. cache \in [Consumers -> [Kinds -> [Names -> Nat]]]
      BY DEF TypeOK
    <3>1. Cached(c) \in Nat
      BY <1>2, <2>2, <3>0 DEF Cached, NoId
    <3>2. GetFromDB(t.kind, t.msg.names[t.kind]) \in Nat
      BY <1>2, <2>2 DEF GetFromDB, RowsNamed, TypeOK, TablesTypeOK, IsTable, NoId
    <3> QED
      BY <2>1, <3>1, <3>2 DEF NoId
  <2> DEFINE v == [t EXCEPT !.refs[t.kind] = id]
  <2>4. v \in Task /\ v.msg = t.msg /\ v.payload = t.payload /\ v.delivery = t.delivery
    BY <1>1, <1>2, <2>2, <2>3, RefIsTask
  <2>5. task'[c] = AfterGet(v)
    BY <2>1 DEF Got, Advance, TypeOK
  <2> HIDE DEF v
  <2>6. Continues(v, AfterGet(v))
    BY <2>4, AfterGetContinues
  <2> QED
    BY <2>2, <2>4, <2>5, <2>6 DEF Continues, SameCall
<1>6. CASE Created(c)
  <2> DEFINE v == [t EXCEPT !.refs[t.kind] = EntryId(t.kind)]
  <2>1. t.pc = "create" /\ task'[c] = AfterCreate(v)
    BY <1>6 DEF Created, Advance, TypeOK
  <2>2. EntryId(t.kind) \in Nat
    BY <1>2, <2>1 DEF EntryId, TypeOK, TablesTypeOK
  <2>3. v \in Task /\ v.msg = t.msg /\ v.payload = t.payload /\ v.delivery = t.delivery
    BY <1>1, <1>2, <2>1, <2>2, RefIsTask
  <2> HIDE DEF v
  <2>4. Continues(v, AfterCreate(v))
    BY <2>3, AfterStatusAndServiceContinues DEF AfterCreate
  <2> QED
    BY <2>1, <2>3, <2>4 DEF Continues, SameCall
<1>7. CASE Retried(c)
  <2>1. t.pc = "insert" /\ t.statusId \in Nat /\ InsertId(t) \in Nat
    BY <1>1, <1>7 DEF Retried, InsertId, Task, TypeOK, TablesTypeOK
  <2>2. PICK id \in Nat : Retry(c, id)
    BY <1>7, <2>1 DEF Retried
  <2>3. task'[c] = [t EXCEPT !.attempts = @ + 1, !.statusId = id]
    BY <2>2, RetryType
  <2> QED
    BY <1>1, <2>1, <2>3 DEF Task
<1> QED
  BY <1>3, <1>4, <1>5, <1>6, <1>7 DEF Moves

\* What a call has gathered, its payload included, stays true.
LEMMA CallsTrueStep ==
    ASSUME TypeOK, CallsOK, CallsTrue, CacheCoherent, [Next]_vars
    PROVE  CallsTrue'
<1>1. AllGathered'
  BY GatheredStep DEF CallsTrue, CallTrue, AllGathered
<1>2. ASSUME NEW c \in Consumers, task'[c].pc \notin {"idle", "upsert"}
      PROVE  /\ task'[c].payload \in DOMAIN payloads'
             /\ payloads'[task'[c].payload].request = task'[c].msg.request
  <2>1. PayloadTrue(task[c])
    BY DEF CallsTrue, CallTrue
  <2>2. PayloadsKept /\ Moves(c)
    BY KeptStep, MovesStep
  <2>3. CASE /\ task[c].pc \notin {"idle", "upsert"}
             /\ task'[c].payload = task[c].payload /\ task'[c].msg = task[c].msg
    BY <2>1, <2>2, <2>3 DEF PayloadTrue, PayloadsKept
  <2>4. CASE /\ task[c].msg \in Message /\ ~UpsertRejected(task[c].msg)
             /\ UpsertPayloadByRequestId(task[c].msg)
             /\ task'[c].payload = UpsertedId(task[c].msg) /\ task'[c].msg = task[c].msg
    BY <2>4, UpsertTable
  <2> QED
    BY <1>2, <2>2, <2>3, <2>4, PayloadMoves
<1> QED
  BY <1>1, <1>2 DEF AllGathered, CallsTrue, CallTrue, PayloadTrue

-----------------------------------------------------------------------------
(***************************************************************************)
(* A request has one payload row: the upsert adds one only when there is   *)
(* none, in the same statement.                                            *)
(***************************************************************************)
RequestsUnique ==
    \A i, j \in DOMAIN payloads : payloads[i].request = payloads[j].request => i = j

\* ON CONFLICT keeps one payload per request.
LEMMA RequestsUniqueStep ==
    ASSUME TypeOK, CallsOK, RequestsUnique, [Next]_vars
    PROVE  RequestsUnique'
<1>1. CASE UNCHANGED payloads
  BY <1>1 DEF RequestsUnique
<1>2. ASSUME NEW c \in Consumers, task[c].pc = "upsert",
             ~UpsertRejected(task[c].msg), UpsertPayloadByRequestId(task[c].msg)
      PROVE  RequestsUnique'
  <2> DEFINE m == task[c].msg
             id == UpsertedId(m)
  <2>1. m \in Message
    BY <1>2, CallMessage DEF CallsOK
  <2>2. /\ DOMAIN payloads' = DOMAIN payloads \cup {id}
        /\ payloads'[id].request = m.request
        /\ PayloadsKept
    BY <1>2, <2>1, UpsertTable
  <2>3. ASSUME NEW i \in DOMAIN payloads, payloads[i].request = m.request
        PROVE  i = id
    BY <2>3 DEF UpsertedId, RowsOfRequest, RequestsUnique
  <2> HIDE DEF id, m
  <2>4. ASSUME NEW i \in DOMAIN payloads', i # id
        PROVE  i \in DOMAIN payloads /\ payloads'[i].request = payloads[i].request
    BY <2>2, <2>4 DEF PayloadsKept
  <2>5. \A i \in DOMAIN payloads' :
            payloads'[i].request = payloads'[id].request => i = id
    BY <2>2, <2>3, <2>4
  <2>6. QED
    BY <2>4, <2>5 DEF RequestsUnique
<1>3. CASE \E c \in Consumers : Upsert(c) \/ UpsertFault(c)
  BY <1>1, <1>2, <1>3 DEF Upsert, UpsertFault
<1>4. QED
  BY <1>1, <1>3, WhoWrites

-----------------------------------------------------------------------------
\* Caches stay coherent: entries are added from the tables only, and the
\* tables lose none.
LEMMA CacheCoherentStep ==
    ASSUME TypeOK, CallsOK, CacheCoherent, [Next]_vars
    PROVE  CacheCoherent'
<1>1. LookupsKept
  BY KeptStep
<1>2. CASE UNCHANGED cache
  BY <1>1, <1>2 DEF CacheCoherent, LookupsKept
<1>3. ASSUME NEW c \in Consumers, Get(c), cache' # cache
      PROVE  CacheCoherent'
  <2> DEFINE k == task[c].kind
             n == task[c].msg.names[k]
             id == GetFromDB(k, n)
  <2>1. k \in Kinds /\ n \in Names
    BY <1>3, CallMessage DEF Get, CallsOK, TypeOK, Task, Message
  <2>2. Remember(c, id) /\ UNCHANGED lookups
    BY <1>3 DEF Get, tables
  <2>3. cache' = [cache EXCEPT ![c][k][n] = id]
    BY <1>3, <2>2 DEF Remember
  <2>4. id # NoId => id \in DOMAIN lookups[k] /\ lookups[k][id] = n
    BY <2>1, FoundIsNamed
  <2>5. cache \in [Consumers -> [Kinds -> [Names -> Nat]]]
    BY DEF TypeOK
  <2> HIDE DEF id, k, n
  <2>6. ASSUME NEW e \in Consumers, NEW j \in Kinds, NEW m \in Names,
               cache'[e][j][m] # NoId
        PROVE  /\ cache'[e][j][m] \in DOMAIN lookups[j]
               /\ lookups[j][cache'[e][j][m]] = m
    <3>1. CASE e = c /\ j = k /\ m = n
      BY <2>1, <2>3, <2>4, <2>5, <2>6, <3>1
    <3>2. CASE ~(e = c /\ j = k /\ m = n)
      BY <2>1, <2>3, <2>5, <2>6, <3>2 DEF CacheCoherent
    <3>3. QED
      BY <3>1, <3>2
  <2>7. QED
    BY <2>2, <2>6 DEF CacheCoherent
<1>4. ASSUME \A e \in Consumers, j \in Kinds, m \in Names :
                cache'[e][j][m] \in {NoId, cache[e][j][m]}
      PROVE  CacheCoherent'
  BY <1>1, <1>4 DEF CacheCoherent, LookupsKept
<1>5. ASSUME NEW c \in Consumers, NEW k \in Kinds, NEW n \in Names, Expire(c, k, n)
      PROVE  CacheCoherent'
  BY <1>4, <1>5 DEF Expire, TypeOK
<1>6. ASSUME NEW c \in Consumers, Crash(c)
      PROVE  CacheCoherent'
  BY <1>4, <1>6 DEF Crash, EmptyCache, TypeOK
<1>7. QED
  BY <1>2, <1>3, <1>5, <1>6 DEF Next, Receive, Refuse, Accept, Work, Upsert,
     UpsertFault, GetFault, Create, CreateFault, Insert, InsertFault, GiveUp,
     Forget, vars, local

-----------------------------------------------------------------------------
(***************************************************************************)
(* Stored statuses.  A step writes at most one row, for a call at the      *)
(* insert, under an id that no row had.                                    *)
(***************************************************************************)
Wrote(c) == LET t == task[c] IN
    /\ t.pc = "insert"
    /\ ~InsertRejected(InsertId(t), StatusOf(t))
    /\ InsertPayloadStatus(InsertId(t), StatusOf(t))
    /\ Finish(c) \/ Retry(c, InsertId(t))
    /\ UNCHANGED <<payloads, lookups, delivered>>

\* Every row was stored for an accepted message.
RowsAccepted ==
    \A id \in DOMAIN statuses :
        /\ statuses[id].delivery \in Known
        /\ Accepted(delivered[statuses[id].delivery].msg)

\* Only an insert changes payload_statuses.
LEMMA StatusesStep ==
    ASSUME [Next]_vars
    PROVE  UNCHANGED statuses \/ \E c \in Consumers : Wrote(c)
<1>1. ASSUME NEW c \in Consumers, Insert(c) \/ InsertFault(c)
      PROVE  UNCHANGED statuses \/ Wrote(c)
  BY <1>1 DEF Insert, InsertFault, Inserting, OtherThanStatuses, Wrote
<1>2. QED
  BY <1>1 DEF Next, Receive, Refuse, Accept, Work, Upsert, UpsertFault, Get,
     GetFault, Create, CreateFault, GiveUp, Forget, Expire, Crash, vars, tables,
     OtherThanPayloads, OtherThanLookups

\* What the writing step leaves: one row more, the others as they were.
LEMMA WroteRow ==
    ASSUME TypeOK, CallsOK, NEW c \in Consumers, Wrote(c)
    PROVE  /\ InsertId(task[c]) \in Nat \ {NoId}
           /\ InsertId(task[c]) \notin DOMAIN statuses
           /\ DOMAIN statuses' = DOMAIN statuses \cup {InsertId(task[c])}
           /\ statuses'[InsertId(task[c])] = StatusOf(task[c])
           /\ \A i \in DOMAIN statuses : statuses'[i] = statuses[i]
<1> DEFINE id == InsertId(task[c])
           row == StatusOf(task[c])
<1>1. row \in StatusRow /\ id \in Nat \ {NoId}
  BY CallStatusRow DEF Wrote, CallsOK
<1>2. IsTable(statuses, StatusRow)
  BY DEF TypeOK, TablesTypeOK
<1>3. statuses' = WithRow(statuses, id, row) /\ id \notin DOMAIN statuses
  BY DEF Wrote, InsertPayloadStatus, InsertRejected
<1> HIDE DEF id, row
<1>4. QED
  <2>1. /\ DOMAIN statuses' = DOMAIN statuses \cup {id}
        /\ statuses'[id] = row
        /\ \A i \in DOMAIN statuses \ {id} : statuses'[i] = statuses[i]
    BY <1>1, <1>2, <1>3, WithRowTable
  <2>2. QED
    BY <1>1, <1>3, <2>1 DEF id, row

\* A row is written for the message of the call that writes it.
LEMMA RowsAcceptedStep ==
    ASSUME TypeOK, CallsOK, RowsAccepted, [Next]_vars
    PROVE  RowsAccepted'
<1>1. ASSUME NEW d \in Known, Accepted(delivered[d].msg)
      PROVE  d \in Known' /\ Accepted(delivered'[d].msg)
  <2>1. LogKept /\ TypeOK'
    BY LogKeptStep, TypeStep
  <2>2. Len(delivered) \in Nat /\ Len(delivered') \in Nat
    BY <2>1, LenProperties DEF TypeOK
  <2> QED
    BY <1>1, <2>1, <2>2 DEF LogKept, Known
<1>2. ASSUME NEW id \in DOMAIN statuses'
      PROVE  /\ statuses'[id].delivery \in Known
             /\ Accepted(delivered[statuses'[id].delivery].msg)
  <2>1. CASE id \in DOMAIN statuses /\ statuses'[id] = statuses[id]
    BY <2>1 DEF RowsAccepted
  <2>2. ASSUME NEW c \in Consumers, Wrote(c), id \notin DOMAIN statuses
        PROVE  /\ statuses'[id].delivery \in Known
               /\ Accepted(delivered[statuses'[id].delivery].msg)
    <3>1. statuses'[id] = StatusOf(task[c]) /\ task[c].pc # "idle"
      BY <2>2, WroteRow DEF Wrote
    <3>2. statuses'[id].delivery = task[c].delivery
      BY <3>1 DEF StatusOf
    <3> QED
      BY <3>1, <3>2 DEF CallsOK, CallOK
  <2> QED
    BY <2>1, <2>2, StatusesStep, WroteRow
<1> QED
  BY <1>1, <1>2 DEF RowsAccepted, Accepted

\* A call at the insert would record what its message asks for,
LEMMA RefsAsAsked ==
    ASSUME TypeOK, CallsOK, AllGathered, NEW c \in Consumers, task[c].pc = "insert"
    PROVE  LET t == task[c]
               m == delivered[t.delivery].msg
           IN  /\ t.delivery \in Known
               /\ Accepted(m)
               /\ t.msg.request = m.request
               /\ StatusOf(t).date = m.date
               /\ StatusOf(t).payload = t.payload
               /\ StatusOf(t).delivery = t.delivery
               /\ \A k \in Kinds : StandsFor(k, StatusOf(t).refs[k], m.names[k])
<1> DEFINE t == task[c]
           m == delivered[t.delivery].msg
<1>1. /\ t.delivery \in Known /\ Accepted(m) /\ t.msg = sanitizePayload(m)
      /\ Gathered(t) /\ t \in Task
  BY DEF CallsOK, CallOK, AllGathered, TypeOK
<1>2. m \in Message
  BY <1>1, DeliveredIsMessage
<1>3. /\ t.msg.request = m.request /\ t.msg.date = m.date
      /\ t.msg.names = [k \in Kinds |-> Lower[m.names[k]]]
  BY <1>1, <1>2, SanitizedIsMessage
<1>4. /\ StatusOf(t).date = m.date
      /\ StatusOf(t).payload = t.payload
      /\ StatusOf(t).delivery = t.delivery
      /\ StatusOf(t).refs = t.refs
  BY <1>3 DEF StatusOf
<1>5. ASSUME NEW k \in Kinds PROVE StandsFor(k, t.refs[k], m.names[k])
  <2>1. m.names[k] \in Names /\ "source" \in Kinds
    BY <1>2 DEF Message, Kinds
  <2>2. t.msg.names[k] = Lower[m.names[k]]
    BY <1>3
  <2>3. CASE k = "source" /\ m.names[k] = Blank
    <3>1. t.msg.names["source"] = Blank
      BY <2>1, <2>2, <2>3, LowerAssumption
    <3>2. t.refs["source"] = NoId
      BY <1>1, <3>1 DEF Gathered, Placed
    <3>3. QED
      BY <2>3, <3>2 DEF StandsFor
  <2>4. CASE k = "source" /\ m.names[k] # Blank
    <3>1. t.msg.names["source"] # Blank
      BY <2>1, <2>2, <2>4, LowerAssumption
    <3>2. t.refs["source"] # NoId
      BY <1>1, <3>1 DEF Gathered, Placed
    <3>3. QED
      BY <1>1, <2>2, <2>4, <3>2 DEF Gathered, RefsTrue, StandsFor
  <2>5. CASE k # "source"
    <3>1. t.refs[k] # NoId
      BY <1>1, <2>5 DEF Gathered, Placed, Kinds
    <3>2. QED
      BY <1>1, <2>2, <2>5, <3>1 DEF Gathered, RefsTrue, StandsFor
  <2>6. QED
    BY <2>3, <2>4, <2>5
<1>6. QED
  BY <1>1, <1>3, <1>4, <1>5

\* ... under its request, if the payload it holds is its request's.
LEMMA RowAsAsked ==
    ASSUME TypeOK, CallsOK, AllGathered, NEW c \in Consumers, PayloadTrue(task[c]),
           task[c].pc = "insert"
    PROVE  /\ task[c].delivery \in Known
           /\ Accepted(delivered[task[c].delivery].msg)
           /\ RowMatches(StatusOf(task[c]), delivered[task[c].delivery].msg)
BY RefsAsAsked DEF RowMatches, PayloadTrue

\* Rows keep saying what their messages said, and new ones do.
LEMMA StatusResolvesStep ==
    ASSUME TypeOK, CallsOK, AllGathered, StatusResolves, [Next]_vars,
           \A c \in Consumers : task[c].payload \in DOMAIN payloads => PayloadTrue(task[c])
    PROVE  StatusResolves'
<1>1. PayloadsKept /\ LookupsKept /\ LogKept
  BY KeptStep, LogKeptStep
<1>2. Len(delivered) \in Nat /\ Len(delivered') \in Nat
  BY TypeStep, LenProperties DEF TypeOK
<1>3. \A d \in Known : d \in Known' /\ delivered'[d] = delivered[d]
  BY <1>1, <1>2 DEF LogKept, Known
<1>4. ASSUME NEW id \in DOMAIN statuses, id \in DOMAIN statuses',
             statuses'[id] = statuses[id]
      PROVE  /\ statuses'[id].delivery \in Known'
             /\ Accepted(delivered'[statuses'[id].delivery].msg)
             /\ RowMatches(statuses[id], delivered[statuses[id].delivery].msg)'
  BY <1>1, <1>3, <1>4 DEF StatusResolves, RowMatches, StandsFor, PayloadsKept, LookupsKept
<1>5. CASE UNCHANGED statuses
  BY <1>4, <1>5 DEF StatusResolves, Accepted
<1>6. ASSUME NEW c \in Consumers, Wrote(c) PROVE StatusResolves'
  <2> DEFINE id == InsertId(task[c])
             d == task[c].delivery
  <2>1. /\ DOMAIN statuses' = DOMAIN statuses \cup {id}
        /\ statuses'[id] = StatusOf(task[c])
        /\ \A i \in DOMAIN statuses : statuses'[i] = statuses[i]
    BY <1>6, WroteRow
  <2>2. /\ d \in Known /\ Accepted(delivered[d].msg)
        /\ RowMatches(StatusOf(task[c]), delivered[d].msg)
    <3>1. task[c].payload \in DOMAIN payloads
      BY <1>6 DEF Wrote, InsertRejected, StatusOf
    <3> QED
      BY <1>6, <3>1, RowAsAsked DEF Wrote
  <2>3. StatusOf(task[c]).delivery = d
    BY DEF StatusOf
  <2>4. UNCHANGED <<payloads, lookups, delivered>>
    BY <1>6 DEF Wrote
  <2>5. ASSUME NEW i, i = id
        PROVE  /\ statuses'[i].delivery \in Known'
               /\ Accepted(delivered'[statuses'[i].delivery].msg)
               /\ RowMatches(statuses[i], delivered[statuses[i].delivery].msg)'
    <3>1. statuses'[i] = StatusOf(task[c])
      BY <2>1, <2>5
    <3> HIDE DEF id, d
    <3>2. UNCHANGED <<payloads, lookups, delivered>>
      BY <2>4
    <3>3. RowMatches(StatusOf(task[c]), delivered[d].msg)
      BY <2>2
    <3> DEFINE u == StatusOf(task[c])
    <3>4. u.delivery = d
      BY <2>3
    <3> HIDE DEF u
    <3>5. RowMatches(statuses[i], delivered[statuses[i].delivery].msg)'
      BY <3>1, <3>2, <3>3, <3>4 DEF u, RowMatches, StandsFor
    <3>6. QED
      BY <2>2, <2>3, <3>1, <3>2, <3>5 DEF Known
  <2>6. ASSUME NEW i \in DOMAIN statuses'
        PROVE  /\ statuses'[i].delivery \in Known'
               /\ Accepted(delivered'[statuses'[i].delivery].msg)
               /\ RowMatches(statuses[i], delivered[statuses[i].delivery].msg)'
    <3>1. i = id \/ i \in DOMAIN statuses
      BY <2>1, <2>6
    <3>2. CASE i \in DOMAIN statuses
      BY <1>4, <2>1, <2>6, <3>2
    <3>3. QED
      BY <2>5, <3>1, <3>2
  <2>7. QED
    BY <2>6 DEF StatusResolves, Accepted
<1>7. QED
  BY <1>5, <1>6, StatusesStep

-----------------------------------------------------------------------------
(***************************************************************************)
(* One row per delivery.  Running calls are about different deliveries,    *)
(* and a row of a running call's delivery has the id the call's struct     *)
(* holds: the next attempt inserts that id again and is rejected.          *)
(***************************************************************************)
DistinctCalls ==
    \A c, e \in Consumers :
        c # e /\ task[c].pc # "idle" => task[c].delivery # task[e].delivery

RowsOfCalls ==
    \A c \in Consumers : \A id \in DOMAIN statuses :
        task[c].pc # "idle" /\ statuses[id].delivery = task[c].delivery
            => id = task[c].statusId

\* A call's delivery number is one of those handed out.
LEMMA DeliveriesOfCalls ==
    ASSUME TypeOK, CallsOK, NEW c \in Consumers
    PROVE  /\ Len(delivered) \in Nat
           /\ task[c].delivery \in Nat
           /\ task[c].delivery <= Len(delivered)
           /\ task[c].pc = "idle" <=> task[c].delivery = 0
<1>1. Len(delivered) \in Nat
  BY LenProperties DEF TypeOK
<1>2. CASE task[c].pc = "idle"
  <2>1. task[c].delivery = 0
    BY <1>2 DEF CallsOK, CallOK, Idle
  <2>2. QED
    BY <1>1, <1>2, <2>1
<1>3. CASE task[c].pc # "idle"
  BY <1>1, <1>3 DEF CallsOK, CallOK, Known
<1>4. QED
  BY <1>1, <1>2, <1>3

\* Where a call's delivery number can come from.
LEMMA DeliveryMoves ==
    ASSUME TypeOK, CallsOK, NEW c \in Consumers, GoesOn(c) \/ Begins(c) \/ Ends(c)
    PROVE  \/ task[c].pc # "idle" /\ task'[c].delivery = task[c].delivery
           \/ task'[c].pc = "idle" /\ task'[c].delivery = 0
           \/ task'[c].delivery = Len(delivered) + 1
<1>1. CASE GoesOn(c)
  BY <1>1 DEF GoesOn
<1>2. CASE Begins(c)
  BY <1>2 DEF Begins, Idle
<1>3. CASE Ends(c)
  BY <1>3 DEF Ends, Idle
<1>4. QED
  BY <1>1, <1>2, <1>3

\* No two calls work on the same delivery.
LEMMA DistinctCallsStep ==
    ASSUME TypeOK, CallsOK, DistinctCalls, [Next]_vars
    PROVE  DistinctCalls'
<1>1. CASE UNCHANGED task
  BY <1>1 DEF DistinctCalls
<1>2. ASSUME NEW c \in Consumers,
             \A e \in Consumers \ {c} : task'[e] = task[e],
             Ends(c) \/ GoesOn(c) \/ Begins(c)
      PROVE  DistinctCalls'
  <2>1. \A e \in Consumers : /\ Len(delivered) \in Nat
                             /\ task[e].delivery \in Nat
                             /\ task[e].delivery <= Len(delivered)
                             /\ task[e].pc = "idle" <=> task[e].delivery = 0
    BY DeliveriesOfCalls
  <2>2. \/ task[c].pc # "idle" /\ task'[c].delivery = task[c].delivery
        \/ task'[c].pc = "idle" /\ task'[c].delivery = 0
        \/ task'[c].delivery = Len(delivered) + 1
    BY <1>2, DeliveryMoves
  <2>3. ASSUME NEW e \in Consumers \ {c}
        PROVE  /\ task'[e].pc # "idle" => task'[e].delivery # task'[c].delivery
               /\ task'[c].pc # "idle" => task'[c].delivery # task'[e].delivery
    <3>1. task'[e] = task[e]
      BY <1>2
    <3>2. CASE task[c].pc # "idle" /\ task'[c].delivery = task[c].delivery
      BY <2>1, <2>3, <3>1, <3>2 DEF DistinctCalls
    <3>3. CASE task'[c].pc = "idle" /\ task'[c].delivery = 0
      BY <2>1, <3>1, <3>3
    <3>4. CASE task'[c].delivery = Len(delivered) + 1
      BY <2>1, <3>1, <3>4
    <3>5. QED
      BY <2>2, <3>2, <3>3, <3>4
  <2>4. QED
    BY <1>2, <2>3 DEF DistinctCalls
<1>3. QED
  BY <1>1, <1>2, OneCallMovesStep DEF OneCallMoves

\* An attempt keeps the id of its struct, or fixes it when there was none.
LEMMA WorkGoesOn ==
    ASSUME TypeOK, CallsOK, NEW c \in Consumers,
           Upserted(c) \/ LookedUp(c) \/ Created(c) \/ Retried(c)
    PROVE  /\ GoesOn(c)
           /\ task'[c].statusId = task[c].statusId \/ task[c].statusId = NoId
<1> DEFINE t == task[c]
<1>1. t \in Task
  BY DEF TypeOK
<1>2. t.pc # "idle" => /\ t.msg \in Message /\ t.kind \in Kinds
                       /\ t.msg.names[t.kind] \in Names
  BY <1>1, CallMessage DEF CallsOK, Task, Message
<1>3. CASE Upserted(c)
  <2> DEFINE u == [At(t, "get", "status") EXCEPT !.payload = UpsertedId(t.msg)]
  <2>1. t.pc = "upsert" /\ task'[c] = u
    BY <1>3 DEF Upserted, Advance, TypeOK
  <2>2. /\ u.delivery = t.delivery /\ u.statusId = t.statusId
        /\ u.pc = "get" /\ u.msg = t.msg
    BY <1>1 DEF At, Task
  <2>3. QED
    BY <2>1, <2>2 DEF GoesOn
<1>4. CASE LookedUp(c)
  <2>1. PICK id \in {NoId, Cached(c), GetFromDB(t.kind, t.msg.names[t.kind])} : Got(c, id)
    BY <1>4 DEF LookedUp
  <2>2. t.pc = "get"
    BY <1>4 DEF LookedUp
  <2>3. id \in Nat
    <3>1. Cached(c) \in Nat
      <4>1. cache[c] \in [Kinds -> [Names -> Nat]]
        BY DEF TypeOK
      <4>2. cache[c][t.kind][t.msg.names[t.kind]] \in Nat
        BY <1>2, <2>2, <4>1
      <4>3. QED
        BY <4>2 DEF Cached, NoId
    <3>2. GetFromDB(t.kind, t.msg.names[t.kind]) \in Nat
      <4> DEFINE k == t.kind
                 n == t.msg.names[t.kind]
      <4>1. k \in Kinds
        BY <1>2, <2>2
      <4>2. IsTable(lookups[k], Names)
        BY <4>1 DEF TypeOK, TablesTypeOK
      <4>3. QED
        <5> HIDE DEF k, n, t
        <5>1. GetFromDB(k, n) \in Nat
          BY <4>2 DEF GetFromDB, RowsNamed, IsTable, NoId
        <5>2. QED
          BY <5>1 DEF k, n
    <3>3. QED
      BY <2>1, <3>1, <3>2 DEF NoId
  <2> DEFINE v == [t EXCEPT !.refs[t.kind] = id]
  <2>4. v \in Task /\ v.statusId = t.statusId
    BY <1>1, <1>2, <2>2, <2>3, RefIsTask
  <2>5. task'[c] = AfterGet(v)
    BY <2>1 DEF Got, Advance, TypeOK
  <2>6. GoesOn(c)
    BY <2>1, <2>2, <2>3, GotGoesOn
  <2> HIDE DEF v
  <2>7. QED
    BY <2>4, <2>5, <2>6, AfterGetContinues DEF Continues, SameCall
<1>5. CASE Created(c)
  <2> DEFINE v == [t EXCEPT !.refs[t.kind] = EntryId(t.kind)]
  <2>1. t.pc = "create" /\ EntryId(t.kind) \in Nat
    BY <1>2, <1>5, CreateTable DEF Created
  <2>2. /\ v \in Task /\ v.delivery = t.delivery /\ v.statusId = t.statusId
        /\ v.msg = t.msg
    BY <1>1, <1>2, <2>1, RefIsTask
  <2>3. task'[c] = AfterCreate(v)
    BY <1>5 DEF Created, Advance, TypeOK
  <2> HIDE DEF v
  <2>4. QED
    BY <2>1, <2>2, <2>3, AfterStatusAndServiceContinues
       DEF AfterCreate, Continues, SameCall, GoesOn
<1>6. CASE Retried(c)
  <2>1. t.pc = "insert" /\ t.statusId \in Nat /\ InsertId(t) \in Nat
    BY <1>1, <1>6 DEF Retried, InsertId, Task, TypeOK, TablesTypeOK
  <2>2. PICK id \in Nat : Retry(c, id) /\ id \in {t.statusId, InsertId(t)}
    BY <1>6, <2>1 DEF Retried
  <2>3. task'[c] = [t EXCEPT !.attempts = @ + 1, !.statusId = id]
    BY <2>2, RetryType
  <2>4. task'[c].statusId = id
    BY <1>1, <2>3 DEF Task
  <2>5. QED
    BY <2>1, <2>2, <2>4, RetryGoesOn DEF InsertId
<1>7. QED
  BY <1>3, <1>4, <1>5, <1>6

\* A call that was given an id for its row keeps it.
LEMMA StatusIdMoves ==
    ASSUME TypeOK, CallsOK, NEW c \in Consumers, Moves(c), task'[c].pc # "idle"
    PROVE  \/ Begins(c)
           \/ /\ task[c].pc # "idle"
              /\ task'[c].delivery = task[c].delivery
              /\ task'[c].statusId = task[c].statusId \/ task[c].statusId = NoId
<1>1. CASE Ends(c)
  BY <1>1 DEF Ends, Idle
<1>2. CASE Upserted(c) \/ LookedUp(c) \/ Created(c) \/ Retried(c)
  BY <1>2, WorkGoesOn DEF GoesOn
<1>3. QED
  BY <1>1, <1>2 DEF Moves

\* A row already stored for a call under way has the id the call will insert.
LEMMA RowsOfCallsStep ==
    ASSUME TypeOK, CallsOK, RowsAccepted, DistinctCalls, RowsOfCalls, [Next]_vars
    PROVE  RowsOfCalls'
<1> SUFFICES ASSUME NEW c \in Consumers, NEW id \in DOMAIN statuses',
                    task'[c].pc # "idle",
                    statuses'[id].delivery = task'[c].delivery
             PROVE  id = task'[c].statusId
  BY DEF RowsOfCalls
<1>1. Moves(c)
  BY MovesStep
<1>2. IsTable(statuses, StatusRow) /\ Len(delivered) \in Nat
  BY LenProperties DEF TypeOK, TablesTypeOK
<1>3. CASE id \in DOMAIN statuses /\ statuses'[id] = statuses[id]
  <2>1. statuses[id].delivery \in Known /\ id # NoId
    BY <1>2, <1>3 DEF RowsAccepted, IsTable
  <2>2. CASE Begins(c)
    <3>1. task'[c].delivery = Len(delivered) + 1
      BY <2>2 DEF Begins, Idle
    <3>2. QED
      BY <1>2, <1>3, <2>1, <3>1 DEF Known
  <2>3. CASE /\ task[c].pc # "idle"
             /\ task'[c].delivery = task[c].delivery
             /\ task'[c].statusId = task[c].statusId \/ task[c].statusId = NoId
    BY <1>3, <2>1, <2>3 DEF RowsOfCalls
  <2>4. QED
    BY <1>1, <2>2, <2>3, StatusIdMoves
<1>4. ASSUME NEW e \in Consumers, Wrote(e), id \notin DOMAIN statuses
      PROVE  id = task'[c].statusId
  <2>1. id = InsertId(task[e]) /\ statuses'[id] = StatusOf(task[e])
    BY <1>4, WroteRow
  <2>2. statuses'[id].delivery = task[e].delivery
    BY <2>1 DEF StatusOf
  <2>3. task[e].pc = "insert" /\ delivered' = delivered
    BY <1>4 DEF Wrote
  <2>4. task[e].delivery <= Len(delivered)
    BY DeliveriesOfCalls
  <2>5. CASE c # e
    <3>1. task'[c] = task[c]
      BY <1>4, <2>1, <2>5 DEF Wrote, Finish, Retry, TypeOK
    <3>2. QED
      BY <2>2, <2>3, <2>5, <3>1 DEF DistinctCalls
  <2>6. CASE c = e
    <3>1. Retry(c, InsertId(task[c]))
      BY <1>4, <2>6, FinishEnds DEF Wrote, Ends, Idle
    <3>2. InsertId(task[c]) \in Nat
      BY <1>4, <2>6, WroteRow
    <3>3. task'[c] = [task[c] EXCEPT !.attempts = @ + 1, !.statusId = InsertId(task[c])]
      BY <3>1, <3>2, RetryType
    <3>4. QED
      BY <2>1, <2>6, <3>3 DEF TypeOK, Task
  <2>7. QED
    BY <2>5, <2>6
<1>5. CASE UNCHANGED statuses
  BY <1>3, <1>5
<1>6. CASE \E e \in Consumers : Wrote(e)
  BY <1>3, <1>4, <1>6, WroteRow
<1>7. QED
  BY <1>5, <1>6, StatusesStep

\* So an insert for a delivery with a row is rejected.
LEMMA OneRowPerDeliveryStep ==
    ASSUME TypeOK, CallsOK, RowsOfCalls, OneRowPerDelivery, [Next]_vars
    PROVE  OneRowPerDelivery'
<1>1. CASE UNCHANGED statuses
  BY <1>1 DEF OneRowPerDelivery
<1>2. ASSUME NEW c \in Consumers, Wrote(c) PROVE OneRowPerDelivery'
  <2> DEFINE id == InsertId(task[c])
  <2>1. /\ id \notin DOMAIN statuses
        /\ DOMAIN statuses' = DOMAIN statuses \cup {id}
        /\ statuses'[id] = StatusOf(task[c])
        /\ \A i \in DOMAIN statuses : statuses'[i] = statuses[i]
    BY <1>2, WroteRow
  <2>2. ASSUME NEW i \in DOMAIN statuses, statuses[i].delivery = task[c].delivery
        PROVE  FALSE
    <3>1. i = task[c].statusId
      BY <1>2, <2>2 DEF RowsOfCalls, Wrote
    <3>2. i # NoId
      BY DEF TypeOK, TablesTypeOK, IsTable
    <3>3. QED
      BY <2>1, <3>1, <3>2 DEF InsertId
  <2>3. StatusOf(task[c]).delivery = task[c].delivery
    BY DEF StatusOf
  <2> HIDE DEF id
  <2>4. QED
    BY <2>1, <2>2, <2>3 DEF OneRowPerDelivery
<1>3. QED
  BY <1>1, <1>2, StatusesStep

-----------------------------------------------------------------------------
(***************************************************************************)
(* No silent loss.  Counters and rows are never taken back, and a call     *)
(* ends in one of four ways only.                                          *)
(***************************************************************************)
CountedKept ==
    \A x \in Counters : \A d \in Deliveries : counted'[x][d] >= counted[x][d]

StoredKept ==
    \A id \in DOMAIN statuses : id \in DOMAIN statuses' /\ statuses'[id] = statuses[id]

\* Counting loses no count,
LEMMA CountKept ==
    ASSUME TypeOK, NEW x \in Counters, NEW d \in Deliveries, Count(x, d)
    PROVE  CountedKept /\ counted'[x][d] > 0
<1>1. counted \in [Counters -> [Deliveries -> Nat]]
  BY DEF TypeOK
<1>2. /\ \A y \in Counters \ {x} : counted'[y] = counted[y]
      /\ counted'[x] = [counted[x] EXCEPT ![d] = @ + 1]
  BY <1>1 DEF Count
<1>3. /\ \A e \in Deliveries \ {d} : counted'[x][e] = counted[x][e]
      /\ counted'[x][d] = counted[x][d] + 1
  BY <1>1, <1>2
<1>4. QED
  BY <1>1, <1>2, <1>3 DEF CountedKept

\* ... and no step does.
LEMMA CountedKeptStep ==
    ASSUME TypeOK, CallsOK, [Next]_vars
    PROVE  CountedKept
<1>1. CASE UNCHANGED counted
  BY <1>1 DEF CountedKept, TypeOK
<1>2. CASE \E x \in Counters : \E d \in Deliveries : Count(x, d)
  BY <1>2, CountKept
<1>3. ASSUME NEW c \in Consumers, task[c].pc # "idle"
      PROVE  task[c].delivery \in Deliveries
  BY <1>3, CallMessage DEF CallsOK
<1>4. {"invalid", "processed", "errors"} \subseteq Counters
  BY DEF Counters
<1>5. ASSUME NEW c \in Consumers, Drop(c), task[c].pc # "idle"
      PROVE  CountedKept
  BY <1>2, <1>3, <1>4, <1>5 DEF Drop
<1>6. ASSUME NEW c \in Consumers, NEW m \in Messages \cup {Garbage},
             Refuse(c, m) \/ Accept(c, m)
      PROVE  CountedKept
  BY <1>1, <1>2, <1>4, <1>6, HandedOver DEF Refuse, Accept
<1>7. ASSUME NEW c \in Consumers, NEW t, Advance(c, t)
      PROVE  CountedKept
  <2>1. CASE t.pc = "insert"
    <3>1. task'[c] = t /\ TypeOK' /\ CallOK(task[c])'
      BY <1>7, TypeStep, CallsStep DEF Advance, TypeOK, CallsOK
    <3>2. t.delivery \in Known'
      BY <2>1, <3>1 DEF CallOK
    <3>3. Len(delivered') \in Nat /\ Len(delivered') <= MaxDeliveries
      BY <3>1, LenProperties DEF TypeOK
    <3>4. t.delivery \in Deliveries
      BY <3>2, <3>3, BoundsAssumption DEF Known, Deliveries
    <3>5. QED
      BY <1>2, <1>4, <1>7, <2>1, <3>4 DEF Advance
  <2>2. CASE t.pc # "insert"
    BY <1>1, <1>7, <2>2 DEF Advance
  <2>3. QED
    BY <2>1, <2>2
<1>8. ASSUME NEW c \in Consumers, Upsert(c) \/ Get(c) \/ GetFault(c) \/ Create(c)
      PROVE  CountedKept
  BY <1>5, <1>7, <1>8 DEF Upsert, Get, GetFault, Create, Got
<1>9. ASSUME NEW c \in Consumers, UpsertFault(c) \/ CreateFault(c) \/ GiveUp(c)
      PROVE  CountedKept
  BY <1>1, <1>5, <1>9 DEF UpsertFault, CreateFault, GiveUp
<1>10. QED
  BY <1>1, <1>6, <1>8, <1>9 DEF Next, Receive, Work, Insert, InsertFault, Forget,
     Expire, Crash, vars, history

\* No step of the consumers removes a status.
LEMMA StoredKeptStep ==
    ASSUME TypeOK, CallsOK, [Next]_vars
    PROVE  StoredKept
<1>1. CASE UNCHANGED statuses
  BY <1>1 DEF StoredKept
<1>2. CASE \E c \in Consumers : Wrote(c)
  BY <1>2, WroteRow DEF StoredKept
<1>3. QED
  BY <1>1, <1>2, StatusesStep

\* A call ends killed, dropped, with its row written, or without an attempt.
LEMMA HowCallsEnd ==
    ASSUME TypeOK, CallsOK, [Next]_vars, NEW c \in Consumers,
           task[c].pc # "idle", task'[c].delivery # task[c].delivery
    PROVE  \/ task[c].delivery \in killed'
           \/ Drop(c)
           \/ Wrote(c)
           \/ DBRetries = 0
<1>1. ~GoesOn(c) /\ task'[c] # task[c]
  BY DEF GoesOn
<1>2. ~(Upserted(c) \/ LookedUp(c) \/ Created(c) \/ Retried(c))
  BY <1>1, WorkGoesOn
<1>3. ASSUME NEW e \in Consumers, Work(e) \/ Crash(e)
      PROVE  e = c
  <2>1. \/ UNCHANGED task
        \/ \E t : task' = [task EXCEPT ![e] = t]
    BY <1>3 DEF Work, Upsert, UpsertFault, Get, GetFault, Create, CreateFault,
       Insert, InsertFault, GiveUp, Crash, Got, Advance, Drop, Finish, Retry
  <2>2. QED
    BY <1>1, <1>3, <2>1 DEF TypeOK
<1>4. ASSUME NEW e \in Consumers, NEW m \in Messages \cup {Garbage},
             Refuse(e, m) \/ Accept(e, m)
      PROVE  FALSE
  BY <1>1, <1>4 DEF Refuse, Accept, Handed, local, TypeOK
<1>5. CASE Crash(c)
  <2>1. task[c].delivery \in killed'
    BY <1>5, DeliveriesOfCalls DEF Crash
  <2>2. QED
    BY <2>1
<1>6. CASE Upsert(c) \/ UpsertFault(c)
  BY <1>2, <1>6 DEF Upsert, UpsertFault, Upserted
<1>7. CASE Get(c)
  BY <1>2, <1>7 DEF Get, LookedUp, tables
<1>8. CASE GetFault(c)
  BY <1>2, <1>8 DEF GetFault, LookedUp, tables
<1>9. CASE Create(c) \/ CreateFault(c)
  BY <1>2, <1>9 DEF Create, CreateFault, Created
<1>10. CASE Insert(c)
  <2>1. CASE InsertRejected(InsertId(task[c]), StatusOf(task[c]))
    BY <1>2, <1>10, <2>1 DEF Insert, Inserting, Retried
  <2>2. CASE ~InsertRejected(InsertId(task[c]), StatusOf(task[c]))
    BY <1>10, <2>2 DEF Insert, Inserting, Wrote, OtherThanStatuses
  <2>3. QED
    BY <2>1, <2>2
<1>11. CASE InsertFault(c)
  BY <1>2, <1>11 DEF InsertFault, Inserting, Retried
<1>12. CASE GiveUp(c)
  BY <1>12, ConfigAssumption DEF GiveUp
<1>13. CASE Forget(c) \/ UNCHANGED vars \/ \E e \in Consumers : Forget(e)
  BY <1>1, <1>13 DEF Forget, Expire, vars, local
<1>14. QED
  BY <1>3, <1>4, <1>5, <1>6, <1>7, <1>8, <1>9, <1>10, <1>11, <1>12, <1>13
     DEF Next, Receive, Work

Traced(d) == \/ Stored(d)
             \/ counted["invalid"][d] > 0
             \/ counted["errors"][d] > 0

\* A trace a delivery left stays.
LEMMA TracedKept ==
    ASSUME TypeOK, TypeOK', CountedKept, StoredKept, NEW d \in Deliveries, Traced(d)
    PROVE  Traced(d)'
<1>1. Stored(d) => Stored(d)'
  BY DEF Stored, StoredKept
<1>2. ASSUME NEW x \in Counters, counted[x][d] > 0 PROVE counted'[x][d] > 0
  <2>1. /\ counted[x][d] \in Nat /\ counted'[x][d] \in Nat
        /\ counted'[x][d] >= counted[x][d]
    BY DEF TypeOK, CountedKept
  <2>2. QED
    BY <1>2, <2>1
<1>3. {"invalid", "errors"} \subseteq Counters
  BY DEF Counters
<1>4. QED
  BY <1>1, <1>2, <1>3 DEF Traced

\* Every call that ends leaves a trace.
LEMMA NoSilentLossStep ==
    ASSUME TypeOK, CallsOK, NoSilentLoss, [Next]_vars
    PROVE  NoSilentLoss'
<1> SUFFICES ASSUME DBRetries > 0, NEW d \in Known', Finished(d)'
             PROVE  Traced(d)'
  BY DEF NoSilentLoss, Traced
<1>1. TypeOK' /\ CallsOK' /\ CountedKept /\ StoredKept /\ LogKept
  BY TypeStep, CallsStep, CountedKeptStep, StoredKeptStep, LogKeptStep
<1>2. /\ Len(delivered) \in Nat /\ Len(delivered') \in Nat
      /\ Len(delivered') <= MaxDeliveries
  BY <1>1, LenProperties DEF TypeOK
<1>3. d \in Deliveries
  BY <1>2, BoundsAssumption DEF Known, Deliveries
<1>4. CASE d \in Known /\ Finished(d)
  <2>1. Traced(d)
    BY <1>4 DEF NoSilentLoss, Traced
  <2>2. QED
    BY <1>1, <1>3, <2>1, TracedKept
<1>5. CASE d \in Known /\ ~Finished(d)
  <2>1. killed \subseteq killed'
    BY DEF Next, Receive, Refuse, Accept, Work, Upsert, UpsertFault, Get, GetFault,
       Create, CreateFault, Insert, InsertFault, GiveUp, Forget, Expire, Crash,
       vars, history
  <2>2. d \notin killed'
    BY DEF Finished
  <2>3. PICK c \in Consumers : task[c].delivery = d
    BY <1>5, <2>1, <2>2 DEF Finished
  <2>4. task[c].pc # "idle" /\ task'[c].delivery # d
    BY <1>5, <2>3, DeliveriesOfCalls DEF Finished, Known
  <2>5. Drop(c) \/ Wrote(c)
    BY <2>2, <2>3, <2>4, HowCallsEnd
  <2>6. CASE Drop(c)
    <3>1. "errors" \in Counters /\ Count("errors", d)
      BY <2>3, <2>6 DEF Counters, Drop
    <3>2. QED
      BY <1>3, <3>1, CountKept DEF Traced
  <2>7. CASE Wrote(c)
    <3>1. /\ InsertId(task[c]) \in DOMAIN statuses'
          /\ statuses'[InsertId(task[c])] = StatusOf(task[c])
      BY <2>7, WroteRow
    <3>2. StatusOf(task[c]).delivery = d
      BY <2>3 DEF StatusOf
    <3>3. QED
      BY <3>1, <3>2 DEF Stored, Traced
  <2>8. QED
    BY <2>5, <2>6, <2>7
<1>6. CASE d \notin Known
  <2>1. delivered' # delivered
    BY <1>6 DEF Known
  <2>2. PICK c \in Consumers, m \in Messages \cup {Garbage} : Refuse(c, m) \/ Accept(c, m)
    BY <2>1 DEF Next, Receive, Work, Upsert, UpsertFault, Get, GetFault, Create,
       CreateFault, Insert, InsertFault, GiveUp, Forget, Expire, Crash, vars, history
  <2>3. Len(delivered') = Len(delivered) + 1
    BY <2>2, HandedOver DEF Refuse, Accept
  <2>4. d = Len(delivered) + 1
    BY <1>2, <1>6, <2>3 DEF Known
  <2>5. CASE Refuse(c, m)
    <3>1. "invalid" \in Counters /\ Count("invalid", d)
      BY <2>4, <2>5 DEF Counters, Refuse
    <3>2. QED
      BY <1>3, <3>1, CountKept DEF Traced
  <2>6. CASE Accept(c, m)
    <3>1. task'[c].delivery = d
      BY <2>4, <2>6 DEF Accept, TypeOK, Idle
    <3>2. QED
      BY <3>1 DEF Finished
  <2>7. QED
    BY <2>2, <2>5, <2>6
<1>7. QED
  BY <1>4, <1>5, <1>6

-----------------------------------------------------------------------------
(***************************************************************************)
(* The inductive invariant: types, the truth of what the calls hold and of *)
(* what the caches hold, and the properties themselves.                    *)
(***************************************************************************)
HandlerInv ==
    /\ TypeOK
    /\ CallsOK
    /\ CallsTrue
    /\ CacheCoherent
    /\ RequestsUnique
    /\ StatusResolves
    /\ DistinctCalls
    /\ RowsOfCalls
    /\ OneRowPerDelivery
    /\ NoSilentLoss

\* The inductive invariant holds at first,
LEMMA HandlerInvInit == Init => HandlerInv
<1> SUFFICES ASSUME Init PROVE HandlerInv
  OBVIOUS
<1>1. TypeOK /\ CallsOK
  BY TypeInit, CallsInit
<1>2. statuses = NoRows /\ DOMAIN NoRows = {} /\ Len(delivered) = 0
  BY EmptySeq DEF Init, TablesInit, NoRows
<1>3. \A c \in Consumers : task[c] = Idle
  BY DEF Init
<1>4. CallsTrue
  <2>1. CallTrue(Idle)
    BY DEF CallTrue, Gathered, PayloadTrue, RefsTrue, Placed, AtSource, Idle, NoRefs, NoId
  <2>2. QED
    BY <1>3, <2>1 DEF CallsTrue
<1>5. CacheCoherent
  BY DEF Init, CacheCoherent, EmptyCache
<1>6. StatusResolves /\ OneRowPerDelivery /\ RowsOfCalls
  BY <1>2 DEF StatusResolves, OneRowPerDelivery, RowsOfCalls
<1>7. DistinctCalls
  BY <1>3 DEF DistinctCalls, Idle
<1>8. NoSilentLoss
  BY <1>2 DEF NoSilentLoss, Known
<1>9. RequestsUnique
  BY DEF Init, TablesInit, NoRows, RequestsUnique
<1>10. QED
  BY <1>1, <1>4, <1>5, <1>6, <1>7, <1>8, <1>9 DEF HandlerInv

\* ... is kept by every step,
LEMMA HandlerInvStep == HandlerInv /\ [Next]_vars => HandlerInv'
<1> SUFFICES ASSUME HandlerInv, [Next]_vars PROVE HandlerInv'
  OBVIOUS
<1>1. AllGathered /\ \A c \in Consumers : PayloadTrue(task[c])
  BY DEF HandlerInv, CallsTrue, CallTrue, AllGathered
<1>2. StatusResolves'
  BY <1>1, StatusResolvesStep DEF HandlerInv
<1>3. RowsAccepted
  BY DEF HandlerInv, StatusResolves, RowsAccepted
<1> QED
  BY <1>2, <1>3, TypeStep, CallsStep, CallsTrueStep, CacheCoherentStep, RequestsUniqueStep,
     DistinctCallsStep, RowsOfCallsStep, OneRowPerDeliveryStep, NoSilentLossStep
     DEF HandlerInv

\* ... and so holds always, for any consumers, messages, retries and faults.
THEOREM HandlerInvariant == Spec => []HandlerInv
BY HandlerInvInit, HandlerInvStep, PTL DEF Spec

(***************************************************************************)
(* For any number of consumers and whatever fails: a stored status, read   *)
(* through its references, says what its message said.                     *)
(***************************************************************************)
THEOREM StatusesResolve == Spec => []StatusResolves
BY HandlerInvariant, PTL DEF HandlerInv

(***************************************************************************)
(* For any number of attempts and of failed ones: the retry loop stores a  *)
(* delivery at most once.                                                  *)
(***************************************************************************)
THEOREM RetriesStoreOnce == Spec => []OneRowPerDelivery
BY HandlerInvariant, PTL DEF HandlerInv

(***************************************************************************)
(* A consumer's caches never hold a row that the tables do not have under  *)
(* that name.                                                              *)
(***************************************************************************)
THEOREM CachesCoherent == Spec => []CacheCoherent
BY HandlerInvariant, PTL DEF HandlerInv

(***************************************************************************)
(* With retries configured, a message whose call came to its end left a    *)
(* row or moved a counter.                                                 *)
(***************************************************************************)
THEOREM LossesAreCounted == Spec => []NoSilentLoss
BY HandlerInvariant, PTL DEF HandlerInv

(***************************************************************************)
(* The statuses of one request hang on one payload row, whichever          *)
(* consumers wrote them and in whatever order.                             *)
(***************************************************************************)
THEOREM RequestsShareAPayload == Spec => []OnePayloadPerRequest
<1>1. StatusResolves /\ RequestsUnique => OnePayloadPerRequest
  BY DEF StatusResolves, RowMatches, RequestsUnique, OnePayloadPerRequest
<1>2. QED
  BY <1>1, HandlerInvariant, PTL DEF HandlerInv

=============================================================================
