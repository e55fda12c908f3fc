------------------------- MODULE HandlerHistoryProofs -------------------------
(***************************************************************************)
(* Proofs about what MessageHandler leaves behind: the columns of the      *)
(* payloads, the exported counters, the races that were lost and the       *)
(* messages that were dropped.  They build on the inductive invariant of   *)
(* MessageHandlerProofs.                                                   *)
(***************************************************************************)
EXTENDS MessageHandlerProofs

-----------------------------------------------------------------------------
(***************************************************************************)
(* Columns of payloads.                                                    *)
(***************************************************************************)

\* The upsert writes a row for the request, with columns of the message or
\* of the row that was there, of which it blanks none.
LEMMA UpsertedColumns ==
    ASSUME TypeOK, NEW m \in Message, ~UpsertRejected(m), UpsertPayloadByRequestId(m)
    PROVE  LET id == UpsertedId(m) IN
           /\ \A i \in DOMAIN payloads \ {id} : payloads'[i] = payloads[i]
           /\ id \notin DOMAIN payloads => payloads'[id].columns = m.columns
           /\ id \in DOMAIN payloads =>
                 /\ payloads'[id].created = payloads[id].created
                 /\ \A x \in Columns :
                       payloads'[id].columns[x] = IF m.columns[x] = Blank
                                                  THEN payloads[id].columns[x]
                                                  ELSE m.columns[x]
<1> DEFINE id == UpsertedId(m)
           row == UpsertedRow(m)
<1>1. IsTable(payloads, PayloadRow)
  BY DEF TypeOK, TablesTypeOK
<1>2. payloads' = WithRow(payloads, id, row)
  BY DEF UpsertPayloadByRequestId
<1>3. /\ payloads'[id] = row
      /\ \A i \in DOMAIN payloads \ {id} : payloads'[i] = payloads[i]
  <2> HIDE DEF id, row
  <2> QED
    BY <1>2 DEF WithRow
<1>4. CASE RowsOfRequest(m.request) = {}
  <2>1. id \notin DOMAIN payloads
    BY <1>4 DEF UpsertedId, UpsertRejected
  <2>2. row.columns = m.columns
    BY <1>4 DEF UpsertedRow
  <2> QED
    BY <1>3, <2>1, <2>2
<1>5. CASE RowsOfRequest(m.request) # {}
  <2>1. id \in DOMAIN payloads
    BY <1>5 DEF UpsertedId, RowsOfRequest
  <2>2. payloads[id] \in PayloadRow
    BY <1>1, <2>1 DEF IsTable
  <2>3. row = [payloads[id] EXCEPT !.columns = Merge(payloads[id].columns, m.columns)]
    BY <1>5 DEF UpsertedRow
  <2>4. /\ row.created = payloads[id].created
        /\ row.columns = Merge(payloads[id].columns, m.columns)
    BY <2>2, <2>3 DEF PayloadRow
  <2> QED
    BY <1>3, <2>1, <2>4 DEF Merge
<1> QED
  BY <1>4, <1>5

\* What a step does to the payloads, if anything.
LEMMA PayloadsStep ==
    ASSUME TypeOK, CallsOK, [Next]_vars, payloads' # payloads
    PROVE  \E c \in Consumers : LET m == task[c].msg IN
              /\ task[c].pc = "upsert" /\ m \in Message
              /\ ~UpsertRejected(m) /\ UpsertPayloadByRequestId(m)
<1>1. PICK c \in Consumers : Upsert(c) \/ UpsertFault(c)
  BY WhoWrites
<1>2. task[c].pc = "upsert"
  BY <1>1 DEF Upsert, UpsertFault
<1>3. task[c].msg \in Message
  BY <1>2, CallMessage DEF CallsOK
<1>4. ~UpsertRejected(task[c].msg) /\ UpsertPayloadByRequestId(task[c].msg)
  BY <1>1 DEF Upsert, UpsertFault
<1> QED
  BY <1>2, <1>3, <1>4

\* No step blanks a column, nor changes a payload's request or created_at.
LEMMA ColumnsNotErasedStep ==
    ASSUME TypeOK, CallsOK, [Next]_vars
    PROVE  \A id \in DOMAIN payloads :
              /\ id \in DOMAIN payloads'
              /\ payloads'[id].request = payloads[id].request
              /\ payloads'[id].created = payloads[id].created
              /\ \A x \in Columns : payloads'[id].columns[x] = Blank
                                    => payloads[id].columns[x] = Blank
<1>1. CASE payloads' = payloads
  BY <1>1
<1>2. CASE payloads' # payloads
  <2>1. PICK c \in Consumers : LET m == task[c].msg IN
              /\ task[c].pc = "upsert" /\ m \in Message
              /\ ~UpsertRejected(m) /\ UpsertPayloadByRequestId(m)
    BY <1>2, PayloadsStep
  <2>2. PayloadsKept
    BY KeptStep
  <2> DEFINE m == task[c].msg
  <2>3. ASSUME NEW id \in DOMAIN payloads
        PROVE  /\ payloads'[id].created = payloads[id].created
               /\ \A x \in Columns : payloads'[id].columns[x] = Blank
                                     => payloads[id].columns[x] = Blank
    <3>1. CASE id = UpsertedId(m)
      BY <2>1, <3>1, UpsertedColumns
    <3>2. CASE id # UpsertedId(m)
      BY <2>1, <3>2, UpsertedColumns
    <3> QED
      BY <3>1, <3>2
  <2> QED
    BY <2>2, <2>3 DEF PayloadsKept
<1> QED
  BY <1>1, <1>2

\* What an upsert leaves in a column, some message said.
LEMMA ColumnsStep ==
    ASSUME TypeOK, CallsOK, ColumnsFromMessages, [Next]_vars
    PROVE  ColumnsFromMessages'
<1> SUFFICES ASSUME NEW id \in DOMAIN payloads', NEW x \in Columns
             PROVE  \E d \in Known' : LET m == delivered'[d].msg IN
                        /\ Accepted(m)
                        /\ m.request = payloads'[id].request
                        /\ m.columns[x] = payloads'[id].columns[x]
  BY DEF ColumnsFromMessages
<1>1. /\ \A d \in Known : d \in Known' /\ delivered'[d] = delivered[d]
      /\ PayloadsKept
  <2>1. LogKept /\ PayloadsKept
    BY LogKeptStep, KeptStep
  <2>2. TypeOK'
    BY TypeStep
  <2>3. Len(delivered) \in Nat /\ Len(delivered') \in Nat
    BY <2>2, LenProperties DEF TypeOK
  <2> QED
    BY <2>1, <2>3 DEF LogKept, Known
<1>2. ASSUME id \in DOMAIN payloads, payloads'[id].columns[x] = payloads[id].columns[x]
      PROVE  \E d \in Known' : LET m == delivered'[d].msg IN
                /\ Accepted(m)
                /\ m.request = payloads'[id].request
                /\ m.columns[x] = payloads'[id].columns[x]
  <2>1. PICK d \in Known : LET m == delivered[d].msg IN
                /\ Accepted(m)
                /\ m.request = payloads[id].request
                /\ m.columns[x] = payloads[id].columns[x]
    BY <1>2 DEF ColumnsFromMessages
  <2>2. payloads'[id].request = payloads[id].request
    BY <1>1, <1>2 DEF PayloadsKept
  <2> QED
    BY <1>1, <1>2, <2>1, <2>2
<1>3. CASE payloads' = payloads
  BY <1>2, <1>3
<1>4. CASE payloads' # payloads
  <2>1. PICK c \in Consumers : LET m == task[c].msg IN
              /\ task[c].pc = "upsert" /\ m \in Message
              /\ ~UpsertRejected(m) /\ UpsertPayloadByRequestId(m)
    BY <1>4, PayloadsStep
  <2> DEFINE m == task[c].msg
             d == task[c].delivery
             u == UpsertedId(m)
  <2>2. /\ d \in Known /\ Accepted(delivered[d].msg)
        /\ m = sanitizePayload(delivered[d].msg)
    BY <2>1 DEF CallsOK, CallOK
  <2>3. m.request = delivered[d].msg.request /\ m.columns = delivered[d].msg.columns
    <3>1. delivered[d].msg \in Message
      BY <2>2, DeliveredIsMessage
    <3> QED
      BY <2>2, <3>1, SanitizedIsMessage
  <2>4. /\ DOMAIN payloads' = DOMAIN payloads \cup {u}
        /\ payloads'[u].request = m.request
    BY <2>1, UpsertTable
  <2>5. ASSUME id = u, payloads'[id].columns[x] = m.columns[x]
        PROVE  \E e \in Known' : LET n == delivered'[e].msg IN
                  /\ Accepted(n)
                  /\ n.request = payloads'[id].request
                  /\ n.columns[x] = payloads'[id].columns[x]
    <3>1. d \in Known' /\ delivered'[d] = delivered[d]
      BY <1>1, <2>2
    <3> QED
      BY <2>2, <2>3, <2>4, <2>5, <3>1
  <2>6. CASE id # u
    <3>1. id \in DOMAIN payloads /\ payloads'[id] = payloads[id]
      BY <2>1, <2>4, <2>6, UpsertedColumns
    <3> QED
      BY <1>2, <3>1
  <2>7. CASE id = u
    <3>1. \/ payloads'[id].columns[x] = m.columns[x]
          \/ id \in DOMAIN payloads /\ payloads'[id].columns[x] = payloads[id].columns[x]
      BY <2>1, <2>7, UpsertedColumns
    <3> QED
      BY <1>2, <2>5, <2>7, <3>1
  <2> QED
    BY <2>6, <2>7
<1> QED
  BY <1>3, <1>4

-----------------------------------------------------------------------------
(***************************************************************************)
(* Counters.  A step counts one message at most: one it refuses, one it    *)
(* drops, or one whose last lookup is done.                                *)
(***************************************************************************)
Refused == \E c \in Consumers, m \in Messages \cup {Garbage} : Refuse(c, m)

Dropped == \E c \in Consumers :
    task[c].pc # "idle" /\ Drop(c) /\ UNCHANGED delivered

\* Call c has looked everything up and goes on to its insert.
Resolved(c) ==
    /\ task[c].pc \notin {"idle", "insert"}
    /\ task'[c].pc = "insert" /\ task'[c].delivery = task[c].delivery
    /\ \A e \in Consumers \ {c} : task'[e] = task[e]
    /\ Count("processed", task[c].delivery)
    /\ UNCHANGED delivered

Uncounted ==
    /\ UNCHANGED counted
    /\ \A c \in Consumers : task'[c].pc = "insert" => task[c].pc = "insert"

\* A call that goes on to its next statement.
LEMMA AdvanceCounts ==
    ASSUME TypeOK, NEW c \in Consumers, task[c].pc \notin {"idle", "insert"},
           NEW u \in Task, u.delivery = task[c].delivery, Advance(c, u), UNCHANGED delivered
    PROVE  Resolved(c) \/ Uncounted
<1>1. task'[c] = u /\ \A e \in Consumers \ {c} : task'[e] = task[e]
  BY DEF Advance, TypeOK
<1>2. CASE u.pc = "insert"
  BY <1>1, <1>2 DEF Advance, Resolved
<1>3. CASE u.pc # "insert"
  BY <1>1, <1>3 DEF Advance, Uncounted
<1> QED
  BY <1>2, <1>3

\* What a call's record must be to be looked up for: its kind and its name.
LEMMA CallLooksUp ==
    ASSUME TypeOK, CallsOK, NEW c \in Consumers, task[c].pc # "idle"
    PROVE  /\ task[c] \in Task /\ task[c].kind \in Kinds
           /\ task[c].msg \in Message /\ task[c].msg.names[task[c].kind] \in Names
           /\ Cached(c) \in Nat
           /\ GetFromDB(task[c].kind, task[c].msg.names[task[c].kind]) \in Nat
<1> DEFINE k == task[c].kind
           n == task[c].msg.names[k]
<1>1. task[c] \in Task /\ k \in Kinds /\ task[c].msg \in Message /\ n \in Names
  BY CallMessage DEF TypeOK, CallsOK, Task, Message
<1>2. Cached(c) \in Nat
  <2>1. cache[c] \in [Kinds -> [Names -> Nat]]
    BY DEF TypeOK
  <2>2. cache[c][k][n] \in Nat
    BY <1>1, <2>1
  <2> QED
    BY <2>2 DEF Cached, NoId
<1>3. GetFromDB(k, n) \in Nat
  <2>1. IsTable(lookups[k], Names)
    BY <1>1 DEF TypeOK, TablesTypeOK
  <2> HIDE DEF k, n
  <2> QED
    BY <2>1 DEF GetFromDB, RowsNamed, IsTable, NoId
<1> QED
  BY <1>1, <1>2, <1>3

\* A lookup leaves the call at one of the places that come after it.
LEMMA GotAdvances ==
    ASSUME TypeOK, CallsOK, NEW c \in Consumers, task[c].pc = "get", NEW id \in Nat, Got(c, id)
    PROVE  LET v == [task[c] EXCEPT !.refs[task[c].kind] = id] IN
           /\ v \in Task /\ v.delivery = task[c].delivery
           /\ AfterGet(v) \in Task /\ AfterGet(v).delivery = task[c].delivery
           /\ Advance(c, AfterGet(v)) /\ task'[c] = AfterGet(v)
<1> DEFINE v == [task[c] EXCEPT !.refs[task[c].kind] = id]
<1>1. v \in Task /\ v.delivery = task[c].delivery
  BY CallLooksUp, RefIsTask
<1>2. Advance(c, AfterGet(v))
  BY DEF Got
<1>3. task'[c] = AfterGet(v)
  BY <1>2 DEF Advance, TypeOK
<1> HIDE DEF v
<1>4. Continues(v, AfterGet(v))
  BY <1>1, AfterGetContinues
<1>5. AfterGet(v) \in Task /\ AfterGet(v).delivery = task[c].delivery
  BY <1>1, <1>4 DEF Continues, SameCall
<1> QED
  BY <1>1, <1>2, <1>3, <1>5 DEF v

\* So does the creation of an entry.
LEMMA CreatedAdvances ==
    ASSUME TypeOK, CallsOK, NEW c \in Consumers, Created(c)
    PROVE  LET v == [task[c] EXCEPT !.refs[task[c].kind] = EntryId(task[c].kind)] IN
           /\ v \in Task /\ v.delivery = task[c].delivery
           /\ AfterCreate(v) \in Task /\ AfterCreate(v).delivery = task[c].delivery
           /\ Advance(c, AfterCreate(v)) /\ task'[c] = AfterCreate(v)
           /\ EntryId(task[c].kind) \in Nat \ {NoId}
<1> DEFINE id == EntryId(task[c].kind)
           v == [task[c] EXCEPT !.refs[task[c].kind] = id]
<1>1. task[c].pc = "create" /\ id \in Nat \ {NoId}
  BY CallLooksUp, CreateTable DEF Created
<1>2. v \in Task /\ v.delivery = task[c].delivery
  BY <1>1, CallLooksUp, RefIsTask
<1>3. Advance(c, AfterCreate(v))
  BY DEF Created
<1>4. task'[c] = AfterCreate(v)
  BY <1>3 DEF Advance, TypeOK
<1> HIDE DEF v
<1>5. Continues(v, AfterCreate(v))
  BY <1>2, AfterStatusAndServiceContinues DEF AfterCreate
<1>6. AfterCreate(v) \in Task /\ AfterCreate(v).delivery = task[c].delivery
  BY <1>2, <1>5 DEF Continues, SameCall
<1> QED
  BY <1>1, <1>2, <1>3, <1>4, <1>6 DEF v

\* Every step counts in one of these ways.
LEMMA HowCounted ==
    ASSUME TypeOK, CallsOK, [Next]_vars
    PROVE  Refused \/ Dropped \/ Uncounted \/ \E c \in Consumers : Resolved(c)
<1> DEFINE Goal == Refused \/ Dropped \/ Uncounted \/ \E c \in Consumers : Resolved(c)
<1>1. ASSUME NEW c \in Consumers, Finish(c), UNCHANGED counted PROVE Goal
  <2>1. \A e \in Consumers : task'[e].pc = "insert" => task[e].pc = "insert"
    BY <1>1 DEF Finish, TypeOK, Idle
  <2> QED
    BY <1>1, <2>1 DEF Uncounted
<1>2. ASSUME NEW c \in Consumers, NEW m \in Messages \cup {Garbage}, Refuse(c, m) \/ Accept(c, m)
      PROVE  Goal
  <2>1. CASE Accept(c, m)
    <3>1. \A e \in Consumers : task'[e].pc = "insert" => task[e].pc = "insert"
      BY <2>1 DEF Accept, TypeOK, Idle
    <3> QED
      BY <2>1, <3>1 DEF Accept, Uncounted
  <2> QED
    BY <1>2, <2>1 DEF Refused
<1>3. ASSUME NEW c \in Consumers, Upsert(c) PROVE Goal
  <2>1. UNCHANGED delivered /\ task[c].pc = "upsert" /\ task[c].msg \in Message
    BY <1>3, CallLooksUp DEF Upsert
  <2>2. CASE Drop(c)
    BY <2>1, <2>2 DEF Dropped
  <2>3. CASE ~Drop(c)
    <3> DEFINE u == [At(task[c], "get", "status") EXCEPT !.payload = UpsertedId(task[c].msg)]
    <3>1. /\ ~UpsertRejected(task[c].msg) /\ UpsertPayloadByRequestId(task[c].msg)
          /\ Advance(c, u)
      BY <1>3, <2>3 DEF Upsert
    <3>2. UpsertedId(task[c].msg) \in Nat
      BY <2>1, <3>1, UpsertTable
    <3>3. At(task[c], "get", "status") \in Task
          /\ At(task[c], "get", "status").delivery = task[c].delivery
      BY <2>1, AtIsTask, CallLooksUp DEF Steps, Kinds
    <3>4. u \in Task /\ u.delivery = task[c].delivery
      <4> DEFINE v == At(task[c], "get", "status")
      <4> HIDE DEF v
      <4>1. v \in Task /\ v.delivery = task[c].delivery
        BY <3>3 DEF v
      <4>2. [v EXCEPT !.payload = UpsertedId(task[c].msg)] \in Task
            /\ [v EXCEPT !.payload = UpsertedId(task[c].msg)].delivery = v.delivery
        BY <3>2, <4>1 DEF Task
      <4> QED
        BY <4>1, <4>2 DEF v
    <3> HIDE DEF u
    <3> QED
      BY <2>1, <3>1, <3>4, AdvanceCounts
  <2> QED
    BY <2>2, <2>3
<1>4. ASSUME NEW c \in Consumers, Get(c) \/ GetFault(c) PROVE Goal
  <2>1. task[c].pc = "get" /\ UNCHANGED delivered
    BY <1>4 DEF Get, GetFault
  <2>2. PICK id \in Nat : Got(c, id)
    BY <1>4, <2>1, CallLooksUp DEF Get, GetFault, NoId
  <2> QED
    BY <2>1, <2>2, GotAdvances, AdvanceCounts
<1>5. ASSUME NEW c \in Consumers, Create(c) PROVE Goal
  <2>1. UNCHANGED delivered /\ task[c].pc = "create"
    BY <1>5 DEF Create
  <2>2. CASE Drop(c)
    BY <2>1, <2>2 DEF Dropped
  <2>3. CASE ~Drop(c)
    <3>1. Created(c)
      BY <1>5, <2>3 DEF Create, Created
    <3> QED
      BY <2>1, <3>1, CreatedAdvances, AdvanceCounts
  <2> QED
    BY <2>2, <2>3
<1>6. ASSUME NEW c \in Consumers, UpsertFault(c) \/ CreateFault(c) PROVE Goal
  BY <1>6 DEF UpsertFault, CreateFault, Dropped
<1>7. ASSUME NEW c \in Consumers, NEW id, Retry(c, id), task[c].pc = "insert",
             UNCHANGED counted
      PROVE Goal
  <2>1. \A e \in Consumers : task'[e].pc = "insert" => task[e].pc = "insert"
    BY <1>7 DEF Retry, TypeOK
  <2> QED
    BY <1>7, <2>1 DEF Uncounted
<1>8. ASSUME NEW c \in Consumers, Insert(c) \/ InsertFault(c) PROVE Goal
  BY <1>1, <1>7, <1>8 DEF Insert, InsertFault, Inserting
<1>9. ASSUME NEW c \in Consumers, GiveUp(c) PROVE Goal
  BY <1>1, <1>9 DEF GiveUp, Dropped
<1>10. ASSUME NEW c \in Consumers, Crash(c) PROVE Goal
  BY <1>1, <1>10 DEF Crash
<1>11. CASE UNCHANGED vars \/ \E c \in Consumers : Forget(c)
  BY <1>11 DEF Forget, Expire, vars, local, history, Uncounted
<1> QED
  BY <1>2, <1>3, <1>4, <1>5, <1>6, <1>8, <1>9, <1>10, <1>11 DEF Next, Receive, Work

(***************************************************************************)
(* What the counters say of every delivery, and of those under way.        *)
(***************************************************************************)
Unread == \A d \in Deliveries \ Known, x \in Counters : counted[x][d] = 0

Tallied(d) ==
    /\ \A x \in Counters : counted[x][d] <= 1
    /\ Accepted(delivered[d].msg) => counted["invalid"][d] = 0
    /\ ~Accepted(delivered[d].msg) => counted["processed"][d] = 0 /\ counted["errors"][d] = 0

UnderWay(t) ==
    t.pc # "idle" =>
        /\ counted["errors"][t.delivery] = 0
        /\ counted["processed"][t.delivery] = IF t.pc = "insert" THEN 1 ELSE 0

CountsTrue ==
    /\ Unread
    /\ \A d \in Known : Tallied(d)
    /\ \A c \in Consumers : UnderWay(task[c])
    /\ \A d \in Known : Stored(d) => counted["processed"][d] = 1

\* Counting adds one in one place.
LEMMA CountAdds ==
    ASSUME TypeOK, NEW x \in Counters, NEW d \in Deliveries, Count(x, d)
    PROVE  /\ counted'[x][d] = counted[x][d] + 1
           /\ \A y \in Counters, e \in Deliveries :
                 y # x \/ e # d => counted'[y][e] = counted[y][e]
<1>1. counted \in [Counters -> [Deliveries -> Nat]]
  BY DEF TypeOK
<1>2. /\ \A y \in Counters \ {x} : counted'[y] = counted[y]
      /\ counted'[x] = [counted[x] EXCEPT ![d] = @ + 1]
  BY <1>1 DEF Count
<1> QED
  BY <1>1, <1>2

\* The deliveries that were handed over, before and after a step.
LEMMA KnownGrows ==
    ASSUME TypeOK, CallsOK, [Next]_vars
    PROVE  /\ Known \subseteq Known' /\ Known' \subseteq Deliveries
           /\ \A d \in Known : delivered'[d] = delivered[d]
           /\ Len(delivered) \in Nat /\ Len(delivered) + 1 \notin Known
           /\ \A x \in Counters, d \in Deliveries :
                 counted[x][d] \in Nat /\ counted'[x][d] \in Nat
<1>1. LogKept /\ TypeOK'
  BY LogKeptStep, TypeStep
<1>2. /\ Len(delivered) \in Nat /\ Len(delivered') \in Nat
      /\ Len(delivered') <= MaxDeliveries
  BY <1>1, LenProperties DEF TypeOK
<1>3. \A x \in Counters, d \in Deliveries :
          counted[x][d] \in Nat /\ counted'[x][d] \in Nat
  BY <1>1 DEF TypeOK
<1> QED
  BY <1>1, <1>2, <1>3, BoundsAssumption DEF LogKept, Known, Deliveries

\* A call under way is about a message that was handed over and accepted.
LEMMA CallIsKnown ==
    ASSUME TypeOK, CallsOK, NEW c \in Consumers, task[c].pc # "idle"
    PROVE  /\ task[c].delivery \in Known /\ task[c].delivery \in Deliveries
           /\ Accepted(delivered[task[c].delivery].msg)
  BY CallMessage DEF CallsOK, CallOK

\* A refused message.
LEMMA RefusedCounts ==
    ASSUME TypeOK, CallsOK, CountsTrue, [Next]_vars, Refused
    PROVE  /\ Unread'
           /\ \A d \in Known' : Tallied(d)'
           /\ \A c \in Consumers : UnderWay(task[c])'
<1>1. PICK c \in Consumers, m \in Messages \cup {Garbage} : Refuse(c, m)
  BY DEF Refused
<1>0. PICK n : n = Len(delivered) + 1
  OBVIOUS
<1>2. /\ ~Accepted(m) /\ UNCHANGED task /\ Count("invalid", n)
      /\ Len(delivered') = n /\ delivered'[n].msg = m
  BY <1>0, <1>1, HandedOver DEF Refuse, local
<1>3. n \in Deliveries /\ "invalid" \in Counters
  BY <1>0, <1>1, <1>2, HandedOver DEF Refuse, Counters
<1>4. /\ counted'["invalid"][n] = counted["invalid"][n] + 1
      /\ \A y \in Counters, e \in Deliveries :
            y # "invalid" \/ e # n => counted'[y][e] = counted[y][e]
  BY <1>2, <1>3, CountAdds
<1>5. \A y \in Counters : counted[y][n] = 0
  BY <1>0, <1>3, KnownGrows DEF CountsTrue, Unread
<1>6. Known' = Known \cup {n} /\ n \notin Known /\ Known \subseteq Deliveries
  BY <1>0, <1>2, KnownGrows DEF Known
<1>7. Unread'
  BY <1>4, <1>6 DEF Unread, CountsTrue
<1>8. ASSUME NEW d \in Known PROVE Tallied(d)'
  <2>1. d \in Deliveries /\ d # n /\ delivered'[d] = delivered[d] /\ Tallied(d)
    BY <1>6, <1>8, KnownGrows DEF CountsTrue
  <2> QED
    BY <1>4, <2>1 DEF Tallied, Counters
<1>9. Tallied(n)'
  <2>1. ~Accepted(delivered'[n].msg)
    BY <1>2
  <2> QED
    BY <1>3, <1>4, <1>5, <2>1 DEF Tallied, Counters
<1>10. ASSUME NEW e \in Consumers PROVE UnderWay(task[e])'
  <2>1. task'[e] = task[e] /\ UnderWay(task[e])
    BY <1>2 DEF CountsTrue
  <2>2. task[e].pc # "idle" => task[e].delivery \in Deliveries
    BY CallIsKnown
  <2> QED
    BY <1>4, <2>1, <2>2 DEF UnderWay, Counters
<1> QED
  BY <1>6, <1>7, <1>8, <1>9, <1>10

\* A dropped one.
LEMMA DroppedCounts ==
    ASSUME TypeOK, CallsOK, DistinctCalls, CountsTrue, [Next]_vars, Dropped
    PROVE  /\ Unread'
           /\ \A d \in Known' : Tallied(d)'
           /\ \A c \in Consumers : UnderWay(task[c])'
<1>1. PICK c \in Consumers : task[c].pc # "idle" /\ Drop(c) /\ UNCHANGED delivered
  BY DEF Dropped
<1> DEFINE n == task[c].delivery
<1>2. /\ n \in Known /\ n \in Deliveries /\ Accepted(delivered[n].msg)
      /\ "errors" \in Counters /\ Known' = Known
  BY <1>1, CallIsKnown DEF Counters, Known
<1>3. /\ counted'["errors"][n] = counted["errors"][n] + 1
      /\ \A y \in Counters, e \in Deliveries :
            y # "errors" \/ e # n => counted'[y][e] = counted[y][e]
  BY <1>1, <1>2, CountAdds DEF Drop
<1>4. counted["errors"][n] = 0
  BY <1>1 DEF CountsTrue, UnderWay
<1>5. task'[c] = Idle /\ \A e \in Consumers \ {c} : task'[e] = task[e]
  BY <1>1 DEF Drop, Finish, TypeOK
<1>6. Unread'
  BY <1>2, <1>3 DEF Unread, CountsTrue
<1>7. ASSUME NEW d \in Known' PROVE Tallied(d)'
  <2>1. d \in Deliveries /\ delivered'[d] = delivered[d] /\ Tallied(d)
    BY <1>1, <1>2, <1>7, KnownGrows DEF CountsTrue
  <2> QED
    BY <1>2, <1>3, <1>4, <2>1 DEF Tallied, Counters
<1>8. ASSUME NEW e \in Consumers PROVE UnderWay(task[e])'
  <2>1. CASE e = c
    BY <1>5, <2>1 DEF UnderWay, Idle
  <2>2. CASE e # c
    <3>1. task'[e] = task[e] /\ UnderWay(task[e])
      BY <1>5, <2>2 DEF CountsTrue
    <3>2. task[e].pc # "idle" => task[e].delivery \in Deliveries /\ task[e].delivery # n
      BY <1>1, <2>2, CallIsKnown DEF DistinctCalls
    <3> QED
      BY <1>3, <3>1, <3>2 DEF UnderWay, Counters
  <2> QED
    BY <2>1, <2>2
<1> QED
  BY <1>6, <1>7, <1>8

\* One whose lookups are done.
LEMMA ResolvedCounts ==
    ASSUME TypeOK, CallsOK, DistinctCalls, CountsTrue, [Next]_vars,
           NEW c \in Consumers, Resolved(c)
    PROVE  /\ Unread'
           /\ \A d \in Known' : Tallied(d)'
           /\ \A e \in Consumers : UnderWay(task[e])'
<1> DEFINE n == task[c].delivery
<1>1. /\ n \in Known /\ n \in Deliveries /\ Accepted(delivered[n].msg)
      /\ "processed" \in Counters /\ Known' = Known /\ UNCHANGED delivered
  BY CallIsKnown DEF Counters, Known, Resolved
<1>2. /\ counted'["processed"][n] = counted["processed"][n] + 1
      /\ \A y \in Counters, e \in Deliveries :
            y # "processed" \/ e # n => counted'[y][e] = counted[y][e]
  BY <1>1, CountAdds DEF Resolved
<1>3. counted["processed"][n] = 0 /\ counted["errors"][n] = 0
  BY DEF CountsTrue, UnderWay, Resolved
<1>4. Unread'
  BY <1>1, <1>2 DEF Unread, CountsTrue
<1>5. ASSUME NEW d \in Known' PROVE Tallied(d)'
  <2>1. d \in Deliveries /\ delivered'[d] = delivered[d] /\ Tallied(d)
    BY <1>1, <1>5, KnownGrows DEF CountsTrue
  <2> QED
    BY <1>1, <1>2, <1>3, <2>1 DEF Tallied, Counters
<1>6. ASSUME NEW e \in Consumers PROVE UnderWay(task[e])'
  <2>1. CASE e = c
    <3>1. task'[c].pc = "insert" /\ task'[c].delivery = n
      BY DEF Resolved
    <3>2. counted'["errors"][n] = 0 /\ counted'["processed"][n] = 1
      BY <1>1, <1>2, <1>3 DEF Counters
    <3> QED
      BY <2>1, <3>1, <3>2 DEF UnderWay
  <2>2. CASE e # c
    <3>1. task'[e] = task[e] /\ UnderWay(task[e])
      BY <2>2 DEF CountsTrue, Resolved
    <3>2. task[e].pc # "idle" => task[e].delivery \in Deliveries /\ task[e].delivery # n
      BY <2>2, CallIsKnown DEF DistinctCalls, Resolved
    <3> QED
      BY <1>2, <3>1, <3>2 DEF UnderWay, Counters
  <2> QED
    BY <2>1, <2>2
<1> QED
  BY <1>4, <1>5, <1>6

\* A call at the insert stays there until it ends.
LEMMA InsertStays ==
    ASSUME TypeOK, CallsOK, [Next]_vars, NEW c \in Consumers, task[c].pc = "insert"
    PROVE  task'[c].pc \in {"idle", "insert"}
<1>1. Moves(c)
  BY MovesStep
<1>2. CASE Retried(c)
  <2>1. task[c].statusId \in Nat /\ InsertId(task[c]) \in Nat
    BY DEF TypeOK, TablesTypeOK, Task, InsertId
  <2>2. PICK id \in Nat : Retry(c, id)
    BY <1>2, <2>1 DEF Retried
  <2>3. task'[c] = [task[c] EXCEPT !.attempts = @ + 1, !.statusId = id]
    BY <2>2, RetryType
  <2> QED
    BY <2>3 DEF TypeOK, Task
<1> QED
  BY <1>1, <1>2 DEF Moves, Ends, Begins, Upserted, LookedUp, Created, Idle

\* The steps that count nothing.
LEMMA UncountedCounts ==
    ASSUME TypeOK, CallsOK, CountsTrue, [Next]_vars, Uncounted
    PROVE  /\ Unread'
           /\ \A d \in Known' : Tallied(d)'
           /\ \A c \in Consumers : UnderWay(task[c])'
<1>1. counted' = counted
  BY DEF Uncounted
<1>2. Unread'
  BY <1>1, KnownGrows DEF Unread, CountsTrue
<1>3. ASSUME NEW d \in Known' PROVE Tallied(d)'
  <2>1. CASE d \in Known
    BY <1>1, <2>1, KnownGrows DEF CountsTrue, Tallied
  <2>2. CASE d \notin Known
    <3>1. \A x \in Counters : counted'[x][d] = 0
      BY <1>1, <2>2, KnownGrows DEF CountsTrue, Unread
    <3> QED
      BY <3>1 DEF Tallied, Counters
  <2> QED
    BY <2>1, <2>2
<1>4. ASSUME NEW c \in Consumers PROVE UnderWay(task[c])'
  <2>1. CASE task'[c] = task[c]
    BY <1>1, <2>1 DEF CountsTrue, UnderWay
  <2>2. CASE Ends(c)
    BY <2>2 DEF Ends, UnderWay, Idle
  <2>3. CASE Begins(c)
    <3>1. /\ task'[c].pc = "upsert" /\ task'[c].delivery = Len(delivered) + 1
          /\ Len(delivered') = Len(delivered) + 1
      BY <2>3 DEF Begins, Idle
    <3>2. Len(delivered) + 1 \in Deliveries \ Known
      BY <3>1, KnownGrows DEF Known
    <3> QED
      BY <1>1, <3>1, <3>2 DEF CountsTrue, Unread, UnderWay, Counters
  <2>4. CASE Upserted(c) \/ LookedUp(c) \/ Created(c) \/ Retried(c)
    <3>1. GoesOn(c)
      BY <2>4, WorkGoesOn
    <3>2. task'[c].pc = "insert" <=> task[c].pc = "insert"
      BY <3>1, InsertStays DEF Uncounted, GoesOn
    <3> QED
      BY <1>1, <3>1, <3>2 DEF CountsTrue, UnderWay, GoesOn
  <2> QED
    BY <2>1, <2>2, <2>3, <2>4, MovesStep DEF Moves
<1> QED
  BY <1>2, <1>3, <1>4

\* So no step counts a message twice, or differently from what became of it.
LEMMA CountsTrueStep ==
    ASSUME TypeOK, CallsOK, DistinctCalls, RowsAccepted, CountsTrue, [Next]_vars
    PROVE  CountsTrue'
<1>1. /\ Unread'
      /\ \A d \in Known' : Tallied(d)'
      /\ \A c \in Consumers : UnderWay(task[c])'
  BY HowCounted, RefusedCounts, DroppedCounts, ResolvedCounts, UncountedCounts
<1>2. ASSUME NEW d \in Known', Stored(d)' PROVE counted'["processed"][d] = 1
  <2>1. PICK id \in DOMAIN statuses' : statuses'[id].delivery = d
    BY <1>2 DEF Stored
  <2>2. d \in Known /\ counted["processed"][d] = 1
    <3>1. CASE id \in DOMAIN statuses /\ statuses'[id] = statuses[id]
      BY <2>1, <3>1 DEF RowsAccepted, Stored, CountsTrue
    <3>2. CASE ~(id \in DOMAIN statuses /\ statuses'[id] = statuses[id])
      <4>1. PICK c \in Consumers : Wrote(c)
        BY <2>1, <3>2, StatusesStep
      <4>2. statuses'[id] = StatusOf(task[c]) /\ task[c].pc = "insert"
        BY <2>1, <3>2, <4>1, WroteRow DEF Wrote
      <4>3. d = task[c].delivery
        BY <2>1, <4>2 DEF StatusOf
      <4> QED
        BY <4>2, <4>3, CallIsKnown DEF CountsTrue, UnderWay
    <3> QED
      BY <3>1, <3>2
  <2>3. counted'["processed"][d] >= counted["processed"][d] /\ counted'["processed"][d] <= 1
    BY <1>1, <1>2, KnownGrows, CountedKeptStep DEF CountedKept, Tallied, Counters
  <2>4. counted'["processed"][d] \in Nat
    BY <2>2, KnownGrows DEF Counters
  <2> QED
    BY <2>2, <2>3, <2>4
<1> QED
  BY <1>1, <1>2 DEF CountsTrue

\* What the property says follows.
LEMMA CountsAgree ==
    ASSUME TypeOK, CallsOK, RowsAccepted, CountsTrue
    PROVE  CountersAgree
<1> SUFFICES ASSUME NEW d \in Known
             PROVE  /\ \A x \in Counters : counted[x][d] <= 1
                    /\ counted["invalid"][d] > 0 =>
                           /\ counted["processed"][d] = 0
                           /\ counted["errors"][d] = 0
                           /\ ~Stored(d)
                    /\ Stored(d) => counted["processed"][d] = 1
  BY DEF CountersAgree
<1>1. Tallied(d)
  BY DEF CountsTrue
<1>2. counted["invalid"][d] > 0 => ~Accepted(delivered[d].msg)
  BY <1>1 DEF Tallied
<1>3. Stored(d) => Accepted(delivered[d].msg)
  BY DEF Stored, RowsAccepted
<1> QED
  BY <1>1, <1>2, <1>3 DEF Tallied, CountsTrue

-----------------------------------------------------------------------------
(***************************************************************************)
(* Races for a name.  The sequence of a lookup table is ahead of its ids,  *)
(* so only the name makes the table reject an entry; and what a call is    *)
(* about to create it did not find.                                        *)
(***************************************************************************)
SequencesAhead ==
    \A k \in Kinds : \A id \in DOMAIN lookups[k] : id <= lookupSeq[k]

MissesRef(t) == t.pc = "create" => t.refs[t.kind] = NoId

CreatesMissing == \A c \in Consumers : MissesRef(task[c])

\* Lookups and their sequences change by the creation of an entry only.
LEMMA WhoCreates ==
    ASSUME [Next]_vars
    PROVE  \/ UNCHANGED <<lookups, lookupSeq>>
           \/ \E c \in Consumers : LET k == task[c].kind
                                       n == task[c].msg.names[k] IN
                 /\ task[c].pc = "create"
                 /\ TakeEntryId(k)
                 /\ UNCHANGED lookups \/ CreateTableEntry(k, n)
<1>1. ASSUME NEW c \in Consumers, Create(c) \/ CreateFault(c)
      PROVE  \/ UNCHANGED <<lookups, lookupSeq>>
             \/ LET k == task[c].kind
                    n == task[c].msg.names[k] IN
                 /\ task[c].pc = "create"
                 /\ TakeEntryId(k)
                 /\ UNCHANGED lookups \/ CreateTableEntry(k, n)
  BY <1>1 DEF Create, CreateFault
<1>2. ASSUME NEW c \in Consumers,
             Receive(c) \/ Upsert(c) \/ UpsertFault(c) \/ Get(c) \/ GetFault(c)
             \/ Insert(c) \/ InsertFault(c) \/ GiveUp(c) \/ Forget(c) \/ Crash(c)
      PROVE  UNCHANGED <<lookups, lookupSeq>>
  BY <1>2 DEF Receive, Refuse, Accept, Upsert, UpsertFault, Get, GetFault, Insert,
     InsertFault, GiveUp, Forget, Expire, Crash, tables, OtherThanPayloads,
     OtherThanStatuses
<1>3. UNCHANGED vars => UNCHANGED <<lookups, lookupSeq>>
  BY DEF vars, tables
<1> QED
  BY <1>1, <1>2, <1>3 DEF Next, Work

\* The sequence of a table stays ahead of its ids.
LEMMA SequencesAheadStep ==
    ASSUME TypeOK, CallsOK, SequencesAhead, [Next]_vars
    PROVE  SequencesAhead'
<1>1. CASE UNCHANGED <<lookups, lookupSeq>>
  BY <1>1 DEF SequencesAhead
<1>2. ASSUME NEW c \in Consumers, task[c].pc = "create", TakeEntryId(task[c].kind),
             \/ UNCHANGED lookups
             \/ CreateTableEntry(task[c].kind, task[c].msg.names[task[c].kind])
      PROVE  SequencesAhead'
  <2> DEFINE k == task[c].kind
             n == task[c].msg.names[k]
  <2>1. k \in Kinds
    BY <1>2, CallLooksUp
  <2>2. /\ lookupSeq \in [Kinds -> Nat]
        /\ lookups = [j \in Kinds |-> lookups[j]]
        /\ \A j \in Kinds : DOMAIN lookups[j] \subseteq Nat
    BY DEF TypeOK, TablesTypeOK, IsTable
  <2>3. /\ lookupSeq'[k] = lookupSeq[k] + 1
        /\ \A j \in Kinds \ {k} : lookupSeq'[j] = lookupSeq[j]
    BY <1>2, <2>1, <2>2 DEF TakeEntryId
  <2>4. /\ \A j \in Kinds \ {k} : lookups'[j] = lookups[j]
        /\ DOMAIN lookups'[k] \subseteq DOMAIN lookups[k] \cup {lookupSeq[k] + 1}
    <3>1. CASE UNCHANGED lookups
      BY <3>1
    <3>2. CASE CreateTableEntry(k, n)
      <4> HIDE DEF n, k
      <4> QED
        BY <2>1, <2>2, <3>2 DEF CreateTableEntry, WithRow, EntryId
    <3> QED
      BY <1>2, <3>1, <3>2
  <2> HIDE DEF k
  <2>5. ASSUME NEW j \in Kinds, NEW id \in DOMAIN lookups'[j]
        PROVE  id <= lookupSeq'[j]
    <3>1. CASE j = k
      <4>1. id \in DOMAIN lookups[k] \/ id = lookupSeq[k] + 1
        BY <2>4, <2>5, <3>1
      <4> QED
        BY <2>1, <2>2, <2>3, <3>1, <4>1 DEF SequencesAhead
    <3>2. CASE j # k
      BY <2>3, <2>4, <2>5, <3>2 DEF SequencesAhead
    <3> QED
      BY <3>1, <3>2
  <2> QED
    BY <2>5 DEF SequencesAhead
<1> QED
  BY <1>1, <1>2, WhoCreates

\* Then a rejected entry is one whose name is there.
LEMMA RejectedIsNamed ==
    ASSUME TypeOK, SequencesAhead, NEW k \in Kinds, NEW n, EntryRejected(k, n)
    PROVE  RowsNamed(k, n) # {}
<1>1. lookupSeq[k] \in Nat /\ DOMAIN lookups[k] \subseteq Nat
  BY DEF TypeOK, TablesTypeOK, IsTable
<1>2. EntryId(k) \notin DOMAIN lookups[k]
  BY <1>1 DEF SequencesAhead, EntryId
<1> QED
  BY <1>2 DEF EntryRejected

\* A call goes on to create only what it did not find.
LEMMA AfterLookupMisses ==
    ASSUME NEW t \in Task
    PROVE  MissesRef(AfterStatusAndService(t)) /\ MissesRef(AfterGet(t))
<1>0. At(t, "get", "source").pc # "create" /\ At(t, "get", "service").pc # "create"
      /\ At(t, "insert", "source").pc # "create"
  BY DEF At, Task
<1>1. /\ MissesRef(At(t, "get", "source"))
      /\ MissesRef(At(t, "get", "service"))
      /\ MissesRef(At(t, "insert", "source"))
  BY <1>0 DEF MissesRef
<1>2. ASSUME NEW k \in Kinds, t.refs[k] = NoId
      PROVE  MissesRef(At(t, "create", k))
  <2>1. At(t, "create", k).refs = t.refs /\ At(t, "create", k).kind = k
    BY DEF At, Task
  <2> QED
    BY <1>2, <2>1 DEF MissesRef
<1>3. {"status", "service", "source"} \subseteq Kinds
  BY DEF Kinds
<1>4. MissesRef(AfterStatusAndService(t))
  BY <1>1, <1>2, <1>3 DEF AfterStatusAndService
<1> QED
  BY <1>1, <1>2, <1>3, <1>4 DEF AfterGet

\* A call begins with the upsert, and has no attempt behind it.
LEMMA BeginsFresh ==
    ASSUME NEW c \in Consumers, Begins(c)
    PROVE  /\ task'[c].pc = "upsert"
           /\ task'[c].statusId = NoId /\ task'[c].attempts = 0
<1>1. PICK m \in Message : task'[c] = [Idle EXCEPT !.pc = "upsert",
                                          !.msg = sanitizePayload(m),
                                          !.delivery = Len(delivered')]
  BY DEF Begins
<1> QED
  BY <1>1 DEF Idle

\* No step takes a call to the creation of what it has.
LEMMA CreatesMissingStep ==
    ASSUME TypeOK, CallsOK, CreatesMissing, [Next]_vars
    PROVE  CreatesMissing'
<1> SUFFICES ASSUME NEW c \in Consumers PROVE MissesRef(task'[c])
  BY DEF CreatesMissing, MissesRef
<1>1. CASE task'[c] = task[c]
  BY <1>1 DEF CreatesMissing
<1>2. CASE Ends(c) \/ Begins(c) \/ Upserted(c) \/ Retried(c)
  <2>1. task'[c].pc # "create"
    <3>1. CASE Upserted(c)
      <4>1. task[c] \in Task /\ At(task[c], "get", "status").pc = "get"
        BY AtIsTask DEF TypeOK, Steps, Kinds
      <4> QED
        BY <3>1, <4>1 DEF Upserted, Advance, TypeOK, At
    <3>2. CASE Retried(c)
      BY <3>2 DEF Retried, Retry, TypeOK
    <3>3. CASE Ends(c) \/ Begins(c)
      BY <3>3, BeginsFresh DEF Ends, Idle
    <3> QED
      BY <1>2, <3>1, <3>2, <3>3
  <2> QED
    BY <2>1 DEF MissesRef
<1>3. CASE LookedUp(c)
  <2>1. task[c].pc = "get"
    BY <1>3 DEF LookedUp
  <2>2. PICK id \in Nat : Got(c, id)
    BY <1>3, <2>1, CallLooksUp DEF LookedUp, NoId
  <2> QED
    BY <2>1, <2>2, GotAdvances, AfterLookupMisses
<1>4. CASE Created(c)
  <2> DEFINE v == [task[c] EXCEPT !.refs[task[c].kind] = EntryId(task[c].kind)]
  <2>1. v \in Task /\ task'[c] = AfterCreate(v)
    BY <1>4, CreatedAdvances
  <2> HIDE DEF v
  <2> QED
    BY <2>1, AfterLookupMisses DEF AfterCreate
<1> QED
  BY <1>1, <1>2, <1>3, <1>4, MovesStep DEF Moves

\* Without failed statements, a call moves by one of these actions of its
\* own consumer.
LEMMA WhoMoves ==
    ASSUME TypeOK, [Next]_vars, faults' = 0, NEW c \in Consumers, task'[c] # task[c]
    PROVE  \/ task'[c] = Idle
           \/ \E m \in Messages \cup {Garbage} : Accept(c, m)
           \/ Upsert(c) \/ Get(c) \/ Create(c) \/ Insert(c)
<1>1. ASSUME NEW e \in Consumers, e # c,
             Receive(e) \/ Upsert(e) \/ UpsertFault(e) \/ Get(e) \/ GetFault(e)
             \/ Create(e) \/ CreateFault(e)
      PROVE  FALSE
  BY <1>1 DEF TypeOK, Receive, Refuse, Accept, Upsert, UpsertFault, Get, GetFault,
     Create, CreateFault, Got, Advance, Drop, Finish, local
<1>2. ASSUME NEW e \in Consumers, e # c,
             Insert(e) \/ InsertFault(e) \/ GiveUp(e) \/ Forget(e) \/ Crash(e)
      PROVE  FALSE
  BY <1>2 DEF TypeOK, Insert, InsertFault, GiveUp, Forget, Expire, Crash, Retry, Drop,
     Finish
<1>3. task # task'
  OBVIOUS
<1>4. ASSUME UpsertFault(c) \/ GetFault(c) \/ CreateFault(c) \/ InsertFault(c)
      PROVE  FALSE
  BY <1>4 DEF UpsertFault, GetFault, CreateFault, InsertFault, Fault, TypeOK
<1>5. ASSUME GiveUp(c) \/ Crash(c)
      PROVE  task'[c] = Idle
  BY <1>5 DEF GiveUp, Crash, Drop, Finish, TypeOK
<1>6. ASSUME Forget(c) \/ UNCHANGED vars \/ \E m \in Messages \cup {Garbage} : Refuse(c, m)
      PROVE  FALSE
  BY <1>3, <1>6 DEF Forget, Expire, vars, local, Refuse
<1> QED
  BY <1>1, <1>2, <1>4, <1>5, <1>6 DEF Next, Receive, Work

\* Call t has looked for its name of kind k and not yet gone on past what
\* it found.
LookedFor(t, k) ==
    \/ t.pc = "create" /\ (t.kind = "source" <=> k = "source")
    \/ t.pc = "get" /\ t.kind = "service" /\ k = "status"

\* The name of a race is there, and its loser will find it.
RaceOver(r) ==
    /\ RowsNamed(r.kind, r.name) # {}
    /\ LookedFor(task[r.by], r.kind) /\ task[r.by].msg.names[r.kind] = r.name
          => task[r.by].refs[r.kind] # NoId

RacesLost == faults = 0 => \A r \in races : RaceOver(r)

\* Going on adds only the kind just dealt with to those looked for.
LEMMA LookedForGrows ==
    ASSUME NEW t \in Task, NEW k \in Kinds
    PROVE  /\ LookedFor(AfterStatusAndService(t), k) => k # "source"
           /\ t.pc = "get" /\ LookedFor(AfterGet(t), k) => k = t.kind \/ LookedFor(t, k)
<1>1. \A pc \in Steps, j \in Kinds : At(t, pc, j).pc = pc /\ At(t, pc, j).kind = j
  BY DEF At, Task
<1>2. {"get", "create", "insert"} \subseteq Steps /\ {"status", "service", "source"} \subseteq Kinds
  BY DEF Steps, Kinds
<1>3. k \in {"status", "service", "source"} /\ t.kind \in {"status", "service", "source"}
  BY DEF Kinds, Task
<1>4. /\ ~LookedFor(At(t, "get", "source"), k) /\ ~LookedFor(At(t, "insert", "source"), k)
      /\ LookedFor(At(t, "create", "status"), k) => k # "source"
      /\ LookedFor(At(t, "create", "service"), k) => k # "source"
      /\ LookedFor(At(t, "create", "source"), k) => k = "source"
      /\ LookedFor(At(t, "get", "service"), k) => k = "status"
  BY <1>1, <1>2 DEF LookedFor
<1>5. LookedFor(AfterStatusAndService(t), k) => k # "source"
  BY <1>4 DEF AfterStatusAndService
<1>6. ASSUME t.pc = "get", LookedFor(AfterGet(t), k)
      PROVE  k = t.kind \/ LookedFor(t, k)
  <2>1. CASE t.kind = "status"
    BY <1>4, <1>6, <2>1 DEF AfterGet
  <2>2. CASE t.kind = "service"
    <3>1. k \in {"status", "service"}
      BY <1>3, <1>5, <1>6, <2>2 DEF AfterGet
    <3> QED
      BY <1>6, <2>2, <3>1 DEF LookedFor
  <2>3. CASE t.kind = "source"
    BY <1>4, <1>6, <2>3 DEF AfterGet
  <2> QED
    BY <1>3, <2>1, <2>2, <2>3
<1> QED
  BY <1>5, <1>6

\* A SELECT finds a name that is there.
LEMMA GetFinds ==
    ASSUME TypeOK, CallsOK, NEW c \in Consumers, Get(c),
           RowsNamed(task[c].kind, task[c].msg.names[task[c].kind]) # {}
    PROVE  \E id \in Nat \ {NoId} : Got(c, id)
<1> DEFINE k == task[c].kind
           n == task[c].msg.names[k]
<1>1. task[c].pc = "get"
  BY DEF Get
<1>2. k \in Kinds /\ Cached(c) \in Nat
  BY <1>1, CallLooksUp
<1>3. GetFromDB(k, n) \in Nat \ {NoId}
  <2>1. DOMAIN lookups[k] \subseteq Nat \ {NoId}
    BY <1>2 DEF TypeOK, TablesTypeOK, IsTable
  <2> HIDE DEF k, n
  <2>2. RowsNamed(k, n) # {}
    BY DEF k, n
  <2> QED
    BY <2>1, <2>2 DEF GetFromDB, RowsNamed
<1> QED
  BY <1>2, <1>3 DEF Get

\* An insert ends the call, or leaves it with an attempt more.
LEMMA InsertEnds ==
    ASSUME TypeOK, NEW c \in Consumers, Insert(c)
    PROVE  \/ task'[c] = Idle
           \/ /\ InsertRejected(InsertId(task[c]), StatusOf(task[c]))
              /\ task[c].pc = "insert" /\ task'[c].pc = "insert"
              /\ task'[c].msg = task[c].msg /\ task'[c].statusId = task[c].statusId
<1>1. CASE Finish(c)
  BY <1>1 DEF Finish, TypeOK
<1>2. CASE ~Finish(c)
  <2>1. /\ InsertRejected(InsertId(task[c]), StatusOf(task[c]))
        /\ Retry(c, task[c].statusId) /\ task[c].pc = "insert"
    BY <1>2 DEF Insert, Inserting
  <2>2. task[c] \in Task /\ task[c].statusId \in Nat
    BY DEF TypeOK, Task
  <2>3. task'[c] = [task[c] EXCEPT !.attempts = @ + 1, !.statusId = task[c].statusId]
    BY <2>1, <2>2, RetryType
  <2> QED
    BY <2>1, <2>2, <2>3 DEF Task
<1> QED
  BY <1>1, <1>2

\* Who looks for a name that is there has its id.
LEMMA LoserFinds ==
    ASSUME TypeOK, CallsOK, AllGathered, [Next]_vars, faults' = 0,
           NEW c \in Consumers, NEW k \in Kinds, NEW n \in Names, RowsNamed(k, n) # {},
           LookedFor(task[c], k) /\ task[c].msg.names[k] = n => task[c].refs[k] # NoId,
           LookedFor(task'[c], k), task'[c].msg.names[k] = n
    PROVE  task'[c].refs[k] # NoId
<1>1. CASE task'[c] = task[c]
  BY <1>1
<1>2. task'[c].pc \in {"get", "create"}
  BY DEF LookedFor
<1>3. task'[c] # Idle
  BY <1>2 DEF Idle
<1>4. ASSUME NEW m \in Messages \cup {Garbage}, Accept(c, m) PROVE FALSE
  <2>1. task'[c] = [Idle EXCEPT !.pc = "upsert", !.msg = sanitizePayload(m),
                               !.delivery = Len(delivered) + 1]
    BY <1>4 DEF Accept, TypeOK
  <2> QED
    BY <1>2, <2>1 DEF Idle
<1>5. ASSUME Upsert(c) PROVE FALSE
  <2>1. Advance(c, [At(task[c], "get", "status") EXCEPT !.payload = UpsertedId(task[c].msg)])
    BY <1>3, <1>5 DEF Upsert, Drop, Finish, TypeOK
  <2>2. task'[c].kind = "status" /\ task'[c].pc = "get"
    BY <2>1 DEF Advance, At, TypeOK, Task
  <2> QED
    BY <2>2 DEF LookedFor
<1>6. ASSUME Insert(c) PROVE FALSE
  <2>1. task'[c] = Idle \/ task'[c].pc = "insert"
    BY <1>6, InsertEnds
  <2> QED
    BY <1>2, <1>3, <2>1
<1>7. CASE Get(c)
  <2>1. PICK id \in Nat : /\ Got(c, id)
                          /\ k = task[c].kind /\ n = task[c].msg.names[k] => id # NoId
    <3>1. CASE k = task[c].kind /\ n = task[c].msg.names[k]
      BY <1>7, <3>1, GetFinds
    <3>2. CASE ~(k = task[c].kind /\ n = task[c].msg.names[k])
      BY <1>7, <3>2, CallLooksUp DEF Get
    <3> QED
      BY <3>1, <3>2
  <2>2. task[c].pc = "get"
    BY <1>7 DEF Get
  <2> DEFINE v == [task[c] EXCEPT !.refs[task[c].kind] = id]
  <2>3. v \in Task /\ task'[c] = AfterGet(v)
    BY <2>1, <2>2, GotAdvances
  <2>4. /\ v.pc = "get" /\ v.kind = task[c].kind /\ v.msg = task[c].msg
        /\ v.refs = [task[c].refs EXCEPT ![task[c].kind] = id]
    BY <2>2, CallLooksUp, RefIsTask
  <2>5. task[c].refs \in [Kinds -> Nat] /\ task[c].kind \in Kinds
    BY <2>2, CallLooksUp DEF Task
  <2> HIDE DEF v
  <2>6. task'[c].refs = v.refs /\ task'[c].msg = v.msg
    BY <2>3, AfterGetContinues DEF Continues, SameCall
  <2>7. k = v.kind \/ LookedFor(v, k)
    BY <2>3, <2>4, LookedForGrows
  <2>8. n = task[c].msg.names[k]
    BY <2>4, <2>6
  <2>9. CASE k = task[c].kind
    BY <2>1, <2>4, <2>5, <2>6, <2>8, <2>9
  <2>10. CASE k # task[c].kind
    <3>1. LookedFor(task[c], k)
      BY <2>2, <2>4, <2>7, <2>10 DEF LookedFor
    <3> QED
      BY <2>4, <2>5, <2>6, <2>8, <2>10, <3>1
  <2> QED
    BY <2>9, <2>10
<1>8. CASE Create(c)
  <2>1. Created(c)
    BY <1>3, <1>8 DEF Create, Created, Drop, Finish, TypeOK
  <2> DEFINE j == task[c].kind
             id == EntryId(task[c].kind)
             v == [task[c] EXCEPT !.refs[task[c].kind] = EntryId(task[c].kind)]
  <2>2. v \in Task /\ task'[c] = AfterCreate(v) /\ id \in Nat \ {NoId}
    BY <2>1, CreatedAdvances
  <2>3. task[c].pc = "create"
    BY <1>8 DEF Create
  <2>4. task[c].refs \in [Kinds -> Nat] /\ j \in Kinds
    BY <2>3, CallLooksUp DEF Task
  <2>5. v.refs = [task[c].refs EXCEPT ![j] = id] /\ v.msg = task[c].msg
    BY <2>2, <2>3, CallLooksUp, RefIsTask
  <2> HIDE DEF v, id
  <2>6. task'[c].refs = v.refs /\ task'[c].msg = v.msg
    BY <2>2, AfterStatusAndServiceContinues DEF AfterCreate, Continues, SameCall
  <2>7. k # "source"
    BY <2>2, LookedForGrows DEF AfterCreate
  <2>8. n = task[c].msg.names[k]
    BY <2>5, <2>6
  <2>9. CASE k = j
    BY <2>2, <2>4, <2>5, <2>6, <2>9
  <2>10. CASE k # j
    <3>1. task[c].refs[k] # NoId
      <4>1. CASE j = "source"
        <5>1. Placed(task[c]) /\ AtSource(task[c])
          BY <2>3, <4>1 DEF AllGathered, Gathered, AtSource
        <5> QED
          BY <2>7, <5>1 DEF Placed, Kinds
      <4>2. CASE j # "source"
        BY <2>3, <2>7, <2>8, <4>2 DEF LookedFor
      <4> QED
        BY <4>1, <4>2
    <3> QED
      BY <2>4, <2>5, <2>6, <2>10, <3>1
  <2> QED
    BY <2>9, <2>10
<1> QED
  BY <1>1, <1>3, <1>4, <1>5, <1>6, <1>7, <1>8, WhoMoves

\* A race is recorded by the creation that was rejected.
LEMMA WhoRaces ==
    ASSUME [Next]_vars
    PROVE  \/ UNCHANGED races
           \/ \E c \in Consumers : LET t == task[c]
                                       n == t.msg.names[t.kind] IN
                 /\ t.pc = "create" /\ EntryRejected(t.kind, n)
                 /\ Finish(c)
                 /\ races' = races \cup
                      {[by |-> c, kind |-> t.kind, name |-> n, delivery |-> t.delivery]}
<1>1. ASSUME NEW c \in Consumers,
             Receive(c) \/ Upsert(c) \/ UpsertFault(c) \/ Get(c) \/ GetFault(c)
             \/ CreateFault(c) \/ Insert(c) \/ InsertFault(c) \/ GiveUp(c) \/ Forget(c)
             \/ Crash(c)
      PROVE  UNCHANGED races
  BY <1>1 DEF Receive, Refuse, Accept, Upsert, UpsertFault, Get, GetFault, CreateFault,
     Insert, InsertFault, GiveUp, Forget, Expire, Crash, history
<1>2. ASSUME NEW c \in Consumers, Create(c), races' # races
      PROVE  LET t == task[c]
                 n == t.msg.names[t.kind] IN
             /\ t.pc = "create" /\ EntryRejected(t.kind, n)
             /\ Finish(c)
             /\ races' = races \cup
                   {[by |-> c, kind |-> t.kind, name |-> n, delivery |-> t.delivery]}
  BY <1>2 DEF Create, Drop
<1>3. UNCHANGED vars => UNCHANGED races
  BY DEF vars, history
<1> QED
  BY <1>1, <1>2, <1>3 DEF Next, Work

\* No statement failed before a step that leaves none failed.
LEMMA NoFaultBefore ==
    ASSUME TypeOK, [Next]_vars, faults' = 0
    PROVE  faults = 0
<1>1. faults \in Nat
  BY BoundsAssumption DEF TypeOK
<1>2. faults' = faults \/ faults' = faults + 1
  BY DEF Next, Receive, Refuse, Accept, Work, Upsert, UpsertFault, Get, GetFault, Create,
     CreateFault, Insert, InsertFault, GiveUp, Forget, Expire, Crash, Fault, vars, history
<1> QED
  BY <1>1, <1>2

\* A name once there stays.
LEMMA NamesStay ==
    ASSUME TypeOK, CallsOK, [Next]_vars, NEW k \in Kinds, NEW n, RowsNamed(k, n) # {}
    PROVE  RowsNamed(k, n)' # {}
<1>1. PICK id \in DOMAIN lookups[k] : lookups[k][id] = n
  BY DEF RowsNamed
<1>2. id \in DOMAIN lookups'[k] /\ lookups'[k][id] = n
  BY <1>1, KeptStep DEF LookupsKept
<1> QED
  BY <1>2 DEF RowsNamed

\* Every lost race leaves its name where the loser will find it.
LEMMA RacesLostStep ==
    ASSUME TypeOK, CallsOK, AllGathered, SequencesAhead, RacesLost, [Next]_vars
    PROVE  RacesLost'
<1> SUFFICES ASSUME faults' = 0, NEW r \in races' PROVE RaceOver(r)'
  BY DEF RacesLost
<1>1. faults = 0
  BY NoFaultBefore
<1>2. CASE r \in races
  <2>1. RaceOver(r)
    BY <1>1, <1>2 DEF RacesLost
  <2>2. r.by \in Consumers /\ r.kind \in Kinds /\ r.name \in Names
    BY <1>2 DEF TypeOK
  <2>3. RowsNamed(r.kind, r.name)' # {}
    BY <2>1, <2>2, NamesStay DEF RaceOver
  <2>4. ASSUME LookedFor(task'[r.by], r.kind), task'[r.by].msg.names[r.kind] = r.name
        PROVE  task'[r.by].refs[r.kind] # NoId
    BY <2>1, <2>2, <2>4, LoserFinds DEF RaceOver
  <2> QED
    BY <2>3, <2>4 DEF RaceOver, LookedFor
<1>3. CASE r \notin races
  <2>1. PICK c \in Consumers : LET t == task[c]
                                   n == t.msg.names[t.kind] IN
             /\ t.pc = "create" /\ EntryRejected(t.kind, n)
             /\ Finish(c)
             /\ races' = races \cup
                   {[by |-> c, kind |-> t.kind, name |-> n, delivery |-> t.delivery]}
    BY <1>3, WhoRaces
  <2> DEFINE k == task[c].kind
             n == task[c].msg.names[k]
  <2>2. k \in Kinds /\ n \in Names
    BY <2>1, CallLooksUp
  <2>3. r.by = c /\ r.kind = k /\ r.name = n
    BY <1>3, <2>1
  <2>4. RowsNamed(k, n) # {} /\ task'[c] = Idle
    BY <2>1, <2>2, RejectedIsNamed DEF Finish, TypeOK
  <2> HIDE DEF k, n
  <2>5. RowsNamed(r.kind, r.name)' # {}
    BY <2>2, <2>3, <2>4, NamesStay
  <2>6. ~LookedFor(task'[r.by], r.kind)
    BY <2>3, <2>4 DEF LookedFor, Idle
  <2> QED
    BY <2>5, <2>6 DEF RaceOver, LookedFor
<1> QED
  BY <1>2, <1>3

\* So no consumer loses the race for a name a second time.
LEMMA RaceLostOnceStep ==
    ASSUME TypeOK, CallsOK, CreatesMissing, RacesLost, RaceLostOnce, [Next]_vars
    PROVE  RaceLostOnce'
<1> SUFFICES ASSUME faults' = 0, NEW r \in races', NEW s \in races',
                    r.by = s.by, r.kind = s.kind, r.name = s.name
             PROVE  r = s
  BY DEF RaceLostOnce
<1>1. faults = 0
  BY NoFaultBefore
<1>2. CASE races' = races
  BY <1>1, <1>2 DEF RaceLostOnce
<1>3. CASE races' # races
  <2>1. PICK c \in Consumers : LET t == task[c]
                                   n == t.msg.names[t.kind] IN
             /\ t.pc = "create" /\ EntryRejected(t.kind, n)
             /\ Finish(c)
             /\ races' = races \cup
                   {[by |-> c, kind |-> t.kind, name |-> n, delivery |-> t.delivery]}
    BY <1>3, WhoRaces
  <2>2. ASSUME NEW q \in races, q.by = c, q.kind = task[c].kind,
               q.name = task[c].msg.names[task[c].kind]
        PROVE  FALSE
    <3>1. LookedFor(task[c], q.kind)
      BY <2>1, <2>2 DEF LookedFor
    <3>2. task[c].refs[q.kind] # NoId
      BY <1>1, <2>2, <3>1 DEF RacesLost, RaceOver
    <3> QED
      BY <2>1, <2>2, <3>2 DEF CreatesMissing, MissesRef
  <2> DEFINE new == [by |-> c, kind |-> task[c].kind,
                     name |-> task[c].msg.names[task[c].kind],
                     delivery |-> task[c].delivery]
  <2>3. r \in races \/ r = new
    BY <2>1
  <2>4. s \in races \/ s = new
    BY <2>1
  <2>5. new.by = c /\ new.kind = task[c].kind
        /\ new.name = task[c].msg.names[task[c].kind]
    OBVIOUS
  <2> HIDE DEF new
  <2>6. r \in races /\ s \in races => r = s
    BY <1>1 DEF RaceLostOnce
  <2> QED
    BY <2>2, <2>3, <2>4, <2>5, <2>6
<1> QED
  BY <1>2, <1>3

-----------------------------------------------------------------------------
(***************************************************************************)
(* Drops.  When no message chooses the id of its payload, the sequence of  *)
(* payloads is ahead of their ids and no upsert is rejected.  When no      *)
(* statement failed, no call holds an id for its status, and an insert is  *)
(* rejected only because the day has no partition.                         *)
(***************************************************************************)
PayloadIdsFromSeq == NoChosenIds => \A id \in DOMAIN payloads : id <= payloadSeq

Again(t) == t.statusId = NoId /\ (t.attempts > 0 => t.msg.date \notin partitions)

InsertsAgain ==
    faults = 0 => /\ \A id \in DOMAIN statuses : id <= statusSeq
                  /\ \A c \in Consumers : Again(task[c])

\* A call's message has the payload id and the date of what was handed over.
LEMMA CallKeepsMessage ==
    ASSUME TypeOK, CallsOK, NEW c \in Consumers, task[c].pc # "idle"
    PROVE  /\ task[c].msg.payloadId = delivered[task[c].delivery].msg.payloadId
           /\ task[c].msg.date = delivered[task[c].delivery].msg.date
<1>1. /\ task[c].delivery \in Known
      /\ Accepted(delivered[task[c].delivery].msg)
      /\ task[c].msg = sanitizePayload(delivered[task[c].delivery].msg)
  BY DEF CallsOK, CallOK
<1> QED
  BY <1>1, DeliveredIsMessage, SanitizedIsMessage

\* Payloads and their sequence change by an upsert only.
LEMMA WhoUpserts ==
    ASSUME [Next]_vars
    PROVE  \/ UNCHANGED <<payloads, payloadSeq>>
           \/ \E c \in Consumers : LET m == task[c].msg IN
                 /\ task[c].pc = "upsert"
                 /\ TakePayloadId(m)
                 /\ \/ UNCHANGED payloads
                    \/ ~UpsertRejected(m) /\ UpsertPayloadByRequestId(m)
<1>1. ASSUME NEW c \in Consumers, Upsert(c) \/ UpsertFault(c)
      PROVE  \/ UNCHANGED <<payloads, payloadSeq>>
             \/ LET m == task[c].msg IN
                 /\ task[c].pc = "upsert"
                 /\ TakePayloadId(m)
                 /\ \/ UNCHANGED payloads
                    \/ ~UpsertRejected(m) /\ UpsertPayloadByRequestId(m)
  BY <1>1 DEF Upsert, UpsertFault
<1>2. ASSUME NEW c \in Consumers,
             Receive(c) \/ Get(c) \/ GetFault(c) \/ Create(c) \/ CreateFault(c)
             \/ Insert(c) \/ InsertFault(c) \/ GiveUp(c) \/ Forget(c) \/ Crash(c)
      PROVE  UNCHANGED <<payloads, payloadSeq>>
  BY <1>2 DEF Receive, Refuse, Accept, Get, GetFault, Create, CreateFault, Insert,
     InsertFault, GiveUp, Forget, Expire, Crash, tables, OtherThanLookups,
     OtherThanStatuses
<1>3. UNCHANGED vars => UNCHANGED <<payloads, payloadSeq>>
  BY DEF vars, tables
<1> QED
  BY <1>1, <1>2, <1>3 DEF Next, Work

\* Unless a message chooses an id, ids of payloads come from the sequence.
LEMMA PayloadIdsStep ==
    ASSUME TypeOK, CallsOK, PayloadIdsFromSeq, [Next]_vars
    PROVE  PayloadIdsFromSeq'
<1> SUFFICES ASSUME NoChosenIds', NEW id \in DOMAIN payloads' PROVE id <= payloadSeq'
  BY DEF PayloadIdsFromSeq
<1>1. NoChosenIds
  BY KnownGrows DEF NoChosenIds
<1>2. /\ payloadSeq \in Nat /\ DOMAIN payloads \subseteq Nat
      /\ \A i \in DOMAIN payloads : i <= payloadSeq
  BY <1>1 DEF PayloadIdsFromSeq, TypeOK, TablesTypeOK, IsTable
<1>3. CASE UNCHANGED <<payloads, payloadSeq>>
  BY <1>2, <1>3
<1>4. ASSUME NEW c \in Consumers, task[c].pc = "upsert", TakePayloadId(task[c].msg),
             \/ UNCHANGED payloads
             \/ /\ ~UpsertRejected(task[c].msg)
                /\ UpsertPayloadByRequestId(task[c].msg)
      PROVE  id <= payloadSeq'
  <2> DEFINE m == task[c].msg
  <2>1. m.payloadId = NoId /\ m \in Message
    BY <1>1, <1>4, CallIsKnown, CallKeepsMessage, CallLooksUp DEF NoChosenIds
  <2>2. payloadSeq' = payloadSeq + 1 /\ ProposedId(m) = payloadSeq + 1
    BY <1>4, <2>1 DEF TakePayloadId, ProposedId
  <2>3. id \in DOMAIN payloads \/ id = payloadSeq + 1
    <3>1. CASE UNCHANGED payloads
      BY <3>1
    <3>2. CASE ~UpsertRejected(m) /\ UpsertPayloadByRequestId(m)
      <4>0. DOMAIN payloads' = DOMAIN payloads \cup {UpsertedId(m)}
        BY <2>1, <3>2, UpsertTable
      <4>1. id \in DOMAIN payloads \/ id = UpsertedId(m)
        BY <4>0
      <4>2. UpsertedId(m) \in DOMAIN payloads \/ UpsertedId(m) = payloadSeq + 1
        <5>1. RowsOfRequest(m.request) # {}
              => UpsertedId(m) \in RowsOfRequest(m.request)
          BY DEF UpsertedId
        <5> QED
          BY <2>2, <5>1 DEF UpsertedId, RowsOfRequest
      <4> QED
        BY <4>1, <4>2
    <3> QED
      BY <1>4, <3>1, <3>2
  <2> QED
    BY <1>2, <2>2, <2>3
<1> QED
  BY <1>3, <1>4, WhoUpserts

\* Then no upsert is rejected.
LEMMA UpsertNotRejected ==
    ASSUME TypeOK, CallsOK, PayloadIdsFromSeq, NoChosenIds,
           NEW c \in Consumers, task[c].pc = "upsert"
    PROVE  ~UpsertRejected(task[c].msg)
<1>1. task[c].msg.payloadId = NoId
  BY CallIsKnown, CallKeepsMessage DEF NoChosenIds
<1>2. payloadSeq \in Nat /\ DOMAIN payloads \subseteq Nat
  BY DEF TypeOK, TablesTypeOK, IsTable
<1>3. ProposedId(task[c].msg) = payloadSeq + 1
  BY <1>1 DEF ProposedId
<1> QED
  BY <1>2, <1>3 DEF UpsertRejected, PayloadIdsFromSeq

\* payload_statuses and its sequence change by an insert only.
LEMMA WhoInserts ==
    ASSUME [Next]_vars
    PROVE  \/ UNCHANGED <<statuses, statusSeq>>
           \/ \E c \in Consumers : LET t == task[c] IN
                 /\ t.pc = "insert"
                 /\ TakeStatusId(t)
                 /\ \/ UNCHANGED statuses
                    \/ InsertPayloadStatus(InsertId(t), StatusOf(t))
<1>1. ASSUME NEW c \in Consumers, Insert(c) \/ InsertFault(c)
      PROVE  \/ UNCHANGED <<statuses, statusSeq>>
             \/ LET t == task[c] IN
                 /\ t.pc = "insert"
                 /\ TakeStatusId(t)
                 /\ \/ UNCHANGED statuses
                    \/ InsertPayloadStatus(InsertId(t), StatusOf(t))
  BY <1>1 DEF Insert, InsertFault, Inserting
<1>2. ASSUME NEW c \in Consumers,
             Receive(c) \/ Upsert(c) \/ UpsertFault(c) \/ Get(c) \/ GetFault(c)
             \/ Create(c) \/ CreateFault(c) \/ GiveUp(c) \/ Forget(c) \/ Crash(c)
      PROVE  UNCHANGED <<statuses, statusSeq>>
  BY <1>2 DEF Receive, Refuse, Accept, Upsert, UpsertFault, Get, GetFault, Create,
     CreateFault, GiveUp, Forget, Expire, Crash, tables, OtherThanLookups,
     OtherThanPayloads
<1>3. UNCHANGED vars => UNCHANGED <<statuses, statusSeq>>
  BY DEF vars, tables
<1> QED
  BY <1>1, <1>2, <1>3 DEF Next, Work

\* The consumers add and drop no partition.
LEMMA PartitionsStay ==
    ASSUME [Next]_vars
    PROVE  partitions' = partitions
BY DEF Next, Receive, Refuse, Accept, Work, Upsert, UpsertFault, Get, GetFault, Create,
   CreateFault, Insert, InsertFault, GiveUp, Forget, Expire, Crash, vars, tables,
   OtherThanPayloads, OtherThanLookups, OtherThanStatuses

\* A first insert of a call fails only for want of a partition: the payload
\* and the references it holds are there.
LEMMA OnlyThePartition ==
    ASSUME TypeOK, AllGathered, NEW c \in Consumers, task[c].pc = "insert",
           task[c].payload \in DOMAIN payloads,
           task[c].statusId = NoId, \A id \in DOMAIN statuses : id <= statusSeq,
           InsertRejected(InsertId(task[c]), StatusOf(task[c]))
    PROVE  task[c].msg.date \notin partitions
<1> DEFINE t == task[c]
<1>1. RefsTrue(t) /\ Placed(t)
  BY DEF AllGathered, Gathered
<1>2. t.payload \in DOMAIN payloads
  OBVIOUS
<1>3. t.refs["status"] # NoId /\ t.refs["service"] # NoId
  BY <1>1 DEF Placed
<1>4. RefsResolve(t.refs)
  <2> HIDE DEF t
  <2> QED
    BY <1>1, <1>3 DEF RefsTrue, RefsResolve, Kinds
<1>5. InsertId(t) \notin DOMAIN statuses
  <2>1. statusSeq \in Nat
    BY DEF TypeOK, TablesTypeOK
  <2> QED
    BY <2>1 DEF InsertId
<1>6. /\ StatusOf(t).payload = t.payload /\ StatusOf(t).refs = t.refs
      /\ StatusOf(t).date = t.msg.date
  BY DEF StatusOf
<1> HIDE DEF t
<1>7. t.msg.date \notin partitions
  <2>1. InsertRejected(InsertId(t), StatusOf(t))
    BY DEF t
  <2> QED
    BY <1>2, <1>4, <1>5, <1>6, <2>1 DEF InsertRejected
<1> QED
  BY <1>7 DEF t

\* Up to its insert a call keeps its message and makes no attempt.
LEMMA GoesOnAlike ==
    ASSUME TypeOK, CallsOK, NEW c \in Consumers, task'[c] # Idle,
           Upsert(c) \/ Get(c) \/ Create(c)
    PROVE  /\ task'[c].msg = task[c].msg
           /\ task'[c].statusId = task[c].statusId
           /\ task'[c].attempts = task[c].attempts
<1> DEFINE Same == /\ task'[c].msg = task[c].msg
                   /\ task'[c].statusId = task[c].statusId
                   /\ task'[c].attempts = task[c].attempts
<1>1. CASE Upsert(c)
  <2>1. task'[c] = [At(task[c], "get", "status") EXCEPT !.payload = UpsertedId(task[c].msg)]
    BY <1>1 DEF Upsert, Drop, Finish, Advance, TypeOK
  <2>2. task[c] \in Task
    BY DEF TypeOK
  <2>3. Same
    BY <2>1, <2>2 DEF At, Task
  <2> QED
    BY <2>3
<1>2. CASE Get(c)
  <2>1. task[c].pc = "get"
    BY <1>2 DEF Get
  <2>2. PICK id \in Nat : Got(c, id)
    BY <1>2, <2>1, CallLooksUp DEF Get
  <2> DEFINE v == [task[c] EXCEPT !.refs[task[c].kind] = id]
  <2>3. v \in Task /\ task'[c] = AfterGet(v)
    BY <2>1, <2>2, GotAdvances
  <2>4. v.msg = task[c].msg /\ v.statusId = task[c].statusId /\ v.attempts = task[c].attempts
    BY <2>1, <2>2, CallLooksUp, RefIsTask
  <2> HIDE DEF v
  <2>5. Same
    BY <2>3, <2>4, AfterGetContinues DEF Continues, SameCall
  <2> QED
    BY <2>5
<1>3. CASE Create(c)
  <2>1. Created(c) /\ task[c].pc = "create"
    BY <1>3 DEF Create, Created, Drop, Finish, TypeOK
  <2> DEFINE v == [task[c] EXCEPT !.refs[task[c].kind] = EntryId(task[c].kind)]
  <2>2. v \in Task /\ task'[c] = AfterCreate(v) /\ EntryId(task[c].kind) \in Nat
    BY <2>1, CreatedAdvances
  <2>3. v.msg = task[c].msg /\ v.statusId = task[c].statusId /\ v.attempts = task[c].attempts
    BY <2>1, <2>2, CallLooksUp, RefIsTask
  <2> HIDE DEF v
  <2>4. Same
    BY <2>2, <2>3, AfterStatusAndServiceContinues DEF AfterCreate, Continues, SameCall
  <2> QED
    BY <2>4
<1> QED
  BY <1>1, <1>2, <1>3

\* A call that goes on has as many attempts behind it as before.
LEMMA AgainGoesOn ==
    ASSUME TypeOK, CallsOK, CallsTrue, NEW c \in Consumers, Again(task[c]),
           \A id \in DOMAIN statuses : id <= statusSeq,
           \/ task'[c] = Idle
           \/ \E m \in Messages \cup {Garbage} : Accept(c, m)
           \/ Upsert(c) \/ Get(c) \/ Create(c) \/ Insert(c)
    PROVE  Again(task'[c])
<1>1. CASE task'[c] = Idle
  BY <1>1 DEF Again, Idle
<1>2. ASSUME NEW m \in Messages \cup {Garbage}, Accept(c, m) PROVE Again(task'[c])
  <2>1. task'[c] = [Idle EXCEPT !.pc = "upsert", !.msg = sanitizePayload(m),
                               !.delivery = Len(delivered) + 1]
    BY <1>2 DEF Accept, TypeOK
  <2>2. task'[c].statusId = NoId /\ task'[c].attempts = 0
    BY <2>1 DEF Idle
  <2> QED
    BY <2>2 DEF Again
<1>3. CASE (Upsert(c) \/ Get(c) \/ Create(c)) /\ task'[c] # Idle
  BY <1>3, GoesOnAlike DEF Again
<1>4. CASE Insert(c) /\ task'[c] # Idle
  <2>1. /\ InsertRejected(InsertId(task[c]), StatusOf(task[c]))
        /\ task[c].pc = "insert" /\ task'[c].msg = task[c].msg
        /\ task'[c].statusId = task[c].statusId
    BY <1>4, InsertEnds
  <2>2. AllGathered /\ task[c].payload \in DOMAIN payloads
    BY <2>1 DEF CallsTrue, CallTrue, PayloadTrue, AllGathered
  <2> QED
    BY <2>1, <2>2, OnlyThePartition DEF Again
<1> QED
  BY <1>1, <1>2, <1>3, <1>4

\* Without failed statements, a repeated insert means a missing partition.
LEMMA InsertsAgainStep ==
    ASSUME TypeOK, CallsOK, CallsTrue, InsertsAgain, [Next]_vars
    PROVE  InsertsAgain'
<1> SUFFICES ASSUME faults' = 0
             PROVE  /\ \A id \in DOMAIN statuses' : id <= statusSeq'
                    /\ \A c \in Consumers : Again(task[c])'
  BY DEF InsertsAgain
<1>1. /\ \A id \in DOMAIN statuses : id <= statusSeq
      /\ \A c \in Consumers : Again(task[c])
  BY NoFaultBefore DEF InsertsAgain
<1>2. ASSUME NEW c \in Consumers PROVE Again(task[c])'
  <2>1. Again(task'[c])
    BY <1>1, <1>2, WhoMoves, AgainGoesOn
  <2> QED
    BY <2>1, PartitionsStay DEF Again
<1>3. ASSUME NEW id \in DOMAIN statuses' PROVE id <= statusSeq'
  <2>1. CASE UNCHANGED <<statuses, statusSeq>>
    BY <1>1, <2>1
  <2>2. ASSUME NEW c \in Consumers, TakeStatusId(task[c]),
               UNCHANGED statuses \/ InsertPayloadStatus(InsertId(task[c]), StatusOf(task[c]))
        PROVE  id <= statusSeq'
    <3>1. statusSeq' = statusSeq + 1 /\ InsertId(task[c]) = statusSeq + 1
      BY <1>1, <2>2 DEF Again, TakeStatusId, InsertId
    <3>2. id \in DOMAIN statuses \/ id = statusSeq + 1
      BY <2>2, <3>1 DEF InsertPayloadStatus, WithRow
    <3>3. statusSeq \in Nat /\ DOMAIN statuses \subseteq Nat
      BY DEF TypeOK, TablesTypeOK, IsTable
    <3> QED
      BY <1>1, <3>1, <3>2, <3>3
  <2> QED
    BY <2>1, <2>2, WhoInserts
<1> QED
  BY <1>2, <1>3

\* Without failed statements, an error is counted by one of three actions.
LEMMA WhoDrops ==
    ASSUME TypeOK, CallsOK, [Next]_vars, faults' = 0, NEW d \in Deliveries,
           counted'["errors"][d] # counted["errors"][d]
    PROVE  \E c \in Consumers :
              /\ task[c].pc # "idle" /\ task[c].delivery = d
              /\ \/ Upsert(c) /\ UpsertRejected(task[c].msg)
                 \/ Create(c) /\ EntryRejected(task[c].kind, task[c].msg.names[task[c].kind])
                 \/ GiveUp(c) /\ DBRetries > 0
<1> DEFINE Silent == \A e \in Deliveries : counted'["errors"][e] = counted["errors"][e]
<1>0. "errors" \in Counters /\ "processed" \in Counters /\ "invalid" \in Counters
  BY DEF Counters
<1>1. ASSUME NEW x \in Counters \ {"errors"}, NEW e, Count(x, e) PROVE Silent
  <2>1. counted'["errors"] = counted["errors"]
    BY <1>0, <1>1 DEF Count, TypeOK
  <2> QED
    BY <2>1
<1>2. ASSUME NEW c \in Consumers, NEW t, Advance(c, t) PROVE Silent
  BY <1>0, <1>1, <1>2 DEF Advance
<1>3. ASSUME NEW c \in Consumers, Receive(c) PROVE Silent
  BY <1>0, <1>1, <1>3 DEF Receive, Refuse, Accept
<1>4. ASSUME NEW c \in Consumers, Get(c) PROVE Silent
  BY <1>2, <1>4 DEF Get, Got
<1>5. ASSUME NEW c \in Consumers, Insert(c) \/ Forget(c) \/ Crash(c) \/ UNCHANGED vars
      PROVE  Silent
  BY <1>5 DEF Insert, Forget, Expire, Crash, vars, history
<1>6. ASSUME NEW c \in Consumers,
             UpsertFault(c) \/ GetFault(c) \/ CreateFault(c) \/ InsertFault(c)
      PROVE  FALSE
  BY <1>6 DEF UpsertFault, GetFault, CreateFault, InsertFault, Fault, TypeOK
<1>7. ~Silent
  OBVIOUS
<1> HIDE DEF Silent
<1>8. PICK c \in Consumers : Upsert(c) \/ Create(c) \/ GiveUp(c)
  <2>1. ~UNCHANGED vars
    <3>1. UNCHANGED vars => Silent
      BY DEF Silent, vars, history
    <3> QED
      BY <1>7, <3>1
  <2> QED
    BY <1>3, <1>4, <1>5, <1>6, <1>7, <2>1 DEF Next, Work
<1>9. /\ Drop(c) /\ task[c].pc # "idle"
      /\ \/ Upsert(c) /\ UpsertRejected(task[c].msg)
         \/ Create(c) /\ EntryRejected(task[c].kind, task[c].msg.names[task[c].kind])
         \/ GiveUp(c) /\ DBRetries > 0
  <2>1. CASE Upsert(c)
    BY <1>2, <1>7, <2>1 DEF Upsert
  <2>2. CASE Create(c)
    BY <1>2, <1>7, <2>2 DEF Create
  <2>3. CASE GiveUp(c)
    <3>1. UNCHANGED counted => Silent
      BY DEF Silent
    <3> QED
      BY <1>7, <2>3, <3>1 DEF GiveUp
  <2> QED
    BY <1>8, <2>1, <2>2, <2>3
<1>10. task[c].delivery = d
  BY <1>0, <1>9, CallIsKnown, CountAdds DEF Drop
<1> QED
  BY <1>9, <1>10

\* The ways a drop is explained are never taken back.
Explained(d) ==
    \/ \E r \in races : r.delivery = d
    \/ delivered[d].msg.date \notin partitions
    \/ ~NoChosenIds

\* No step takes the explanation of a drop away.
LEMMA ExplainedStays ==
    ASSUME TypeOK, CallsOK, [Next]_vars, NEW d \in Known, Explained(d)
    PROVE  Explained(d)'
<1>1. CASE \E r \in races : r.delivery = d
  <2>1. races \subseteq races'
    BY WhoRaces
  <2> QED
    BY <1>1, <2>1 DEF Explained
<1>2. CASE delivered[d].msg.date \notin partitions
  BY <1>2, KnownGrows, PartitionsStay DEF Explained
<1>3. CASE ~NoChosenIds
  BY <1>3, KnownGrows DEF Explained, NoChosenIds
<1> QED
  BY <1>1, <1>2, <1>3 DEF Explained

\* Every drop of a step without failed statements is explained.
LEMMA DropIsExplained ==
    ASSUME TypeOK, CallsOK, PayloadIdsFromSeq, InsertsAgain, [Next]_vars, faults' = 0,
           NEW d \in Known, counted'["errors"][d] # counted["errors"][d]
    PROVE  Explained(d)'
<1>1. d \in Deliveries
  BY KnownGrows
<1>2. PICK c \in Consumers :
        /\ task[c].pc # "idle" /\ task[c].delivery = d
        /\ \/ Upsert(c) /\ UpsertRejected(task[c].msg)
           \/ Create(c) /\ EntryRejected(task[c].kind, task[c].msg.names[task[c].kind])
           \/ GiveUp(c) /\ DBRetries > 0
  BY <1>1, WhoDrops
<1>3. CASE Upsert(c) /\ UpsertRejected(task[c].msg)
  <2>1. ~NoChosenIds
    BY <1>3, UpsertNotRejected DEF Upsert
  <2> QED
    BY <2>1, ExplainedStays DEF Explained
<1>4. CASE Create(c) /\ EntryRejected(task[c].kind, task[c].msg.names[task[c].kind])
  <2> DEFINE r == [by |-> c, kind |-> task[c].kind,
                   name |-> task[c].msg.names[task[c].kind],
                   delivery |-> task[c].delivery]
  <2>1. r \in races' /\ r.delivery = d
    BY <1>2, <1>4 DEF Create
  <2> HIDE DEF r
  <2> QED
    BY <2>1 DEF Explained
<1>5. CASE GiveUp(c) /\ DBRetries > 0
  <2>1. task[c].attempts > 0
    BY <1>5, ConfigAssumption DEF GiveUp, TypeOK, Task
  <2>2. Again(task[c])
    BY NoFaultBefore DEF InsertsAgain
  <2>3. delivered[d].msg.date \notin partitions
    BY <1>2, <2>1, <2>2, CallKeepsMessage DEF Again
  <2> QED
    BY <2>3, ExplainedStays DEF Explained
<1> QED
  BY <1>2, <1>3, <1>4, <1>5

\* So every drop there ever was is explained.
LEMMA DropsExplainedStep ==
    ASSUME TypeOK, CallsOK, CountsTrue, CountsTrue', PayloadIdsFromSeq, InsertsAgain,
           DropsExplained, [Next]_vars
    PROVE  DropsExplained'
<1>1. ASSUME faults' = 0, NEW d \in Known', counted'["errors"][d] > 0
      PROVE  Explained(d)'
  <2>1. CASE d \in Known /\ counted'["errors"][d] = counted["errors"][d]
    <3>1. Explained(d)
      BY <1>1, <2>1, NoFaultBefore DEF DropsExplained, Explained, NoChosenIds
    <3> QED
      BY <2>1, <3>1, ExplainedStays
  <2>2. CASE d \in Known /\ counted'["errors"][d] # counted["errors"][d]
    BY <1>1, <2>2, DropIsExplained
  <2>3. CASE d \notin Known
    <3>1. d \in Deliveries /\ counted["errors"][d] = 0
      BY <2>3, KnownGrows DEF CountsTrue, Unread, Counters
    <3>2. PICK c \in Consumers : task[c].pc # "idle" /\ task[c].delivery = d
      BY <1>1, <3>1, WhoDrops
    <3> QED
      BY <2>3, <3>2, CallIsKnown
  <2> QED
    BY <2>1, <2>2, <2>3
<1> QED
  BY <1>1 DEF DropsExplained, Explained, NoChosenIds

-----------------------------------------------------------------------------
(***************************************************************************)
(* Together, what the handler leaves behind is true at first and kept by   *)
(* every step.                                                             *)
(***************************************************************************)
HistoryInv ==
    /\ HandlerInv
    /\ ColumnsFromMessages
    /\ CountsTrue
    /\ SequencesAhead
    /\ CreatesMissing
    /\ RacesLost
    /\ RaceLostOnce
    /\ PayloadIdsFromSeq
    /\ InsertsAgain
    /\ DropsExplained

\* An empty database and idle consumers: nothing was left behind yet,
LEMMA HistoryInit == Init => HistoryInv
<1> SUFFICES ASSUME Init PROVE HistoryInv
  OBVIOUS
<1>1. HandlerInv
  BY HandlerInvInit
<1>2. /\ DOMAIN statuses = {} /\ DOMAIN payloads = {} /\ races = {} /\ Known = {}
      /\ \A k \in Kinds : DOMAIN lookups[k] = {}
  <2>1. DOMAIN NoRows = {}
    BY DEF NoRows
  <2>2. Len(delivered) = 0
    BY EmptySeq DEF Init
  <2> QED
    BY <2>1, <2>2 DEF Init, TablesInit, Known
<1>3. \A c \in Consumers : task[c] = Idle
  BY DEF Init
<1>4. \A x \in Counters, d \in Deliveries : counted[x][d] = 0
  BY DEF Init
<1>5. CountsTrue
  BY <1>2, <1>3, <1>4 DEF CountsTrue, Unread, UnderWay, Idle
<1>6. ColumnsFromMessages /\ SequencesAhead /\ RacesLost /\ RaceLostOnce
  BY <1>2 DEF ColumnsFromMessages, SequencesAhead, RacesLost, RaceLostOnce
<1>7. CreatesMissing /\ InsertsAgain
  BY <1>2, <1>3 DEF CreatesMissing, MissesRef, InsertsAgain, Again, Idle
<1>8. PayloadIdsFromSeq /\ DropsExplained
  BY <1>2 DEF PayloadIdsFromSeq, DropsExplained
<1> QED
  BY <1>1, <1>5, <1>6, <1>7, <1>8 DEF HistoryInv

\* ... and no step leaves anything untrue.
LEMMA HistoryStep == HistoryInv /\ [Next]_vars => HistoryInv'
<1> SUFFICES ASSUME HistoryInv, [Next]_vars PROVE HistoryInv'
  OBVIOUS
<1>1. HandlerInv'
  BY HandlerInvStep DEF HistoryInv
<1>2. /\ TypeOK /\ CallsOK /\ CallsTrue /\ DistinctCalls /\ StatusResolves
      /\ ColumnsFromMessages /\ CountsTrue /\ SequencesAhead /\ CreatesMissing
      /\ RacesLost /\ RaceLostOnce /\ PayloadIdsFromSeq /\ InsertsAgain /\ DropsExplained
  BY DEF HistoryInv, HandlerInv
<1>0. AllGathered /\ RowsAccepted
  BY <1>2 DEF CallsTrue, CallTrue, AllGathered, StatusResolves, RowsAccepted
<1>3. CountsTrue'
  BY <1>0, <1>2, CountsTrueStep
<1>4. DropsExplained'
  BY <1>2, <1>3, DropsExplainedStep
<1>5. ColumnsFromMessages' /\ SequencesAhead' /\ CreatesMissing' /\ RacesLost'
      /\ RaceLostOnce' /\ PayloadIdsFromSeq' /\ InsertsAgain'
  BY <1>0, <1>2, ColumnsStep, SequencesAheadStep, CreatesMissingStep, RacesLostStep,
     RaceLostOnceStep, PayloadIdsStep, InsertsAgainStep
<1> QED
  BY <1>1, <1>3, <1>4, <1>5 DEF HistoryInv

\* The inductive invariant of the handler and of its history, in every run.
THEOREM HistoryInvariant == Spec => []HistoryInv
BY HistoryInit, HistoryStep, PTL DEF Spec

(***************************************************************************)
(* The exported counters count messages: each at most once per counter, an *)
(* invalid one in no other, and every stored one as processed.             *)
(***************************************************************************)
THEOREM CountersCountMessages == Spec => []CountersAgree
<1>1. HistoryInv => CountersAgree
  <2>1. StatusResolves => RowsAccepted
    BY DEF StatusResolves, RowsAccepted
  <2> QED
    BY <2>1, CountsAgree DEF HistoryInv, HandlerInv
<1> QED
  BY <1>1, HistoryInvariant, PTL

(***************************************************************************)
(* A payload's columns hold only what messages of its request said, in     *)
(* whatever order the upserts of any number of consumers run or fail.      *)
(***************************************************************************)
THEOREM ColumnsAreReported == Spec => []ColumnsFromMessages
BY HistoryInvariant, PTL DEF HistoryInv

(***************************************************************************)
(* No step takes a payload away, changes its request or created_at, or     *)
(* blanks a column it had.                                                 *)
(***************************************************************************)
THEOREM ColumnsStay == Spec => ColumnsNeverErased
<1>1. HistoryInv /\ [Next]_vars
      => [\A id \in DOMAIN payloads :
            /\ id \in DOMAIN payloads'
            /\ payloads'[id].request = payloads[id].request
            /\ payloads'[id].created = payloads[id].created
            /\ \A x \in Columns : payloads'[id].columns[x] = Blank
                                  => payloads[id].columns[x] = Blank]_vars
  BY ColumnsNotErasedStep DEF HistoryInv, HandlerInv
<1> QED
  BY <1>1, HistoryInvariant, PTL DEF Spec, ColumnsNeverErased

(***************************************************************************)
(* While statements do not fail, a consumer loses the race to create a     *)
(* given name once: the lookup of its next message finds the row.          *)
(***************************************************************************)
THEOREM RacesAreLostOnce == Spec => []RaceLostOnce
BY HistoryInvariant, PTL DEF HistoryInv

(***************************************************************************)
(* While statements do not fail, an error counted for a message means one  *)
(* of three things: a race it lost, a day without a partition, or a        *)
(* payload id that some message chose.                                     *)
(***************************************************************************)
THEOREM DropsHaveACause == Spec => []DropsExplained
BY HistoryInvariant, PTL DEF HistoryInv

-----------------------------------------------------------------------------
(***************************************************************************)
(* How long a call may take.  Each statement brings it nearer to its end:  *)
(* StepsLeft bounds the statements it can still issue, and no step of      *)
(* anybody raises it.  With the fairness of Work this is why CallEnds      *)
(* holds.                                                                  *)
(***************************************************************************)
LookupsLeft(t) ==
    IF t.pc = "get"
    THEN IF t.kind = "status" THEN 7 ELSE IF t.kind = "service" THEN 6 ELSE 3
    ELSE IF t.kind = "status" THEN 5 ELSE IF t.kind = "service" THEN 4 ELSE 2

StepsLeft(t) ==
    IF t.pc = "idle" THEN 0
    ELSE IF t.pc = "upsert" THEN DBRetries + 8
    ELSE IF t.pc = "insert" THEN DBRetries + 1 - t.attempts
    ELSE DBRetries + LookupsLeft(t)

\* A call does not try more often than it may, nor creates what it has.
Paced(t) ==
    /\ t.attempts <= DBRetries
    /\ t.pc = "create" /\ t.kind = "service" => t.refs["status"] # NoId

AllPaced == \A c \in Consumers : Paced(task[c])

\* Only a call that is idle has no step left.
LEMMA StepsAreNumbers ==
    ASSUME NEW t \in Task, Paced(t)
    PROVE  /\ StepsLeft(t) \in 0..(DBRetries + 8)
           /\ StepsLeft(t) = 0 <=> t.pc = "idle"
<1>1. DBRetries \in Nat /\ t.attempts \in Nat /\ t.attempts <= DBRetries
  BY ConfigAssumption DEF Paced, Task
<1>2. LookupsLeft(t) \in 2..7
  BY DEF LookupsLeft
<1> QED
  BY <1>1, <1>2 DEF StepsLeft

\* What is left at each place where a call can go on.
LEMMA StepsAt ==
    ASSUME NEW t \in Task, NEW pc \in {"get", "create", "insert"}, NEW k \in Kinds
    PROVE  LET u == At(t, pc, k) IN
           /\ u.pc = pc /\ u.kind = k /\ u.refs = t.refs /\ u.attempts = t.attempts
           /\ pc = "insert" => StepsLeft(u) = DBRetries + 1 - t.attempts
           /\ pc = "get" => StepsLeft(u) = DBRetries + (IF k = "status" THEN 7
                                              ELSE IF k = "service" THEN 6 ELSE 3)
           /\ pc = "create" => StepsLeft(u) = DBRetries + (IF k = "status" THEN 5
                                              ELSE IF k = "service" THEN 4 ELSE 2)
<1> DEFINE u == At(t, pc, k)
<1>0. pc \in Steps
  BY DEF Steps
<1>1. u.pc = pc /\ u.kind = k /\ u.refs = t.refs /\ u.attempts = t.attempts
  BY <1>0, AtIsTask
<1> HIDE DEF u
<1>2. /\ pc = "insert" => StepsLeft(u) = DBRetries + 1 - t.attempts
      /\ pc = "get" => StepsLeft(u) = DBRetries + (IF k = "status" THEN 7
                                         ELSE IF k = "service" THEN 6 ELSE 3)
      /\ pc = "create" => StepsLeft(u) = DBRetries + (IF k = "status" THEN 5
                                            ELSE IF k = "service" THEN 4 ELSE 2)
  BY <1>1 DEF StepsLeft, LookupsLeft
<1> QED
  BY <1>1, <1>2 DEF u

\* Once status and service were read, less than at the look-up of either.
LEMMA AfterStatusAndServiceShortens ==
    ASSUME NEW t \in Task, t.attempts <= DBRetries
    PROVE  LET u == AfterStatusAndService(t) IN
           /\ Paced(u)
           /\ StepsLeft(u) <= DBRetries + 5
           /\ t.refs["status"] # NoId => StepsLeft(u) <= DBRetries + 4
           /\ t.refs["status"] # NoId /\ t.refs["service"] # NoId
                 => StepsLeft(u) <= DBRetries + 3
           /\ /\ t.refs["status"] # NoId /\ t.refs["service"] # NoId
              /\ t.refs["source"] # NoId
              => StepsLeft(u) <= DBRetries + 1
<1>1. DBRetries \in Nat /\ t.attempts \in Nat
  BY ConfigAssumption DEF Task
<1>2. "status" \in Kinds /\ "service" \in Kinds /\ "source" \in Kinds
  BY DEF Kinds
<1>3. CASE t.refs["status"] = NoId
  BY <1>1, <1>2, <1>3, StepsAt DEF AfterStatusAndService, Paced
<1>4. CASE t.refs["status"] # NoId /\ t.refs["service"] = NoId
  BY <1>1, <1>2, <1>4, StepsAt DEF AfterStatusAndService, Paced
<1>5. CASE /\ t.refs["status"] # NoId /\ t.refs["service"] # NoId
           /\ t.msg.names["source"] # Blank /\ t.refs["source"] = NoId
  BY <1>1, <1>2, <1>5, StepsAt DEF AfterStatusAndService, Paced
<1>6. CASE /\ t.refs["status"] # NoId /\ t.refs["service"] # NoId
           /\ ~(t.msg.names["source"] # Blank /\ t.refs["source"] = NoId)
  BY <1>1, <1>2, <1>6, StepsAt DEF AfterStatusAndService, Paced
<1> QED
  BY <1>3, <1>4, <1>5, <1>6

\* A look-up takes a call further,
LEMMA LookedUpShortens ==
    ASSUME TypeOK, CallsOK, AllPaced, NEW c \in Consumers, LookedUp(c)
    PROVE  Paced(task'[c]) /\ StepsLeft(task'[c]) < StepsLeft(task[c])
<1>1. task[c].pc = "get"
  BY DEF LookedUp
<1>2. PICK id \in Nat : Got(c, id)
  BY <1>1, CallLooksUp DEF LookedUp, NoId
<1> DEFINE v == [task[c] EXCEPT !.refs[task[c].kind] = id]
<1>3. v \in Task /\ task'[c] = AfterGet(v)
  BY <1>1, <1>2, GotAdvances
<1>4. v.kind = task[c].kind /\ v.attempts = task[c].attempts
  BY <1>1, <1>2, CallLooksUp, RefIsTask
<1> HIDE DEF v
<1>5. /\ DBRetries \in Nat /\ v.attempts \in Nat /\ v.attempts <= DBRetries
      /\ task[c].kind \in {"status", "service", "source"}
  BY <1>1, <1>3, <1>4, CallLooksUp, ConfigAssumption DEF AllPaced, Paced, Task, Kinds
<1>6. StepsLeft(task[c]) = DBRetries + (IF task[c].kind = "status" THEN 7
                               ELSE IF task[c].kind = "service" THEN 6 ELSE 3)
  BY <1>1 DEF StepsLeft, LookupsLeft
<1>7. /\ Paced(AfterStatusAndService(v))
      /\ StepsLeft(AfterStatusAndService(v)) <= DBRetries + 5
      /\ StepsLeft(AfterStatusAndService(v)) \in Int
  BY <1>3, <1>5, AfterStatusAndServiceShortens, AfterStatusAndServiceContinues,
     StepsAreNumbers DEF Continues
<1>8. "service" \in Kinds /\ "source" \in Kinds
  BY DEF Kinds
<1>9. CASE task[c].kind = "status"
  BY <1>3, <1>4, <1>5, <1>6, <1>8, <1>9, StepsAt DEF AfterGet, Paced
<1>10. CASE task[c].kind = "service"
  BY <1>3, <1>4, <1>5, <1>6, <1>7, <1>10 DEF AfterGet
<1>11. CASE task[c].kind = "source"
  BY <1>3, <1>4, <1>5, <1>6, <1>8, <1>11, StepsAt DEF AfterGet, Paced
<1> QED
  BY <1>5, <1>9, <1>10, <1>11

\* ... and so does a creation, which is not repeated,
LEMMA CreatedShortens ==
    ASSUME TypeOK, CallsOK, AllGathered, AllPaced, NEW c \in Consumers, Created(c)
    PROVE  Paced(task'[c]) /\ StepsLeft(task'[c]) < StepsLeft(task[c])
<1> DEFINE k == task[c].kind
           v == [task[c] EXCEPT !.refs[task[c].kind] = EntryId(task[c].kind)]
<1>1. task[c].pc = "create"
  BY DEF Created
<1>2. v \in Task /\ task'[c] = AfterStatusAndService(v) /\ EntryId(k) \in Nat \ {NoId}
  BY CreatedAdvances DEF AfterCreate
<1>3. /\ v.attempts = task[c].attempts
      /\ v.refs = [task[c].refs EXCEPT ![k] = EntryId(k)]
  BY <1>1, <1>2, CallLooksUp, RefIsTask
<1> HIDE DEF v
<1>4. /\ DBRetries \in Nat /\ v.attempts \in Nat /\ v.attempts <= DBRetries
      /\ k \in Kinds /\ k \in {"status", "service", "source"}
      /\ task[c].refs \in [Kinds -> Nat]
  BY <1>1, <1>2, <1>3, CallLooksUp, ConfigAssumption DEF AllPaced, Paced, Task, Kinds
<1>5. StepsLeft(task[c]) = DBRetries + (IF k = "status" THEN 5
                               ELSE IF k = "service" THEN 4 ELSE 2)
  BY <1>1 DEF StepsLeft, LookupsLeft
<1>6. v.refs[k] # NoId /\ \A j \in Kinds \ {k} : v.refs[j] = task[c].refs[j]
  BY <1>2, <1>3, <1>4
<1>7. /\ k = "service" => task[c].refs["status"] # NoId
      /\ k = "source" => task[c].refs["status"] # NoId /\ task[c].refs["service"] # NoId
  BY <1>1 DEF AllPaced, Paced, AllGathered, Gathered, Placed, AtSource
<1>8. "status" \in Kinds /\ "service" \in Kinds /\ "source" \in Kinds
  BY DEF Kinds
<1>9. /\ v.refs["status"] # NoId \/ k = "status"
      /\ k = "source" => v.refs["status"] # NoId /\ v.refs["service"] # NoId
      /\ k = "service" => v.refs["status"] # NoId
  BY <1>6, <1>7, <1>8, <1>4
<1> HIDE DEF k
<1>10. StepsLeft(AfterStatusAndService(v)) \in Int /\ Paced(AfterStatusAndService(v))
  BY <1>2, <1>4, AfterStatusAndServiceShortens, AfterStatusAndServiceContinues,
     StepsAreNumbers DEF Continues
<1>11. CASE k = "status"
  BY <1>2, <1>4, <1>5, <1>6, <1>10, <1>11, AfterStatusAndServiceShortens
<1>12. CASE k = "service"
  BY <1>2, <1>4, <1>5, <1>6, <1>9, <1>10, <1>12, AfterStatusAndServiceShortens
<1>13. CASE k = "source"
  BY <1>2, <1>4, <1>5, <1>6, <1>9, <1>10, <1>13, AfterStatusAndServiceShortens
<1> QED
  BY <1>4, <1>11, <1>12, <1>13

\* ... the upsert, after which the look-ups are to come,
LEMMA UpsertedShortens ==
    ASSUME TypeOK, CallsOK, AllPaced, NEW c \in Consumers, Upserted(c)
    PROVE  Paced(task'[c]) /\ StepsLeft(task'[c]) < StepsLeft(task[c])
<1> DEFINE w == At(task[c], "get", "status")
           u == [w EXCEPT !.payload = UpsertedId(task[c].msg)]
<1>1. task[c].pc = "upsert" /\ task'[c] = u
  BY DEF Upserted, Advance, TypeOK
<1>2. /\ w \in Task /\ w.pc = "get" /\ w.kind = "status"
      /\ w.attempts = task[c].attempts
  BY <1>1, CallLooksUp, AtIsTask DEF Steps, Kinds
<1> HIDE DEF w
<1>3. u.pc = "get" /\ u.kind = "status" /\ u.attempts = task[c].attempts
  BY <1>2 DEF Task
<1> HIDE DEF u
<1>4. StepsLeft(u) = DBRetries + 7 /\ StepsLeft(task[c]) = DBRetries + 8
  BY <1>1, <1>3 DEF StepsLeft, LookupsLeft
<1>5. Paced(u)
  BY <1>3 DEF AllPaced, Paced
<1> QED
  BY <1>1, <1>4, <1>5, ConfigAssumption

\* ... and an attempt, of which there is one less,
LEMMA RetriedShortens ==
    ASSUME TypeOK, CallsOK, NEW c \in Consumers, Retried(c)
    PROVE  Paced(task'[c]) /\ StepsLeft(task'[c]) < StepsLeft(task[c])
<1>1. task[c] \in Task /\ task[c].pc = "insert" /\ task[c].attempts < DBRetries
  BY DEF Retried, TypeOK
<1>2. PICK id \in Nat : Retry(c, id)
  <2>1. task[c].statusId \in Nat /\ InsertId(task[c]) \in Nat
    BY DEF TypeOK, TablesTypeOK, Task, InsertId
  <2> QED
    BY <2>1 DEF Retried
<1>3. task'[c].pc = "insert" /\ task'[c].attempts = task[c].attempts + 1
  <2>1. task'[c] = [task[c] EXCEPT !.attempts = @ + 1, !.statusId = id]
    BY <1>2, RetryType
  <2> QED
    BY <1>1, <2>1 DEF Task
<1>4. task[c].attempts \in Nat /\ DBRetries \in Nat
  BY <1>1, ConfigAssumption DEF Task
<1> QED
  BY <1>1, <1>3, <1>4 DEF Paced, StepsLeft

\* Work ends the call or takes it further in one of these ways.
LEMMA WorkMoves ==
    ASSUME NEW c \in Consumers, TypeOK, Work(c)
    PROVE  /\ task[c].pc # "idle"
           /\ Ends(c) \/ Upserted(c) \/ LookedUp(c) \/ Created(c) \/ Retried(c)
<1>1. Drop(c) \/ Finish(c) => Ends(c)
  BY DEF Drop, Finish, Ends, TypeOK
<1>2. CASE Upsert(c) \/ UpsertFault(c)
  BY <1>1, <1>2 DEF Upsert, UpsertFault, Upserted
<1>3. CASE Get(c) \/ GetFault(c)
  BY <1>3 DEF Get, GetFault, LookedUp, tables
<1>4. CASE Create(c) \/ CreateFault(c)
  BY <1>1, <1>4 DEF Create, CreateFault, Created
<1>5. CASE Insert(c)
  BY <1>1, <1>5 DEF Insert, Inserting, Retried
<1>6. CASE InsertFault(c)
  BY <1>6 DEF InsertFault, Inserting, Retried
<1>7. CASE GiveUp(c)
  BY <1>1, <1>7 DEF GiveUp
<1> QED
  BY <1>2, <1>3, <1>4, <1>5, <1>6, <1>7 DEF Work

\* A call that ends or goes on is nearer to its end than before.
LEMMA MovesShorten ==
    ASSUME TypeOK, CallsOK, AllGathered, AllPaced, NEW c \in Consumers, task[c].pc # "idle",
           Ends(c) \/ Upserted(c) \/ LookedUp(c) \/ Created(c) \/ Retried(c)
    PROVE  Paced(task'[c]) /\ StepsLeft(task'[c]) < StepsLeft(task[c])
<1>1. CASE Ends(c)
  <2>1. Paced(Idle) /\ StepsLeft(Idle) = 0
    BY ConfigAssumption DEF Paced, StepsLeft, Idle
  <2>2. StepsLeft(task[c]) \in Nat \ {0}
    BY StepsAreNumbers DEF TypeOK, AllPaced
  <2> QED
    BY <1>1, <2>1, <2>2 DEF Ends
<1> QED
  BY <1>1, UpsertedShortens, LookedUpShortens, CreatedShortens, RetriedShortens

\* So every call stays within what it may take, whoever moves.
LEMMA PacedStep ==
    ASSUME TypeOK, CallsOK, AllGathered, AllPaced, [Next]_vars
    PROVE  /\ AllPaced'
           /\ \A c \in Consumers :
                 task[c].pc # "idle" => StepsLeft(task'[c]) <= StepsLeft(task[c])
<1>1. ASSUME NEW c \in Consumers
      PROVE  /\ Paced(task'[c])
             /\ task[c].pc # "idle" => StepsLeft(task'[c]) <= StepsLeft(task[c])
  <2>0. StepsLeft(task[c]) \in Int /\ Paced(task[c])
    BY StepsAreNumbers DEF TypeOK, AllPaced
  <2>1. CASE task'[c] = task[c]
    BY <2>0, <2>1
  <2>2. CASE task[c].pc # "idle" /\ (Ends(c) \/ Upserted(c) \/ LookedUp(c) \/ Created(c)
                                      \/ Retried(c))
    <3>1. Paced(task'[c]) /\ StepsLeft(task'[c]) < StepsLeft(task[c])
      BY <2>2, MovesShorten
    <3>2. StepsLeft(task'[c]) \in Int
      BY <3>1, TypeStep, StepsAreNumbers DEF TypeOK
    <3> QED
      BY <2>0, <3>1, <3>2
  <2>3. CASE Begins(c)
    <3>1. task'[c].pc = "upsert" /\ task'[c].attempts = 0 /\ task[c].pc = "idle"
      BY <2>3, BeginsFresh DEF Begins
    <3> QED
      BY <3>1, ConfigAssumption DEF Paced
  <2>4. CASE task[c].pc = "idle" /\ Ends(c)
    BY <2>0, <2>1, <2>4 DEF Ends, CallsOK, CallOK
  <2>5. Upserted(c) \/ LookedUp(c) \/ Created(c) \/ Retried(c) => task[c].pc # "idle"
    BY DEF Upserted, LookedUp, Created, Retried
  <2> QED
    BY <2>1, <2>2, <2>3, <2>4, <2>5, MovesStep DEF Moves
<1> QED
  BY <1>1 DEF AllPaced, Paced

(***************************************************************************)
(* Every step of a call brings it nearer to its end, and no other step     *)
(* takes it back: neither the work of other consumers nor what expires.    *)
(***************************************************************************)
CallsShorten ==
    [][\A c \in Consumers :
        /\ Work(c) => StepsLeft(task'[c]) < StepsLeft(task[c])
        /\ task[c].pc # "idle" => StepsLeft(task'[c]) <= StepsLeft(task[c])]_vars

CallsAreShort ==
    \A c \in Consumers : /\ StepsLeft(task[c]) \in 0..(DBRetries + 8)
                         /\ StepsLeft(task[c]) = 0 <=> task[c].pc = "idle"

\* Calls are paced in every run.
LEMMA CallsPaced == Spec => []AllPaced
<1>1. Init => AllPaced
  BY ConfigAssumption DEF Init, AllPaced, Paced, Idle
<1>2. HandlerInv /\ AllPaced /\ [Next]_vars => AllPaced'
  BY PacedStep DEF HandlerInv, CallsTrue, CallTrue, AllGathered
<1> QED
  BY <1>1, <1>2, HandlerInvariant, PTL DEF Spec

(***************************************************************************)
(* A call takes at most DBRetries + 8 statements, whatever fails: each     *)
(* lowers a number that starts there and is 0 only at the end.  What       *)
(* CallEnds adds is that the process goes on, which is the fairness.       *)
(***************************************************************************)
THEOREM CallsComeNearer == Spec => []CallsAreShort /\ CallsShorten
<1>1. TypeOK /\ AllPaced => CallsAreShort
  BY StepsAreNumbers DEF TypeOK, AllPaced, CallsAreShort
<1>2. HandlerInv /\ AllPaced /\ [Next]_vars
      => [\A c \in Consumers :
            /\ Work(c) => StepsLeft(task'[c]) < StepsLeft(task[c])
            /\ task[c].pc # "idle" => StepsLeft(task'[c]) <= StepsLeft(task[c])]_vars
  <2> SUFFICES ASSUME HandlerInv, AllPaced, [Next]_vars, NEW c \in Consumers
               PROVE  /\ Work(c) => StepsLeft(task'[c]) < StepsLeft(task[c])
                      /\ task[c].pc # "idle" => StepsLeft(task'[c]) <= StepsLeft(task[c])
    OBVIOUS
  <2>1. TypeOK /\ CallsOK /\ AllGathered
    BY DEF HandlerInv, CallsTrue, CallTrue, AllGathered
  <2> QED
    BY <2>1, WorkMoves, MovesShorten, PacedStep
<1> QED
  BY <1>1, <1>2, CallsPaced, HandlerInvariant, PTL DEF Spec, HandlerInv, CallsShorten

=============================================================================
