------------------------- MODULE TrackerSystemProofs -------------------------
(***************************************************************************)
(* Proofs about the consumers and the cron jobs on one database, for any   *)
(* number of days, runs and faults.  Of the invariants of MessageHandler   *)
(* those hold on that no row of payloads or payload_statuses has to stay.  *)
(***************************************************************************)
EXTENDS TrackerSystem, HandlerHistoryProofs

-----------------------------------------------------------------------------
(***************************************************************************)
(* A step of the jobs leaves the calls alone and takes rows away only.     *)
(***************************************************************************)
Kept(table, after) ==
    /\ DOMAIN after \subseteq DOMAIN table
    /\ \A id \in DOMAIN after : after[id] = table[id]

Cleaned ==
    /\ UNCHANGED <<local, history, payloadSeq, lookups, lookupSeq, statusSeq>>
    /\ Kept(payloads, payloads') /\ Kept(statuses, statuses')

\* What is left of a table without some of its rows.
LEMMA WithoutRowsKept ==
    ASSUME NEW table, NEW gone
    PROVE  /\ DOMAIN WithoutRows(table, gone) = DOMAIN table \ gone
           /\ Kept(table, WithoutRows(table, gone))
BY DEF WithoutRows, Kept

\* The statements of the jobs that touch a table.
LEMMA WhoCleans ==
    ASSUME Maintain
    PROVE  \/ UNCHANGED <<payloads, statuses>>
           \/ DropPartition
           \/ DeletePayloads
BY DEF Maintain, RetentionNext, Tick, Clean, StartCleaning, CreatePartition,
   CreatePartitionFault, StepFails, PodKilled, Backfill, tables

\* Whatever a job does, calls and sequences stay as they are.
LEMMA MaintainCleans ==
    ASSUME Maintain
    PROVE  Cleaned
<1>1. UNCHANGED <<local, history>>
  BY DEF Maintain
<1>2. UNCHANGED <<payloadSeq, lookups, lookupSeq, statusSeq>>
  BY DEF Maintain, RetentionNext, Tick, Clean, StartCleaning, CreatePartition,
     CreatePartitionFault, DropPartition, DeletePayloads, StepFails, PodKilled, Backfill,
     tables, OtherThanCleaned
<1>3. Kept(payloads, payloads') /\ Kept(statuses, statuses')
  <2>1. CASE UNCHANGED <<payloads, statuses>>
    BY <2>1 DEF Kept
  <2>2. CASE DropPartition
    <3>1. PICK gone : UNCHANGED payloads /\ statuses' = WithoutRows(statuses, gone)
      BY <2>2 DEF DropPartition, drop_partition
    <3>2. Kept(statuses, statuses')
      BY <3>1, WithoutRowsKept
    <3> QED
      BY <3>1, <3>2 DEF Kept
  <2>3. CASE DeletePayloads
    <3>1. PICK gone, orphans : /\ payloads' = WithoutRows(payloads, gone)
                               /\ statuses' = WithoutRows(statuses, orphans)
      BY <2>3 DEF DeletePayloads, delete_payloads
    <3> QED
      BY <3>1, WithoutRowsKept
  <2> QED
    BY <2>1, <2>2, <2>3, WhoCleans
<1> QED
  BY <1>1, <1>2, <1>3 DEF Cleaned

\* A step of the consumers is one of MessageHandler.
LEMMA ConsumeIsNext == Consume => [Next]_vars
BY DEF Consume, Next

-----------------------------------------------------------------------------
(***************************************************************************)
(* Types.  The retry loop is left before its rounds are used up.           *)
(***************************************************************************)
RoundsLeft == job = "create" => tries < MAX_NUMBER_OF_RETRIES

\* The jobs keep their own types,
LEMMA RetentionTypes ==
    ASSUME TypeOK, RetentionTypeOK, RoundsLeft, RetentionNext
    PROVE  RetentionTypeOK' /\ RoundsLeft'
<1> USE RetentionAssumption, DaysAssumption DEF RetentionTypeOK, RoundsLeft, jobHistory, Clock
<1>1. CASE Tick
  BY <1>1 DEF Tick
<1>2. CASE StartCleaning
  BY <1>2 DEF StartCleaning
<1>3. CASE CreatePartition
  BY <1>3 DEF CreatePartition
<1>4. CASE CreatePartitionFault
  BY <1>4 DEF CreatePartitionFault, JobFault
<1>5. CASE DropPartition \/ DeletePayloads
  BY <1>5 DEF DropPartition, DeletePayloads
<1>6. CASE StepFails \/ PodKilled
  <2>1. CASE StepFails
    BY <2>1 DEF StepFails, JobFault
  <2>2. CASE PodKilled
    BY <2>2 DEF PodKilled, JobFault
  <2> QED
    BY <1>6, <2>1, <2>2
<1>7. ASSUME NEW d \in Days, Backfill(d) PROVE RetentionTypeOK' /\ RoundsLeft'
  BY <1>7 DEF Backfill, JobFault
<1> QED
  BY <1>1, <1>2, <1>3, <1>4, <1>5, <1>6, <1>7 DEF RetentionNext, Clean

\* ... and those of the tables and the calls.
LEMMA MaintainTypes ==
    ASSUME TypeOK, CallsOK, RetentionTypeOK, Maintain
    PROVE  TypeOK' /\ CallsOK'
<1>1. Cleaned
  BY MaintainCleans
<1>2. partitions' \subseteq Days
  BY DaysAssumption
     DEF Maintain, RetentionNext, Tick, Clean, StartCleaning, CreatePartition,
     CreatePartitionFault, DropPartition, drop_partition, DeletePayloads, StepFails,
     PodKilled, Backfill, create_partition, tables, TypeOK, TablesTypeOK, RetentionTypeOK,
     Clock
<1>3. IsTable(payloads', PayloadRow) /\ IsTable(statuses', StatusRow)
  <2>1. payloads' = [id \in DOMAIN payloads' |-> payloads'[id]]
        /\ statuses' = [id \in DOMAIN statuses' |-> statuses'[id]]
    <3>1. IsTable(payloads, PayloadRow) /\ IsTable(statuses, StatusRow)
      BY DEF TypeOK, TablesTypeOK
    <3>2. CASE UNCHANGED <<payloads, statuses>>
      BY <3>1, <3>2 DEF IsTable
    <3>3. CASE DropPartition
      BY <3>1, <3>3 DEF DropPartition, drop_partition, WithoutRows, IsTable
    <3>4. CASE DeletePayloads
      BY <3>4 DEF DeletePayloads, delete_payloads, WithoutRows
    <3> QED
      BY <3>2, <3>3, <3>4, WhoCleans
  <2> QED
    BY <1>1, <2>1 DEF Cleaned, Kept, TypeOK, TablesTypeOK, IsTable
<1>4. TablesTypeOK'
  BY <1>1, <1>2, <1>3 DEF Cleaned, TypeOK, TablesTypeOK
<1>5. UNCHANGED <<local, history>>
  BY <1>1 DEF Cleaned
<1> QED
  BY <1>4, <1>5 DEF local, history, TypeOK, CallsOK, CallOK, Known

\* The sets of types of the whole system, with what they rest on.
SystemTypes == SystemTypeOK /\ CallsOK /\ RoundsLeft

\* The migration leaves an empty database with one partition.
LEMMA SystemTypesInit == SystemInit => SystemTypes
<1> SUFFICES ASSUME SystemInit PROVE SystemTypes
  OBVIOUS
<1>1. TypeOK /\ CallsOK
  BY TypeInit, CallsInit DEF SystemInit
<1>2. RetentionTypeOK /\ RoundsLeft
  <2>1. today \in Clock /\ partitions = {today} /\ job = "idle" /\ tries = 0 /\ started = {}
        /\ made = {today} /\ droppedOn = {} /\ backfilled = {} /\ jobFaults = 0
    BY DEF SystemInit, RetentionInit
  <2> QED
    BY <2>1, RetentionAssumption DEF RetentionTypeOK, RoundsLeft, Clock
<1>3. prepared = {}
  BY DEF SystemInit
<1> QED
  BY <1>1, <1>2, <1>3 DEF SystemTypes, SystemTypeOK

\* Consumers keep their types beside the jobs, and the jobs theirs.
LEMMA SystemTypesStep == SystemTypes /\ [SystemNext]_systemVars => SystemTypes'
<1> SUFFICES ASSUME SystemTypes, [SystemNext]_systemVars PROVE SystemTypes'
  OBVIOUS
<1>0. TypeOK /\ CallsOK /\ RetentionTypeOK /\ RoundsLeft /\ prepared \subseteq DOMAIN delivered
  BY DEF SystemTypes, SystemTypeOK
<1>1. CASE Consume
  <2>1. TypeOK' /\ CallsOK'
    BY <1>0, <1>1, ConsumeIsNext, TypeStep, CallsStep
  <2>2. UNCHANGED jobVars
    BY <1>1 DEF Consume
  <2>3. prepared' \subseteq prepared \cup DOMAIN delivered'
    BY <1>1 DEF Consume
  <2>4. Len(delivered) \in Nat /\ Len(delivered') \in Nat
        /\ DOMAIN delivered = 1..Len(delivered) /\ DOMAIN delivered' = 1..Len(delivered')
    BY <1>0, <2>1, LenProperties DEF TypeOK
  <2>5. DOMAIN delivered \subseteq DOMAIN delivered'
    <3>1. LogKept
      BY <1>0, <1>1, ConsumeIsNext, LogKeptStep
    <3> QED
      BY <2>4, <3>1 DEF LogKept
  <2> QED
    BY <1>0, <2>1, <2>2, <2>3, <2>5
       DEF jobVars, jobHistory, RetentionTypeOK, RoundsLeft, SystemTypes, SystemTypeOK
<1>2. CASE Maintain
  <2>1. TypeOK' /\ CallsOK' /\ RetentionTypeOK' /\ RoundsLeft'
    BY <1>0, <1>2, MaintainTypes, RetentionTypes DEF Maintain
  <2>2. UNCHANGED <<prepared, delivered>>
    BY <1>2 DEF Maintain, history
  <2> QED
    BY <1>0, <2>1, <2>2 DEF SystemTypes, SystemTypeOK
<1>3. CASE UNCHANGED systemVars
  <2>1. UNCHANGED <<vars, jobVars, prepared>>
    BY <1>3 DEF systemVars
  <2>2. TypeOK' /\ CallsOK'
    BY <1>0, <2>1, TypeStep, CallsStep
  <2> QED
    BY <1>0, <2>1, <2>2
       DEF vars, history, jobVars, jobHistory, RetentionTypeOK, RoundsLeft, SystemTypes,
           SystemTypeOK
<1> QED
  BY <1>1, <1>2, <1>3 DEF SystemNext

\* The types hold whatever the clock, the jobs and the consumers do.
THEOREM SystemTypesCorrect == SystemSpec => []SystemTypes
BY SystemTypesInit, SystemTypesStep, PTL DEF SystemSpec

-----------------------------------------------------------------------------
(***************************************************************************)
(* What cleaning takes away.                                               *)
(***************************************************************************)
LEMMA RecentRowsKeptStep ==
    ASSUME SystemTypes, [SystemNext]_systemVars
    PROVE  /\ \A id \in DOMAIN payloads \ DOMAIN payloads' :
                 payloads[id].created + RetentionDays <= today
           /\ \A id \in DOMAIN statuses \ DOMAIN statuses' :
                 \/ statuses[id].date + RetentionDays <= today
                 \/ statuses[id].payload \notin DOMAIN payloads'
<1>1. CASE Consume \/ UNCHANGED systemVars
  <2>1. [Next]_vars
    BY <1>1, ConsumeIsNext DEF systemVars
  <2>2. PayloadsKept /\ StoredKept
    BY <2>1, KeptStep, StoredKeptStep DEF SystemTypes, SystemTypeOK
  <2> QED
    BY <2>2 DEF PayloadsKept, StoredKept
<1>2. CASE UNCHANGED <<payloads, statuses>>
  BY <1>2
<1>3. CASE DropPartition
  <2> DEFINE gone == {id \in DOMAIN statuses : IsExpiring(statuses[id].date)}
  <2>1. UNCHANGED payloads /\ statuses' = WithoutRows(statuses, gone)
    BY <1>3 DEF DropPartition, drop_partition
  <2>2. DOMAIN statuses \ DOMAIN statuses' \subseteq gone
    BY <2>1, WithoutRowsKept
  <2>3. today \in Nat
    BY DaysAssumption DEF SystemTypes, SystemTypeOK, RetentionTypeOK, Clock
  <2> QED
    BY <2>1, <2>2, <2>3 DEF IsExpiring
<1>4. CASE DeletePayloads
  <2>1. PICK early \in SUBSET Expiring : delete_payloads(Old \cup early)
    BY <1>4 DEF DeletePayloads
  <2> DEFINE gone == Old \cup early
             orphans == {id \in DOMAIN statuses : statuses[id].payload \in gone}
  <2>2. /\ payloads' = WithoutRows(payloads, gone)
        /\ statuses' = WithoutRows(statuses, orphans)
    BY <2>1 DEF delete_payloads
  <2>3. today \in Nat
    BY DaysAssumption DEF SystemTypes, SystemTypeOK, RetentionTypeOK, Clock
  <2>4. ASSUME NEW id \in gone, id \in DOMAIN payloads
        PROVE  payloads[id].created + RetentionDays <= today
    <3>1. payloads[id].created \in Nat
      BY <2>4, DaysAssumption DEF SystemTypes, SystemTypeOK, TypeOK, TablesTypeOK, IsTable,
         PayloadRow
    <3> QED
      BY <2>3, <2>4, <3>1, RetentionAssumption DEF Old, Expiring, IsExpiring
  <2> HIDE DEF gone
  <2>5. DOMAIN payloads' = DOMAIN payloads \ gone
    BY <2>2, WithoutRowsKept
  <2>6. DOMAIN statuses \ DOMAIN statuses' \subseteq orphans
    BY <2>2, WithoutRowsKept
  <2>7. \A id \in DOMAIN payloads \ DOMAIN payloads' :
            payloads[id].created + RetentionDays <= today
    BY <2>4, <2>5
  <2>8. \A id \in DOMAIN statuses \ DOMAIN statuses' :
            statuses[id].payload \notin DOMAIN payloads'
    BY <2>5, <2>6
  <2> QED
    BY <2>7, <2>8
<1>5. Maintain => UNCHANGED <<payloads, statuses>> \/ DropPartition \/ DeletePayloads
  BY WhoCleans
<1> QED
  BY <1>1, <1>2, <1>3, <1>4, <1>5 DEF SystemNext

(***************************************************************************)
(* Cleaning takes nothing recent away: no payload younger than             *)
(* RETENTION_DAYS, and no status that young but with its payload.          *)
(***************************************************************************)
THEOREM RecentRowsStay == SystemSpec => RecentRowsKept
<1>1. SystemTypes /\ [SystemNext]_systemVars
      => [/\ \A id \in DOMAIN payloads \ DOMAIN payloads' :
                payloads[id].created + RetentionDays <= today
          /\ \A id \in DOMAIN statuses \ DOMAIN statuses' :
                \/ statuses[id].date + RetentionDays <= today
                \/ statuses[id].payload \notin DOMAIN payloads']_systemVars
  BY RecentRowsKeptStep
<1> QED
  BY <1>1, SystemTypesCorrect, PTL DEF SystemSpec, RecentRowsKept

-----------------------------------------------------------------------------
(***************************************************************************)
(* Partitions.  drop_partition runs for the day the clock shows, so every  *)
(* day it ran on is over or today.                                         *)
(***************************************************************************)
DroppedInThePast == \A d \in droppedOn : d <= today

\* A day is dropped only when it expires, and made only for tomorrow or by hand.
LEMMA PartitionsStep ==
    ASSUME SystemTypes, DroppedInThePast, PartitionsFollowTheJobs,
           [SystemNext]_systemVars
    PROVE  DroppedInThePast' /\ PartitionsFollowTheJobs'
<1> DEFINE Made    == \A d \in made \cup backfilled :
                          d + RetentionDays > today => d \in partitions
           Pruned == \A d \in partitions : d + RetentionDays \in droppedOn => d \in backfilled
<1>0. /\ Days \subseteq Nat /\ RetentionDays \in Nat \ {0}
      /\ today \in Nat /\ droppedOn \subseteq Nat /\ partitions \subseteq Nat
      /\ made \subseteq Nat /\ backfilled \subseteq Nat
  BY DaysAssumption, RetentionAssumption
     DEF SystemTypes, SystemTypeOK, TypeOK, TablesTypeOK, RetentionTypeOK, Clock
<1>1. DroppedInThePast /\ Made /\ Pruned
  BY DEF PartitionsFollowTheJobs
<1>2. CASE UNCHANGED <<today, made, droppedOn, backfilled, partitions>>
  BY <1>1, <1>2 DEF DroppedInThePast, PartitionsFollowTheJobs
<1>3. CASE Tick
  <2>1. today' = today + 1 /\ UNCHANGED <<made, droppedOn, backfilled, partitions>>
    BY <1>3 DEF Tick, tables, jobHistory
  <2>2. (\A d \in droppedOn : d <= today)'
    BY <1>0, <1>1, <2>1 DEF DroppedInThePast
  <2>3. ASSUME NEW d \in made \cup backfilled, d + RetentionDays > today + 1
        PROVE  d \in partitions
    BY <1>0, <1>1, <2>3
  <2> QED
    BY <1>1, <2>1, <2>2, <2>3 DEF DroppedInThePast, PartitionsFollowTheJobs
<1>4. CASE CreatePartition \/ CreatePartitionFault
  <2>1. /\ UNCHANGED <<today, droppedOn, backfilled>>
        /\ \/ partitions' = partitions \cup {today + 1} /\ made' \subseteq made \cup {today + 1}
           \/ UNCHANGED <<partitions, made>>
    BY <1>4 DEF CreatePartition, CreatePartitionFault, create_partition
  <2>2. today + 1 + RetentionDays \notin droppedOn
    BY <1>0, <1>1 DEF DroppedInThePast
  <2>3. Made' /\ Pruned'
    BY <1>0, <1>1, <2>1, <2>2
  <2> QED
    BY <1>1, <2>1, <2>3 DEF DroppedInThePast, PartitionsFollowTheJobs
<1>5. CASE DropPartition
  <2>1. /\ partitions' = {d \in partitions : ~IsExpiring(d)}
        /\ droppedOn' = droppedOn \cup {today}
        /\ UNCHANGED <<today, made, backfilled>>
    BY <1>5 DEF DropPartition, drop_partition
  <2>2. DroppedInThePast'
    BY <1>0, <1>1, <2>1 DEF DroppedInThePast
  <2>3. Made' /\ Pruned'
    BY <1>0, <1>1, <2>1 DEF IsExpiring
  <2> QED
    BY <2>2, <2>3 DEF PartitionsFollowTheJobs
<1>6. ASSUME NEW e \in Days, Backfill(e)
      PROVE  DroppedInThePast' /\ PartitionsFollowTheJobs'
  <2>1. /\ partitions' = partitions \cup {e} /\ backfilled' = backfilled \cup {e}
        /\ UNCHANGED <<today, made, droppedOn>>
    BY <1>6 DEF Backfill, create_partition
  <2> QED
    BY <1>0, <1>1, <2>1 DEF DroppedInThePast, PartitionsFollowTheJobs
<1>7. Consume \/ UNCHANGED systemVars
      => UNCHANGED <<today, made, droppedOn, backfilled, partitions>>
  <2>1. Consume => UNCHANGED partitions
    BY ConsumeIsNext, PartitionsStay
  <2> QED
    BY <2>1 DEF Consume, systemVars, vars, tables, jobVars, jobHistory
<1>8. StartCleaning \/ DeletePayloads \/ StepFails \/ PodKilled
      => UNCHANGED <<today, made, droppedOn, backfilled, partitions>>
  BY DEF StartCleaning, DeletePayloads, StepFails, PodKilled, tables, jobHistory
<1> QED
  BY <1>2, <1>3, <1>4, <1>5, <1>6, <1>7, <1>8 DEF SystemNext, Maintain, RetentionNext, Clean

(***************************************************************************)
(* The partitions are those the jobs made and have not had to drop, on     *)
(* whatever days they run, fail, or are killed.                            *)
(***************************************************************************)
THEOREM PartitionsAreTheJobs == SystemSpec => []PartitionsFollowTheJobs
<1>1. SystemInit => DroppedInThePast /\ PartitionsFollowTheJobs
  BY DEF SystemInit, RetentionInit, DroppedInThePast, PartitionsFollowTheJobs
<1>2. SystemTypes /\ DroppedInThePast /\ PartitionsFollowTheJobs /\ [SystemNext]_systemVars
      => (DroppedInThePast /\ PartitionsFollowTheJobs)'
  BY PartitionsStep
<1> QED
  BY <1>1, <1>2, SystemTypesCorrect, PTL DEF SystemSpec

-----------------------------------------------------------------------------
(***************************************************************************)
(* Rows under cleaning.  A call may go on for a payload that is gone: what *)
(* it holds is true of the payload if that is still there, because ids are *)
(* not handed out twice.  A payload is as old as a message of its request. *)
(***************************************************************************)
PayloadHeld(t) ==
    t.pc \notin {"idle", "upsert"} =>
        /\ t.payload <= payloadSeq
        /\ t.payload \in DOMAIN payloads => payloads[t.payload].request = t.msg.request

HeldPayloads == NoChosenIds => \A c \in Consumers : PayloadHeld(task[c])

\* Message e made payload id.
CreatedBy(id, e) ==
    /\ Accepted(delivered[e].msg)
    /\ delivered[e].msg.request = payloads[id].request
    /\ delivered[e].msg.date = payloads[id].created

PayloadsAreMessages == \A id \in DOMAIN payloads : \E e \in Known : CreatedBy(id, e)

\* A call's message keeps the request of what was handed over.
LEMMA CallKeepsRequest ==
    ASSUME TypeOK, CallsOK, NEW c \in Consumers, task[c].pc # "idle"
    PROVE  task[c].msg.request = delivered[task[c].delivery].msg.request
<1>1. /\ task[c].delivery \in Known
      /\ Accepted(delivered[task[c].delivery].msg)
      /\ task[c].msg = sanitizePayload(delivered[task[c].delivery].msg)
  BY DEF CallsOK, CallOK
<1>2. delivered[task[c].delivery].msg \in Message
  BY <1>1, DeliveredIsMessage
<1> QED
  BY <1>1, <1>2, SanitizedIsMessage

\* Unless a message chooses an id, a new payload has one not used before.
LEMMA NewPayloadIds ==
    ASSUME TypeOK, CallsOK, NoChosenIds, [Next]_vars
    PROVE  /\ payloadSeq \in Nat /\ payloadSeq' \in Nat /\ payloadSeq' >= payloadSeq
           /\ \A id \in DOMAIN payloads' \ DOMAIN payloads : id = payloadSeq + 1
<1>1. payloadSeq \in Nat
  BY DEF TypeOK, TablesTypeOK
<1>2. CASE UNCHANGED <<payloads, payloadSeq>>
  BY <1>1, <1>2
<1>3. ASSUME NEW c \in Consumers, task[c].pc = "upsert", TakePayloadId(task[c].msg),
             \/ UNCHANGED payloads
             \/ /\ ~UpsertRejected(task[c].msg)
                /\ UpsertPayloadByRequestId(task[c].msg)
      PROVE  /\ payloadSeq' = payloadSeq + 1
             /\ \A id \in DOMAIN payloads' \ DOMAIN payloads : id = payloadSeq + 1
  <2> DEFINE m == task[c].msg
  <2>1. m.payloadId = NoId /\ m \in Message
    BY <1>3, CallIsKnown, CallKeepsMessage, CallLooksUp DEF NoChosenIds
  <2>2. payloadSeq' = payloadSeq + 1 /\ ProposedId(m) = payloadSeq + 1
    BY <1>3, <2>1 DEF TakePayloadId, ProposedId
  <2>3. CASE UNCHANGED payloads
    BY <2>2, <2>3
  <2>4. CASE ~UpsertRejected(m) /\ UpsertPayloadByRequestId(m)
    <3>1. DOMAIN payloads' = DOMAIN payloads \cup {UpsertedId(m)}
      BY <2>1, <2>4, UpsertTable
    <3>2. RowsOfRequest(m.request) # {} => UpsertedId(m) \in RowsOfRequest(m.request)
      BY DEF UpsertedId
    <3>3. UpsertedId(m) \in DOMAIN payloads \/ UpsertedId(m) = payloadSeq + 1
      BY <2>2, <3>2 DEF UpsertedId, RowsOfRequest
    <3> QED
      BY <2>2, <3>1, <3>3
  <2> QED
    BY <1>3, <2>3, <2>4
<1> QED
  BY <1>1, <1>2, <1>3, WhoUpserts

\* So what a call holds of its payload stays true while consumers work,
LEMMA HeldConsuming ==
    ASSUME TypeOK, CallsOK, PayloadIdsFromSeq, HeldPayloads, [Next]_vars, NoChosenIds',
           NEW c \in Consumers
    PROVE  PayloadHeld(task[c])'
<1>1. NoChosenIds
  BY KnownGrows DEF NoChosenIds
<1>2. PayloadHeld(task[c])
  BY <1>1 DEF HeldPayloads
<1>3. PayloadIdsFromSeq' /\ PayloadsKept
  BY PayloadIdsStep, KeptStep
<1>4. SUFFICES ASSUME task'[c].pc \notin {"idle", "upsert"}
               PROVE  /\ task'[c].payload <= payloadSeq'
                      /\ task'[c].payload \in DOMAIN payloads'
                         => payloads'[task'[c].payload].request = task'[c].msg.request
  BY DEF PayloadHeld
<1>5. Moves(c)
  BY MovesStep
<1>6. task'[c].msg = task[c].msg
  BY <1>4, <1>5, PayloadMoves
<1>7. CASE task[c].pc \notin {"idle", "upsert"} /\ task'[c].payload = task[c].payload
  <2>1. task[c].payload \in Nat
    BY DEF TypeOK, Task
  <2>2. /\ task[c].payload <= payloadSeq
        /\ task[c].payload \in DOMAIN payloads
           => payloads[task[c].payload].request = task[c].msg.request
    BY <1>2, <1>7 DEF PayloadHeld
  <2>3. task[c].payload # payloadSeq + 1 /\ task[c].payload <= payloadSeq'
    BY <1>1, <2>1, <2>2, NewPayloadIds
  <2>4. task[c].payload \in DOMAIN payloads' => task[c].payload \in DOMAIN payloads
    BY <1>1, <2>3, NewPayloadIds
  <2> QED
    BY <1>3, <1>6, <1>7, <2>2, <2>3, <2>4 DEF PayloadsKept
<1>8. CASE /\ task[c].pc = "upsert" /\ task[c].msg \in Message
           /\ ~UpsertRejected(task[c].msg)
           /\ UpsertPayloadByRequestId(task[c].msg)
           /\ task'[c].payload = UpsertedId(task[c].msg)
  <2>1. /\ UpsertedId(task[c].msg) \in DOMAIN payloads'
        /\ payloads'[UpsertedId(task[c].msg)].request = task[c].msg.request
    BY <1>8, UpsertTable
  <2>2. UpsertedId(task[c].msg) <= payloadSeq'
    BY <1>3, <2>1 DEF PayloadIdsFromSeq
  <2> QED
    BY <1>6, <1>8, <2>1, <2>2
<1> QED
  BY <1>4, <1>5, <1>7, <1>8, PayloadMoves

\* ... and while rows are taken away.
LEMMA HeldStep ==
    ASSUME TypeOK, CallsOK, PayloadIdsFromSeq, HeldPayloads, [Next]_vars \/ Cleaned
    PROVE  PayloadIdsFromSeq' /\ HeldPayloads'
<1>1. CASE [Next]_vars
  BY <1>1, PayloadIdsStep, HeldConsuming DEF HeldPayloads
<1>2. CASE Cleaned
  <2>1. /\ UNCHANGED <<task, delivered, payloadSeq>>
        /\ Kept(payloads, payloads')
    BY <1>2 DEF Cleaned, local, history
  <2>2. NoChosenIds' => NoChosenIds
    BY <2>1 DEF NoChosenIds, Known, Accepted
  <2>3. PayloadIdsFromSeq'
    BY <2>1, <2>2 DEF PayloadIdsFromSeq, Kept
  <2>4. ASSUME NEW c \in Consumers, NoChosenIds PROVE PayloadHeld(task[c])'
    <3>1. PayloadHeld(task[c])
      BY <2>4 DEF HeldPayloads
    <3> QED
      BY <2>1, <3>1 DEF PayloadHeld, Kept
  <2> QED
    BY <2>2, <2>3, <2>4 DEF HeldPayloads
<1> QED
  BY <1>1, <1>2

\* A payload a step adds was made by the message of its call.
LEMMA NewPayloadIsMessage ==
    ASSUME TypeOK, CallsOK, [Next]_vars, NEW id \in DOMAIN payloads' \ DOMAIN payloads
    PROVE  \E e \in Known : /\ Accepted(delivered[e].msg)
                            /\ delivered[e].msg.request = payloads'[id].request
                            /\ delivered[e].msg.date = payloads'[id].created
<1>1. PICK c \in Consumers : LET m == task[c].msg IN
              /\ task[c].pc = "upsert" /\ m \in Message
              /\ ~UpsertRejected(m) /\ UpsertPayloadByRequestId(m)
  BY PayloadsStep
<1> DEFINE m == task[c].msg
           row == UpsertedRow(m)
<1>2. id = UpsertedId(m)
  <2>1. DOMAIN payloads' = DOMAIN payloads \cup {UpsertedId(m)}
    BY <1>1, UpsertTable
  <2> QED
    BY <2>1
<1>3. RowsOfRequest(m.request) = {}
  <2>1. RowsOfRequest(m.request) # {} => UpsertedId(m) \in RowsOfRequest(m.request)
    BY DEF UpsertedId
  <2> QED
    BY <1>2, <2>1 DEF RowsOfRequest
<1>4. row.request = m.request /\ row.created = m.date
  BY <1>3 DEF UpsertedRow
<1>5. payloads'[id] = row
  <2>1. payloads' = WithRow(payloads, id, row)
    BY <1>1, <1>2 DEF UpsertPayloadByRequestId
  <2> HIDE DEF row
  <2> QED
    BY <2>1 DEF WithRow
<1>6. /\ task[c].delivery \in Known /\ Accepted(delivered[task[c].delivery].msg)
      /\ m.date = delivered[task[c].delivery].msg.date
      /\ m.request = delivered[task[c].delivery].msg.request
  BY <1>1, CallIsKnown, CallKeepsMessage, CallKeepsRequest
<1> QED
  BY <1>4, <1>5, <1>6

\* Every payload there ever is was made by a message of its request.
LEMMA PayloadsAreMessagesStep ==
    ASSUME TypeOK, CallsOK, PayloadsAreMessages, [Next]_vars \/ Cleaned
    PROVE  PayloadsAreMessages'
<1>1. ASSUME [Next]_vars, NEW id \in DOMAIN payloads'
      PROVE  \E e \in Known' : CreatedBy(id, e)'
  <2>1. /\ Known \subseteq Known'
        /\ \A e \in Known : delivered'[e] = delivered[e]
    BY <1>1, KnownGrows
  <2>2. PICK e \in Known : /\ Accepted(delivered[e].msg)
                           /\ delivered[e].msg.request = payloads'[id].request
                           /\ delivered[e].msg.date = payloads'[id].created
    <3>1. CASE id \in DOMAIN payloads
      <4>1. PICK e \in Known : CreatedBy(id, e)
        BY <3>1 DEF PayloadsAreMessages
      <4>2. /\ payloads'[id].request = payloads[id].request
            /\ payloads'[id].created = payloads[id].created
        BY <1>1, <3>1, ColumnsNotErasedStep
      <4> QED
        BY <4>1, <4>2 DEF CreatedBy
    <3>2. CASE id \notin DOMAIN payloads
      BY <1>1, <3>2, NewPayloadIsMessage
    <3> QED
      BY <3>1, <3>2
  <2>3. Accepted(delivered[e].msg)'
    BY <2>1, <2>2 DEF Accepted, validateRequestID
  <2> QED
    BY <2>1, <2>2, <2>3 DEF CreatedBy
<1>2. ASSUME Cleaned, NEW id \in DOMAIN payloads'
      PROVE  \E e \in Known' : CreatedBy(id, e)'
  <2>1. /\ UNCHANGED delivered
        /\ id \in DOMAIN payloads /\ payloads'[id] = payloads[id]
    BY <1>2 DEF Cleaned, Kept, history
  <2>2. PICK e \in Known : CreatedBy(id, e)
    BY <2>1 DEF PayloadsAreMessages
  <2> QED
    BY <2>1, <2>2 DEF CreatedBy, Known, Accepted
<1> QED
  BY <1>1, <1>2 DEF PayloadsAreMessages

\* Without failed statements, no call holds an id for its status.
IdsAhead ==
    faults = 0 => /\ \A id \in DOMAIN statuses : id <= statusSeq
                  /\ \A c \in Consumers : task[c].statusId = NoId

\* With a payload, cleaning takes away every status that hangs on it.
LEMMA CascadeIsComplete ==
    ASSUME Maintain, NEW id \in DOMAIN statuses', statuses[id].payload \in DOMAIN payloads
    PROVE  statuses[id].payload \in DOMAIN payloads'
<1>1. CASE UNCHANGED payloads
  BY <1>1
<1>2. CASE DeletePayloads
  <2>1. PICK early \in SUBSET Expiring : delete_payloads(Old \cup early)
    BY <1>2 DEF DeletePayloads
  <2> DEFINE gone == Old \cup early
             orphans == {i \in DOMAIN statuses : statuses[i].payload \in gone}
  <2>2. /\ payloads' = WithoutRows(payloads, gone)
        /\ statuses' = WithoutRows(statuses, orphans)
    BY <2>1 DEF delete_payloads
  <2> HIDE DEF gone
  <2>3. DOMAIN statuses' = DOMAIN statuses \ orphans
    BY <2>2, WithoutRowsKept
  <2>4. statuses[id].payload \notin gone
    BY <2>3
  <2>5. DOMAIN payloads' = DOMAIN payloads \ gone
    BY <2>2, WithoutRowsKept
  <2> QED
    BY <2>4, <2>5
<1>3. DropPartition => UNCHANGED payloads
  BY DEF DropPartition
<1> QED
  BY <1>1, <1>2, <1>3, WhoCleans

\* Without chosen ids, statuses keep saying what their messages said: while
\* consumers work as they do alone, while jobs clean because of the cascade.
LEMMA ResolvesStep ==
    ASSUME TypeOK, CallsOK, AllGathered, HeldPayloads, NoChosenIds => StatusResolves,
           [Next]_vars \/ Maintain
    PROVE  NoChosenIds' => StatusResolves'
<1>1. CASE [Next]_vars
  <2> SUFFICES ASSUME NoChosenIds' PROVE StatusResolves'
    OBVIOUS
  <2>1. NoChosenIds
    BY <1>1, KnownGrows DEF NoChosenIds
  <2>2. \A c \in Consumers : task[c].payload \in DOMAIN payloads => PayloadTrue(task[c])
    BY <2>1 DEF HeldPayloads, PayloadHeld, PayloadTrue
  <2> QED
    BY <1>1, <2>1, <2>2, StatusResolvesStep
<1>2. CASE Maintain
  <2> SUFFICES ASSUME NoChosenIds', NEW id \in DOMAIN statuses'
               PROVE  /\ statuses'[id].delivery \in Known'
                      /\ Accepted(delivered[statuses[id].delivery].msg)'
                      /\ RowMatches(statuses[id], delivered[statuses[id].delivery].msg)'
    BY DEF StatusResolves
  <2>1. /\ UNCHANGED <<delivered, lookups>>
        /\ Kept(payloads, payloads') /\ Kept(statuses, statuses')
    BY <1>2, MaintainCleans DEF Cleaned, history
  <2>2. id \in DOMAIN statuses /\ statuses'[id] = statuses[id]
    BY <2>1 DEF Kept
  <2> DEFINE row == statuses[id]
             m == delivered[row.delivery].msg
  <2>3. row.delivery \in Known /\ Accepted(m) /\ RowMatches(row, m)
    <3>1. NoChosenIds
      BY <2>1 DEF NoChosenIds, Known, Accepted
    <3> QED
      BY <2>2, <3>1 DEF StatusResolves
  <2>4. row.payload \in DOMAIN payloads'
    BY <1>2, <2>3, CascadeIsComplete DEF RowMatches
  <2>5. payloads'[row.payload] = payloads[row.payload]
    BY <2>1, <2>4 DEF Kept
  <2>6. /\ row.date = m.date
        /\ payloads[row.payload].request = m.request
        /\ \A k \in Kinds : StandsFor(k, row.refs[k], m.names[k])
    BY <2>3 DEF RowMatches
  <2>7. \A k \in Kinds : StandsFor(k, row.refs[k], m.names[k])'
    BY <2>1, <2>2, <2>6 DEF StandsFor
  <2> QED
    BY <2>1, <2>2, <2>3, <2>4, <2>5, <2>6, <2>7 DEF RowMatches, Known, Accepted
<1> QED
  BY <1>1, <1>2

\* A call that goes on without failed statements holds no id for its status.
LEMMA NoIdHeld ==
    ASSUME TypeOK, CallsOK, [Next]_vars, faults' = 0, NEW c \in Consumers,
           task[c].statusId = NoId
    PROVE  task'[c].statusId = NoId
<1>1. CASE task'[c] = task[c] \/ task'[c] = Idle
  BY <1>1 DEF Idle
<1>2. ASSUME NEW m \in Messages \cup {Garbage}, Accept(c, m) PROVE task'[c].statusId = NoId
  BY <1>2 DEF Accept, TypeOK, Idle
<1>3. CASE (Upsert(c) \/ Get(c) \/ Create(c)) /\ task'[c] # Idle
  BY <1>3, GoesOnAlike
<1>4. CASE Insert(c) /\ task'[c] # Idle
  BY <1>4, InsertEnds
<1> QED
  BY <1>1, <1>2, <1>3, <1>4, WhoMoves

\* The ids of the statuses stay behind the sequence.
LEMMA IdsAheadStep ==
    ASSUME TypeOK, CallsOK, IdsAhead, [Next]_vars \/ Cleaned
    PROVE  IdsAhead'
<1>1. CASE Cleaned
  <2>1. UNCHANGED <<task, faults, statusSeq>> /\ DOMAIN statuses' \subseteq DOMAIN statuses
    BY <1>1 DEF Cleaned, Kept, local, history
  <2> QED
    BY <2>1 DEF IdsAhead
<1>2. CASE [Next]_vars
  <2> SUFFICES ASSUME faults' = 0
               PROVE  /\ \A id \in DOMAIN statuses' : id <= statusSeq'
                      /\ \A c \in Consumers : task'[c].statusId = NoId
    BY DEF IdsAhead
  <2>1. /\ \A id \in DOMAIN statuses : id <= statusSeq
        /\ \A c \in Consumers : task[c].statusId = NoId
    BY <1>2, NoFaultBefore DEF IdsAhead
  <2>2. \A c \in Consumers : task'[c].statusId = NoId
    BY <1>2, <2>1, NoIdHeld
  <2>3. ASSUME NEW id \in DOMAIN statuses' PROVE id <= statusSeq'
    <3>1. CASE UNCHANGED <<statuses, statusSeq>>
      BY <2>1, <3>1
    <3>2. ASSUME NEW c \in Consumers, TakeStatusId(task[c]),
                 UNCHANGED statuses \/ InsertPayloadStatus(InsertId(task[c]), StatusOf(task[c]))
          PROVE  id <= statusSeq'
      <4>1. statusSeq' = statusSeq + 1 /\ InsertId(task[c]) = statusSeq + 1
        BY <2>1, <3>2 DEF TakeStatusId, InsertId
      <4>2. id \in DOMAIN statuses \/ id = statusSeq + 1
        BY <3>2, <4>1 DEF InsertPayloadStatus, WithRow
      <4>3. statusSeq \in Nat /\ DOMAIN statuses \subseteq Nat
        BY DEF TypeOK, TablesTypeOK, IsTable
      <4> QED
        BY <2>1, <4>1, <4>2, <4>3
    <3> QED
      BY <1>2, <3>1, <3>2, WhoInserts
  <2> QED
    BY <2>2, <2>3
<1> QED
  BY <1>1, <1>2

-----------------------------------------------------------------------------
(***************************************************************************)
(* A message whose request is fresh, and whose day had a partition when it *)
(* arrived, is stored, was lost for a known cause, or is under way.        *)
(***************************************************************************)
Fresh(d) ==
    \A e \in Known :
        /\ delivered[e].msg # Garbage
        /\ delivered[e].msg.request = delivered[d].msg.request
        => delivered[e].msg.date + RetentionDays > today

UnderWayFor(t, d) ==
    /\ t.pc # "idle" /\ t.delivery = d /\ t.attempts = 0
    /\ t.pc # "upsert" => t.payload \in DOMAIN payloads

Safe(d) ==
    /\ delivered[d].msg.date \in partitions
    /\ \/ Stored(d)
       \/ d \in killed
       \/ \E r \in races : r.delivery = d
       \/ \E c \in Consumers : UnderWayFor(task[c], d)

FreshIsSafe ==
    faults = 0 /\ DBRetries > 0 /\ NoChosenIds =>
        \A d \in prepared : Accepted(delivered[d].msg) /\ Fresh(d) => Safe(d)

\* The payload of a fresh request is not old enough to be deleted,
LEMMA FreshPayloadStays ==
    ASSUME SystemTypes, PayloadsAreMessages, Maintain, NEW d \in Known, Fresh(d),
           NEW id \in DOMAIN payloads, payloads[id].request = delivered[d].msg.request
    PROVE  id \in DOMAIN payloads'
<1>1. PICK e \in Known : CreatedBy(id, e)
  BY DEF PayloadsAreMessages
<1>2. payloads[id].created + RetentionDays > today
  BY <1>1 DEF CreatedBy, Fresh, Accepted
<1>3. id \notin DOMAIN payloads' => payloads[id].created + RetentionDays <= today
  BY RecentRowsKeptStep DEF SystemNext
<1>4. today \in Nat /\ payloads[id].created \in Nat /\ RetentionDays \in Nat
  BY DaysAssumption, RetentionAssumption
     DEF SystemTypes, SystemTypeOK, RetentionTypeOK, Clock, TypeOK, TablesTypeOK, IsTable,
         PayloadRow
<1> QED
  BY <1>2, <1>3, <1>4

\* ... nor is a status of its message.
LEMMA FreshStatusStays ==
    ASSUME SystemTypes, PayloadsAreMessages, StatusResolves, Maintain,
           NEW d \in Known, Accepted(delivered[d].msg), Fresh(d), Stored(d)
    PROVE  Stored(d)'
<1>1. PICK id \in DOMAIN statuses : statuses[id].delivery = d
  BY DEF Stored
<1>2. RowMatches(statuses[id], delivered[d].msg)
  BY <1>1 DEF StatusResolves
<1>3. statuses[id].date + RetentionDays > today
  BY <1>2 DEF RowMatches, Fresh, Accepted
<1>4. statuses[id].payload \in DOMAIN payloads'
  BY <1>2, FreshPayloadStays DEF RowMatches
<1>5. today \in Nat /\ statuses[id].date \in Nat /\ RetentionDays \in Nat
  BY DaysAssumption, RetentionAssumption
     DEF SystemTypes, SystemTypeOK, RetentionTypeOK, Clock, TypeOK, TablesTypeOK, IsTable,
         StatusRow
<1>6. id \in DOMAIN statuses'
  <2>1. id \notin DOMAIN statuses' => \/ statuses[id].date + RetentionDays <= today
                                      \/ statuses[id].payload \notin DOMAIN payloads'
    BY RecentRowsKeptStep DEF SystemNext
  <2> QED
    BY <1>3, <1>4, <1>5, <2>1
<1>7. statuses'[id] = statuses[id]
  BY <1>6, MaintainCleans DEF Cleaned, Kept
<1> QED
  BY <1>1, <1>6, <1>7 DEF Stored

\* Only its own day's drop takes a partition away.
LEMMA FreshPartitionStays ==
    ASSUME Maintain, NEW d \in partitions, ~IsExpiring(d)
    PROVE  d \in partitions'
BY DEF Maintain, RetentionNext, Tick, Clean, StartCleaning, CreatePartition,
   CreatePartitionFault, DropPartition, drop_partition, DeletePayloads, StepFails,
   PodKilled, Backfill, create_partition, tables

\* What was fresh after a step was fresh before it.
LEMMA FreshBefore ==
    ASSUME SystemTypes, Consume \/ Maintain, NEW d \in Known, Fresh(d)'
    PROVE  Fresh(d)
<1>1. CASE Consume
  <2>1. /\ Known \subseteq Known' /\ \A e \in Known : delivered'[e] = delivered[e]
        /\ UNCHANGED today
    BY <1>1, ConsumeIsNext, KnownGrows DEF SystemTypes, SystemTypeOK, Consume, jobVars
  <2> QED
    BY <2>1 DEF Fresh
<1>2. CASE Maintain
  <2>1. UNCHANGED delivered
    BY <1>2 DEF Maintain, history
  <2>2. today \in Nat /\ (today' = today \/ today' = today + 1)
    BY <1>2, DaysAssumption
       DEF SystemTypes, SystemTypeOK, RetentionTypeOK, Clock, Maintain, RetentionNext, Tick,
       Clean, StartCleaning, CreatePartition, CreatePartitionFault, DropPartition,
       DeletePayloads, StepFails, PodKilled, Backfill
  <2>3. ASSUME NEW e \in Known, delivered[e].msg # Garbage,
               delivered[e].msg.request = delivered[d].msg.request
        PROVE  delivered[e].msg.date + RetentionDays > today
    <3>1. delivered[e].msg.date + RetentionDays > today'
      BY <2>1, <2>3 DEF Fresh, Known
    <3>2. delivered[e].msg.date \in Nat
      <4>1. delivered[e] \in [msg : Messages \cup {Garbage}, by : Consumers]
        BY ElementOfSeq DEF SystemTypes, SystemTypeOK, TypeOK, Known
      <4> QED
        BY <2>3, <4>1, MessagesAssumption, DaysAssumption DEF Message
    <3> QED
      BY <2>2, <3>1, <3>2, RetentionAssumption
  <2> QED
    BY <2>3 DEF Fresh
<1> QED
  BY <1>1, <1>2

\* The jobs leave a fresh message safe.
LEMMA SafeWhileCleaning ==
    ASSUME SystemTypes, HeldPayloads, PayloadsAreMessages, NoChosenIds, StatusResolves,
           Maintain, NEW d \in Known, Accepted(delivered[d].msg), Fresh(d), Safe(d)
    PROVE  Safe(d)'
<1>1. UNCHANGED <<task, delivered, killed, races>>
  BY MaintainCleans DEF Cleaned, local, history
<1>2. delivered'[d].msg.date \in partitions'
  <2>1. delivered[d].msg.date \in partitions
    BY DEF Safe
  <2>2. delivered[d].msg.date + RetentionDays > today
    BY DEF Fresh, Accepted
  <2>3. today \in Nat
    BY DaysAssumption DEF SystemTypes, SystemTypeOK, RetentionTypeOK, Clock
  <2>4. ~IsExpiring(delivered[d].msg.date)
    BY <2>2, <2>3 DEF IsExpiring
  <2> QED
    BY <1>1, <2>1, <2>4, FreshPartitionStays
<1>3. CASE Stored(d)
  BY <1>2, <1>3, FreshStatusStays DEF Safe
<1>4. CASE d \in killed \/ \E r \in races : r.delivery = d
  BY <1>1, <1>2, <1>4 DEF Safe
<1>5. ASSUME NEW c \in Consumers, UnderWayFor(task[c], d) PROVE Safe(d)'
  <2>1. /\ task[c].pc # "idle" /\ task[c].delivery = d /\ task[c].attempts = 0
        /\ task[c].pc # "upsert" => task[c].payload \in DOMAIN payloads
    BY <1>5 DEF UnderWayFor
  <2>2. ASSUME task[c].pc # "upsert" PROVE task[c].payload \in DOMAIN payloads'
    <3>1. task[c].msg.request = delivered[d].msg.request
      BY <2>1, CallKeepsRequest DEF SystemTypes, SystemTypeOK
    <3>2. payloads[task[c].payload].request = task[c].msg.request
      BY <2>1, <2>2 DEF HeldPayloads, PayloadHeld
    <3> QED
      BY <2>1, <2>2, <3>1, <3>2, FreshPayloadStays
  <2>3. UnderWayFor(task[c], d)'
    BY <1>1, <2>1, <2>2 DEF UnderWayFor
  <2> QED
    BY <1>2, <2>3 DEF Safe
<1> QED
  BY <1>3, <1>4, <1>5 DEF Safe

\* A call under way for a message on a day with a partition goes on for it,
\* or leaves its row, or the name of the race it lost.
LEMMA CallStaysSafe ==
    ASSUME TypeOK, CallsOK, AllGathered, DistinctCalls, PayloadIdsFromSeq, IdsAhead,
           [Next]_vars, faults' = 0, DBRetries > 0, NoChosenIds,
           NEW d \in Known, delivered[d].msg.date \in partitions,
           NEW c \in Consumers, UnderWayFor(task[c], d)
    PROVE  \/ Stored(d)'
           \/ d \in killed'
           \/ \E r \in races' : r.delivery = d
           \/ UnderWayFor(task[c], d)'
<1>1. /\ task[c].pc # "idle" /\ task[c].delivery = d /\ task[c].attempts = 0
      /\ task[c].pc # "upsert" => task[c].payload \in DOMAIN payloads
  BY DEF UnderWayFor
<1>2. task[c].msg.date \in partitions
  BY <1>1, CallKeepsMessage
<1>3. CASE task'[c].delivery # d
  <2>1. CASE Drop(c)
    <3>1. d \in Deliveries /\ "errors" \in Counters
      BY KnownGrows DEF Counters
    <3>2. counted'["errors"][d] # counted["errors"][d]
      BY <1>1, <2>1, <3>1, CountAdds, KnownGrows DEF Drop
    <3>3. PICK e \in Consumers :
              /\ task[e].pc # "idle" /\ task[e].delivery = d
              /\ \/ Upsert(e) /\ UpsertRejected(task[e].msg)
                 \/ Create(e) /\ EntryRejected(task[e].kind, task[e].msg.names[task[e].kind])
                 \/ GiveUp(e) /\ DBRetries > 0
      BY <3>1, <3>2, WhoDrops
    <3>4. e = c
      BY <1>1, <3>3 DEF DistinctCalls
    <3>5. ~(Upsert(c) /\ UpsertRejected(task[c].msg))
      BY UpsertNotRejected DEF Upsert
    <3>6. ~GiveUp(c)
      BY <1>1, ConfigAssumption DEF GiveUp
    <3>7. Create(c) /\ EntryRejected(task[c].kind, task[c].msg.names[task[c].kind])
      BY <3>3, <3>4, <3>5, <3>6
    <3> DEFINE r == [by |-> c, kind |-> task[c].kind,
                     name |-> task[c].msg.names[task[c].kind],
                     delivery |-> task[c].delivery]
    <3>8. r \in races' /\ r.delivery = d
      BY <1>1, <3>7 DEF Create
    <3> HIDE DEF r
    <3> QED
      BY <3>8
  <2>2. CASE Wrote(c)
    <3>1. /\ InsertId(task[c]) \in DOMAIN statuses'
          /\ statuses'[InsertId(task[c])] = StatusOf(task[c])
      <4>1. DOMAIN statuses' = DOMAIN statuses \cup {InsertId(task[c])}
        BY <2>2, WroteRow
      <4> QED
        BY <2>2, <4>1, WroteRow
    <3>2. StatusOf(task[c]).delivery = d
      BY <1>1 DEF StatusOf
    <3> QED
      BY <3>1, <3>2 DEF Stored
  <2>3. DBRetries # 0
    BY ConfigAssumption
  <2> QED
    BY <1>1, <1>3, <2>1, <2>2, <2>3, HowCallsEnd
<1>4. CASE task'[c].delivery = d
  <2>1. task'[c].pc # "idle" /\ task'[c] # Idle
    BY <1>1, <1>4, TypeStep, CallsStep, DeliveriesOfCalls DEF CallsOK, CallOK, Idle, Known
  <2>2. task'[c].attempts = 0
    <3>1. CASE task'[c] = task[c]
      BY <1>1, <3>1
    <3>2. ASSUME NEW m \in Messages \cup {Garbage}, Accept(c, m) PROVE FALSE
      BY <1>1, <3>2 DEF Accept, Handed
    <3>3. CASE Upsert(c) \/ Get(c) \/ Create(c)
      BY <1>1, <2>1, <3>3, GoesOnAlike
    <3>4. ASSUME Insert(c) PROVE FALSE
      <4>1. task[c].pc = "insert" /\ InsertRejected(InsertId(task[c]), StatusOf(task[c]))
        BY <2>1, <3>4, InsertEnds
      <4>2. task[c].statusId = NoId /\ \A id \in DOMAIN statuses : id <= statusSeq
        BY NoFaultBefore DEF IdsAhead
      <4> QED
        BY <1>1, <1>2, <4>1, <4>2, OnlyThePartition
    <3> QED
      BY <2>1, <3>1, <3>2, <3>3, <3>4, WhoMoves
  <2>3. ASSUME task'[c].pc # "upsert" PROVE task'[c].payload \in DOMAIN payloads'
    <3>1. Moves(c) /\ PayloadsKept
      BY MovesStep, KeptStep
    <3>2. CASE task[c].pc \notin {"idle", "upsert"} /\ task'[c].payload = task[c].payload
      BY <1>1, <3>1, <3>2 DEF PayloadsKept
    <3>3. CASE /\ task[c].pc = "upsert" /\ task[c].msg \in Message
               /\ ~UpsertRejected(task[c].msg)
               /\ UpsertPayloadByRequestId(task[c].msg)
               /\ task'[c].payload = UpsertedId(task[c].msg)
      BY <3>3, UpsertTable
    <3> QED
      BY <2>1, <2>3, <3>1, <3>2, <3>3, PayloadMoves
  <2> QED
    BY <1>4, <2>1, <2>2, <2>3 DEF UnderWayFor
<1> QED
  BY <1>3, <1>4

\* What a message is known by stays: its row, its race, that it was killed.
LEMMA TracesStay ==
    ASSUME TypeOK, CallsOK, [Next]_vars, NEW d,
           Stored(d) \/ d \in killed \/ \E r \in races : r.delivery = d
    PROVE  Stored(d)' \/ d \in killed' \/ \E r \in races' : r.delivery = d
<1>1. StoredKept
  BY StoredKeptStep
<1>2. killed \subseteq killed'
  BY DEF Next, Receive, Refuse, Accept, Work, Upsert, UpsertFault, Get, GetFault,
     Create, CreateFault, Insert, InsertFault, GiveUp, Forget, Expire, Crash,
     vars, history
<1>3. races \subseteq races'
  BY WhoRaces
<1> QED
  BY <1>1, <1>2, <1>3 DEF StoredKept, Stored

\* A message that arrives on a day with a partition is safe to begin with.
LEMMA SafeOnArrival ==
    ASSUME TypeOK, CallsOK, Consume, NEW d \in prepared' \ prepared,
           Accepted(delivered'[d].msg)
    PROVE  Safe(d)'
<1>1. /\ d \in DOMAIN delivered' \ DOMAIN delivered
      /\ delivered'[d].msg.date \in partitions
  BY DEF Consume
<1>2. partitions' = partitions
  BY ConsumeIsNext, PartitionsStay
<1>3. delivered' # delivered
  BY <1>1
<1>4. PICK c \in Consumers, m \in Messages \cup {Garbage} : Refuse(c, m) \/ Accept(c, m)
  BY <1>3 DEF Consume, Receive, Work, Upsert, UpsertFault, Get, GetFault, Create,
     CreateFault, Insert, InsertFault, GiveUp, Forget, Expire, Crash, history
<1>5. Len(delivered') = Len(delivered) + 1 /\ delivered'[Len(delivered')].msg = m
  BY <1>4, HandedOver DEF Refuse, Accept
<1>6. d = Len(delivered) + 1
  <2>1. TypeOK'
    BY ConsumeIsNext, TypeStep
  <2>2. /\ Len(delivered) \in Nat /\ Len(delivered') \in Nat
        /\ DOMAIN delivered = 1..Len(delivered) /\ DOMAIN delivered' = 1..Len(delivered')
    BY <2>1, LenProperties DEF TypeOK
  <2> QED
    BY <1>1, <1>5, <2>2
<1>7. CASE Refuse(c, m)
  BY <1>5, <1>6, <1>7 DEF Refuse
<1>8. CASE Accept(c, m)
  <2>1. task'[c] = [Idle EXCEPT !.pc = "upsert", !.msg = sanitizePayload(m),
                               !.delivery = Len(delivered) + 1]
    BY <1>8 DEF Accept, TypeOK
  <2>2. UnderWayFor(task[c], d)'
    BY <1>6, <2>1 DEF UnderWayFor, Idle
  <2> QED
    BY <1>1, <1>2, <2>2 DEF Safe
<1> QED
  BY <1>4, <1>7, <1>8

\* So the consumers leave a fresh message safe.
LEMMA SafeWhileConsuming ==
    ASSUME TypeOK, CallsOK, AllGathered, DistinctCalls, PayloadIdsFromSeq, IdsAhead,
           [Next]_vars, faults' = 0, DBRetries > 0, NoChosenIds, NEW d \in Known, Safe(d)
    PROVE  Safe(d)'
<1>1. delivered[d].msg.date \in partitions /\ delivered'[d].msg.date \in partitions'
  BY KnownGrows, PartitionsStay DEF Safe
<1>2. CASE Stored(d) \/ d \in killed \/ \E r \in races : r.delivery = d
  BY <1>1, <1>2, TracesStay DEF Safe
<1>3. ASSUME NEW c \in Consumers, UnderWayFor(task[c], d) PROVE Safe(d)'
  BY <1>1, <1>3, CallStaysSafe DEF Safe
<1> QED
  BY <1>2, <1>3 DEF Safe

\* A fresh message for which the day was prepared is safe, whoever moves.
LEMMA FreshIsSafeStep ==
    ASSUME SystemTypes, AllGathered, DistinctCalls, PayloadIdsFromSeq, HeldPayloads,
           PayloadsAreMessages, NoChosenIds => StatusResolves, IdsAhead, FreshIsSafe,
           Consume \/ Maintain
    PROVE  FreshIsSafe'
<1> SUFFICES ASSUME faults' = 0, DBRetries > 0, NoChosenIds',
                    NEW d \in prepared', Accepted(delivered'[d].msg), Fresh(d)'
             PROVE  Safe(d)'
  BY DEF FreshIsSafe, Accepted
<1>1. TypeOK /\ CallsOK /\ prepared \subseteq DOMAIN delivered
  BY DEF SystemTypes, SystemTypeOK
<1>2. prepared \subseteq Known
  BY <1>1, LenProperties DEF TypeOK, Known
<1>3. CASE Consume
  <2>1. [Next]_vars
    BY <1>3, ConsumeIsNext
  <2>2. CASE d \in prepared
    <3>1. d \in Known /\ Accepted(delivered[d].msg) /\ NoChosenIds /\ faults = 0
      BY <1>1, <1>2, <2>1, <2>2, KnownGrows, NoFaultBefore DEF NoChosenIds
    <3>2. Safe(d)
      BY <1>3, <2>2, <3>1, FreshBefore DEF FreshIsSafe
    <3> QED
      BY <1>1, <2>1, <3>1, <3>2, SafeWhileConsuming
  <2>3. CASE d \notin prepared
    BY <1>1, <1>3, <2>3, SafeOnArrival
  <2> QED
    BY <2>2, <2>3
<1>4. CASE Maintain
  <2>1. UNCHANGED <<delivered, faults, prepared>>
    BY <1>4 DEF Maintain, history
  <2>2. d \in prepared /\ Accepted(delivered[d].msg) /\ NoChosenIds /\ faults = 0
    BY <2>1 DEF NoChosenIds, Known
  <2>3. Fresh(d) /\ d \in Known
    BY <1>2, <1>4, <2>2, FreshBefore
  <2>4. Safe(d)
    BY <2>2, <2>3 DEF FreshIsSafe
  <2> QED
    BY <1>4, <2>2, <2>3, <2>4, SafeWhileCleaning
<1> QED
  BY <1>3, <1>4

-----------------------------------------------------------------------------
(***************************************************************************)
(* The inductive invariant of the system.                                  *)
(***************************************************************************)
SystemInv ==
    /\ SystemTypes
    /\ AllGathered
    /\ CacheCoherent
    /\ DistinctCalls
    /\ PayloadIdsFromSeq
    /\ HeldPayloads
    /\ PayloadsAreMessages
    /\ NoChosenIds => StatusResolves
    /\ IdsAhead
    /\ FreshIsSafe


\* An empty database and idle jobs: nothing holds but trivially,
LEMMA SystemInvInit == SystemInit => SystemInv
<1> SUFFICES ASSUME SystemInit PROVE SystemInv
  OBVIOUS
<1>1. SystemTypes /\ Init /\ prepared = {}
  BY SystemTypesInit DEF SystemInit
<1>2. HistoryInv
  BY <1>1, HistoryInit
<1>3. /\ AllGathered /\ CacheCoherent /\ DistinctCalls /\ PayloadIdsFromSeq
      /\ StatusResolves
  BY <1>2 DEF HistoryInv, HandlerInv, CallsTrue, CallTrue, AllGathered
<1>4. DOMAIN payloads = {} /\ DOMAIN statuses = {}
  BY <1>1 DEF Init, TablesInit, NoRows
<1>5. \A c \in Consumers : task[c] = Idle
  BY <1>1 DEF Init
<1>6. HeldPayloads /\ PayloadsAreMessages /\ IdsAhead
  BY <1>4, <1>5 DEF HeldPayloads, PayloadHeld, PayloadsAreMessages, IdsAhead, Idle
<1>7. FreshIsSafe
  BY <1>1 DEF FreshIsSafe
<1> QED
  BY <1>1, <1>3, <1>6, <1>7 DEF SystemInv

\* ... and no step of a consumer or of a job breaks it.
LEMMA SystemInvStep == SystemInv /\ [SystemNext]_systemVars => SystemInv'
<1> SUFFICES ASSUME SystemInv, [SystemNext]_systemVars PROVE SystemInv'
  OBVIOUS
<1>1. /\ TypeOK /\ CallsOK /\ SystemTypes /\ AllGathered /\ CacheCoherent
      /\ DistinctCalls /\ PayloadIdsFromSeq /\ HeldPayloads /\ PayloadsAreMessages
      /\ (NoChosenIds => StatusResolves) /\ IdsAhead /\ FreshIsSafe
  BY DEF SystemInv, SystemTypes, SystemTypeOK
<1>2. SystemTypes'
  BY <1>1, SystemTypesStep
<1>3. /\ Consume => [Next]_vars
      /\ Maintain => Cleaned
      /\ UNCHANGED systemVars => UNCHANGED vars
  BY ConsumeIsNext, MaintainCleans DEF systemVars
<1>4. AllGathered' /\ CacheCoherent' /\ DistinctCalls'
  <2>1. CASE [Next]_vars
    BY <1>1, <2>1, GatheredStep, CacheCoherentStep, DistinctCallsStep
  <2>2. CASE Cleaned
    <3>1. UNCHANGED <<task, cache, lookups>>
      BY <2>2 DEF Cleaned, local
    <3> QED
      BY <1>1, <3>1 DEF AllGathered, Gathered, RefsTrue, Placed, CacheCoherent, DistinctCalls
  <2> QED
    BY <1>3, <2>1, <2>2 DEF SystemNext
<1>5. PayloadIdsFromSeq' /\ HeldPayloads' /\ PayloadsAreMessages' /\ IdsAhead'
  BY <1>1, <1>3, HeldStep, PayloadsAreMessagesStep, IdsAheadStep DEF SystemNext
<1>6. NoChosenIds' => StatusResolves'
  BY <1>1, <1>3, ResolvesStep DEF SystemNext
<1>7. FreshIsSafe'
  <2>1. CASE Consume \/ Maintain
    BY <1>1, <2>1, FreshIsSafeStep
  <2>2. CASE UNCHANGED systemVars
    BY <1>1, <2>2 DEF systemVars, vars, tables, local, history, jobVars, FreshIsSafe,
       NoChosenIds, Fresh, Safe, Stored, UnderWayFor, Known, Accepted
  <2> QED
    BY <2>1, <2>2 DEF SystemNext
<1> QED
  BY <1>2, <1>4, <1>5, <1>6, <1>7 DEF SystemInv

\* The inductive invariant of consumers and jobs together.
THEOREM SystemInvariant == SystemSpec => []SystemInv
BY SystemInvInit, SystemInvStep, PTL DEF SystemSpec

(***************************************************************************)
(* Unless a message chooses its payload's id, a stored status, read        *)
(* through its references, says what its message said, whatever the jobs   *)
(* delete between the statements of the call that stores it.  A chosen id  *)
(* may be one that a deleted payload had, and that a call still holds.     *)
(***************************************************************************)
THEOREM StatusesResolveUnderCleaning == SystemSpec => [](NoChosenIds => StatusResolves)
BY SystemInvariant, PTL DEF SystemInv

(***************************************************************************)
(* A message is stored, cleaning or not, when no statement failed, it lost *)
(* no race, its day had a partition when it arrived, and no message of its *)
(* request is old enough for the payload or the partition to go.           *)
(***************************************************************************)
THEOREM FreshMessagesAreStored == SystemSpec => []FreshMessageStored
<1>1. SystemInv => FreshMessageStored
  <2> SUFFICES ASSUME SystemInv, faults = 0, DBRetries > 0, NoChosenIds,
                      NEW d \in prepared, Finished(d), Accepted(delivered[d].msg),
                      \A r \in races : r.delivery # d, Fresh(d)
               PROVE  Stored(d)
    BY DEF FreshMessageStored, Fresh
  <2>1. Safe(d)
    BY DEF SystemInv, FreshIsSafe
  <2> QED
    BY <2>1 DEF Safe, UnderWayFor, Finished
<1> QED
  BY <1>1, SystemInvariant, PTL

-----------------------------------------------------------------------------
(***************************************************************************)
(* What the handler leaves behind, under cleaning: of the rows that are    *)
(* still there it is as true as without the jobs, and the counters, the    *)
(* races and the lookup tables the jobs do not touch.                      *)
(***************************************************************************)
LeftTrue ==
    /\ SystemInv
    /\ RequestsUnique
    /\ RowsAccepted
    /\ RowsOfCalls
    /\ OneRowPerDelivery
    /\ ColumnsFromMessages
    /\ CountsTrue
    /\ SequencesAhead
    /\ CreatesMissing
    /\ RacesLost
    /\ RaceLostOnce

\* Nothing is left behind at first.
LEMMA LeftTrueInit == SystemInit => LeftTrue
<1> SUFFICES ASSUME SystemInit PROVE LeftTrue
  OBVIOUS
<1>1. SystemInv /\ HistoryInv
  BY SystemInvInit, HistoryInit DEF SystemInit
<1>2. RowsAccepted
  BY <1>1 DEF HistoryInv, HandlerInv, StatusResolves, RowsAccepted
<1> QED
  BY <1>1, <1>2 DEF LeftTrue, HistoryInv, HandlerInv

\* Consumers keep it true as they do alone,
LEMMA ConsumersLeaveTrue ==
    ASSUME LeftTrue, SystemInv', [Next]_vars
    PROVE  LeftTrue'
<1>1. TypeOK /\ CallsOK /\ AllGathered /\ DistinctCalls
  BY DEF LeftTrue, SystemInv, SystemTypes, SystemTypeOK
<1>2. /\ RequestsUnique /\ RowsAccepted /\ RowsOfCalls /\ OneRowPerDelivery
      /\ ColumnsFromMessages /\ CountsTrue /\ SequencesAhead /\ CreatesMissing
      /\ RacesLost /\ RaceLostOnce
  BY DEF LeftTrue
<1>3. RequestsUnique' /\ RowsAccepted' /\ RowsOfCalls' /\ OneRowPerDelivery'
  BY <1>1, <1>2, RequestsUniqueStep, RowsAcceptedStep, RowsOfCallsStep, OneRowPerDeliveryStep
<1>4. ColumnsFromMessages' /\ CountsTrue' /\ SequencesAhead' /\ CreatesMissing'
  BY <1>1, <1>2, ColumnsStep, CountsTrueStep, SequencesAheadStep, CreatesMissingStep
<1>5. RacesLost' /\ RaceLostOnce'
  BY <1>1, <1>2, RacesLostStep, RaceLostOnceStep
<1> QED
  BY <1>3, <1>4, <1>5 DEF LeftTrue

\* ... and fewer rows make none of it false.
LEMMA CleaningLeavesTrue ==
    ASSUME LeftTrue, SystemInv', Cleaned
    PROVE  LeftTrue'
<1>1. /\ UNCHANGED <<task, delivered, counted, races, faults, lookups, lookupSeq>>
      /\ Kept(payloads, payloads') /\ Kept(statuses, statuses')
  BY DEF Cleaned, local, history
<1>2. UNCHANGED Known /\ \A d : Stored(d)' => Stored(d)
  BY <1>1 DEF Known, Stored, Kept
<1>3. RequestsUnique' /\ ColumnsFromMessages'
  BY <1>1, <1>2 DEF LeftTrue, RequestsUnique, ColumnsFromMessages, Kept, Accepted
<1>4. RowsAccepted' /\ RowsOfCalls' /\ OneRowPerDelivery'
  BY <1>1, <1>2 DEF LeftTrue, RowsAccepted, RowsOfCalls, OneRowPerDelivery, Kept, Accepted
<1>5. CountsTrue'
  BY <1>1, <1>2 DEF LeftTrue, CountsTrue, Unread, Tallied, UnderWay, Accepted
<1>6. SequencesAhead' /\ CreatesMissing' /\ RacesLost' /\ RaceLostOnce'
  BY <1>1 DEF LeftTrue, SequencesAhead, CreatesMissing, MissesRef, RacesLost, RaceOver,
     LookedFor, RowsNamed, RaceLostOnce
<1> QED
  BY <1>3, <1>4, <1>5, <1>6 DEF LeftTrue

\* What is left behind stays true, whoever moves.
THEOREM LeftTrueInvariant == SystemSpec => []LeftTrue
<1>1. LeftTrue /\ SystemInv' /\ [SystemNext]_systemVars => LeftTrue'
  <2>1. Consume => [Next]_vars
    BY ConsumeIsNext
  <2>2. UNCHANGED systemVars => [Next]_vars
    BY DEF systemVars
  <2>3. Maintain => Cleaned
    BY MaintainCleans
  <2> QED
    BY <2>1, <2>2, <2>3, ConsumersLeaveTrue, CleaningLeavesTrue DEF SystemNext
<1> QED
  BY <1>1, LeftTrueInit, SystemInvariant, PTL DEF SystemSpec

(***************************************************************************)
(* No two statuses are of one delivery, though a row may be deleted        *)
(* between the attempt that stored it and the one that repeats it: that    *)
(* one inserts the id its struct holds, which only then is free again.     *)
(***************************************************************************)
THEOREM RetriesStoreOnceUnderCleaning == SystemSpec => []OneRowPerDelivery
BY LeftTrueInvariant, PTL DEF LeftTrue

(***************************************************************************)
(* The caches stay coherent: no job deletes a row that they may name.      *)
(***************************************************************************)
THEOREM CachesCoherentUnderCleaning == SystemSpec => []CacheCoherent
BY SystemInvariant, PTL DEF SystemInv

(***************************************************************************)
(* The statuses of one request that are there hang on one payload, unless  *)
(* a message chose an id, which may be that of a deleted payload for which *)
(* a call still stores.                                                    *)
(***************************************************************************)
THEOREM RequestsShareAPayloadUnderCleaning == SystemSpec => [](NoChosenIds => OnePayloadPerRequest)
<1>1. StatusResolves /\ RequestsUnique => OnePayloadPerRequest
  BY DEF StatusResolves, RowMatches, RequestsUnique, OnePayloadPerRequest
<1> QED
  BY <1>1, LeftTrueInvariant, PTL DEF LeftTrue, SystemInv

(***************************************************************************)
(* The exported counters count each message once, and every status that is *)
(* there as processed, whatever was deleted.                               *)
(***************************************************************************)
THEOREM CountersCountMessagesUnderCleaning == SystemSpec => []CountersAgree
<1>1. LeftTrue => CountersAgree
  BY CountsAgree DEF LeftTrue, SystemInv, SystemTypes, SystemTypeOK
<1> QED
  BY <1>1, LeftTrueInvariant, PTL

(***************************************************************************)
(* The columns of a payload hold what messages of its request said, also   *)
(* when it was made anew after an earlier one was deleted.                 *)
(***************************************************************************)
THEOREM ColumnsAreReportedUnderCleaning == SystemSpec => []ColumnsFromMessages
BY LeftTrueInvariant, PTL DEF LeftTrue

(***************************************************************************)
(* A consumer loses the race for a name once, cleaning or not: the row it  *)
(* lost against is never deleted.                                          *)
(***************************************************************************)
THEOREM RacesAreLostOnceUnderCleaning == SystemSpec => []RaceLostOnce
BY LeftTrueInvariant, PTL DEF LeftTrue

-----------------------------------------------------------------------------
(***************************************************************************)
(* Steps under cleaning.  NoSilentLoss and ColumnsNeverErased as they are  *)
(* fail when rows are deleted; they hold of the step that could go wrong.  *)
(***************************************************************************)

\* With retries configured, the step in which a call ends leaves its status
\* stored, or its message counted as an error, or the consumer was killed.
EndsLeaveTraces ==
    [][DBRetries > 0 =>
        \A c \in Consumers, d \in Known :
            task[c].delivery = d /\ task'[c].delivery # d =>
                \/ Stored(d)'
                \/ counted'["errors"][d] > 0
                \/ d \in killed']_systemVars

\* A payload that stays keeps its request, its created_at and its columns.
ColumnsOfKeptNeverErased ==
    [][\A id \in DOMAIN payloads \cap DOMAIN payloads' :
        /\ payloads'[id].request = payloads[id].request
        /\ payloads'[id].created = payloads[id].created
        /\ \A x \in Columns : payloads'[id].columns[x] = Blank
                              => payloads[id].columns[x] = Blank]_systemVars

\* How a call's end shows.
LEMMA EndLeavesTrace ==
    ASSUME TypeOK, CallsOK, [Next]_vars, DBRetries > 0, NEW c \in Consumers,
           NEW d \in Known, task[c].delivery = d, task'[c].delivery # d
    PROVE  Stored(d)' \/ counted'["errors"][d] > 0 \/ d \in killed'
<1>1. task[c].pc # "idle"
  BY DeliveriesOfCalls DEF Known
<1>2. DBRetries # 0
  BY ConfigAssumption
<1>3. CASE Drop(c)
  <2>1. d \in Deliveries /\ "errors" \in Counters
    BY KnownGrows DEF Counters
  <2>2. counted'["errors"][d] = counted["errors"][d] + 1 /\ counted["errors"][d] \in Nat
    BY <1>3, <2>1, CountAdds, KnownGrows DEF Drop
  <2> QED
    BY <2>2
<1>4. CASE Wrote(c)
  <2>1. /\ InsertId(task[c]) \in DOMAIN statuses'
        /\ statuses'[InsertId(task[c])] = StatusOf(task[c])
    BY <1>4, WroteRow
  <2>2. StatusOf(task[c]).delivery = d
    BY DEF StatusOf
  <2> QED
    BY <2>1, <2>2 DEF Stored
<1> QED
  BY <1>1, <1>2, <1>3, <1>4, HowCallsEnd

(***************************************************************************)
(* No message in hand disappears without a trace, cleaning or not: the     *)
(* step that ends its call stores it, counts it, or kills the consumer.    *)
(***************************************************************************)
THEOREM LossesAreCountedUnderCleaning == SystemSpec => EndsLeaveTraces
<1>1. SystemTypes /\ [SystemNext]_systemVars
      => [DBRetries > 0 =>
            \A c \in Consumers, d \in Known :
                task[c].delivery = d /\ task'[c].delivery # d =>
                    \/ Stored(d)'
                    \/ counted'["errors"][d] > 0
                    \/ d \in killed']_systemVars
  <2> SUFFICES ASSUME SystemTypes, [SystemNext]_systemVars, DBRetries > 0,
                      NEW c \in Consumers, NEW d \in Known,
                      task[c].delivery = d, task'[c].delivery # d
               PROVE  Stored(d)' \/ counted'["errors"][d] > 0 \/ d \in killed'
    OBVIOUS
  <2>1. TypeOK /\ CallsOK
    BY DEF SystemTypes, SystemTypeOK
  <2>2. Consume \/ UNCHANGED systemVars => [Next]_vars
    BY ConsumeIsNext DEF systemVars
  <2>3. Maintain => UNCHANGED task
    BY DEF Maintain, local
  <2> QED
    BY <2>1, <2>2, <2>3, EndLeavesTrace DEF SystemNext
<1> QED
  BY <1>1, SystemTypesCorrect, PTL DEF SystemSpec, EndsLeaveTraces

(***************************************************************************)
(* A step of consumers or jobs deletes a payload or leaves it what it is:  *)
(* none changes its request or its created_at, or blanks a column.         *)
(***************************************************************************)
THEOREM ColumnsStayUnderCleaning == SystemSpec => ColumnsOfKeptNeverErased
<1>1. SystemTypes /\ [SystemNext]_systemVars
      => [\A id \in DOMAIN payloads \cap DOMAIN payloads' :
            /\ payloads'[id].request = payloads[id].request
            /\ payloads'[id].created = payloads[id].created
            /\ \A x \in Columns : payloads'[id].columns[x] = Blank
                                  => payloads[id].columns[x] = Blank]_systemVars
  <2> SUFFICES ASSUME SystemTypes, [SystemNext]_systemVars,
                      NEW id \in DOMAIN payloads \cap DOMAIN payloads'
               PROVE  /\ payloads'[id].request = payloads[id].request
                      /\ payloads'[id].created = payloads[id].created
                      /\ \A x \in Columns : payloads'[id].columns[x] = Blank
                                            => payloads[id].columns[x] = Blank
    OBVIOUS
  <2>1. CASE [Next]_vars
    BY <2>1, ColumnsNotErasedStep DEF SystemTypes, SystemTypeOK
  <2>2. CASE Maintain
    <3>1. payloads'[id] = payloads[id]
      BY <2>2, MaintainCleans DEF Cleaned, Kept
    <3> QED
      BY <3>1
  <2>3. Consume \/ UNCHANGED systemVars => [Next]_vars
    BY ConsumeIsNext DEF systemVars
  <2> QED
    BY <2>1, <2>2, <2>3 DEF SystemNext
<1> QED
  BY <1>1, SystemTypesCorrect, PTL DEF SystemSpec, ColumnsOfKeptNeverErased

(***************************************************************************)
(* Jobs do not keep a call from its end: also under cleaning each of its   *)
(* steps lowers what it may still take, and no step of a job raises it.    *)
(***************************************************************************)
THEOREM CallsComeNearerUnderCleaning == SystemSpec => []CallsAreShort /\ CallsShorten
<1>1. SystemInit => AllPaced
  BY ConfigAssumption DEF SystemInit, Init, AllPaced, Paced, Idle
<1>2. SystemInv => TypeOK /\ CallsOK /\ AllGathered
  BY DEF SystemInv, SystemTypes, SystemTypeOK
<1>3. [SystemNext]_systemVars => [Next]_vars \/ UNCHANGED task
  BY ConsumeIsNext DEF SystemNext, systemVars, Maintain, local
<1>4. SystemInv /\ AllPaced /\ [SystemNext]_systemVars => AllPaced'
  <2>1. AllPaced /\ UNCHANGED task => AllPaced'
    BY DEF AllPaced
  <2> QED
    BY <1>2, <1>3, <2>1, PacedStep
<1>5. TypeOK /\ AllPaced => CallsAreShort
  BY StepsAreNumbers DEF TypeOK, AllPaced, CallsAreShort
<1>6. SystemInv /\ AllPaced /\ [SystemNext]_systemVars
      => [\A c \in Consumers :
            /\ Work(c) => StepsLeft(task'[c]) < StepsLeft(task[c])
            /\ task[c].pc # "idle" => StepsLeft(task'[c]) <= StepsLeft(task[c])]_vars
  <2> SUFFICES ASSUME SystemInv, AllPaced, [SystemNext]_systemVars, NEW c \in Consumers
               PROVE  /\ Work(c) => StepsLeft(task'[c]) < StepsLeft(task[c])
                      /\ task[c].pc # "idle" => StepsLeft(task'[c]) <= StepsLeft(task[c])
    OBVIOUS
  <2>1. Work(c) => StepsLeft(task'[c]) < StepsLeft(task[c])
    BY <1>2, WorkMoves, MovesShorten
  <2>2. StepsLeft(task[c]) \in Int
    BY <1>2, StepsAreNumbers DEF TypeOK, AllPaced
  <2> QED
    BY <1>2, <1>3, <2>1, <2>2, PacedStep
<1> QED
  BY <1>1, <1>2, <1>4, <1>5, <1>6, SystemInvariant, PTL DEF SystemSpec, CallsShorten

=============================================================================
