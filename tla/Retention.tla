------------------------------ MODULE Retention ------------------------------
(***************************************************************************)
(* The cron jobs of deployments/clowdapp.yml that keep the tables within   *)
(* RETENTION_DAYS: clean.sh (the vacuum job), which makes tomorrow's       *)
(* partition, drops one old one and deletes old payloads, and              *)
(* create-partition.sh, run on demand for a date.                          *)
(*                                                                         *)
(* clean.sh is three psql calls, each a transaction that reads the clock   *)
(* anew.  The shell does not stop at a failed one, and only the first is   *)
(* tried again.  Vacuuming changes nothing a reader sees.                  *)
(***************************************************************************)
EXTENDS TrackerTables

CONSTANTS
    RetentionDays,          \* RETENTION_DAYS
    MAX_NUMBER_OF_RETRIES,
    MaxJobFaults            \* bound: psql calls that fail, pods that are killed,
                            \* runs of create-partition.sh

ASSUME DaysAssumption == Days \subseteq Nat
ASSUME RetentionAssumption ==
    /\ RetentionDays \in Nat \ {0}
    /\ MAX_NUMBER_OF_RETRIES \in Nat \ {0}
    /\ MaxJobFaults \in Nat

VARIABLES
    today,      \* NOW()::DATE
    job,        \* the next psql call of clean.sh, "idle" between runs
    tries,      \* round of the retry loop
    \* History: no guard reads these, but for the bounds and the schedule.
    started,    \* the days on which a run of clean.sh started
    made,       \* the partitions create_partition was seen to make
    droppedOn,  \* the days on which drop_partition ran
    backfilled, \* the partitions create-partition.sh made
    jobFaults

jobHistory == <<started, made, droppedOn, backfilled, jobFaults>>
jobVars    == <<today, job, tries, jobHistory>>

\* The days the clock may show: the last of Days is tomorrow's only.
Clock == {d \in Days : d + 1 \in Days}

RetentionTypeOK ==
    /\ today \in Clock
    /\ job \in {"idle", "create", "drop", "delete"}
    /\ tries \in 0..MAX_NUMBER_OF_RETRIES
    /\ started \subseteq Clock /\ droppedOn \subseteq Clock
    /\ made \subseteq Days /\ backfilled \subseteq Days
    /\ jobFaults \in 0..MaxJobFaults

\* The migration ends by making the partition of the day it runs on.
RetentionInit ==
    /\ today \in Clock
    /\ \A d \in Clock : today <= d
    /\ partitions = {today}
    /\ job = "idle" /\ tries = 0
    /\ started = {} /\ made = {today} /\ droppedOn = {} /\ backfilled = {}
    /\ jobFaults = 0

JobFault == jobFaults < MaxJobFaults /\ jobFaults' = jobFaults + 1

WithoutRows(table, gone) == [id \in DOMAIN table \ gone |-> table[id]]

OtherThanCleaned == <<payloadSeq, lookups, lookupSeq, statusSeq>>

-----------------------------------------------------------------------------
Tick ==
    /\ today + 1 \in Clock
    /\ today' = today + 1
    /\ UNCHANGED <<tables, job, tries, jobHistory>>

\* At most once a day: a run can be missed, or be late.
StartCleaning ==
    /\ job = "idle"
    /\ today \notin started
    /\ started' = started \cup {today}
    /\ job' = "create" /\ tries' = 0
    /\ UNCHANGED <<tables, today, made, droppedOn, backfilled, jobFaults>>

(***************************************************************************)
(* SELECT create_partition(tomorrow, the day after), which does nothing if *)
(* the partition is there.  On success the loop is left; when the rounds   *)
(* are used up the script goes on all the same.  A call can fail after its *)
(* transaction was committed.                                              *)
(***************************************************************************)
create_partition(d) == partitions' = partitions \cup {d}

CreatePartition ==
    /\ job = "create"
    /\ create_partition(today + 1)
    /\ made' = made \cup {today + 1}
    /\ job' = "drop"
    /\ UNCHANGED <<payloads, statuses, OtherThanCleaned, today, tries, started,
                   droppedOn, backfilled, jobFaults>>

CreatePartitionFault ==
    /\ job = "create"
    /\ JobFault
    /\ create_partition(today + 1) \/ UNCHANGED partitions
    /\ tries' = tries + 1
    /\ job' = IF tries + 1 = MAX_NUMBER_OF_RETRIES THEN "drop" ELSE "create"
    /\ UNCHANGED <<payloads, statuses, OtherThanCleaned, today, started, made,
                   droppedOn, backfilled>>

(***************************************************************************)
(* SELECT drop_partition(today - RETENTION_DAYS, the day after): the one   *)
(* partition of that name, with its rows, if there is one.                 *)
(***************************************************************************)
\* Mutant: one day too few is kept.
IsExpiring_DayEarly(d) == d + RetentionDays = today + 1

IsExpiring(d) == d + RetentionDays = today

\* Mutant: the partition of the day before the window and the window's first.
drop_partition_TwoDays ==
    LET gone == {d \in Days : d + RetentionDays \in {today, today + 1}} IN
    /\ partitions' = partitions \ gone
    /\ statuses' = WithoutRows(statuses,
                       {id \in DOMAIN statuses : statuses[id].date \in gone})

drop_partition ==
    /\ partitions' = {d \in partitions : ~IsExpiring(d)}
    /\ statuses' = WithoutRows(statuses,
                       {id \in DOMAIN statuses : IsExpiring(statuses[id].date)})

DropPartition ==
    /\ job = "drop"
    /\ drop_partition
    /\ droppedOn' = droppedOn \cup {today}
    /\ job' = "delete"
    /\ UNCHANGED <<payloads, OtherThanCleaned, today, tries, started, made,
                   backfilled, jobFaults>>

(***************************************************************************)
(* DELETE FROM payloads WHERE created_at < NOW() - RETENTION_DAYS days, to *)
(* the second: of the payloads of that day, those of its earlier hours.    *)
(* The foreign key of payload_statuses is ON DELETE CASCADE.               *)
(***************************************************************************)
\* Mutant: payloads that are a day short of RETENTION_DAYS are deleted.
Old_DayEarly == {id \in DOMAIN payloads : payloads[id].created + RetentionDays <= today + 1}

Old      == {id \in DOMAIN payloads : payloads[id].created + RetentionDays < today}
Expiring == {id \in DOMAIN payloads : IsExpiring(payloads[id].created)}

\* Mutant: a foreign key that does not cascade.
delete_payloads_NoCascade(gone) ==
    payloads' = WithoutRows(payloads, gone) /\ UNCHANGED statuses

delete_payloads(gone) ==
    /\ payloads' = WithoutRows(payloads, gone)
    /\ statuses' = WithoutRows(statuses,
                       {id \in DOMAIN statuses : statuses[id].payload \in gone})

DeletePayloads ==
    /\ job = "delete"
    /\ \E early \in SUBSET Expiring : delete_payloads(Old \cup early)
    /\ job' = "idle"
    /\ UNCHANGED <<partitions, OtherThanCleaned, today, tries, jobHistory>>

\* A failed drop or delete is logged, and the script goes on.
StepFails ==
    /\ job \in {"drop", "delete"}
    /\ JobFault
    /\ job' = IF job = "drop" THEN "delete" ELSE "idle"
    /\ UNCHANGED <<tables, today, tries, started, made, droppedOn, backfilled>>

\* The pod is killed: Kubernetes runs the script from its start, or gives up.
PodKilled ==
    /\ job # "idle"
    /\ JobFault
    /\ job' \in {"create", "idle"}
    /\ tries' = 0
    /\ UNCHANGED <<tables, today, started, made, droppedOn, backfilled>>

\* create-partition.sh for TARGET_DATE, by default tomorrow.
Backfill(d) ==
    /\ JobFault
    /\ create_partition(d)
    /\ backfilled' = backfilled \cup {d}
    /\ UNCHANGED <<payloads, statuses, OtherThanCleaned, today, job, tries, started,
                   made, droppedOn>>

Clean == \/ StartCleaning
         \/ CreatePartition \/ CreatePartitionFault
         \/ DropPartition \/ DeletePayloads
         \/ StepFails \/ PodKilled

RetentionNext == Tick \/ Clean \/ \E d \in Days : Backfill(d)

=============================================================================
