---------------------------- MODULE TrackerSystem ----------------------------
(***************************************************************************)
(* The consumers and the cron jobs on one database.  A call of onMessage   *)
(* may have the clock pass midnight, a partition vanish or its payload     *)
(* deleted between any two of its statements.                              *)
(***************************************************************************)
EXTENDS MessageHandler, Retention

VARIABLE prepared   \* history: deliveries whose day had a partition on arrival

systemVars == <<vars, jobVars, prepared>>

SystemInit == Init /\ RetentionInit /\ prepared = {}

Consume ==
    /\ \E c \in Consumers : Receive(c) \/ Work(c) \/ Forget(c) \/ Crash(c)
    /\ prepared' = prepared \cup
          {d \in DOMAIN delivered' \ DOMAIN delivered :
              delivered'[d].msg # Garbage /\ delivered'[d].msg.date \in partitions}
    /\ UNCHANGED jobVars

Maintain == RetentionNext /\ UNCHANGED <<local, history, prepared>>

SystemNext == Consume \/ Maintain

SystemSpec == SystemInit /\ [][SystemNext]_systemVars

SystemTypeOK == TypeOK /\ RetentionTypeOK /\ prepared \subseteq DOMAIN delivered

-----------------------------------------------------------------------------
(***************************************************************************)
(* Cleaning takes nothing recent away: a payload goes only when its first  *)
(* message is RETENTION_DAYS old, and a status goes only when it is that   *)
(* old itself or its payload goes with it.  The three psql calls of        *)
(* clean.sh each read the clock, at times that may lie days apart.         *)
(***************************************************************************)
RecentRowsKept ==
    [][/\ \A id \in DOMAIN payloads \ DOMAIN payloads' :
              payloads[id].created + RetentionDays <= today
       /\ \A id \in DOMAIN statuses \ DOMAIN statuses' :
              \/ statuses[id].date + RetentionDays <= today
              \/ statuses[id].payload \notin DOMAIN payloads']_systemVars

(***************************************************************************)
(* A message is stored, cleaning or not, when no statement failed, it lost *)
(* no race for a name, its day had a partition when it arrived, and no     *)
(* message of its request is old enough for the payload or the partition   *)
(* to go.  No message may have chosen its payload's id.                    *)
(***************************************************************************)
FreshMessageStored ==
    faults = 0 /\ DBRetries > 0 /\ NoChosenIds =>
        \A d \in prepared :
            /\ Finished(d)
            /\ Accepted(delivered[d].msg)
            /\ \A r \in races : r.delivery # d
            /\ \A e \in Known :
                  /\ delivered[e].msg # Garbage
                  /\ delivered[e].msg.request = delivered[d].msg.request
                  => delivered[e].msg.date + RetentionDays > today
            => Stored(d)

(***************************************************************************)
(* The partitions are those the jobs made and have not had to drop: a day  *)
(* in the window lacks one only if no call made it, and an expired one     *)
(* stays only if drop_partition did not run on its one day, or somebody    *)
(* made it by hand.                                                        *)
(***************************************************************************)
PartitionsFollowTheJobs ==
    /\ \A d \in made \cup backfilled : d + RetentionDays > today => d \in partitions
    /\ \A d \in partitions : d + RetentionDays \in droppedOn => d \in backfilled

(***************************************************************************)
(* "delete orphaned payloads older than RETENTION_DAYS"                    *)
(* (docs/database-guidelines.md:27): no payload that a run of clean.sh     *)
(* deletes on the day it started has a status younger than RETENTION_DAYS, *)
(* which the cascade would take along.                                     *)
(***************************************************************************)
OnlyOrphansDeleted ==
    [][\A id \in DOMAIN payloads \ DOMAIN payloads', s \in DOMAIN statuses :
          today \in started /\ statuses[s].payload = id =>
              statuses[s].date + RetentionDays <= today]_systemVars

=============================================================================
