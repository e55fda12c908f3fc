------------------------------ MODULE Migration ------------------------------
(***************************************************************************)
(* The schema migration.  The init container of every API pod runs         *)
(* pt-migration upgrade before the pod serves, and is started again until  *)
(* that succeeds; pt-migration downgrade is run by hand.  performDb-       *)
(* Migration leaves the work to golang-migrate, which brings the one       *)
(* migration of this repository up or down under an advisory lock of       *)
(* PostgreSQL and keeps the version, and whether it is dirty, in a table.  *)
(***************************************************************************)
EXTENDS Naturals

CONSTANTS
    Pods,         \* the pods of the API
    Operators,    \* runs of pt-migration downgrade
    Nobody,       \* holds the lock when it is free
    MaxFaults     \* bound: runs killed, and failed connections and statements

ASSUME MigrationAssumption == /\ Nobody \notin Pods \cup Operators
                              /\ Pods \cap Operators = {}
                              /\ MaxFaults \in Nat

VARIABLES
    version,   \* schema_migrations: 1, or 0 for no version
    dirty,
    schema,    \* the version the tables really are at
    lock,
    run,       \* where each pt-migration is; that of a pod that serves is done
    faults

vars == <<version, dirty, schema, lock, run, faults>>

Runners   == Pods \cup Operators
Holding   == {"locked", "changing", "running", "ran"}
Target(r) == IF r \in Pods THEN 1 ELSE 0

TypeOK ==
    /\ version \in {0, 1} /\ schema \in {0, 1} /\ dirty \in BOOLEAN
    /\ lock \in Runners \cup {Nobody}
    /\ run \in [Runners -> Holding \cup {"idle", "start", "waiting", "failed", "done"}]
    /\ faults \in 0..MaxFaults
    /\ \A r \in Runners : run[r] \in Holding <=> lock = r

\* A new database, or the rollout of a new image on one in use.
Init ==
    /\ version \in {0, 1} /\ dirty = FALSE /\ schema = version
    /\ lock = Nobody
    /\ run = [r \in Runners |-> IF r \in Pods THEN "start" ELSE "idle"]
    /\ faults = 0

At(r, pc) == run[r] = pc

Goto(r, pc) == run' = [run EXCEPT ![r] = pc]

Fault == faults < MaxFaults /\ faults' = faults + 1

-----------------------------------------------------------------------------
\* The process exits; the end of its session gives the lock back.
Exit(r, pc) == /\ Goto(r, pc)
               /\ lock' = IF lock = r THEN Nobody ELSE lock

\* Mutants: errors are only logged; ErrNoChange is an error like others.
Outcome_OnlyLogged(err)    == "done"
Outcome_NoChangeFails(err) == IF err = "none" THEN "done" ELSE "failed"

\* The exit code of performDbMigration.
Outcome(err) == IF err \in {"none", "no change"} THEN "done" ELSE "failed"

Downgrade(o) ==
    /\ o \in Operators /\ At(o, "idle") /\ Goto(o, "start")
    /\ UNCHANGED <<version, dirty, schema, lock, faults>>

\* DbSqlConnect and WithInstance, which waits for the lock to make its table.
Connect(r) ==
    /\ At(r, "start")
    /\ \/ lock = Nobody /\ Goto(r, "waiting") /\ UNCHANGED faults
       \/ Fault /\ Goto(r, "failed")
    /\ UNCHANGED <<version, dirty, schema, lock>>

\* Mutant: no lock.
Lock_Always(r) ==
    /\ At(r, "waiting")
    /\ Goto(r, "locked") /\ lock' = r
    /\ UNCHANGED <<version, dirty, schema, faults>>

Lock(r) ==
    /\ At(r, "waiting") /\ lock = Nobody
    /\ Goto(r, "locked") /\ lock' = r
    /\ UNCHANGED <<version, dirty, schema, faults>>

\* ErrLockTimeout, after fifteen seconds.
LockTimesOut(r) ==
    /\ At(r, "waiting") /\ lock # Nobody
    /\ Exit(r, Outcome("lock timeout"))
    /\ UNCHANGED <<version, dirty, schema, faults>>

\* Mutant: a dirty version is taken for any other.
VersionErr_AnyVersion(r) == IF version # Target(r) THEN "none"
                            ELSE IF r \in Pods THEN "no change" ELSE "not exist"

VersionErr(r) == IF dirty THEN "dirty"
                 ELSE IF version # Target(r) THEN "none"
                 ELSE IF r \in Pods THEN "no change" ELSE "not exist"

\* Up, or Steps(-1).
ReadVersion(r) ==
    /\ At(r, "locked")
    /\ IF VersionErr(r) = "none" THEN Goto(r, "changing") /\ UNCHANGED lock
       ELSE Exit(r, Outcome(VersionErr(r)))
    /\ UNCHANGED <<version, dirty, schema, faults>>

SetVersion(r, isDirty) == version' = Target(r) /\ dirty' = isDirty

MarkDirty(r) ==
    /\ At(r, "changing")
    /\ SetVersion(r, TRUE) /\ Goto(r, "running")
    /\ UNCHANGED <<schema, lock, faults>>

(***************************************************************************)
(* A migration file is one query of many statements and so one transaction *)
(* of PostgreSQL.  It creates what must not exist yet, or drops what must. *)
(***************************************************************************)
Migrated(r) == schema = Target(r)

RunFile(r) ==
    /\ At(r, "running")
    /\ IF Migrated(r) THEN Exit(r, Outcome("exists")) /\ UNCHANGED schema
       ELSE schema' = Target(r) /\ Goto(r, "ran") /\ UNCHANGED lock
    /\ UNCHANGED <<version, dirty, faults>>

MarkClean(r) ==
    /\ At(r, "ran")
    /\ SetVersion(r, FALSE) /\ Exit(r, Outcome("none"))
    /\ UNCHANGED <<schema, faults>>

\* A statement under the lock fails, or its connection does.
StatementFails(r) ==
    /\ run[r] \in Holding /\ Fault
    /\ Exit(r, Outcome("statement"))
    /\ UNCHANGED <<version, dirty, schema>>

(***************************************************************************)
(* The pod or the process is killed.  A file that was sent to PostgreSQL   *)
(* by then may still take effect.                                          *)
(***************************************************************************)
Killed(r) ==
    /\ r \in Pods \/ run[r] \notin {"idle", "failed", "done"}
    /\ Fault
    /\ Exit(r, IF r \in Pods THEN "start" ELSE "failed")
    /\ schema' \in IF At(r, "running") THEN {schema, Target(r)} ELSE {schema}
    /\ UNCHANGED <<version, dirty>>

\* The kubelet starts a failed init container again.
Restart(p) ==
    /\ p \in Pods /\ At(p, "failed") /\ Goto(p, "start")
    /\ UNCHANGED <<version, dirty, schema, lock, faults>>

Step(r) == \/ Connect(r) \/ Lock(r) \/ ReadVersion(r) \/ MarkDirty(r)
           \/ RunFile(r) \/ MarkClean(r) \/ Restart(r)

Next == \E r \in Runners : \/ Downgrade(r) \/ Step(r) \/ LockTimesOut(r)
                           \/ StatementFails(r) \/ Killed(r)

Spec == Init /\ [][Next]_vars

\* Containers run and are started again; nobody has to downgrade or time out.
FairSpec == Spec /\ \A r \in Runners : WF_vars(Step(r))

-----------------------------------------------------------------------------
(***************************************************************************)
(* A version that is not dirty tells the truth about the tables, whatever  *)
(* runs at once, in either direction, and wherever it is killed.           *)
(***************************************************************************)
VersionTellsSchema == ~dirty => version = schema

(***************************************************************************)
(* Pods that migrate at once never stand in each other's way: the version  *)
(* is left dirty only by a run that was killed or whose statement failed.  *)
(***************************************************************************)
DirtyByFault == dirty /\ lock = Nobody => faults > 0

(***************************************************************************)
(* No pod serves without its tables, unless somebody downgrades.           *)
(***************************************************************************)
ServingHasTables ==
    (\A o \in Operators : At(o, "idle")) => \A p \in Pods : At(p, "done") => schema = 1

(***************************************************************************)
(* What is left dirty by a run that is over stays so: neither the init     *)
(* containers nor any command of pt-migration repairs it.                  *)
(***************************************************************************)
Stuck == dirty /\ \A r \in Runners : run[r] \notin {"running", "ran", "changing"}

StuckForEver == [][Stuck => Stuck']_vars

(***************************************************************************)
(* All pods serve in the end, unless the version was left dirty.           *)
(***************************************************************************)
AllServe == <>[](dirty \/ \A p \in Pods : At(p, "done"))

=============================================================================
