--------------------------- MODULE MigrationProofs ---------------------------
(***************************************************************************)
(* The safety properties of Migration for any number of pods, of           *)
(* downgrades and of faults.  One inductive invariant carries them: what   *)
(* the holder of the lock may rely on at each of its steps, and that       *)
(* without a holder a dirty version has a fault behind it.                 *)
(***************************************************************************)
EXTENDS Migration, TLAPS

\* What a run that has come to pc knows, as long as it holds the lock.
HolderKnows(r) ==
    /\ run[r] = "locked" /\ dirty => faults > 0
    /\ run[r] = "changing" => ~dirty /\ version # Target(r)
    /\ run[r] = "running"  => dirty /\ version = Target(r) /\ ~Migrated(r)
    /\ run[r] = "ran"      => dirty /\ version = Target(r) /\ Migrated(r)

IInv ==
    /\ TypeOK
    /\ VersionTellsSchema
    /\ DirtyByFault
    /\ ServingHasTables
    /\ \A r \in Runners : HolderKnows(r)

\* The inductive invariant holds of a new database and of one in use.
LEMMA InitIInv == Init => IInv
<1> SUFFICES ASSUME Init PROVE IInv
  OBVIOUS
<1> USE MigrationAssumption DEF Init, Runners, At
<1>1. \A r \in Runners : run[r] \in {"idle", "start"}
  OBVIOUS
<1>2. TypeOK
  <2>1. run \in [Runners -> Holding \cup {"idle", "start", "waiting", "failed", "done"}]
    BY <1>1
  <2>2. \A r \in Runners : lock # r /\ run[r] \notin Holding
    BY <1>1 DEF Holding
  <2>3. faults \in 0..MaxFaults
    OBVIOUS
  <2>4. dirty \in BOOLEAN
    OBVIOUS
  <2> QED
    BY <2>1, <2>2, <2>3, <2>4 DEF TypeOK
<1>3. VersionTellsSchema /\ DirtyByFault
  BY DEF VersionTellsSchema, DirtyByFault
<1>4. ServingHasTables
  BY <1>1 DEF ServingHasTables
<1>5. \A r \in Runners : HolderKnows(r)
  BY <1>1 DEF HolderKnows
<1> QED
  BY <1>2, <1>3, <1>4, <1>5 DEF IInv

\* Every step keeps the type invariant.
LEMMA StepTypeOK == TypeOK /\ [Next]_vars => TypeOK'
<1> SUFFICES ASSUME TypeOK, [Next]_vars PROVE TypeOK'
  OBVIOUS
<1> USE MigrationAssumption DEF TypeOK, Runners, Holding, Target, At, Goto
<1>1. CASE UNCHANGED vars
  BY <1>1 DEF vars
<1>2. CASE Next
  <2> PICK r \in Runners : \/ Downgrade(r) \/ Step(r) \/ LockTimesOut(r)
                           \/ StatementFails(r) \/ Killed(r)
    BY <1>2 DEF Next
  <2>1. CASE Downgrade(r)
    BY <2>1 DEF Downgrade
  <2>2. CASE Connect(r)
    BY <2>2 DEF Connect, Fault
  <2>3. CASE Lock(r)
    BY <2>3 DEF Lock
  <2>4. CASE LockTimesOut(r)
    BY <2>4 DEF LockTimesOut, Exit, Outcome
  <2>5. CASE ReadVersion(r)
    BY <2>5 DEF ReadVersion, Exit, Outcome
  <2>6. CASE MarkDirty(r)
    BY <2>6 DEF MarkDirty, SetVersion
  <2>7. CASE RunFile(r)
    BY <2>7 DEF RunFile, Exit, Outcome
  <2>8. CASE MarkClean(r)
    BY <2>8 DEF MarkClean, SetVersion, Exit, Outcome
  <2>9. CASE StatementFails(r)
    BY <2>9 DEF StatementFails, Exit, Outcome, Fault
  <2>10. CASE Killed(r)
    BY <2>10 DEF Killed, Exit, Fault
  <2>11. CASE Restart(r)
    BY <2>11 DEF Restart
  <2> QED
    BY <2>1, <2>2, <2>3, <2>4, <2>5, <2>6, <2>7, <2>8, <2>9, <2>10, <2>11 DEF Step
<1> QED
  BY <1>1, <1>2

(***************************************************************************)
(* Every step of Migration keeps the inductive invariant: whatever one run *)
(* relies on, no step of another takes away.                               *)
(***************************************************************************)
LEMMA StepIInv == IInv /\ [Next]_vars => IInv'
<1> SUFFICES ASSUME IInv, [Next]_vars PROVE IInv'
  OBVIOUS
<1> TypeOK /\ TypeOK'
  BY StepTypeOK DEF IInv
<1> USE MigrationAssumption
    DEF IInv, VersionTellsSchema, DirtyByFault, ServingHasTables, HolderKnows, Migrated,
        TypeOK, Runners, Holding, Target, At, Goto
<1>1. CASE UNCHANGED vars
  BY <1>1 DEF vars
<1>2. CASE Next
  <2> PICK r \in Runners : \/ Downgrade(r) \/ Step(r) \/ LockTimesOut(r)
                           \/ StatementFails(r) \/ Killed(r)
    BY <1>2 DEF Next
  <2>1. CASE Downgrade(r)
    BY <2>1 DEF Downgrade
  <2>2. CASE Connect(r)
    BY <2>2 DEF Connect, Fault
  <2>3. CASE Lock(r)
    BY <2>3 DEF Lock
  <2>4. CASE LockTimesOut(r)
    BY <2>4 DEF LockTimesOut, Exit, Outcome
  <2>5. CASE ReadVersion(r)
    BY <2>5 DEF ReadVersion, VersionErr, Exit, Outcome
  <2>6. CASE MarkDirty(r)
    BY <2>6 DEF MarkDirty, SetVersion
  <2>7. CASE RunFile(r)
    BY <2>7 DEF RunFile, Exit, Outcome
  <2>8. CASE MarkClean(r)
    BY <2>8 DEF MarkClean, SetVersion, Exit, Outcome
  <2>9. CASE StatementFails(r)
    BY <2>9 DEF StatementFails, Exit, Outcome, Fault
  <2>10. CASE Killed(r)
    BY <2>10 DEF Killed, Exit, Fault
  <2>11. CASE Restart(r)
    BY <2>11 DEF Restart
  <2> QED
    BY <2>1, <2>2, <2>3, <2>4, <2>5, <2>6, <2>7, <2>8, <2>9, <2>10, <2>11 DEF Step
<1> QED
  BY <1>1, <1>2

\* So it holds of every state.
LEMMA SpecIInv == Spec => []IInv
  BY InitIInv, StepIInv, PTL DEF Spec

(***************************************************************************)
(* The lock is with the one run that is at work under it.                  *)
(***************************************************************************)
THEOREM MigrationTypeCorrect == Spec => []TypeOK
  BY SpecIInv, PTL DEF IInv

(***************************************************************************)
(* A clean version tells the truth about the tables, whichever pods ran at *)
(* once, in whichever direction, and wherever they were killed.            *)
(***************************************************************************)
THEOREM VersionIsTrue == Spec => []VersionTellsSchema
  BY SpecIInv, PTL DEF IInv

(***************************************************************************)
(* Pods that migrate at once are not the reason why a version is dirty: a  *)
(* dirty one that nobody works on has a fault behind it.                   *)
(***************************************************************************)
THEOREM DirtHasACause == Spec => []DirtyByFault
  BY SpecIInv, PTL DEF IInv

(***************************************************************************)
(* Without a downgrade no pod serves without its tables.                   *)
(***************************************************************************)
THEOREM NoPodWithoutTables == Spec => []ServingHasTables
  BY SpecIInv, PTL DEF IInv

(***************************************************************************)
(* What is left dirty stays dirty.                                         *)
(***************************************************************************)
THEOREM NobodyRepairs == Spec => StuckForEver
<1>1. IInv /\ [Next]_vars => [Stuck => Stuck']_vars
  <2> SUFFICES ASSUME IInv, [Next]_vars, Stuck PROVE Stuck'
    OBVIOUS
  <2> USE DEF IInv, TypeOK, Stuck, Runners, Holding, At, Goto
  <2>1. CASE UNCHANGED vars
    BY <2>1 DEF vars
  <2>2. CASE Next
    <3> PICK r \in Runners : \/ Downgrade(r) \/ Step(r) \/ LockTimesOut(r)
                             \/ StatementFails(r) \/ Killed(r)
      BY <2>2 DEF Next
    <3>1. CASE Downgrade(r) \/ Connect(r) \/ Lock(r) \/ Restart(r)
      BY <3>1 DEF Downgrade, Connect, Lock, Restart
    <3>2. CASE ReadVersion(r)
      BY <3>2 DEF ReadVersion, VersionErr, Exit, Outcome
    <3>3. CASE MarkDirty(r) \/ RunFile(r) \/ MarkClean(r)
      BY <3>3 DEF MarkDirty, RunFile, MarkClean
    <3>4. CASE LockTimesOut(r) \/ StatementFails(r) \/ Killed(r)
      BY <3>4 DEF LockTimesOut, StatementFails, Killed, Exit, Outcome
    <3> QED
      BY <3>1, <3>2, <3>3, <3>4 DEF Step
  <2> QED
    BY <2>1, <2>2
<1> QED
  BY <1>1, SpecIInv, PTL DEF Spec, StuckForEver

=============================================================================
