---------------------- MODULE StatusLogRefinementProofs ----------------------
(***************************************************************************)
(* Proof that the consumers implement StatusLog: initial states map to an  *)
(* initial state, and every step maps to a step of StatusLog or to none.   *)
(* The inductive invariants of MessageHandlerProofs and, beside the jobs,  *)
(* TrackerSystemProofs tell which.                                         *)
(***************************************************************************)
EXTENDS StatusLogRefinement, TrackerSystemProofs

-----------------------------------------------------------------------------
(***************************************************************************)
(* What is recorded of a message is what it asked for.                     *)
(***************************************************************************)
Numbers == {statuses[id].delivery : id \in DOMAIN statuses}

RecordedAsAsked == /\ Numbers \subseteq Known
                   /\ Recorded = [d \in Numbers |-> Inbox[d]]

\* A stored row, read through its references, is what its message asked for.
LEMMA ReadIsAsked ==
    ASSUME TypeOK, StatusResolves, NEW id \in DOMAIN statuses
    PROVE  /\ statuses[id].delivery \in Known
           /\ Read(statuses[id]) = Asked(delivered[statuses[id].delivery].msg)
<1> DEFINE row == statuses[id]
           m == delivered[row.delivery].msg
<1>1. row.delivery \in Known /\ Accepted(m) /\ RowMatches(row, m)
  BY DEF StatusResolves
<1>2. m \in Message
  BY <1>1, DeliveredIsMessage
<1>3. ASSUME NEW k \in Kinds
      PROVE  (IF row.refs[k] = NoId THEN Blank ELSE lookups[k][row.refs[k]])
                = Lower[m.names[k]]
  <2>1. StandsFor(k, row.refs[k], m.names[k]) /\ m.names[k] \in Names
    BY <1>1, <1>2 DEF RowMatches, Message
  <2>2. NoId \notin DOMAIN lookups[k]
    BY DEF TypeOK, TablesTypeOK, IsTable
  <2> QED
    BY <2>1, <2>2, LowerAssumption DEF StandsFor
<1>4. payloads[row.payload].request = m.request /\ row.date = m.date
  BY <1>1 DEF RowMatches
<1> HIDE DEF row, m
<1>5. Read(row) = Asked(m)
  BY <1>1, <1>3, <1>4 DEF Read, Asked
<1> QED
  BY <1>1, <1>5 DEF row, m

\* So the recorded entries are determined by their numbers.
LEMMA RecordedSays == TypeOK /\ StatusResolves => RecordedAsAsked
<1> SUFFICES ASSUME TypeOK, StatusResolves PROVE RecordedAsAsked
  OBVIOUS
<1>1. Numbers \subseteq Known
  BY ReadIsAsked DEF Numbers
<1>2. ASSUME NEW d \in Numbers
      PROVE  Read(statuses[CHOOSE id \in RowsOf(d) : TRUE]) = Inbox[d]
  <2>1. PICK id \in RowsOf(d) : TRUE
    BY DEF Numbers, RowsOf
  <2>2. (CHOOSE i \in RowsOf(d) : TRUE) \in RowsOf(d)
    BY <2>1
  <2> DEFINE i == CHOOSE x \in RowsOf(d) : TRUE
  <2>3. i \in DOMAIN statuses /\ statuses[i].delivery = d
    BY <2>2 DEF RowsOf
  <2> HIDE DEF i
  <2>4. Read(statuses[i]) = Asked(delivered[d].msg)
    BY <2>3, ReadIsAsked
  <2>5. Inbox[d] = Asked(delivered[d].msg)
    BY <1>1 DEF Inbox
  <2> QED
    BY <2>4, <2>5 DEF i
<1> QED
  BY <1>1, <1>2 DEF RecordedAsAsked, Recorded, Numbers

\* ... after a step as before it.
LEMMA RecordedSaysNext == TypeOK' /\ StatusResolves' => RecordedAsAsked'
BY RecordedSays, PTL

-----------------------------------------------------------------------------
(***************************************************************************)
(* The inbox is a sequence of what the deliveries ask for.                 *)
(***************************************************************************)
Asks == Entries \cup {Garbage}

\* What a message asks for is an entry just if it is accepted.
LEMMA AskedIsAsk ==
    ASSUME NEW m \in Messages \cup {Garbage}
    PROVE  /\ Asked(m) \in Asks
           /\ Accepted(m) => Asked(m) # Garbage
           /\ ~Accepted(m) => Asked(m) = Garbage
<1>1. CASE Accepted(m)
  <2>1. m \in Messages
    BY <1>1 DEF Accepted
  <2>2. Asked(m) \in Entries
    BY <1>1, <2>1 DEF Entries
  <2> QED
    BY <1>1, <2>2, NothingAssumption DEF Asks
<1>2. CASE ~Accepted(m)
  BY <1>2 DEF Asked, Asks
<1> QED
  BY <1>1, <1>2

InboxFits == Inbox \in Seq(Asks) /\ Len(Inbox) = Len(delivered)

\* Its type and length,
LEMMA InboxIsSeq == TypeOK => InboxFits
<1> SUFFICES ASSUME TypeOK PROVE Inbox \in Seq(Asks) /\ Len(Inbox) = Len(delivered)
  BY DEF InboxFits
<1> DEFINE D == [msg : Messages \cup {Garbage}, by : Consumers]
           n == Len(delivered)
<1>1. delivered \in Seq(D) /\ n \in Nat
  BY LenProperties DEF TypeOK
<1>2. ASSUME NEW d \in 1..n PROVE Asked(delivered[d].msg) \in Asks
  <2>1. delivered[d] \in D
    BY <1>1, <1>2, ElementOfSeq
  <2> QED
    BY <2>1, AskedIsAsk
<1>3. Inbox = [d \in 1..n |-> Asked(delivered[d].msg)]
  BY DEF Inbox, Known
<1> HIDE DEF n
<1>4. Inbox \in [1..n -> Asks]
  BY <1>2, <1>3
<1>5. Inbox \in Seq(Asks) /\ Len(Inbox) = n
  BY <1>1, <1>4, IsASeq, LenProperties
<1> QED
  BY <1>5 DEF n

\* ... after a step as before it.
LEMMA InboxIsSeqNext == TypeOK' => InboxFits'
BY InboxIsSeq, PTL

\* A message that is handed over is appended to it.
LEMMA InboxGrows ==
    ASSUME TypeOK, TypeOK', NEW c \in Consumers, NEW m \in Messages \cup {Garbage},
           Handed(c, m)
    PROVE  Inbox' = Append(Inbox, Asked(m))
<1> DEFINE n == Len(delivered)
<1>1. /\ Len(delivered') = n + 1 /\ delivered'[n + 1].msg = m
      /\ \A d \in 1..n : delivered'[d] = delivered[d]
      /\ n \in Nat
  BY HandedOver, LenProperties DEF LogKept, Known, TypeOK
<1>2. /\ Inbox \in Seq(Asks) /\ Len(Inbox) = n
      /\ Inbox' \in Seq(Asks) /\ Len(Inbox') = n + 1
  BY <1>1, InboxIsSeq, InboxIsSeqNext DEF InboxFits
<1>3. /\ \A d \in 1..n : Inbox[d] = Asked(delivered[d].msg)
      /\ \A d \in 1..(n + 1) : Inbox'[d] = Asked(delivered'[d].msg)
  BY <1>1 DEF Inbox, Known
<1>4. Asked(m) \in Asks
  BY AskedIsAsk
<1> HIDE DEF n
<1>5. /\ Append(Inbox, Asked(m)) \in Seq(Asks)
      /\ Len(Append(Inbox, Asked(m))) = n + 1
      /\ \A d \in 1..n : Append(Inbox, Asked(m))[d] = Inbox[d]
      /\ Append(Inbox, Asked(m))[n + 1] = Asked(m)
  BY <1>1, <1>2, <1>4, AppendProperties
<1>6. \A d \in 1..(n + 1) : Inbox'[d] = Append(Inbox, Asked(m))[d]
  <2>1. \A d \in 1..(n + 1) : d \in 1..n \/ d = n + 1
    BY <1>1
  <2>2. \A d \in 1..n : d \in 1..(n + 1)
    BY <1>1
  <2>3. n + 1 \in 1..(n + 1)
    BY <1>1
  <2> QED
    BY <1>1, <1>3, <1>5, <2>1, <2>2, <2>3
<1> QED
  BY <1>2, <1>5, <1>6, SeqEqual

-----------------------------------------------------------------------------
(***************************************************************************)
(* The steps.  A message that is handed over is a Take, a row that is      *)
(* written a Record, another end of a call a Close, and the rest is a      *)
(* stutter.                                                                *)
(***************************************************************************)
\* What the steps need of the invariants.
LogInv == TypeOK /\ CallsOK /\ DistinctCalls /\ RowsOfCalls /\ StatusResolves

\* Only Refuse and Accept take a message in.
LEMMA WhoHands ==
    ASSUME [Next]_vars
    PROVE  \/ UNCHANGED delivered
           \/ \E c \in Consumers, m \in Messages \cup {Garbage} : Refuse(c, m) \/ Accept(c, m)
BY DEF Next, Receive, Work, Upsert, UpsertFault, Get, GetFault, Create, CreateFault,
   Insert, InsertFault, GiveUp, Forget, Expire, Crash, vars, history

\* Recorded entries stay while no row is written.
LEMMA RecordedStays ==
    ASSUME RecordedAsAsked, RecordedAsAsked', UNCHANGED statuses,
           \A d \in Known : Inbox'[d] = Inbox[d]
    PROVE  Recorded' = Recorded
<1>1. Numbers' = Numbers
  BY DEF Numbers
<1>2. /\ Recorded = [d \in Numbers |-> Inbox[d]]
      /\ Recorded' = [d \in Numbers |-> Inbox'[d]]
      /\ Numbers \subseteq Known
  BY <1>1 DEF RecordedAsAsked
<1> QED
  BY <1>2

\* A message that is handed over is a Take of what it asks for.
LEMMA HandedTakes ==
    ASSUME LogInv, LogInv', [Next]_vars,
           NEW c \in Consumers, NEW m \in Messages \cup {Garbage},
           Refuse(c, m) \/ Accept(c, m)
    PROVE  Log!Take(Asked(m))
<1>1. /\ TypeOK /\ TypeOK' /\ CallsOK /\ RecordedAsAsked /\ RecordedAsAsked'
  BY RecordedSays, RecordedSaysNext DEF LogInv
<1>2. Handed(c, m) /\ UNCHANGED statuses
  BY DEF Refuse, Accept, tables
<1>3. Inbox' = Append(Inbox, Asked(m))
  BY <1>1, <1>2, InboxGrows
<1>4. Len(Inbox) = Len(delivered) /\ Len(delivered) \in Nat
      /\ \A d \in Known : Inbox'[d] = Inbox[d]
  <2>1. InboxFits /\ Asked(m) \in Asks
    BY <1>1, InboxIsSeq, AskedIsAsk
  <2>2. Len(Inbox) \in Nat
    BY <2>1, LenProperties DEF InboxFits
  <2>3. \A d \in 1..Len(Inbox) : Append(Inbox, Asked(m))[d] = Inbox[d]
    BY <2>1, AppendProperties DEF InboxFits
  <2> QED
    BY <1>3, <2>1, <2>2, <2>3 DEF InboxFits, Known
<1>5. Recorded' = Recorded
  BY <1>1, <1>2, <1>4, RecordedStays
<1>6. Open' = IF Asked(m) = Garbage THEN Open ELSE Open \cup {Len(Inbox) + 1}
  <2>1. CASE Refuse(c, m)
    BY <2>1, AskedIsAsk DEF Refuse, local, Open
  <2>2. CASE Accept(c, m)
    <3>1. /\ task'[c].delivery = Len(delivered) + 1
          /\ \A e \in Consumers \ {c} : task'[e] = task[e]
      BY <1>1, <2>2 DEF Accept, TypeOK, Idle
    <3>2. task[c].delivery = 0
      <4>1. task[c] = Idle
        BY <1>1, <2>2 DEF Accept, Handed, CallsOK, CallOK
      <4> QED
        BY <4>1 DEF Idle
    <3>3. Len(Inbox) + 1 # 0
      BY <1>4
    <3>4. \A d : d \in Open' <=> d \in Open \/ d = Len(Inbox) + 1
      BY <1>4, <3>1, <3>2, <3>3 DEF Open
    <3>5. Asked(m) # Garbage
      BY <2>2, AskedIsAsk DEF Accept
    <3> QED
      BY <3>4, <3>5
  <2> QED
    BY <2>1, <2>2
<1> QED
  BY <1>3, <1>5, <1>6 DEF Log!Take

\* What is open when one call ends.
LEMMA OpenWithout ==
    ASSUME TypeOK, CallsOK, DistinctCalls, NEW c \in Consumers, task[c].pc # "idle",
           task'[c] = Idle, \A e \in Consumers \ {c} : task'[e] = task[e]
    PROVE  /\ task[c].delivery \in Open
           /\ Open' = Open \ {task[c].delivery}
<1>1. task[c].delivery # 0
  BY DeliveriesOfCalls
<1>2. \A e \in Consumers \ {c} : task[e].delivery # task[c].delivery
  BY DEF DistinctCalls
<1>3. task'[c].delivery = 0
  BY DEF Idle
<1>4. \A d : d \in Open' <=> d \in Open /\ d # task[c].delivery
  BY <1>1, <1>2, <1>3 DEF Open
<1> QED
  BY <1>1, <1>4 DEF Open

\* What is open when every call is about what it was about.
LEMMA OpenStays ==
    ASSUME \A e \in Consumers : task'[e].delivery = task[e].delivery
    PROVE  Open' = Open
BY DEF Open

\* A row that is written is a Record of its delivery.
LEMMA WroteRecords ==
    ASSUME LogInv, LogInv', [Next]_vars, NEW c \in Consumers, Wrote(c)
    PROVE  Log!Record(task[c].delivery) /\ task[c].delivery \in Open
<1> DEFINE d == task[c].delivery
<1>1. /\ TypeOK /\ TypeOK' /\ CallsOK /\ DistinctCalls /\ RowsOfCalls
      /\ RecordedAsAsked /\ RecordedAsAsked'
  BY RecordedSays, RecordedSaysNext DEF LogInv
<1>2. task[c].pc = "insert" /\ UNCHANGED delivered
  BY DEF Wrote
<1>3. d \in Open
  BY <1>1, <1>2, DeliveriesOfCalls DEF Open
<1>4. d \notin Numbers
  <2>1. ASSUME NEW i \in DOMAIN statuses, statuses[i].delivery = d PROVE FALSE
    <3>1. i = task[c].statusId
      BY <1>1, <1>2, <2>1 DEF RowsOfCalls
    <3>2. i # NoId
      BY <1>1 DEF TypeOK, TablesTypeOK, IsTable
    <3>3. InsertId(task[c]) \notin DOMAIN statuses
      BY <1>1, WroteRow
    <3> QED
      BY <3>1, <3>2, <3>3 DEF InsertId
  <2> QED
    BY <2>1 DEF Numbers
<1>5. Numbers' = Numbers \cup {d}
  <2> DEFINE id == InsertId(task[c])
  <2>0. StatusOf(task[c]).delivery = d
    BY DEF StatusOf
  <2>1. /\ DOMAIN statuses' = DOMAIN statuses \cup {id}
        /\ statuses'[id].delivery = d
        /\ \A i \in DOMAIN statuses : statuses'[i] = statuses[i]
    BY <1>1, <2>0, WroteRow
  <2> HIDE DEF id, d
  <2>2. \A n : n \in Numbers' <=> n \in Numbers \/ n = d
    BY <2>1 DEF Numbers
  <2> QED
    BY <2>2
<1>6. Inbox' = Inbox
  BY <1>2 DEF Inbox, Known
<1>7. DOMAIN Recorded = Numbers /\ \A e \in Numbers : Recorded[e] = Inbox[e]
  BY <1>1 DEF RecordedAsAsked
<1>8. Recorded' = [e \in Numbers \cup {d} |-> Inbox[e]]
  BY <1>1, <1>5, <1>6 DEF RecordedAsAsked
<1>9. Recorded' = [e \in DOMAIN Recorded \cup {d} |-> IF e = d THEN Inbox[d] ELSE Recorded[e]]
  <2> HIDE DEF d
  <2> QED
    BY <1>7, <1>8
<1>10. Open' \in {Open, Open \ {d}}
  <2>1. CASE Finish(c)
    <3>1. task'[c] = Idle /\ \A e \in Consumers \ {c} : task'[e] = task[e]
      BY <1>1, <2>1 DEF Finish, TypeOK
    <3> QED
      BY <1>1, <1>2, <3>1, OpenWithout
  <2>2. CASE Retry(c, InsertId(task[c]))
    <3>1. InsertId(task[c]) \in Nat
      BY <1>1, WroteRow
    <3>2. /\ task'[c] = [task[c] EXCEPT !.attempts = @ + 1, !.statusId = InsertId(task[c])]
          /\ \A e \in Consumers \ {c} : task'[e] = task[e]
          /\ task[c] \in Task
      BY <1>1, <2>2, <3>1, RetryType DEF TypeOK
    <3>3. task'[c].delivery = task[c].delivery
      BY <3>2 DEF Task
    <3> QED
      BY <3>2, <3>3, OpenStays
  <2> QED
    BY <2>1, <2>2 DEF Wrote
<1> HIDE DEF d
<1>11. Log!Record(d)
  BY <1>3, <1>4, <1>6, <1>7, <1>9, <1>10 DEF Log!Record
<1> QED
  BY <1>3, <1>11 DEF d

\* A step that takes in nothing and writes nothing closes a message, or none.
LEMMA OtherwiseCloses ==
    ASSUME LogInv, LogInv', [Next]_vars, UNCHANGED <<delivered, statuses>>
    PROVE  UNCHANGED Log!logVars \/ \E d \in Open : Log!Close(d)
<1>1. /\ TypeOK /\ TypeOK' /\ CallsOK /\ DistinctCalls
      /\ RecordedAsAsked /\ RecordedAsAsked'
  BY RecordedSays, RecordedSaysNext DEF LogInv
<1>2. Inbox' = Inbox
  BY DEF Inbox, Known
<1>3. Recorded' = Recorded
  BY <1>1, <1>2, RecordedStays
<1>4. CASE Open' = Open
  BY <1>2, <1>3, <1>4 DEF Log!logVars
<1>5. ASSUME NEW c \in Consumers, Ends(c), \A e \in Consumers \ {c} : task'[e] = task[e],
             task[c].pc # "idle"
      PROVE  \E d \in Open : Log!Close(d)
  <2>1. /\ task[c].delivery \in Open
        /\ Open' = Open \ {task[c].delivery}
    BY <1>1, <1>5, OpenWithout DEF Ends
  <2> QED
    BY <1>2, <1>3, <2>1 DEF Log!Close
<1>6. ASSUME NEW c \in Consumers, \A e \in Consumers \ {c} : task'[e] = task[e],
             \/ GoesOn(c)
             \/ Ends(c) /\ task[c].pc = "idle"
      PROVE  Open' = Open
  <2>1. task'[c].delivery = task[c].delivery
    BY <1>1, <1>6 DEF GoesOn, Ends, CallsOK, CallOK
  <2> QED
    BY <1>6, <2>1, OpenStays
<1>7. ASSUME NEW c \in Consumers, Begins(c) PROVE FALSE
  <2>1. Len(delivered) \in Nat
    BY <1>1, LenProperties DEF TypeOK
  <2> QED
    BY <1>7, <2>1 DEF Begins
<1>8. UNCHANGED task => Open' = Open
  BY DEF Open
<1> QED
  BY <1>1, <1>4, <1>5, <1>6, <1>7, <1>8, OneCallMovesStep DEF OneCallMoves

\* Every step is one of these.
LEMMA StepImplements ==
    LogInv /\ LogInv' /\ [Next]_vars => [Log!Next]_(Log!logVars)
<1> SUFFICES ASSUME LogInv, LogInv', [Next]_vars
             PROVE  Log!Next \/ UNCHANGED Log!logVars
  OBVIOUS
<1>1. CASE ~UNCHANGED delivered
  <2>1. PICK c \in Consumers, m \in Messages \cup {Garbage} : Refuse(c, m) \/ Accept(c, m)
    BY <1>1, WhoHands
  <2>2. Asked(m) \in Entries \cup {Garbage}
    BY AskedIsAsk DEF Asks
  <2>3. Log!Take(Asked(m))
    BY <2>1, HandedTakes
  <2> QED
    BY <2>2, <2>3 DEF Log!Next
<1>2. CASE UNCHANGED delivered /\ ~UNCHANGED statuses
  <2>1. PICK c \in Consumers : Wrote(c)
    BY <1>2, StatusesStep
  <2>2. Log!Record(task[c].delivery) /\ task[c].delivery \in Open
    BY <2>1, WroteRecords
  <2> QED
    BY <2>2 DEF Log!Next
<1>3. CASE UNCHANGED <<delivered, statuses>>
  BY <1>3, OtherwiseCloses DEF Log!Next
<1> QED
  BY <1>1, <1>2, <1>3

\* An initial state has taken in, opened and recorded nothing.
LEMMA InitImplements == Init => Log!Init
<1> SUFFICES ASSUME Init PROVE Log!Init
  OBVIOUS
<1>1. TypeOK /\ Len(delivered) = 0 /\ DOMAIN statuses = {}
  BY TypeInit, EmptySeq DEF Init, TablesInit, NoRows
<1>2. Inbox = << >>
  BY <1>1, InboxIsSeq, EmptySeq DEF InboxFits
<1>3. Open = {}
  BY DEF Init, Open, Idle
<1>4. Recorded = [d \in {} |-> Garbage]
  BY <1>1 DEF Recorded
<1> QED
  BY <1>2, <1>3, <1>4 DEF Log!Init

(***************************************************************************)
(* For any number of consumers, whatever fails and whenever one is killed: *)
(* to who reads the joined tables the handlers are a log, in which entries *)
(* are recorded one at a time, each while its message is handled, each as  *)
(* its message said, none twice, and none is ever changed.                 *)
(***************************************************************************)
THEOREM ConsumersKeepTheLog == Spec => ImplementsStatusLog
<1>1. HandlerInv => LogInv
  BY DEF HandlerInv, LogInv
<1> QED
  BY <1>1, InitImplements, StepImplements, HandlerInvariant, PTL
     DEF Spec, Log!Spec, ImplementsStatusLog

-----------------------------------------------------------------------------
(***************************************************************************)
(* Beside the jobs.  A step of theirs takes no message in, opens and       *)
(* closes none: it cleans the log, or changes nothing there.               *)
(***************************************************************************)
LEMMA CleaningCleans ==
    ASSUME LogInv, LogInv', Cleaned
    PROVE  Log!Clean
<1>1. RecordedAsAsked /\ RecordedAsAsked'
  BY RecordedSays, RecordedSaysNext DEF LogInv
<1>2. UNCHANGED <<task, delivered>> /\ Kept(statuses, statuses')
  BY DEF Cleaned, local, history
<1>3. Inbox' = Inbox /\ Open' = Open
  BY <1>2 DEF Inbox, Known, Open
<1>4. Numbers' \subseteq Numbers
  BY <1>2 DEF Numbers, Kept
<1>5. /\ Recorded = [d \in Numbers |-> Inbox[d]]
      /\ Recorded' = [d \in Numbers' |-> Inbox[d]]
  BY <1>1, <1>3 DEF RecordedAsAsked
<1>6. DOMAIN Recorded = Numbers /\ Recorded' = [d \in Numbers' |-> Recorded[d]]
  BY <1>4, <1>5
<1> QED
  BY <1>3, <1>4, <1>6 DEF Log!Clean

(***************************************************************************)
(* With the cron jobs on the same database the consumers still keep the    *)
(* log, out of which the jobs take entries but change none.  An entry that *)
(* was taken out returns only if its message is still in hand: an attempt  *)
(* that had stored it failed, and is repeated.  No message may choose the  *)
(* id of its payload: one that takes that of a deleted payload turns what  *)
(* a call stores for the old one into an entry of another request.         *)
(***************************************************************************)
THEOREM SystemKeepsTheLog == SystemSpec /\ []NoChosenIds => Log!CleanedSpec
<1>1. SystemInit => Log!Init
  BY InitImplements DEF SystemInit
<1>2. LeftTrue /\ NoChosenIds => LogInv
  BY DEF LeftTrue, SystemInv, SystemTypes, SystemTypeOK, LogInv
<1>3. LogInv /\ LogInv' /\ [SystemNext]_systemVars => [Log!Next \/ Log!Clean]_(Log!logVars)
  <2>1. Consume \/ UNCHANGED systemVars => [Next]_vars
    BY ConsumeIsNext DEF systemVars
  <2>2. LogInv /\ LogInv' /\ Maintain => Log!Clean
    BY MaintainCleans, CleaningCleans
  <2>3. LogInv /\ LogInv' /\ [Next]_vars => Log!Next \/ UNCHANGED Log!logVars
    BY StepImplements
  <2> QED
    BY <2>1, <2>2, <2>3 DEF SystemNext
<1> QED
  BY <1>1, <1>2, <1>3, LeftTrueInvariant, PTL DEF SystemSpec, Log!CleanedSpec

=============================================================================
