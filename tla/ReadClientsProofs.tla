--------------------------- MODULE ReadClientsProofs ---------------------------
(***************************************************************************)
(* Proofs about the answers of the read queries, while consumers write and *)
(* jobs clean, for any number of payloads and any page size.               *)
(***************************************************************************)
EXTENDS ReadClients, TrackerSystemProofs, FiniteSetTheorems, FunctionTheorems

-----------------------------------------------------------------------------
(***************************************************************************)
(* The answers of ORDER BY list every selected row, and each once.         *)
(***************************************************************************)
LEMMA Listed ==
    ASSUME NEW key, IsFiniteSet(DOMAIN key), NEW dir, NEW s \in OrderBy(key, dir)
    PROVE  /\ s \in Seq(DOMAIN key)
           /\ DOMAIN s = 1..Len(s)
           /\ Len(s) \in Nat
           /\ \A i, j \in DOMAIN s : s[i] = s[j] => i = j
           /\ \A x \in DOMAIN key : \E i \in DOMAIN s : s[i] = x
<1>1. Cardinality(DOMAIN key) \in Nat
  BY FS_CardinalityType
<1>2. s \in Fn!Bijection(1..Cardinality(DOMAIN key), DOMAIN key)
  BY DEF OrderBy
<1>3. s \in [1..Cardinality(DOMAIN key) -> DOMAIN key]
  BY <1>2 DEF Fn!Bijection, Fn!Injection
<1>4. \A i, j \in DOMAIN s : s[i] = s[j] => i = j
  BY <1>2, <1>3 DEF Fn!Bijection, Fn!Injection, Fn!IsInjective
<1>5. \A x \in DOMAIN key : \E i \in DOMAIN s : s[i] = x
  BY DEF OrderBy, Fn!Bijection, Fn!Surjection
<1> QED
  BY <1>1, <1>5, <1>3, <1>4

\* OFFSET is page times page_size as long as the product fits,
LEMMA OffsetFits ==
    ASSUME NEW at \in Nat, at < IntLimit
    PROVE  Wrapped(at) = at
<1>1. IntLimit \in Nat \ {0} /\ at + IntLimit \in 0..(2 * IntLimit - 1)
  BY QueryAssumption
<1>2. (at + IntLimit) % (2 * IntLimit) = at + IntLimit
  BY <1>1
<1> QED
  BY <1>1, <1>2 DEF Wrapped

\* ... and some int when it does not.
LEMMA OffsetIsInt ==
    ASSUME NEW p \in Nat, NEW n \in Nat
    PROVE  Offset(p, n) \in Int
<1>1. IntLimit \in Nat \ {0} /\ n * p \in Nat
  BY QueryAssumption
<1>2. ASSUME NEW m \in Nat PROVE Wrapped(m) \in Int
  BY <1>1 DEF Wrapped
<1> QED
  BY <1>1, <1>2 DEF Offset

\* The page holds the n rows after the offset, or those of them that there are.
LEMMA PageShows ==
    ASSUME NEW T, NEW s \in Seq(T), NEW n \in 1..(IntLimit - 1), NEW p,
           NEW at \in Nat,
           \/ Offset(p, n) = at
           \/ ~(Offset(p, n) > 0) /\ at = 0
    PROVE  /\ Page(s, p, n) \in Seq(T)
           /\ Len(Page(s, p, n)) = IF at >= Len(s) THEN 0
                                   ELSE IF at + n >= Len(s) THEN Len(s) - at
                                   ELSE n
           /\ \A i \in 1..Len(Page(s, p, n)) :
                 /\ at + i \in DOMAIN s
                 /\ Page(s, p, n)[i] = s[at + i]
<1> DEFINE last == IF at + n > Len(s) THEN Len(s) ELSE at + n
<1>1. n \in Nat \ {0} /\ IntLimit \in Nat \ {0} /\ Len(s) \in Nat
  BY QueryAssumption
<1>2. Page(s, p, n) = SubSeq(s, at + 1, last)
  <2> DEFINE skipped == IF Offset(p, n) > 0 THEN Offset(p, n) ELSE 0
  <2>1. Page(s, p, n) = SubSeq(s, skipped + 1,
                          IF n < 0 \/ skipped + n > Len(s) THEN Len(s) ELSE skipped + n)
    BY DEF Page
  <2>2. skipped = at
    OBVIOUS
  <2> HIDE DEF skipped
  <2>3. ~(n < 0)
    BY <1>1
  <2> QED
    BY <2>1, <2>2, <2>3
<1>3. last \in Nat /\ last <= Len(s)
  BY <1>1
<1>4. Len(Page(s, p, n)) = IF at + 1 <= last THEN last - at ELSE 0
  BY <1>1, <1>2, <1>3
<1>5. Page(s, p, n) \in Seq(T)
  <2> HIDE DEF last
  <2> QED
    BY <1>1, <1>2, <1>3
<1>6. ASSUME NEW i \in 1..Len(Page(s, p, n))
      PROVE  at + i \in DOMAIN s /\ Page(s, p, n)[i] = s[at + i]
  <2> HIDE DEF last
  <2>1. i \in Nat \ {0} /\ at + 1 <= last /\ at + i <= last
    BY <1>3, <1>4
  <2>2. at + i \in 1..Len(s)
    BY <1>1, <1>3, <2>1
  <2>3. SubSeq(s, at + 1, last)[i] = s[at + i]
    BY <1>1, <1>3, <2>1
  <2>4. Page(s, p, n)[i] = s[at + i]
    BY <1>2, <2>3
  <2>5. at + i \in DOMAIN s
    BY <2>2
  <2> QED
    BY <2>4, <2>5
<1>7. (IF at + 1 <= last THEN last - at ELSE 0)
         = IF at >= Len(s) THEN 0
           ELSE IF at + n >= Len(s) THEN Len(s) - at
           ELSE n
  <2>1. CASE at >= Len(s)
    BY <1>1, <2>1
  <2>2. CASE at < Len(s) /\ at + n >= Len(s)
    BY <1>1, <2>2
  <2>3. CASE at + n < Len(s)
    BY <1>1, <2>3
  <2> QED
    BY <1>1, <2>1, <2>2, <2>3
<1> HIDE DEF last
<1>8. Len(Page(s, p, n)) = IF at >= Len(s) THEN 0
                           ELSE IF at + n >= Len(s) THEN Len(s) - at
                           ELSE n
  BY <1>4, <1>7
<1> QED
  BY <1>5, <1>6, <1>8

\* So a row that is listed once is on the page just if its place is.
LEMMA OnPage ==
    ASSUME NEW T, NEW s \in Seq(T), NEW n \in 1..(IntLimit - 1), NEW p,
           NEW at \in Nat, Offset(p, n) = at,
           NEW i \in DOMAIN s, \A j \in DOMAIN s : s[i] = s[j] => i = j
    PROVE  s[i] \in Seqs!ToSet(Page(s, p, n)) <=> at < i /\ i <= at + n
<1> DEFINE page == Page(s, p, n)
<1>1. /\ page \in Seq(T)
      /\ Len(page) = IF at >= Len(s) THEN 0
                     ELSE IF at + n >= Len(s) THEN Len(s) - at ELSE n
      /\ \A j \in 1..Len(page) : at + j \in DOMAIN s /\ page[j] = s[at + j]
  BY PageShows
<1> HIDE DEF page
<1>2. DOMAIN page = 1..Len(page) /\ Len(page) \in Nat
  BY <1>1
<1>3. Len(s) \in Nat /\ i \in Nat \ {0} /\ i <= Len(s) /\ n \in Nat \ {0}
  BY QueryAssumption
<1>4. s[i] \in Seqs!ToSet(page) <=> \E j \in 1..Len(page) : page[j] = s[i]
  BY <1>2 DEF Seqs!ToSet
<1>5. ASSUME NEW j \in 1..Len(page), page[j] = s[i] PROVE at < i /\ i <= at + n
  <2>1. i = at + j
    BY <1>1, <1>5
  <2>2. j \in Nat \ {0} /\ j <= n
    BY <1>1, <1>2, <1>3
  <2> QED
    BY <1>3, <2>1, <2>2
<1>6. ASSUME at < i, i <= at + n PROVE i - at \in 1..Len(page) /\ page[i - at] = s[i]
  <2>1. i - at \in 1..Len(page)
    BY <1>1, <1>2, <1>3, <1>6
  <2>2. at + (i - at) = i
    BY <1>3
  <2> QED
    BY <1>1, <2>1, <2>2
<1> QED
  BY <1>4, <1>5, <1>6 DEF page

-----------------------------------------------------------------------------
(***************************************************************************)
(* Every stored status finds its payload, and the rows of the lookup       *)
(* tables that its message named: a foreign key checks the first on each   *)
(* insert and cascades when payloads go, lookup rows are there to stay.    *)
(***************************************************************************)
JoinsUp(row) ==
    /\ row.delivery \in Known
    /\ Accepted(delivered[row.delivery].msg)
    /\ row.payload \in DOMAIN payloads
    /\ \A k \in Kinds : StandsFor(k, row.refs[k], delivered[row.delivery].msg.names[k])

StatusesJoin == \A id \in DOMAIN statuses : JoinsUp(statuses[id])

\* A row joins as before when nothing that it needs was taken away.
LEMMA JoinsAsBefore ==
    ASSUME NEW row, JoinsUp(row), LookupsKept,
           row.payload \in DOMAIN payloads',
           \A d \in Known : d \in Known' /\ delivered'[d] = delivered[d]
    PROVE  /\ row.delivery \in Known'
           /\ Accepted(delivered'[row.delivery].msg)
           /\ \A k \in Kinds :
                 IF k = "source" /\ delivered'[row.delivery].msg.names[k] = Blank
                 THEN row.refs[k] = NoId
                 ELSE /\ row.refs[k] \in DOMAIN lookups'[k]
                      /\ lookups'[k][row.refs[k]]
                            = Lower[delivered'[row.delivery].msg.names[k]]
BY DEF JoinsUp, LookupsKept, StandsFor

\* The row of an insert joins, its call having asked for every reference.
LEMMA StatusesJoinStep ==
    ASSUME TypeOK, CallsOK, AllGathered, StatusesJoin, [Next]_vars \/ Maintain
    PROVE  StatusesJoin'
<1>1. /\ LookupsKept
      /\ \A d \in Known : d \in Known' /\ delivered'[d] = delivered[d]
  <2>1. CASE [Next]_vars
    <3>1. LookupsKept /\ LogKept
      BY <2>1, KeptStep, LogKeptStep
    <3>2. Len(delivered) \in Nat /\ Len(delivered') \in Nat
      BY <2>1, TypeStep, LenProperties DEF TypeOK
    <3> QED
      BY <3>1, <3>2 DEF LogKept, Known
  <2>2. CASE Maintain
    <3>1. UNCHANGED <<delivered, lookups>>
      BY <2>2, MaintainCleans DEF Cleaned, history
    <3> QED
      BY <3>1 DEF LookupsKept, Known
  <2> QED
    BY <2>1, <2>2
<1>2. ASSUME NEW row, JoinsUp(row), row.payload \in DOMAIN payloads',
             NEW id \in DOMAIN statuses', statuses'[id] = row
      PROVE  JoinsUp(statuses[id])'
  <2>1. /\ row.delivery \in Known'
        /\ Accepted(delivered'[row.delivery].msg)
        /\ \A k \in Kinds :
              IF k = "source" /\ delivered'[row.delivery].msg.names[k] = Blank
              THEN row.refs[k] = NoId
              ELSE /\ row.refs[k] \in DOMAIN lookups'[k]
                   /\ lookups'[k][row.refs[k]]
                         = Lower[delivered'[row.delivery].msg.names[k]]
    BY <1>1, <1>2, JoinsAsBefore
  <2>2. /\ statuses'[id].delivery \in Known'
        /\ Accepted(delivered'[statuses'[id].delivery].msg)
        /\ statuses'[id].payload \in DOMAIN payloads'
    BY <1>2, <2>1
  <2>3. ASSUME NEW k \in Kinds
        PROVE  StandsFor(k, statuses[id].refs[k],
                         delivered[statuses[id].delivery].msg.names[k])'
    BY <1>2, <2>1 DEF StandsFor
  <2> QED
    BY <2>2, <2>3 DEF JoinsUp
<1>3. ASSUME NEW id \in DOMAIN statuses', id \in DOMAIN statuses,
             statuses'[id] = statuses[id]
      PROVE  JoinsUp(statuses[id])'
  <2>1. JoinsUp(statuses[id])
    BY <1>3 DEF StatusesJoin
  <2>2. statuses[id].payload \in DOMAIN payloads
    BY <2>1 DEF JoinsUp
  <2>3. [Next]_vars => PayloadsKept
    BY KeptStep
  <2>4. statuses[id].payload \in DOMAIN payloads'
    BY <1>3, <2>2, <2>3, CascadeIsComplete DEF PayloadsKept
  <2> QED
    BY <1>2, <1>3, <2>1, <2>4
<1>4. CASE UNCHANGED statuses
  BY <1>3, <1>4 DEF StatusesJoin
<1>5. CASE Maintain
  <2>1. Kept(statuses, statuses')
    BY <1>5, MaintainCleans DEF Cleaned
  <2> QED
    BY <1>3, <2>1 DEF StatusesJoin, Kept
<1>6. ASSUME NEW c \in Consumers, Wrote(c) PROVE StatusesJoin'
  <2>1. PICK id, row : /\ id = InsertId(task[c]) /\ row = StatusOf(task[c])
                       /\ DOMAIN statuses' = DOMAIN statuses \cup {id}
                       /\ statuses'[id] = row
                       /\ \A i \in DOMAIN statuses : statuses'[i] = statuses[i]
    BY <1>6, WroteRow
  <2>2. UNCHANGED payloads /\ row.payload \in DOMAIN payloads
    BY <1>6, <2>1 DEF Wrote, InsertRejected
  <2>3. JoinsUp(row)
    BY <1>6, <2>1, <2>2, RefsAsAsked DEF Wrote, JoinsUp
  <2>4. JoinsUp(statuses[id])'
    BY <1>2, <2>1, <2>2, <2>3
  <2> QED
    BY <1>3, <2>1, <2>4 DEF StatusesJoin
<1> QED
  BY <1>4, <1>5, <1>6, StatusesStep

-----------------------------------------------------------------------------
(***************************************************************************)
(* The tables stay finite: a step adds at most one row.                    *)
(***************************************************************************)
TablesFinite == IsFiniteSet(DOMAIN payloads) /\ IsFiniteSet(DOMAIN statuses)

\* Cleaning takes rows away, an upsert or an insert adds one.
LEMMA TablesFiniteStep ==
    ASSUME TypeOK, CallsOK, TablesFinite, [Next]_vars \/ Maintain
    PROVE  TablesFinite'
<1>1. CASE Maintain
  <2>1. DOMAIN payloads' \subseteq DOMAIN payloads /\ DOMAIN statuses' \subseteq DOMAIN statuses
    BY <1>1, MaintainCleans DEF Cleaned, Kept
  <2> QED
    BY <2>1, FS_Subset DEF TablesFinite
<1>2. CASE [Next]_vars
  <2>1. IsFiniteSet(DOMAIN payloads')
    <3>1. ASSUME NEW c \in Consumers, task[c].pc = "upsert", ~UpsertRejected(task[c].msg),
                 UpsertPayloadByRequestId(task[c].msg)
          PROVE  IsFiniteSet(DOMAIN payloads')
      <4>1. task[c].msg \in Message
        BY <3>1, CallLooksUp
      <4>2. DOMAIN payloads' = DOMAIN payloads \cup {UpsertedId(task[c].msg)}
        BY <3>1, <4>1, UpsertTable
      <4> QED
        BY <4>2, FS_AddElement DEF TablesFinite
    <3> QED
      BY <1>2, <3>1, WhoUpserts DEF TablesFinite
  <2>2. IsFiniteSet(DOMAIN statuses')
    <3>1. ASSUME NEW c \in Consumers, Wrote(c) PROVE IsFiniteSet(DOMAIN statuses')
      <4>1. DOMAIN statuses' = DOMAIN statuses \cup {InsertId(task[c])}
        BY <3>1, WroteRow
      <4> QED
        BY <4>1, FS_AddElement DEF TablesFinite
    <3> QED
      BY <1>2, <3>1, StatusesStep DEF TablesFinite
  <2> QED
    BY <2>1, <2>2 DEF TablesFinite
<1> QED
  BY <1>1, <1>2

-----------------------------------------------------------------------------
(***************************************************************************)
(* What holds in every state that the reads can look at.                   *)
(***************************************************************************)
Readable == SystemInv /\ StatusesJoin /\ TablesFinite

\* The walk takes no part in what consumers and jobs do.
LEMMA ReadsOnlyRead == [ReadNext]_allVars => [SystemNext]_systemVars
BY DEF ReadNext, WriteMeanwhile, ReadPage, StartWalk, allVars

\* An empty database is readable, and no step makes it unreadable.
LEMMA ReadableInit == ReadInit => Readable
<1> SUFFICES ASSUME ReadInit PROVE Readable
  OBVIOUS
<1>1. SystemInit
  BY DEF ReadInit
<1>2. SystemInv
  BY <1>1, SystemInvInit
<1>3. DOMAIN payloads = {} /\ DOMAIN statuses = {}
  BY <1>1 DEF SystemInit, Init, TablesInit, NoRows
<1> QED
  BY <1>2, <1>3, FS_EmptySet DEF Readable, StatusesJoin, TablesFinite

\* A step of anybody is one of consumers and jobs, or changes no table.
LEMMA ReadableStep == Readable /\ [ReadNext]_allVars => Readable'
<1> SUFFICES ASSUME Readable, [SystemNext]_systemVars PROVE Readable'
  BY ReadsOnlyRead
<1>1. SystemInv'
  BY SystemInvStep DEF Readable
<1>2. TypeOK /\ CallsOK /\ AllGathered /\ StatusesJoin /\ TablesFinite
  BY DEF Readable, SystemInv, SystemTypes, SystemTypeOK
<1>3. [Next]_vars \/ Maintain
  BY ConsumeIsNext DEF SystemNext, systemVars
<1> QED
  BY <1>1, <1>2, <1>3, StatusesJoinStep, TablesFiniteStep DEF Readable

\* So every query meets tables that are well formed and finite, and join up.
LEMMA AlwaysReadable == ReadSpec => []Readable
BY ReadableInit, ReadableStep, PTL DEF ReadSpec

-----------------------------------------------------------------------------
\* Position i of a list is on page (i - 1) \div n and on no other.
LEMMA OnOnePage ==
    ASSUME NEW i \in Nat \ {0}, NEW n \in Nat \ {0}, NEW p \in Nat
    PROVE  /\ (i - 1) \div n \in Nat
           /\ n * p < i /\ i <= n * p + n <=> p = (i - 1) \div n
<1> DEFINE q == (i - 1) \div n
<1>1. q \in Nat /\ n * q < i /\ i <= n * q + n
  OBVIOUS
<1> HIDE DEF q
<1>2. p < q => n * p + n <= n * q
  BY <1>1
<1>3. q < p => n * q + n <= n * p
  BY <1>1
<1>4. n * p \in Nat /\ n * q \in Nat
  BY <1>1
<1>5. q = p \/ p < q \/ q < p
  BY <1>1
<1> QED
  BY <1>1, <1>2, <1>3, <1>4, <1>5 DEF q

\* A page number up to (IntLimit - 1) \div n overflows nothing.
LEMMA PagesWithinInt ==
    ASSUME NEW n \in 1..(IntLimit - 1), NEW p \in 0..((IntLimit - 1) \div n)
    PROVE  p \in Nat /\ n * p \in Nat /\ n * p < IntLimit
<1> DEFINE q == (IntLimit - 1) \div n
<1>1. IntLimit \in Nat \ {0} /\ n \in Nat \ {0}
  BY QueryAssumption
<1>2. q \in Nat /\ n * q < IntLimit
  BY <1>1
<1>3. p \in Nat /\ p <= q
  BY <1>2
<1> HIDE DEF q
<1>4. n * p <= n * q /\ n * p \in Nat
  BY <1>1, <1>2, <1>3
<1> QED
  BY <1>1, <1>2, <1>3, <1>4

(***************************************************************************)
(* Whatever the page size, each row of an answer is on exactly one of its  *)
(* pages, as far as page times page_size does not overflow.                *)
(***************************************************************************)
THEOREM PagesCoverOnce == ReadSpec => []PagesPartition
<1>1. Readable => PagesPartition
  <2> SUFFICES ASSUME Readable,
                      NEW list \in OrderBy([id \in DOMAIN payloads |->
                                               PayloadKey(id, "created_at")], "desc"),
                      NEW n \in 1..(IntLimit - 1),
                      NEW i \in DOMAIN list, i <= IntLimit
               PROVE  Cardinality({p \in 0..((IntLimit - 1) \div n) :
                                      list[i] \in Seqs!ToSet(Page(list, p, n))}) = 1
    BY DEF PagesPartition
  <2>1. /\ list \in Seq(DOMAIN payloads) /\ DOMAIN list = 1..Len(list) /\ Len(list) \in Nat
        /\ \A j \in DOMAIN list : list[i] = list[j] => i = j
    BY Listed DEF Readable, TablesFinite
  <2>2. n \in Nat \ {0} /\ i \in Nat \ {0} /\ IntLimit \in Nat \ {0}
    BY <2>1, QueryAssumption
  <2>3. ASSUME NEW p \in 0..((IntLimit - 1) \div n)
        PROVE  list[i] \in Seqs!ToSet(Page(list, p, n)) <=> p = (i - 1) \div n
    <3>1. PICK at \in Nat : p \in Nat /\ at = n * p /\ Offset(p, n) = at
      BY PagesWithinInt, OffsetFits DEF Offset
    <3>2. list[i] \in Seqs!ToSet(Page(list, p, n)) <=> at < i /\ i <= at + n
      BY <2>1, <3>1, OnPage
    <3>3. at < i /\ i <= at + n <=> p = (i - 1) \div n
      BY <2>2, <3>1, OnOnePage
    <3> QED
      BY <3>2, <3>3
  <2>4. (i - 1) \div n \in 0..((IntLimit - 1) \div n)
    BY <2>2
  <2> QED
    <3>1. {p \in 0..((IntLimit - 1) \div n) : list[i] \in Seqs!ToSet(Page(list, p, n))}
             = {(i - 1) \div n}
      BY <2>3, <2>4
    <3> QED
      BY <3>1, FS_Singleton
<1> QED
  BY <1>1, AlwaysReadable, PTL

-----------------------------------------------------------------------------
\* What the joins find of a status that joins up.
LEMMA JoinsFind ==
    ASSUME SystemTypes, NEW s \in DOMAIN statuses, JoinsUp(statuses[s])
    PROVE  LET m == delivered[statuses[s].delivery].msg
           IN  /\ m \in Message
               /\ \A k \in Kinds : NameOf(s, k) = Lower[m.names[k]]
               /\ \A r : s \in DetailRows(r) <=> payloads[statuses[s].payload].request = r
               /\ s \in Joined(Kinds) <=> m.names["source"] # Blank
<1> DEFINE row == statuses[s]
           m == delivered[row.delivery].msg
<1>1. /\ TypeOK /\ row.delivery \in Known /\ Accepted(m)
      /\ row.payload \in DOMAIN payloads
      /\ \A k \in Kinds : StandsFor(k, row.refs[k], m.names[k])
  BY DEF SystemTypes, SystemTypeOK, JoinsUp
<1>2. m \in Message
  BY <1>1, DeliveredIsMessage
<1>3. /\ \A k \in Kinds : IsTable(lookups[k], Names)
      /\ m.names \in [Kinds -> Names] /\ "source" \in Kinds
  BY <1>1, <1>2 DEF TypeOK, TablesTypeOK, Message, Kinds
<1>4. ASSUME NEW k \in Kinds
      PROVE  /\ NameOf(s, k) = Lower[m.names[k]]
             /\ row.refs[k] \in DOMAIN lookups[k] <=> k # "source" \/ m.names[k] # Blank
  <2>1. CASE k = "source" /\ m.names[k] = Blank
    <3>1. row.refs[k] = NoId
      BY <1>1, <2>1 DEF StandsFor
    <3>2. row.refs[k] \notin DOMAIN lookups[k]
      BY <1>3, <3>1 DEF IsTable
    <3>3. Lower[m.names[k]] = Blank
      BY <1>3, <2>1, LowerAssumption
    <3> QED
      BY <2>1, <3>2, <3>3 DEF NameOf
  <2>2. CASE ~(k = "source" /\ m.names[k] = Blank)
    <3>1. StandsFor(k, row.refs[k], m.names[k])
      BY <1>1
    <3>2. row.refs[k] \in DOMAIN lookups[k] /\ lookups[k][row.refs[k]] = Lower[m.names[k]]
      BY <2>2, <3>1 DEF StandsFor
    <3> QED
      BY <2>2, <3>2 DEF NameOf
  <2> QED
    BY <2>1, <2>2
<1>5. \A r : s \in DetailRows(r) <=> payloads[row.payload].request = r
  <2>1. s \in Joined(Kinds \ {"source"})
    BY <1>1, <1>4 DEF Joined
  <2> QED
    BY <2>1 DEF DetailRows
<1>6. s \in Joined(Kinds) <=> m.names["source"] # Blank
  BY <1>1, <1>3, <1>4 DEF Joined
<1> QED
  BY <1>2, <1>4, <1>5, <1>6

\* Asked for everything, /statuses lists just what its joins find.
LEMMA AllOfThemListed ==
    ASSUME TablesFinite, NEW list \in RetrieveStatuses(AllStatuses)
    PROVE  Seqs!ToSet(list) = Joined(Kinds)
<1> DEFINE matching == {t \in Joined(Kinds) : StatusMatches(t, AllStatuses)}
           key == [s \in matching |-> StatusKey(s, "date")]
<1>1. matching = Joined(Kinds)
  BY DEF StatusMatches, AllStatuses, chainTimeConditions, NoRows
<1>2. IsFiniteSet(DOMAIN key)
  <2>1. matching \in SUBSET DOMAIN statuses
    BY <1>1 DEF Joined
  <2> QED
    BY <2>1, FS_Subset DEF TablesFinite
<1>3. PICK s \in OrderBy(key, "asc") : list = Page(s, 0, -1)
  BY DEF RetrieveStatuses, AllStatuses
<1>4. DOMAIN key = matching
  OBVIOUS
<1> HIDE DEF matching, key
<1>5. /\ s \in Seq(matching) /\ DOMAIN s = 1..Len(s) /\ Len(s) \in Nat
      /\ \A x \in matching : \E i \in DOMAIN s : s[i] = x
  <2>1. s \in OrderBy(key, "asc")
    BY <1>3
  <2> QED
    BY <1>2, <1>4, <2>1, Listed
<1>6. Offset(0, -1) = 0
  BY OffsetFits, QueryAssumption DEF Offset
<1>7. list = SubSeq(s, 1, Len(s))
  BY <1>3, <1>6 DEF Page
<1>8. list = s
  BY <1>5, <1>7
<1>9. Seqs!ToSet(s) = matching
  BY <1>5 DEF Seqs!ToSet
<1> QED
  BY <1>1, <1>8, <1>9

(***************************************************************************)
(* No status that is stored gets lost in the joins: it is among the        *)
(* details of exactly one request, which is its message's own unless some  *)
(* message chose the id of its payload, with the names that its message    *)
(* gave, and in /statuses just if the message gave a source.               *)
(***************************************************************************)
THEOREM StatusesAreListed == ReadSpec => []EveryStatusListed
<1>1. Readable => EveryStatusListed
  <2> SUFFICES ASSUME Readable, NEW s \in DOMAIN statuses,
                      NEW m, m = delivered[statuses[s].delivery].msg
               PROVE  /\ Cardinality({r \in Requests : s \in DetailRows(r)}) = 1
                      /\ NoChosenIds => s \in DetailRows(m.request)
                      /\ \A k \in Kinds : NameOf(s, k) = Lower[m.names[k]]
                      /\ \A list \in RetrieveStatuses(AllStatuses) :
                            s \in Seqs!ToSet(list) <=> m.names["source"] # Blank
    BY DEF EveryStatusListed
  <2>1. JoinsUp(statuses[s]) /\ SystemTypes /\ TablesFinite /\ TypeOK
    BY DEF Readable, StatusesJoin, SystemInv, SystemTypes, SystemTypeOK
  <2>2. /\ \A k \in Kinds : NameOf(s, k) = Lower[m.names[k]]
        /\ \A r : s \in DetailRows(r) <=> payloads[statuses[s].payload].request = r
        /\ s \in Joined(Kinds) <=> m.names["source"] # Blank
    BY <2>1, JoinsFind
  <2> DEFINE request == payloads[statuses[s].payload].request
  <2>3. request \in Requests
    BY <2>1 DEF JoinsUp, TypeOK, TablesTypeOK, IsTable, PayloadRow
  <2>4. {r \in Requests : s \in DetailRows(r)} = {request}
    BY <2>2, <2>3
  <2>5. Cardinality({r \in Requests : s \in DetailRows(r)}) = 1
    BY <2>4, FS_Singleton
  <2>6. NoChosenIds => s \in DetailRows(m.request)
    <3>1. NoChosenIds => request = m.request
      BY DEF Readable, SystemInv, StatusResolves, RowMatches
    <3> QED
      BY <2>2, <3>1
  <2> QED
    BY <2>1, <2>2, <2>5, <2>6, AllOfThemListed
<1> QED
  BY <1>1, AlwaysReadable, PTL

-----------------------------------------------------------------------------
(***************************************************************************)
(* The walk.  While no payload goes or moves, one that is yet to be found  *)
(* has at least as many payloads ahead of it as rows were asked for; while *)
(* none comes or moves, one that was found has fewer.                      *)
(***************************************************************************)
Ids == Nat \ {NoId}

WalkTypes ==
    \/ walk = NoWalk /\ during = Nothing
    \/ /\ walk \in [phase : {"reading", "done"}, set : Walks, page : Nat, seen : Seq(Ids)]
       /\ during \in [atStart : SUBSET Ids, inserted : SUBSET Ids, deleted : SUBSET Ids,
                      moved : SUBSET Ids, tied : SUBSET Ids]

\* Payload x is listed before payload id, and all that are.
Leads(x, id) ==
    IF walk.set.sortDir = "asc"
    THEN PayloadKey(x, walk.set.sortBy) < PayloadKey(id, walk.set.sortBy)
    ELSE PayloadKey(x, walk.set.sortBy) > PayloadKey(id, walk.set.sortBy)

AheadOf(id) == {x \in DOMAIN payloads : Leads(x, id)}

AskedFor == walk.page * walk.set.pageSize

NoneLost ==
    walk.phase # "idle" /\ OffsetsFit /\ during.deleted \cup during.moved = {} =>
        /\ walk.phase = "reading" =>
              /\ during.atStart \subseteq DOMAIN payloads
              /\ \A id \in during.atStart \ (Seqs!ToSet(walk.seen) \cup during.tied) :
                    Cardinality(AheadOf(id)) >= AskedFor
        /\ walk.phase = "done" =>
              during.atStart \subseteq Seqs!ToSet(walk.seen) \cup during.tied

NoneTwice ==
    walk.phase # "idle" /\ OffsetsFit /\ during.inserted \cup during.moved = {} =>
        /\ \A i, j \in DOMAIN walk.seen :
              i # j /\ walk.seen[i] = walk.seen[j] => walk.seen[i] \in during.tied
        /\ walk.phase = "reading" =>
              \A id \in (Seqs!ToSet(walk.seen) \cap DOMAIN payloads) \ during.tied :
                 Cardinality(AheadOf(id)) < AskedFor

CreationStays ==
    walk.phase # "idle" /\ walk.set.sortBy = "created_at" => during.moved = {}

FullPages ==
    walk.phase # "idle" => (walk.phase = "reading" <=> Len(walk.seen) = AskedFor)

WalkInv == WalkTypes /\ FullPages /\ NoneLost /\ NoneTwice /\ CreationStays

\* Keys are numbers, so any two payloads are in order or tie.
LEMMA KeysAreNumbers ==
    ASSUME TypeOK, NEW id \in DOMAIN payloads, NEW by \in Columns \cup {"created_at"}
    PROVE  PayloadKey(id, by) \in Nat
<1>1. payloads[id] \in PayloadRow
  BY DEF TypeOK, TablesTypeOK, IsTable
<1>2. CASE by = "created_at"
  BY <1>1, <1>2, QueryAssumption DEF PayloadKey, PayloadRow
<1>3. CASE by # "created_at"
  <2>1. payloads[id].columns[by] \in Values
    BY <1>1, <1>3 DEF PayloadRow
  <2> QED
    BY <1>3, <2>1, QueryAssumption DEF PayloadKey
<1> QED
  BY <1>2, <1>3

\* A row that ties with no other has its place by the number of rows that come
\* before it, in every answer the database may give.
LEMMA PlaceOfUntied ==
    ASSUME NEW key, IsFiniteSet(DOMAIN key), \A x \in DOMAIN key : key[x] \in Nat,
           NEW dir, NEW s \in OrderBy(key, dir), NEW i \in DOMAIN s,
           \A x \in DOMAIN key \ {s[i]} : key[x] # key[s[i]]
    PROVE  Cardinality({x \in DOMAIN key : IF dir = "asc" THEN key[x] < key[s[i]]
                                           ELSE key[x] > key[s[i]]}) = i - 1
<1> DEFINE before(x) == IF dir = "asc" THEN key[x] < key[s[i]] ELSE key[x] > key[s[i]]
           ahead == {x \in DOMAIN key : before(x)}
<1>1. /\ s \in Seq(DOMAIN key) /\ DOMAIN s = 1..Len(s) /\ Len(s) \in Nat
      /\ \A a, b \in DOMAIN s : s[a] = s[b] => a = b
      /\ \A x \in DOMAIN key : \E j \in DOMAIN s : s[j] = x
  BY Listed
<1>2. \A a, b \in DOMAIN s :
         a < b => IF dir = "asc" THEN key[s[a]] <= key[s[b]] ELSE key[s[a]] >= key[s[b]]
  BY DEF OrderBy
<1>3. i \in Nat \ {0} /\ \A j \in DOMAIN s : j \in Nat \ {0} /\ s[j] \in DOMAIN key
  BY <1>1
<1>4. ASSUME NEW j \in DOMAIN s PROVE j < i <=> before(s[j])
  <2>1. j = i \/ key[s[j]] # key[s[i]]
    BY <1>1, <1>3
  <2>2. key[s[j]] \in Nat /\ key[s[i]] \in Nat
    BY <1>3
  <2>3. CASE j < i
    BY <1>2, <1>3, <2>1, <2>2, <2>3
  <2>4. CASE j = i
    BY <1>3, <2>2, <2>4
  <2>5. CASE i < j
    BY <1>2, <1>3, <2>1, <2>2, <2>5
  <2> QED
    BY <1>3, <2>3, <2>4, <2>5
<1> DEFINE f == [j \in 1..(i - 1) |-> s[j]]
<1>5. \A j \in 1..(i - 1) : j \in DOMAIN s /\ j < i
  BY <1>1, <1>3
<1>6. f \in Bijection(1..(i - 1), ahead)
  <2>1. f \in [1..(i - 1) -> ahead]
    BY <1>3, <1>4, <1>5
  <2>2. \A a, b \in 1..(i - 1) : f[a] = f[b] => a = b
    BY <1>1, <1>5
  <2>3. ASSUME NEW x \in ahead PROVE \E j \in 1..(i - 1) : f[j] = x
    <3>1. PICK j \in DOMAIN s : s[j] = x
      BY <1>1
    <3>2. j \in 1..(i - 1)
      BY <1>3, <1>4, <3>1
    <3> QED
      BY <3>1, <3>2
  <2> HIDE DEF f, ahead
  <2> QED
    BY <2>1, <2>2, <2>3, Fun_IsBij
<1>7. Cardinality(ahead) = i - 1
  <2> HIDE DEF f, ahead
  <2>1. i - 1 \in Nat /\ ExistsBijection(1..(i - 1), ahead)
    BY <1>3, <1>6 DEF ExistsBijection
  <2> QED
    BY <2>1, FS_CountingElements
<1> QED
  BY <1>7

\* The settings of a walk, and the key that its queries sort by.
LEMMA WalkIsTyped ==
    ASSUME WalkTypes, walk.phase # "idle"
    PROVE  /\ walk \in [phase : {"reading", "done"}, set : Walks, page : Nat, seen : Seq(Ids)]
           /\ during \in [atStart : SUBSET Ids, inserted : SUBSET Ids, deleted : SUBSET Ids,
                          moved : SUBSET Ids, tied : SUBSET Ids]
           /\ walk.page \in Nat /\ walk.seen \in Seq(Ids)
           /\ walk.set.sortBy \in Columns \cup {"created_at"}
           /\ walk.set.sortDir \in Directions
           /\ walk.set.pageSize \in 1..(IntLimit - 1)
           /\ walk.set.pageSize \in Nat \ {0}
<1>1. walk # NoWalk
  BY DEF NoWalk
<1>2. /\ walk \in [phase : {"reading", "done"}, set : Walks, page : Nat, seen : Seq(Ids)]
      /\ during \in [atStart : SUBSET Ids, inserted : SUBSET Ids, deleted : SUBSET Ids,
                     moved : SUBSET Ids, tied : SUBSET Ids]
  BY <1>1 DEF WalkTypes
<1>3. walk.set \in Walks /\ walk.page \in Nat /\ walk.seen \in Seq(Ids)
  BY <1>2
<1>4. walk.set \in [sortBy : Columns \cup {"created_at"}, sortDir : Directions,
                    pageSize : 1..(IntLimit - 1)]
  BY <1>3, WalksAssumption
<1>5. walk.set.pageSize \in Nat \ {0}
  BY <1>4, QueryAssumption
<1> QED
  BY <1>2, <1>3, <1>4, <1>5

WalkKey == [id \in DOMAIN payloads |-> PayloadKey(id, walk.set.sortBy)]

\* An answer is a page of a list of all payloads: a walk filters nothing.
LEMMA AnswerOfWalk ==
    ASSUME NEW ids \in RetrievePayloads(WalkQuery)
    PROVE  \E s \in OrderBy(WalkKey, walk.set.sortDir) :
              ids = Page(s, walk.page, walk.set.pageSize)
<1> DEFINE all == {p \in DOMAIN payloads : PayloadMatches(p, WalkQuery)}
<1>1. all = DOMAIN payloads
  BY DEF PayloadMatches, WalkQuery, chainTimeConditions, NoRows
<1>2. /\ WalkQuery.sortBy = walk.set.sortBy /\ WalkQuery.sortDir = walk.set.sortDir
      /\ WalkQuery.page = walk.page /\ WalkQuery.pageSize = walk.set.pageSize
  BY DEF WalkQuery
<1>3. \E s \in OrderBy([id \in all |-> PayloadKey(id, WalkQuery.sortBy)], WalkQuery.sortDir) :
         ids = Page(s, WalkQuery.page, WalkQuery.pageSize)
  BY DEF RetrievePayloads
<1> QED
  BY <1>1, <1>2, <1>3 DEF WalkKey

\* A page shows payloads, each once, and no more than its size.
LEMMA PageOfWalk ==
    ASSUME TypeOK, TablesFinite, WalkTypes, walk.phase = "reading",
           NEW ids \in RetrievePayloads(WalkQuery)
    PROVE  /\ ids \in Seq(Ids) /\ Seqs!ToSet(ids) \subseteq DOMAIN payloads
           /\ Len(ids) \in Nat /\ Len(ids) <= walk.set.pageSize
           /\ \A i, j \in DOMAIN ids : ids[i] = ids[j] => i = j
<1> DEFINE n == walk.set.pageSize
<1>1. PICK s \in OrderBy(WalkKey, walk.set.sortDir) : ids = Page(s, walk.page, n)
  BY AnswerOfWalk
<1>2. n \in 1..(IntLimit - 1) /\ n \in Nat \ {0} /\ walk.page \in Nat
  BY WalkIsTyped
<1>3. DOMAIN WalkKey = DOMAIN payloads /\ IsFiniteSet(DOMAIN payloads)
  BY DEF WalkKey, TablesFinite
<1>4. /\ s \in Seq(DOMAIN payloads)
      /\ \A i, j \in DOMAIN s : s[i] = s[j] => i = j
  BY <1>3, Listed
<1>5. PICK at \in Nat : \/ Offset(walk.page, n) = at
                        \/ ~(Offset(walk.page, n) > 0) /\ at = 0
  BY <1>2, OffsetIsInt
<1> HIDE DEF n
<1>6. /\ ids \in Seq(DOMAIN payloads)
      /\ Len(ids) = IF at >= Len(s) THEN 0
                    ELSE IF at + n >= Len(s) THEN Len(s) - at ELSE n
      /\ \A i \in 1..Len(ids) : at + i \in DOMAIN s /\ ids[i] = s[at + i]
  BY <1>1, <1>2, <1>4, <1>5, PageShows
<1>7. Len(ids) \in Nat /\ DOMAIN ids = 1..Len(ids) /\ Len(ids) <= n
  <2>1. Len(s) \in Nat
    BY <1>4
  <2> QED
    BY <1>2, <1>6, <2>1
<1>8. ASSUME NEW i \in DOMAIN ids, NEW j \in DOMAIN ids, ids[i] = ids[j] PROVE i = j
  <2>1. at + i = at + j
    BY <1>4, <1>6, <1>7, <1>8
  <2> QED
    BY <1>7, <2>1
<1>9. ids \in Seq(Ids) /\ Seqs!ToSet(ids) \subseteq DOMAIN payloads
  <2>1. DOMAIN payloads \subseteq Ids
    BY DEF TypeOK, TablesTypeOK, IsTable, Ids
  <2> QED
    BY <1>6, <1>7, <2>1 DEF Seqs!ToSet
<1> QED
  BY <1>7, <1>8, <1>9 DEF n

\* A payload that ties with none is on the page just if the page's rows are as
\* many as those ahead of it, and before the end of a page that is not full.
LEMMA FoundOnPage ==
    ASSUME TypeOK, TablesFinite, WalkTypes, walk.phase = "reading",
           NEW ids \in RetrievePayloads(WalkQuery),
           NEW at \in Nat, Offset(walk.page, walk.set.pageSize) = at,
           NEW id \in DOMAIN payloads \ Tied(walk.set.sortBy)
    PROVE  LET n == walk.set.pageSize
               ahead == Cardinality(AheadOf(id))
           IN  /\ ahead \in Nat
               /\ id \in Seqs!ToSet(ids) <=> at <= ahead /\ ahead < at + n
               /\ Len(ids) < n => ahead < at + n
<1> DEFINE n == walk.set.pageSize
           dir == walk.set.sortDir
<1>1. PICK s \in OrderBy(WalkKey, dir) : ids = Page(s, walk.page, n)
  BY AnswerOfWalk
<1>2. n \in 1..(IntLimit - 1) /\ n \in Nat \ {0} /\ walk.page \in Nat
  BY WalkIsTyped
<1>3. /\ DOMAIN WalkKey = DOMAIN payloads /\ IsFiniteSet(DOMAIN payloads)
      /\ \A x \in DOMAIN WalkKey : WalkKey[x] = PayloadKey(x, walk.set.sortBy)
  BY DEF WalkKey, TablesFinite
<1>4. /\ s \in Seq(DOMAIN payloads)
      /\ \A i, j \in DOMAIN s : s[i] = s[j] => i = j
      /\ \A x \in DOMAIN payloads : \E i \in DOMAIN s : s[i] = x
  BY <1>3, Listed
<1>5. PICK i \in DOMAIN s : s[i] = id
  BY <1>4
<1>6. Len(s) \in Nat /\ i \in Nat \ {0} /\ i <= Len(s)
  BY <1>4
<1>7. Cardinality(AheadOf(id)) = i - 1
  <2>1. AheadOf(id) = {x \in DOMAIN WalkKey : IF dir = "asc" THEN WalkKey[x] < WalkKey[id]
                                              ELSE WalkKey[x] > WalkKey[id]}
    BY <1>3 DEF AheadOf, Leads
  <2>2. \A x \in DOMAIN WalkKey : WalkKey[x] \in Nat
    BY <1>3, KeysAreNumbers, WalkIsTyped
  <2>3. \A x \in DOMAIN WalkKey \ {id} : WalkKey[x] # WalkKey[id]
    BY <1>3 DEF Tied
  <2> QED
    BY <1>3, <1>5, <2>1, <2>2, <2>3, PlaceOfUntied
<1>8. Offset(walk.page, n) = at
  OBVIOUS
<1> HIDE DEF n, dir
<1>9. id \in Seqs!ToSet(ids) <=> at < i /\ i <= at + n
  BY <1>1, <1>2, <1>4, <1>5, <1>8, OnPage
<1>10. Len(ids) = IF at >= Len(s) THEN 0
                  ELSE IF at + n >= Len(s) THEN Len(s) - at ELSE n
  BY <1>1, <1>2, <1>4, <1>8, PageShows
<1>11. Len(ids) < n => i <= at + n
  BY <1>2, <1>6, <1>10
<1> QED
  BY <1>2, <1>6, <1>7, <1>9, <1>11 DEF n

-----------------------------------------------------------------------------
\* The first page is asked for.
LEMMA StartStep ==
    ASSUME TypeOK, TablesFinite, TablesFinite', WalkInv, NEW w \in Walks, StartWalk(w)
    PROVE  WalkInv'
<1>1. /\ walk' = [phase |-> "reading", set |-> w, page |-> 0, seen |-> <<>>]
      /\ during' = [during EXCEPT !.atStart = DOMAIN payloads]
      /\ UNCHANGED payloads
  BY DEF StartWalk, systemVars, vars, tables
<1>2. during = Nothing
  BY DEF StartWalk, NoWalk, WalkInv, WalkTypes
<1>3. during' = [atStart |-> DOMAIN payloads, inserted |-> {}, deleted |-> {},
                 moved |-> {}, tied |-> {}]
  BY <1>1, <1>2 DEF Nothing
<1>4. DOMAIN payloads \subseteq Ids
  BY DEF TypeOK, TablesTypeOK, IsTable, Ids
<1>5. WalkTypes'
  <2>1. <<>> \in Seq(Ids)
    OBVIOUS
  <2>2. walk' \in [phase : {"reading", "done"}, set : Walks, page : Nat, seen : Seq(Ids)]
    BY <1>1, <2>1
  <2>3. during' \in [atStart : SUBSET Ids, inserted : SUBSET Ids, deleted : SUBSET Ids,
                     moved : SUBSET Ids, tied : SUBSET Ids]
    BY <1>3, <1>4
  <2> QED
    BY <2>2, <2>3 DEF WalkTypes
<1>6. /\ walk'.phase = "reading" /\ walk'.set = w /\ walk'.page = 0 /\ walk'.seen = <<>>
      /\ w.pageSize \in Nat
  BY <1>1, WalksAssumption, QueryAssumption
<1>7. AskedFor' = 0
  BY <1>6 DEF AskedFor
<1>8. FullPages'
  BY <1>6, <1>7 DEF FullPages
<1>9. NoneLost'
  <2>1. ASSUME NEW id PROVE Cardinality(AheadOf(id)') >= 0
    <3>1. AheadOf(id)' \in SUBSET DOMAIN payloads'
      BY DEF AheadOf
    <3>2. IsFiniteSet(AheadOf(id)')
      BY <3>1, FS_Subset DEF TablesFinite
    <3> QED
      BY <3>2, FS_CardinalityType
  <2> QED
    BY <1>1, <1>3, <1>6, <1>7, <2>1 DEF NoneLost
<1>10. NoneTwice'
  BY <1>6 DEF NoneTwice, Seqs!ToSet
<1>11. CreationStays'
  BY <1>3 DEF CreationStays
<1> QED
  BY <1>5, <1>8, <1>9, <1>10, <1>11 DEF WalkInv

\* What AskedFor and OffsetsFit are when one more page was asked for.
LEMMA OneMorePage ==
    ASSUME WalkTypes, walk.phase = "reading", walk'.set = walk.set, walk'.page = walk.page + 1
    PROVE  /\ AskedFor \in Nat
           /\ AskedFor' = AskedFor + walk.set.pageSize
           /\ OffsetsFit' <=> AskedFor < IntLimit
           /\ OffsetsFit' => OffsetsFit
           /\ OffsetsFit' => Offset(walk.page, walk.set.pageSize) = AskedFor
<1> DEFINE n == walk.set.pageSize
           p == walk.page
<1>1. n \in Nat \ {0} /\ p \in Nat /\ IntLimit \in Nat \ {0}
  BY WalkIsTyped, QueryAssumption
<1>2. PICK m \in Nat \ {0}, q \in Nat : m = n /\ q = p
  BY <1>1
<1> DEFINE at == q * m
<1>3. walk.set.pageSize = m /\ walk.page = q /\ walk'.set.pageSize = m /\ walk'.page = q + 1
  BY <1>2
<1> HIDE DEF n, p
<1>4. /\ at \in Nat /\ (q + 1) * m = at + m /\ m * q = at
      /\ (q - 1) * m = at - m /\ (q + 1 - 1) * m = at
  OBVIOUS
<1>5. /\ AskedFor = at /\ AskedFor' = at + m
      /\ OffsetsFit <=> at - m < IntLimit
      /\ OffsetsFit' <=> at < IntLimit
      /\ Offset(q, m) = Wrapped(at)
  <2>1. AskedFor = at
    BY <1>3 DEF AskedFor
  <2>2. AskedFor' = at + m
    BY <1>3, <1>4 DEF AskedFor
  <2>3. OffsetsFit <=> at - m < IntLimit
    BY <1>3, <1>4 DEF OffsetsFit
  <2>4. OffsetsFit' <=> at < IntLimit
    BY <1>3, <1>4 DEF OffsetsFit
  <2>5. Offset(q, m) = Wrapped(at)
    BY <1>4 DEF Offset
  <2> QED
    BY <2>1, <2>2, <2>3, <2>4, <2>5
<1>6. at < IntLimit => Wrapped(at) = at
  BY <1>4, OffsetFits
<1>7. at \in Nat
  BY <1>4
<1> HIDE DEF at
<1>8. at < IntLimit => at - m < IntLimit
  BY <1>1, <1>7
<1> QED
  BY <1>3, <1>5, <1>6, <1>7, <1>8

\* A page is read.
LEMMA PageStep ==
    ASSUME TypeOK, TablesFinite, WalkInv, ReadPage
    PROVE  WalkInv'
<1> DEFINE n == walk.set.pageSize
<1>1. PICK ids \in RetrievePayloads(WalkQuery) :
         walk' = [walk EXCEPT !.phase = IF Len(ids) < n THEN "done" ELSE "reading",
                              !.page = @ + 1,
                              !.seen = @ \o ids]
  BY DEF ReadPage
<1>2. /\ walk.phase = "reading" /\ WalkTypes
      /\ during' = [during EXCEPT !.tied = @ \cup Tied(walk.set.sortBy)]
      /\ UNCHANGED payloads
  BY DEF ReadPage, WalkInv, systemVars, vars, tables
<1>3. /\ walk \in [phase : {"reading", "done"}, set : Walks, page : Nat, seen : Seq(Ids)]
      /\ during \in [atStart : SUBSET Ids, inserted : SUBSET Ids, deleted : SUBSET Ids,
                     moved : SUBSET Ids, tied : SUBSET Ids]
      /\ walk.page \in Nat /\ walk.seen \in Seq(Ids) /\ n \in Nat \ {0}
  BY <1>2, WalkIsTyped
<1>4. /\ ids \in Seq(Ids) /\ Seqs!ToSet(ids) \subseteq DOMAIN payloads
      /\ Len(ids) \in Nat /\ Len(ids) <= n
      /\ \A i, j \in DOMAIN ids : ids[i] = ids[j] => i = j
  BY <1>2, PageOfWalk
<1> DEFINE seen == walk.seen \o ids
<1>5. /\ walk'.phase = (IF Len(ids) < n THEN "done" ELSE "reading")
      /\ walk'.set = walk.set /\ walk'.page = walk.page + 1 /\ walk'.seen = seen
  BY <1>1, <1>3
<1>6. /\ during'.atStart = during.atStart /\ during'.inserted = during.inserted
      /\ during'.deleted = during.deleted /\ during'.moved = during.moved
      /\ during'.tied = during.tied \cup Tied(walk.set.sortBy)
  BY <1>2, <1>3
<1>7. /\ seen \in Seq(Ids) /\ Len(seen) = Len(walk.seen) + Len(ids) /\ Len(walk.seen) \in Nat
      /\ DOMAIN seen = 1..Len(seen) /\ DOMAIN walk.seen = 1..Len(walk.seen)
      /\ DOMAIN ids = 1..Len(ids)
      /\ \A i \in DOMAIN seen : seen[i] = IF i <= Len(walk.seen) THEN walk.seen[i]
                                          ELSE ids[i - Len(walk.seen)]
  BY <1>3, <1>4
<1> HIDE DEF seen
<1>8. Seqs!ToSet(seen) = Seqs!ToSet(walk.seen) \cup Seqs!ToSet(ids)
  <2>1. ASSUME NEW i \in DOMAIN ids PROVE \E j \in DOMAIN seen : seen[j] = ids[i]
    <3>1. PICK j \in Nat : j = Len(walk.seen) + i
      BY <1>4, <1>7
    <3>2. j \in DOMAIN seen /\ ~(j <= Len(walk.seen)) /\ j - Len(walk.seen) = i
      BY SMTT(30), <1>4, <1>7, <3>1
    <3> QED
      BY <1>7, <3>2
  <2>2. ASSUME NEW i \in DOMAIN walk.seen PROVE \E j \in DOMAIN seen : seen[j] = walk.seen[i]
    <3>1. i \in DOMAIN seen /\ i <= Len(walk.seen)
      BY <1>4, <1>7
    <3> QED
      BY <1>7, <3>1
  <2>3. ASSUME NEW i \in DOMAIN seen
        PROVE  \/ \E j \in DOMAIN walk.seen : seen[i] = walk.seen[j]
               \/ \E j \in DOMAIN ids : seen[i] = ids[j]
    <3>1. CASE i <= Len(walk.seen)
      BY <1>7, <3>1
    <3>2. CASE ~(i <= Len(walk.seen))
      <4>1. i - Len(walk.seen) \in DOMAIN ids
        BY <1>4, <1>7, <3>2
      <4> QED
        BY <1>7, <3>2, <4>1
    <3> QED
      BY <3>1, <3>2
  <2> QED
    BY <2>1, <2>2, <2>3 DEF Seqs!ToSet
<1>9. WalkTypes'
  <2>1. Tied(walk.set.sortBy) \subseteq Ids
    BY DEF Tied, TypeOK, TablesTypeOK, IsTable, Ids
  <2>2. walk' \in [phase : {"reading", "done"}, set : Walks, page : Nat, seen : Seq(Ids)]
    <3>1. walk' = [walk EXCEPT !.phase = IF Len(ids) < n THEN "done" ELSE "reading",
                               !.page = @ + 1, !.seen = seen]
      BY <1>1, <1>3 DEF seen
    <3>2. walk.page + 1 \in Nat
      BY <1>3
    <3> QED
      BY <1>3, <1>7, <3>1, <3>2
  <2>3. during' \in [atStart : SUBSET Ids, inserted : SUBSET Ids, deleted : SUBSET Ids,
                     moved : SUBSET Ids, tied : SUBSET Ids]
    BY <1>2, <1>3, <2>1
  <2> QED
    BY <2>2, <2>3 DEF WalkTypes
<1>10. /\ AskedFor \in Nat /\ AskedFor' = AskedFor + n
       /\ OffsetsFit' => OffsetsFit /\ Offset(walk.page, n) = AskedFor
  BY <1>2, <1>5, OneMorePage
<1>11. FullPages'
  <2>1. Len(walk.seen) = AskedFor
    BY <1>2 DEF WalkInv, FullPages
  <2> QED
    BY <1>3, <1>4, <1>5, <1>7, <1>10, <2>1 DEF FullPages
<1>12. ASSUME NEW id PROVE AheadOf(id)' = AheadOf(id)
  BY <1>2, <1>5 DEF AheadOf, Leads, PayloadKey
<1>13. ASSUME OffsetsFit', NEW id \in DOMAIN payloads, id \notin during'.tied
       PROVE  LET ahead == Cardinality(AheadOf(id))
              IN  /\ ahead \in Nat
                  /\ id \in Seqs!ToSet(ids) <=> AskedFor <= ahead /\ ahead < AskedFor + n
                  /\ Len(ids) < n => ahead < AskedFor + n
  <2>1. id \in DOMAIN payloads \ Tied(walk.set.sortBy)
    BY <1>6, <1>13
  <2>2. Offset(walk.page, n) = AskedFor /\ AskedFor \in Nat
    BY <1>10, <1>13
  <2> QED
    BY <1>2, <2>1, <2>2, FoundOnPage
<1>14. NoneLost'
  <2> SUFFICES ASSUME OffsetsFit', during.deleted \cup during.moved = {}
               PROVE  /\ during.atStart \subseteq DOMAIN payloads
                      /\ \A id \in during.atStart \ (Seqs!ToSet(seen) \cup during'.tied) :
                            /\ ~(Len(ids) < n)
                            /\ Cardinality(AheadOf(id)) >= AskedFor + n
    BY <1>2, <1>5, <1>6, <1>10, <1>12 DEF NoneLost
  <2>1. /\ during.atStart \subseteq DOMAIN payloads
        /\ \A id \in during.atStart \ (Seqs!ToSet(walk.seen) \cup during.tied) :
              Cardinality(AheadOf(id)) >= AskedFor
    BY <1>2, <1>10 DEF WalkInv, NoneLost
  <2>2. ASSUME NEW id \in during.atStart \ (Seqs!ToSet(seen) \cup during'.tied)
        PROVE  ~(Len(ids) < n) /\ Cardinality(AheadOf(id)) >= AskedFor + n
    <3>1. id \in DOMAIN payloads /\ id \notin during'.tied /\ id \notin during.tied
      BY <1>6, <2>1, <2>2
    <3>2. id \notin Seqs!ToSet(walk.seen) /\ id \notin Seqs!ToSet(ids)
      BY <1>8, <2>2
    <3>3. Cardinality(AheadOf(id)) >= AskedFor
      BY <2>1, <2>2, <3>1, <3>2
    <3>4. /\ Cardinality(AheadOf(id)) \in Nat
          /\ ~(Cardinality(AheadOf(id)) < AskedFor + n)
          /\ ~(Len(ids) < n)
      BY <1>10, <1>13, <3>1, <3>2, <3>3
    <3> QED
      BY <1>3, <1>10, <3>4
  <2> QED
    BY <2>1, <2>2
<1>15. NoneTwice'
  <2> SUFFICES ASSUME OffsetsFit', during.inserted \cup during.moved = {}
               PROVE  /\ \A i, j \in DOMAIN seen :
                            i # j /\ seen[i] = seen[j] => seen[i] \in during'.tied
                      /\ \A id \in (Seqs!ToSet(seen) \cap DOMAIN payloads) \ during'.tied :
                            Cardinality(AheadOf(id)) < AskedFor + n
    BY <1>2, <1>5, <1>6, <1>10, <1>12 DEF NoneTwice
  <2>1. /\ \A i, j \in DOMAIN walk.seen :
              i # j /\ walk.seen[i] = walk.seen[j] => walk.seen[i] \in during.tied
        /\ \A id \in (Seqs!ToSet(walk.seen) \cap DOMAIN payloads) \ during.tied :
              Cardinality(AheadOf(id)) < AskedFor
    BY <1>2, <1>10 DEF WalkInv, NoneTwice
  <2>2. ASSUME NEW id \in (Seqs!ToSet(seen) \cap DOMAIN payloads) \ during'.tied
        PROVE  /\ Cardinality(AheadOf(id)) < AskedFor + n
               /\ ~(id \in Seqs!ToSet(walk.seen) /\ id \in Seqs!ToSet(ids))
    <3>1. id \notin during.tied
      BY <1>6, <2>2
    <3>2. id \in Seqs!ToSet(walk.seen) => Cardinality(AheadOf(id)) < AskedFor
      BY <2>1, <2>2, <3>1
    <3>3. /\ Cardinality(AheadOf(id)) \in Nat
          /\ id \in Seqs!ToSet(ids) <=> /\ AskedFor <= Cardinality(AheadOf(id))
                                        /\ Cardinality(AheadOf(id)) < AskedFor + n
      BY <1>13, <2>2
    <3>4. id \in Seqs!ToSet(walk.seen) \/ id \in Seqs!ToSet(ids)
      BY <1>8, <2>2
    <3> QED
      BY <1>3, <1>10, <3>2, <3>3, <3>4
  <2>3. ASSUME NEW i \in DOMAIN seen, NEW j \in DOMAIN seen, i < j, seen[i] = seen[j]
        PROVE  seen[i] \in during'.tied
    <3>1. CASE j <= Len(walk.seen)
      <4>1. i \in DOMAIN walk.seen /\ j \in DOMAIN walk.seen /\ i # j
        BY <1>7, <2>3, <3>1
      <4>2. seen[i] = walk.seen[i] /\ seen[j] = walk.seen[j]
        BY <1>7, <2>3, <3>1, <4>1
      <4> QED
        BY <1>6, <2>1, <2>3, <4>1, <4>2
    <3>2. CASE i <= Len(walk.seen) /\ ~(j <= Len(walk.seen))
      <4>1. i \in DOMAIN walk.seen /\ j - Len(walk.seen) \in DOMAIN ids
        BY <1>4, <1>7, <3>2
      <4>2. seen[i] = walk.seen[i] /\ seen[j] = ids[j - Len(walk.seen)]
        BY <1>7, <3>2
      <4>3. seen[i] \in Seqs!ToSet(walk.seen) /\ seen[i] \in Seqs!ToSet(ids)
        BY <2>3, <4>1, <4>2 DEF Seqs!ToSet
      <4> QED
        BY <1>4, <1>8, <2>2, <4>3
    <3>3. CASE ~(i <= Len(walk.seen))
      <4>1. /\ i - Len(walk.seen) \in DOMAIN ids /\ j - Len(walk.seen) \in DOMAIN ids
            /\ ~(j <= Len(walk.seen)) /\ i - Len(walk.seen) # j - Len(walk.seen)
        BY SMTT(30), <1>4, <1>7, <2>3, <3>3
      <4>2. seen[i] = ids[i - Len(walk.seen)] /\ seen[j] = ids[j - Len(walk.seen)]
        BY <1>7, <3>3, <4>1
      <4> QED
        BY <1>4, <2>3, <4>1, <4>2
    <3> QED
      BY <3>1, <3>2, <3>3
  <2>4. ASSUME NEW i \in DOMAIN seen, NEW j \in DOMAIN seen, i # j, seen[i] = seen[j]
        PROVE  seen[i] \in during'.tied
    <3>1. i < j \/ j < i
      BY <1>7, <2>4
    <3> QED
      BY <2>3, <2>4, <3>1
  <2> QED
    BY <2>2, <2>4
<1>16. CreationStays'
  BY <1>2, <1>5, <1>6 DEF WalkInv, CreationStays
<1> QED
  BY <1>9, <1>11, <1>14, <1>15, <1>16 DEF WalkInv

\* Rows that are there before and after keep their creation.
LEMMA CreationKept ==
    ASSUME TypeOK, CallsOK, SystemNext
    PROVE  \A id \in DOMAIN payloads \cap DOMAIN payloads' :
              payloads'[id].created = payloads[id].created
<1>1. CASE Consume
  BY <1>1, ConsumeIsNext, ColumnsNotErasedStep
<1>2. CASE Maintain
  BY <1>2, MaintainCleans DEF Cleaned, Kept
<1> QED
  BY <1>1, <1>2 DEF SystemNext

\* Consumers write or jobs clean.
LEMMA WriteStep ==
    ASSUME TypeOK, TypeOK', CallsOK, TablesFinite, TablesFinite', WalkInv, WriteMeanwhile
    PROVE  WalkInv'
<1>1. SystemNext /\ walk' = walk /\ WalkTypes
  BY DEF WriteMeanwhile, WalkInv
<1>2. CASE walk.phase # "reading"
  <2>1. UNCHANGED during
    BY <1>2 DEF WriteMeanwhile
  <2> QED
    BY <1>1, <1>2, <2>1 DEF WalkInv, WalkTypes, FullPages, NoneLost, NoneTwice, CreationStays,
       AskedFor, OffsetsFit
<1>3. CASE walk.phase = "reading"
  <2> DEFINE by == walk.set.sortBy
             inserted == DOMAIN payloads' \ DOMAIN payloads
             deleted == DOMAIN payloads \ DOMAIN payloads'
             moved == {id \in DOMAIN payloads \cap DOMAIN payloads' :
                          PayloadKey(id, walk.set.sortBy) # PayloadKey(id, walk.set.sortBy)'}
  <2>1. /\ during \in [atStart : SUBSET Ids, inserted : SUBSET Ids, deleted : SUBSET Ids,
                       moved : SUBSET Ids, tied : SUBSET Ids]
        /\ by \in Columns \cup {"created_at"}
    BY <1>1, <1>3, WalkIsTyped
  <2>2. during' = [during EXCEPT !.inserted = @ \cup inserted, !.deleted = @ \cup deleted,
                                 !.moved = @ \cup moved]
    BY <1>3 DEF WriteMeanwhile
  <2>3. /\ inserted \subseteq Ids /\ deleted \subseteq Ids /\ moved \subseteq Ids
    BY DEF TypeOK, TablesTypeOK, IsTable, Ids
  <2>4. \A id \in DOMAIN payloads \cap DOMAIN payloads' :
           id \notin moved => PayloadKey(id, by)' = PayloadKey(id, by)
    BY <1>1
  <2>5. /\ during'.atStart = during.atStart /\ during'.tied = during.tied
        /\ during'.inserted = during.inserted \cup inserted
        /\ during'.deleted = during.deleted \cup deleted
        /\ during'.moved = during.moved \cup moved
    BY <2>1, <2>2
  <2>6. by = "created_at" => moved = {}
    BY <1>1, CreationKept DEF PayloadKey
  <2>7. WalkTypes'
    <3>1. walk # NoWalk
      BY <1>3 DEF NoWalk
    <3>2. walk' \in [phase : {"reading", "done"}, set : Walks, page : Nat, seen : Seq(Ids)]
      BY <1>1, <3>1 DEF WalkTypes
    <3>3. during' \in [atStart : SUBSET Ids, inserted : SUBSET Ids, deleted : SUBSET Ids,
                       moved : SUBSET Ids, tied : SUBSET Ids]
      BY <2>1, <2>2, <2>3
    <3> QED
      BY <3>2, <3>3 DEF WalkTypes
  <2> HIDE DEF moved
  <2>8. FullPages' /\ CreationStays'
    BY <1>1, <1>3, <2>5, <2>6 DEF WalkInv, FullPages, CreationStays, AskedFor
  <2>9. ASSUME NEW id
        PROVE  /\ IsFiniteSet(AheadOf(id)) /\ IsFiniteSet(AheadOf(id)')
               /\ Cardinality(AheadOf(id)) \in Nat /\ Cardinality(AheadOf(id)') \in Nat
    <3>1. AheadOf(id) \in SUBSET DOMAIN payloads /\ AheadOf(id)' \in SUBSET DOMAIN payloads'
      BY DEF AheadOf
    <3>2. IsFiniteSet(AheadOf(id)) /\ IsFiniteSet(AheadOf(id)')
      BY <3>1, FS_Subset DEF TablesFinite
    <3> QED
      BY <3>2, FS_CardinalityType
  <2>10. AskedFor' = AskedFor /\ (OffsetsFit' <=> OffsetsFit) /\ AskedFor \in Nat
    BY <1>1, <1>3, WalkIsTyped DEF AskedFor, OffsetsFit
  <2>11. NoneLost'
    <3> SUFFICES ASSUME OffsetsFit, during'.deleted \cup during'.moved = {}
                 PROVE  /\ during.atStart \subseteq DOMAIN payloads'
                        /\ \A id \in during.atStart \ (Seqs!ToSet(walk.seen) \cup during.tied) :
                              Cardinality(AheadOf(id)') >= AskedFor
      BY <1>1, <1>3, <2>5, <2>10 DEF NoneLost
    <3>1. deleted = {} /\ moved = {} /\ during.deleted \cup during.moved = {}
      BY <2>5
    <3>2. /\ during.atStart \subseteq DOMAIN payloads
          /\ \A id \in during.atStart \ (Seqs!ToSet(walk.seen) \cup during.tied) :
                Cardinality(AheadOf(id)) >= AskedFor
      BY <1>3, <3>1 DEF WalkInv, NoneLost
    <3>3. DOMAIN payloads \subseteq DOMAIN payloads'
      BY <3>1
    <3>4. ASSUME NEW id \in DOMAIN payloads
          PROVE  Cardinality(AheadOf(id)') >= Cardinality(AheadOf(id))
      <4>1. \A x \in DOMAIN payloads : PayloadKey(x, by)' = PayloadKey(x, by)
        BY <2>4, <3>1, <3>3
      <4>2. AheadOf(id) \in SUBSET AheadOf(id)'
        BY <1>1, <3>3, <4>1 DEF AheadOf, Leads
      <4> QED
        BY <2>9, <4>2, FS_Subset
    <3> QED
      BY <2>9, <2>10, <3>2, <3>3, <3>4
  <2>12. NoneTwice'
    <3> SUFFICES ASSUME OffsetsFit, during'.inserted \cup during'.moved = {}
                 PROVE  /\ \A i, j \in DOMAIN walk.seen :
                              i # j /\ walk.seen[i] = walk.seen[j] => walk.seen[i] \in during.tied
                        /\ \A id \in (Seqs!ToSet(walk.seen) \cap DOMAIN payloads') \ during.tied :
                              Cardinality(AheadOf(id)') < AskedFor
      BY <1>1, <1>3, <2>5, <2>10 DEF NoneTwice
    <3>1. inserted = {} /\ moved = {} /\ during.inserted \cup during.moved = {}
      BY <2>5
    <3>2. /\ \A i, j \in DOMAIN walk.seen :
                i # j /\ walk.seen[i] = walk.seen[j] => walk.seen[i] \in during.tied
          /\ \A id \in (Seqs!ToSet(walk.seen) \cap DOMAIN payloads) \ during.tied :
                Cardinality(AheadOf(id)) < AskedFor
      BY <1>3, <3>1 DEF WalkInv, NoneTwice
    <3>3. DOMAIN payloads' \subseteq DOMAIN payloads
      BY <3>1
    <3>4. ASSUME NEW id \in DOMAIN payloads'
          PROVE  Cardinality(AheadOf(id)') <= Cardinality(AheadOf(id))
      <4>1. \A x \in DOMAIN payloads' : PayloadKey(x, by)' = PayloadKey(x, by)
        BY <2>4, <3>1, <3>3
      <4>2. AheadOf(id)' \in SUBSET AheadOf(id)
        BY <1>1, <3>3, <4>1 DEF AheadOf, Leads
      <4> QED
        BY <2>9, <4>2, FS_Subset
    <3> QED
      BY <2>9, <2>10, <3>2, <3>3, <3>4
  <2> QED
    BY <2>7, <2>8, <2>11, <2>12 DEF WalkInv
<1> QED
  BY <1>2, <1>3

\* No walk has begun,
LEMMA WalkInvInit == ReadInit => WalkInv
BY DEF ReadInit, NoWalk, WalkInv, WalkTypes, FullPages, NoneLost, NoneTwice, CreationStays

\* ... and none that has is led astray by a step of the client or the others.
LEMMA WalkInvStep == Readable /\ WalkInv /\ [ReadNext]_allVars => WalkInv'
<1> SUFFICES ASSUME Readable, WalkInv, [ReadNext]_allVars PROVE WalkInv'
  OBVIOUS
<1>1. Readable'
  BY ReadableStep
<1>2. TypeOK /\ TypeOK' /\ CallsOK /\ TablesFinite /\ TablesFinite'
  BY <1>1 DEF Readable, SystemInv, SystemTypes, SystemTypeOK
<1>3. CASE UNCHANGED allVars
  <2>1. walk' = walk /\ during' = during /\ payloads' = payloads
    BY <1>3 DEF allVars, readVars, systemVars, vars, tables
  <2>2. /\ AskedFor' = AskedFor /\ (OffsetsFit' <=> OffsetsFit)
        /\ \A id : AheadOf(id)' = AheadOf(id)
    BY <2>1 DEF AskedFor, OffsetsFit, AheadOf, Leads, PayloadKey
  <2>3. WalkTypes' /\ FullPages' /\ CreationStays'
    BY <2>1, <2>2 DEF WalkInv, WalkTypes, FullPages, CreationStays
  <2>4. NoneLost' /\ NoneTwice'
    BY <2>1, <2>2 DEF WalkInv, NoneLost, NoneTwice
  <2> QED
    BY <2>3, <2>4 DEF WalkInv
<1> QED
  BY <1>2, <1>3, StartStep, PageStep, WriteStep DEF ReadNext

\* The inductive invariant of the walk.
THEOREM WalkInvariant == ReadSpec => [](Readable /\ WalkInv)
<1>1. ReadInit => Readable /\ WalkInv
  BY ReadableInit, WalkInvInit
<1>2. Readable /\ WalkInv /\ [ReadNext]_allVars => (Readable /\ WalkInv)'
  BY ReadableStep, WalkInvStep
<1> QED
  BY <1>1, <1>2, PTL DEF ReadSpec

(***************************************************************************)
(* What the walk and its history hold is well formed, and a walk goes on   *)
(* just as long as its pages are full.                                     *)
(***************************************************************************)
THEOREM ReadTypesCorrect == ReadSpec => []ReadTypeOK
<1>1. WalkInv => ReadTypeOK
  <2> SUFFICES ASSUME WalkInv PROVE ReadTypeOK
    OBVIOUS
  <2>1. CASE walk = NoWalk
    <3>1. walk.phase = "idle" /\ during = Nothing
      BY <2>1 DEF NoWalk, WalkInv, WalkTypes
    <3> QED
      BY <3>1 DEF ReadTypeOK, Nothing
  <2>2. CASE walk # NoWalk
    <3>1. /\ walk \in [phase : {"reading", "done"}, set : Walks, page : Nat, seen : Seq(Ids)]
          /\ during \in [atStart : SUBSET Ids, inserted : SUBSET Ids, deleted : SUBSET Ids,
                         moved : SUBSET Ids, tied : SUBSET Ids]
      BY <2>2 DEF WalkInv, WalkTypes
    <3>2. /\ walk.phase \in {"reading", "done"} /\ walk.set \in Walks /\ walk.page \in Nat
          /\ walk.seen \in Seq(Ids)
      BY <3>1
    <3>3. Seqs!ToSet(walk.seen) \subseteq Ids
      BY <3>2 DEF Seqs!ToSet
    <3>4. DOMAIN during = DOMAIN Nothing /\ \A x \in DOMAIN during : during[x] \subseteq Ids
      BY <3>1 DEF Nothing
    <3> QED
      BY <3>2, <3>3, <3>4 DEF ReadTypeOK, Ids, WalkInv, FullPages, AskedFor
  <2> QED
    BY <2>1, <2>2
<1> QED
  BY <1>1, WalkInvariant, PTL

(***************************************************************************)
(* A walk through all pages finds every payload that was there from its    *)
(* start to its end, unless meanwhile a payload was deleted, one changed   *)
(* its place, or it tied with another in the sort column; it finds none    *)
(* twice unless one was inserted, changed its place or tied.  By           *)
(* created_at no payload ever changes its place.                           *)
(***************************************************************************)
THEOREM WalksAreReliable == ReadSpec => []WalkIsReliable
<1>1. WalkInv => WalkIsReliable
  BY DEF WalkInv, NoneLost, NoneTwice, CreationStays, WalkIsReliable
<1> QED
  BY <1>1, WalkInvariant, PTL

-----------------------------------------------------------------------------
(***************************************************************************)
(* Induction over the natural numbers, for a set of them.                  *)
(***************************************************************************)
\* The order of the natural numbers is well founded,
LEMMA LessThanFounded == IsWellFoundedOn({r \in Nat \X Nat : r[1] < r[2]}, Nat)
<1>1. OpToRel(<, Nat) = {r \in Nat \X Nat : r[1] < r[2]}
  BY DEF OpToRel
<1> QED
  BY <1>1, NatLessThanWellFounded

\* ... so some number is the least of a set of them that is not empty.
LEMMA LeastNumber ==
    ASSUME NEW T \in SUBSET Nat, T # {}
    PROVE \E x \in T : \A y \in T : x <= y
<1> DEFINE R == {r \in Nat \X Nat : r[1] < r[2]}
<1>1. \E x \in T : \A y \in T : ~(<<y, x>> \in R)
  <2> HIDE DEF R
  <2>1. IsWellFoundedOn(R, Nat)
    BY LessThanFounded DEF R
  <2> QED
    BY <2>1, WFMin
<1>2. PICK x \in T : \A y \in T : ~(<<y, x>> \in R)
  BY <1>1
<1>3. ASSUME NEW y \in T PROVE x <= y
  <2>1. x \in Nat /\ y \in Nat /\ ~(<<y, x>> \in R)
    BY <1>2
  <2>2. ~(y < x)
    BY <2>1
  <2> QED
    BY <2>1, <2>2
<1> QED
  BY <1>3

\* A set with 0 and the successor of each of its numbers has them all.
LEMMA Induction ==
    ASSUME NEW T, 0 \in T, \A n \in Nat : n \in T => n + 1 \in T
    PROVE Nat \subseteq T
<1> SUFFICES ASSUME ~(Nat \subseteq T) PROVE FALSE
  OBVIOUS
<1>1. PICK x \in Nat \ T : \A y \in Nat \ T : x <= y
  BY LeastNumber
<1>2. x # 0
  OBVIOUS
<1>3. x - 1 \in Nat /\ x - 1 \in T
  BY <1>1, <1>2
<1> QED
  BY <1>1, <1>3

-----------------------------------------------------------------------------
(***************************************************************************)
(* The loop of CalculateDurations.  FoldLeft is defined by a function on   *)
(* sets of positions that calls itself: it exists for lists of any length, *)
(* and takes one row after the other.                                      *)
(***************************************************************************)
TopOf(s) == CHOOSE x \in s : \A y \in s : x >= y

Folds(g, rows, base, k) ==
    g = [s \in SUBSET (1..k) |-> IF s = {} THEN base
                                 ELSE Measure(g[s \ {TopOf(s)}], rows[TopOf(s)])]

\* The last of the first n + 1 positions.
LEMMA TopIs ==
    ASSUME NEW n \in Nat, NEW s \in SUBSET (1..(n + 1)), n + 1 \in s
    PROVE  TopOf(s) = n + 1
<1>1. \A y \in s : n + 1 >= y
  OBVIOUS
<1>2. \A x \in s : (\A y \in s : x >= y) => x = n + 1
  BY <1>1
<1> QED
  BY <1>1, <1>2 DEF TopOf

\* A function for n rows gives one for n + 1,
LEMMA FoldsNext ==
    ASSUME NEW rows, NEW base, NEW n \in Nat, NEW g, Folds(g, rows, base, n)
    PROVE  \E h : Folds(h, rows, base, n + 1)
<1> DEFINE h == [s \in SUBSET (1..(n + 1)) |->
                   IF n + 1 \in s THEN Measure(g[s \ {n + 1}], rows[n + 1]) ELSE g[s]]
<1>1. ASSUME NEW s \in SUBSET (1..(n + 1))
      PROVE  h[s] = IF s = {} THEN base ELSE Measure(h[s \ {TopOf(s)}], rows[TopOf(s)])
  <2>1. CASE n + 1 \in s
    <3>1. TopOf(s) = n + 1
      BY <2>1, TopIs
    <3>2. s \ {n + 1} \in SUBSET (1..(n + 1)) /\ n + 1 \notin s \ {n + 1}
      OBVIOUS
    <3>3. h[s \ {n + 1}] = g[s \ {n + 1}]
      BY <3>2
    <3>4. h[s] = Measure(g[s \ {n + 1}], rows[n + 1])
      BY <2>1
    <3> QED
      BY <2>1, <3>1, <3>3, <3>4
  <2>2. CASE n + 1 \notin s
    <3>1. s \in SUBSET (1..n)
      BY <2>2
    <3>2. h[s] = g[s]
      BY <2>2
    <3>3. g[s] = IF s = {} THEN base ELSE Measure(g[s \ {TopOf(s)}], rows[TopOf(s)])
      BY <3>1 DEF Folds
    <3>4. h[s \ {TopOf(s)}] = g[s \ {TopOf(s)}]
      BY <2>2
    <3> QED
      BY <3>2, <3>3, <3>4
  <2> QED
    BY <2>1, <2>2
<1>2. h = [s \in SUBSET (1..(n + 1)) |-> h[s]]
  OBVIOUS
<1> HIDE DEF h
<1>3. h = [s \in SUBSET (1..(n + 1)) |-> IF s = {} THEN base
              ELSE Measure(h[s \ {TopOf(s)}], rows[TopOf(s)])]
  BY <1>1, <1>2
<1> QED
  BY <1>3 DEF Folds

\* ... so there is one for any number of rows.
LEMMA FoldsAll ==
    ASSUME NEW rows, NEW base, NEW k \in Nat
    PROVE  \E g : Folds(g, rows, base, k)
<1> DEFINE T == {n \in Nat : \E g : Folds(g, rows, base, n)}
<1>1. 0 \in T
  <2>1. Folds([s \in SUBSET (1..0) |-> base], rows, base, 0)
    BY DEF Folds
  <2> QED
    BY <2>1
<1>2. \A n \in Nat : n \in T => n + 1 \in T
  BY FoldsNext
<1> HIDE DEF T
<1>3. k \in T
  BY <1>1, <1>2, Induction
<1> QED
  BY <1>3 DEF T

\* What the fold has come to, after the rows of each initial part.
Rounds(rows, base) == CHOOSE g : Folds(g, rows, base, Len(rows))

Stepwise(g, rows, base) ==
    /\ g[1..0] = base
    /\ \A n \in Nat : n < Len(rows) => g[1..(n + 1)] = Measure(g[1..n], rows[n + 1])

\* The fold starts with base, and measures a row at each step.
LEMMA FoldSteps ==
    ASSUME NEW T, NEW rows \in Seq(T), NEW base
    PROVE  /\ Seqs!FoldLeft(Measure, base, rows) = Rounds(rows, base)[1..Len(rows)]
           /\ Stepwise(Rounds(rows, base), rows, base)
<1> DEFINE g == Rounds(rows, base)
<1>1. Len(rows) \in Nat /\ DOMAIN rows = 1..Len(rows)
  OBVIOUS
<1>2. Folds(g, rows, base, Len(rows))
  BY <1>1, FoldsAll DEF Rounds
<1>3. Seqs!FoldLeft(Measure, base, rows) = g[1..Len(rows)]
  <2>1. g = CHOOSE h : h = [s \in SUBSET (DOMAIN rows) |-> IF s = {} THEN base
                     ELSE Measure(h[s \ {TopOf(s)}], rows[TopOf(s)])]
    BY <1>1 DEF Folds, Rounds
  <2> HIDE DEF g
  <2> QED
    BY <1>1, <2>1 DEF Seqs!FoldLeft, Seqs!MapThenFoldSet, Seqs!Max, TopOf
<1> HIDE DEF g
<1>4. g[1..0] = base
  BY <1>1, <1>2 DEF Folds
<1>5. ASSUME NEW n \in Nat, n < Len(rows)
      PROVE  g[1..(n + 1)] = Measure(g[1..n], rows[n + 1])
  <2>1. 1..(n + 1) \in SUBSET (1..Len(rows)) /\ n + 1 \in 1..(n + 1)
    <3>1. \A m \in Nat : n < m => 1..(n + 1) \subseteq 1..m
      OBVIOUS
    <3> QED
      BY <1>1, <1>5, <3>1
  <2>2. TopOf(1..(n + 1)) = n + 1
    BY <2>1, TopIs
  <2>3. 1..(n + 1) \ {n + 1} = 1..n
    OBVIOUS
  <2> QED
    BY <1>2, <2>1, <2>2, <2>3 DEF Folds
<1>6. Stepwise(g, rows, base)
  BY <1>4, <1>5 DEF Stepwise
<1> QED
  BY <1>3, <1>6 DEF g
-----------------------------------------------------------------------------
\* A pair that holds the earliest and the latest of some dates.
Extremes(pair, dates) ==
    /\ pair[1] \in dates /\ pair[2] \in dates
    /\ \A t \in dates : pair[1] <= t /\ t <= pair[2]

\* updateMinMax makes it the pair of one date more.
LEMMA ExtremesMove ==
    ASSUME NEW dates \in SUBSET Nat, NEW pair, Extremes(pair, dates), NEW t \in Nat
    PROVE  Extremes(updateMinMax(t, pair), dates \cup {t})
<1>1. /\ pair[1] \in Nat /\ pair[1] \in dates
      /\ pair[2] \in Nat /\ pair[2] \in dates /\ pair[1] <= pair[2]
      /\ \A d \in dates : d \in Nat /\ pair[1] <= d /\ d <= pair[2]
  BY DEF Extremes
<1>2. CASE t < pair[1]
  <2>1. updateMinMax(t, pair) = <<t, pair[2]>>
    BY <1>2 DEF updateMinMax
  <2> QED
    BY <1>1, <1>2, <2>1 DEF Extremes
<1>3. CASE ~(t < pair[1]) /\ t > pair[2]
  <2>1. updateMinMax(t, pair) = <<pair[1], t>>
    BY <1>3 DEF updateMinMax
  <2> QED
    BY <1>1, <1>3, <2>1 DEF Extremes
<1>4. CASE ~(t < pair[1]) /\ ~(t > pair[2])
  <2>1. updateMinMax(t, pair) = pair
    BY <1>4 DEF updateMinMax
  <2> QED
    BY <1>1, <1>4, <2>1 DEF Extremes
<1> QED
  BY <1>2, <1>3, <1>4

\* The dates that one service and source has in the first k rows.
DatesOf(rows, k, key) == {rows[i].date : i \in {j \in 1..k : ServiceSource(rows[j]) = key}}

(***************************************************************************)
(* The loop invariant: after k rows both kinds of times are the extremes   *)
(* of the dates seen so far.                                               *)
(***************************************************************************)
Measured(rows, k, seen) ==
    /\ Extremes(seen.whole, {rows[1].date} \cup {rows[i].date : i \in 1..k})
    /\ DOMAIN seen.times = {ServiceSource(rows[i]) : i \in 1..k}
    /\ \A key \in DOMAIN seen.times : Extremes(seen.times[key], DatesOf(rows, k, key))

\* A round of the loop keeps it.
LEMMA MeasuredNext ==
    ASSUME NEW rows, NEW k \in Nat, \A i \in 1..(k + 1) : rows[i].date \in Nat,
           NEW seen, Measured(rows, k, seen)
    PROVE  Measured(rows, k + 1, Measure(seen, rows[k + 1]))
<1> DEFINE row  == rows[k + 1]
           key  == ServiceSource(row)
           old  == IF key \in DOMAIN seen.times THEN seen.times[key] ELSE <<row.date, row.date>>
           next == Measure(seen, row)
<1>1. /\ next.times = WithRow(seen.times, key, updateMinMax(row.date, old))
      /\ next.whole = updateMinMax(row.date, seen.whole)
  BY DEF Measure
<1>2. /\ k + 1 \in 1..(k + 1) /\ 1..(k + 1) = 1..k \cup {k + 1}
      /\ 1 \in 1..(k + 1)
  OBVIOUS
<1>3. row.date \in Nat /\ rows[1].date \in Nat
  BY <1>2
<1>4. Extremes(next.whole, {rows[1].date} \cup {rows[i].date : i \in 1..(k + 1)})
  <2> DEFINE dates == {rows[1].date} \cup {rows[i].date : i \in 1..k}
  <2>1. dates \in SUBSET Nat
    BY <1>2, <1>3
  <2>2. Extremes(seen.whole, dates)
    BY DEF Measured
  <2>3. {rows[1].date} \cup {rows[i].date : i \in 1..(k + 1)} = dates \cup {row.date}
    BY <1>2
  <2> HIDE DEF dates, row, next
  <2> QED
    BY <1>1, <1>3, <2>1, <2>2, <2>3, ExtremesMove
<1>5. DOMAIN next.times = DOMAIN seen.times \cup {key}
  BY <1>1 DEF WithRow
<1>6. DOMAIN next.times = {ServiceSource(rows[i]) : i \in 1..(k + 1)}
  <2>1. DOMAIN seen.times = {ServiceSource(rows[i]) : i \in 1..k}
    BY DEF Measured
  <2> HIDE DEF next
  <2> QED
    BY <1>2, <1>5, <2>1
<1>7. ASSUME NEW other \in DOMAIN next.times
      PROVE  Extremes(next.times[other], DatesOf(rows, k + 1, other))
  <2>1. CASE other # key
    <3>1. other \in DOMAIN seen.times /\ next.times[other] = seen.times[other]
      <4> HIDE DEF next, key, old
      <4> QED
        BY <1>1, <1>5, <1>7, <2>1 DEF WithRow
    <3>2. DatesOf(rows, k + 1, other) = DatesOf(rows, k, other)
      BY <1>2, <2>1 DEF DatesOf
    <3> QED
      BY <3>1, <3>2 DEF Measured
  <2>2. CASE other = key
    <3>1. next.times[key] = updateMinMax(row.date, old)
      <4> HIDE DEF next, key, old
      <4> QED
        BY <1>1, <1>5 DEF WithRow
    <3>2. DatesOf(rows, k + 1, key) = DatesOf(rows, k, key) \cup {row.date}
      BY <1>2 DEF DatesOf
    <3>3. CASE key \in DOMAIN seen.times
      <4>1. Extremes(old, DatesOf(rows, k, key))
        BY <3>3 DEF Measured
      <4>2. DatesOf(rows, k, key) \in SUBSET Nat
        BY <1>2 DEF DatesOf
      <4> HIDE DEF next, key, old, row
      <4> QED
        BY <1>3, <2>2, <3>1, <3>2, <4>1, <4>2, ExtremesMove
    <3>4. CASE key \notin DOMAIN seen.times
      <4>1. old = <<row.date, row.date>>
        BY <3>4
      <4>2. DatesOf(rows, k, key) = {}
        BY <3>4 DEF Measured, DatesOf
      <4>3. updateMinMax(row.date, old) = old
        BY <1>3, <4>1 DEF updateMinMax
      <4> HIDE DEF next, key, old, row
      <4> QED
        BY <1>3, <2>2, <3>1, <3>2, <4>1, <4>2, <4>3 DEF Extremes
    <3> QED
      BY <3>3, <3>4
  <2> QED
    BY <2>1, <2>2
<1> QED
  BY <1>4, <1>6, <1>7 DEF Measured

\* What the loop has measured in the end,
FoldOf(rows) ==
    Seqs!FoldLeft(Measure, [times |-> NoRows, whole |-> <<rows[1].date, rows[1].date>>], rows)

\* ... which are the extremes of all dates, whatever the rows' order.
LEMMA FoldMeasures ==
    ASSUME NEW T, NEW rows \in Seq(T), rows # <<>>, \A i \in DOMAIN rows : rows[i].date \in Nat
    PROVE  Measured(rows, Len(rows), FoldOf(rows))
<1> DEFINE base == [times |-> NoRows, whole |-> <<rows[1].date, rows[1].date>>]
<1> DEFINE g == Rounds(rows, base)
<1>1. /\ FoldOf(rows) = g[1..Len(rows)]
      /\ g[1..0] = base
      /\ \A n \in Nat : n < Len(rows) => g[1..(n + 1)] = Measure(g[1..n], rows[n + 1])
  <2>1. FoldOf(rows) = Seqs!FoldLeft(Measure, base, rows)
    BY DEF FoldOf
  <2> HIDE DEF base
  <2>2. Seqs!FoldLeft(Measure, base, rows) = g[1..Len(rows)] /\ Stepwise(g, rows, base)
    BY FoldSteps
  <2> HIDE DEF g
  <2> QED
    BY <2>1, <2>2 DEF Stepwise
<1> HIDE DEF g
<1>2. Len(rows) \in Nat /\ DOMAIN rows = 1..Len(rows) /\ 1 \in DOMAIN rows
  OBVIOUS
<1> DEFINE P == {n \in Nat : n <= Len(rows) => Measured(rows, n, g[1..n])}
<1>3. 0 \in P
  <2>1. Measured(rows, 0, base)
    <3>1. Extremes(base.whole, {rows[1].date})
      BY <1>2 DEF Extremes
    <3>2. 1..0 = {} /\ DOMAIN base.times = {} /\ base.whole = <<rows[1].date, rows[1].date>>
      BY DEF NoRows
    <3> QED
      BY <3>1, <3>2 DEF Measured
  <2> QED
    BY <1>1, <2>1
<1>4. ASSUME NEW n \in Nat, n \in P PROVE n + 1 \in P
  <2>1. SUFFICES ASSUME n + 1 <= Len(rows) PROVE Measured(rows, n + 1, g[1..(n + 1)])
    OBVIOUS
  <2>2. Measured(rows, n, g[1..n]) /\ n < Len(rows)
    BY <1>2, <1>4, <2>1
  <2>3. \A i \in 1..(n + 1) : rows[i].date \in Nat
    BY <1>2, <2>1
  <2>4. g[1..(n + 1)] = Measure(g[1..n], rows[n + 1])
    BY <1>1, <2>2
  <2>5. Measured(rows, n + 1, Measure(g[1..n], rows[n + 1]))
    BY <2>2, <2>3, MeasuredNext
  <2> QED
    BY <2>4, <2>5
<1> HIDE DEF P
<1>5. Len(rows) \in P
  BY <1>2, <1>3, <1>4, Induction
<1> QED
  BY <1>1, <1>2, <1>5 DEF P

\* The answer is made of the differences.
LEMMA DurationsMeasure ==
    ASSUME NEW rows
    PROVE  /\ CalculateDurations(rows).services =
                 [key \in DOMAIN FoldOf(rows).times |->
                     FoldOf(rows).times[key][2] - FoldOf(rows).times[key][1]]
           /\ CalculateDurations(rows).total_time = FoldOf(rows).whole[2] - FoldOf(rows).whole[1]
BY DEF CalculateDurations, FoldOf

-----------------------------------------------------------------------------
(***************************************************************************)
(* The answers that the durations are calculated from.                     *)
(***************************************************************************)
\* The dates that a service and source has among the details of a request.
StatusDates(r, v, key) ==
    {statuses[s].date : s \in {t \in DetailRows(r) : ServiceSource(Selected(t, v)) = key}}

AllDates(r) == {statuses[s].date : s \in DetailRows(r)}

\* The pair gives the greatest difference of two dates.
LEMMA SpanIs ==
    ASSUME NEW dates \in SUBSET Nat, NEW pair, Extremes(pair, dates)
    PROVE  Span(dates) = pair[2] - pair[1]
<1>1. PICK lo \in dates, hi \in dates : /\ lo = pair[1] /\ hi = pair[2]
                                        /\ \A t \in dates : lo <= t /\ t <= hi
  BY DEF Extremes
<1>2. \A a, b \in dates : b - a <= hi - lo
  <2>1. SUFFICES ASSUME NEW a \in dates, NEW b \in dates PROVE b - a <= hi - lo
    OBVIOUS
  <2>2. a \in Nat /\ b \in Nat /\ lo \in Nat /\ hi \in Nat /\ lo <= a /\ b <= hi
    BY <1>1
  <2> QED
    BY <2>2
<1> DEFINE differences == {b - a : a, b \in dates}
<1>3. hi - lo \in differences
  OBVIOUS
<1>4. ASSUME NEW n \in differences, \A a, b \in dates : b - a <= n
      PROVE  n = hi - lo
  <2>1. PICK a \in dates, b \in dates : n = b - a
    OBVIOUS
  <2>2. a \in Nat /\ b \in Nat /\ lo \in Nat /\ hi \in Nat
    <3> HIDE DEF differences
    <3> QED
      OBVIOUS
  <2>3. b - a <= hi - lo /\ hi - lo <= n
    BY <1>2, <1>4
  <2> QED
    BY <2>1, <2>2, <2>3
<1> HIDE DEF differences
<1>5. (CHOOSE n \in differences : \A a, b \in dates : b - a <= n) = hi - lo
  BY <1>2, <1>3, <1>4
<1> QED
  BY <1>1, <1>5 DEF Span, differences

\* More dates span no less.
LEMMA SpanGrows ==
    ASSUME NEW all \in SUBSET Nat, NEW part \in SUBSET all,
           NEW p, Extremes(p, part), NEW q, Extremes(q, all)
    PROVE  p[2] - p[1] <= q[2] - q[1]
<1>1. /\ p[1] \in Nat /\ p[2] \in Nat /\ q[1] \in Nat /\ q[2] \in Nat
      /\ q[1] <= p[1] /\ p[2] <= q[2]
  BY DEF Extremes
<1> QED
  BY <1>1

\* Without sources every key of a service is the same,
LEMMA WithoutSource ==
    ASSUME NEW v \in Verbosities, v # "0", NEW s
    PROVE  ServiceSource(Selected(s, v)) = <<NameOf(s, "service"), "undefined">>
<1>1. "source" \notin defineVerbosity(v)
  BY DEF Verbosities, defineVerbosity
<1> QED
  BY <1>1 DEF Selected, ServiceSource

\* ... and a request with details has them in the verbosity that shows all.
LEMMA FullHasRows ==
    ASSUME Readable, NEW r, DetailRows(r) # {},
           NEW rows \in RetrieveRequestIdPayloads(r, "date", "asc", "0")
    PROVE  rows # <<>>
<1>1. SortResolves("date", "0")
  BY DEF SortResolves, defineVerbosity
<1> DEFINE key == [s \in DetailRows(r) |-> StatusKey(s, "date")]
<1>2. PICK s \in OrderBy(key, "asc") : rows = [i \in DOMAIN s |-> Selected(s[i], "0")]
  BY <1>1 DEF RetrieveRequestIdPayloads
<1>3. IsFiniteSet(DOMAIN key) /\ DOMAIN key = DetailRows(r)
  <2>1. DetailRows(r) \subseteq DOMAIN statuses
    BY DEF DetailRows, Joined
  <2> QED
    BY <2>1, FS_Subset DEF Readable, TablesFinite
<1> HIDE DEF key
<1>4. \A x \in DetailRows(r) : \E i \in DOMAIN s : s[i] = x
  BY <1>3, Listed
<1>5. DOMAIN rows # {}
  BY <1>2, <1>4
<1> QED
  BY <1>5

\* An answer with rows lists each status of the request once, whatever the
\* order, with its date.
LEMMA DetailsListed ==
    ASSUME Readable, NEW r, NEW by, NEW v,
           NEW rows \in RetrieveRequestIdPayloads(r, by, "asc", v), rows # <<>>
    PROVE  /\ rows \in Seq({Selected(s, v) : s \in DetailRows(r)})
           /\ \A s \in DetailRows(r) : \E i \in DOMAIN rows : rows[i] = Selected(s, v)
           /\ AllDates(r) \in SUBSET Nat
           /\ \A i \in DOMAIN rows : rows[i].date \in Nat
<1> DEFINE key == [s \in DetailRows(r) |-> StatusKey(s, by)]
<1>1. PICK s \in OrderBy(key, "asc") : rows = [i \in DOMAIN s |-> Selected(s[i], v)]
  BY DEF RetrieveRequestIdPayloads
<1>2. DetailRows(r) \subseteq DOMAIN statuses
  BY DEF DetailRows, Joined
<1>3. IsFiniteSet(DOMAIN key)
  BY <1>2, FS_Subset DEF Readable, TablesFinite
<1>4. /\ s \in Seq(DetailRows(r)) /\ DOMAIN s = 1..Len(s) /\ Len(s) \in Nat
      /\ \A x \in DetailRows(r) : \E i \in DOMAIN s : s[i] = x
  <2> DOMAIN key = DetailRows(r)
    OBVIOUS
  <2> HIDE DEF key
  <2> QED
    BY <1>3, Listed
<1>5. \A x \in DetailRows(r) : statuses[x].date \in Nat
  <2>1. IsTable(statuses, StatusRow)
    BY DEF Readable, SystemInv, SystemTypes, SystemTypeOK, TypeOK, TablesTypeOK
  <2> QED
    BY <1>2, <2>1, QueryAssumption DEF IsTable, StatusRow
<1> QED
  BY <1>1, <1>4, <1>5 DEF Selected, AllDates

\* What an answer's durations are, without any reference to its order.
LEMMA DurationsOfDetails ==
    ASSUME Readable, NEW r, NEW by, NEW v,
           NEW rows \in RetrieveRequestIdPayloads(r, by, "asc", v), rows # <<>>,
           NEW d, d = CalculateDurations(rows)
    PROVE  /\ Seqs!ToSet(rows) = {Selected(s, v) : s \in DetailRows(r)}
           /\ Seqs!ToSet(rows) # {}
           /\ DOMAIN d.services = {ServiceSource(row) : row \in Seqs!ToSet(rows)}
           /\ \A key \in DOMAIN d.services :
                 /\ {row.date : row \in {x \in Seqs!ToSet(rows) : ServiceSource(x) = key}}
                       = StatusDates(r, v, key)
                 /\ StatusDates(r, v, key) \in SUBSET Nat
                 /\ \E pair : /\ Extremes(pair, StatusDates(r, v, key))
                              /\ d.services[key] = pair[2] - pair[1]
           /\ {row.date : row \in Seqs!ToSet(rows)} = AllDates(r)
           /\ AllDates(r) \in SUBSET Nat
           /\ \E pair : /\ Extremes(pair, AllDates(r))
                        /\ d.total_time = pair[2] - pair[1]
<1> DEFINE S == {Selected(s, v) : s \in DetailRows(r)}
<1>1. /\ rows \in Seq(S)
      /\ \A s \in DetailRows(r) : \E i \in DOMAIN rows : rows[i] = Selected(s, v)
      /\ AllDates(r) \in SUBSET Nat
      /\ \A i \in DOMAIN rows : rows[i].date \in Nat
  BY DetailsListed
<1>2. /\ DOMAIN rows = 1..Len(rows) /\ Len(rows) \in Nat /\ 1 \in DOMAIN rows
      /\ \A i \in DOMAIN rows : rows[i] \in S
  <2> HIDE DEF S
  <2> QED
    BY <1>1
<1>3. Measured(rows, Len(rows), FoldOf(rows))
  <2> HIDE DEF S
  <2> QED
    BY <1>1, FoldMeasures
<1>4. Seqs!ToSet(rows) = S /\ Seqs!ToSet(rows) # {}
  BY <1>1, <1>2 DEF Seqs!ToSet
<1>5. /\ d.services = [key \in DOMAIN FoldOf(rows).times |->
                          FoldOf(rows).times[key][2] - FoldOf(rows).times[key][1]]
      /\ d.total_time = FoldOf(rows).whole[2] - FoldOf(rows).whole[1]
  BY DurationsMeasure
<1>6. DOMAIN d.services = {ServiceSource(row) : row \in Seqs!ToSet(rows)}
  BY <1>2, <1>3, <1>5 DEF Measured, Seqs!ToSet
<1>7. {rows[i].date : i \in DOMAIN rows} = AllDates(r)
  <2>1. ASSUME NEW i \in DOMAIN rows PROVE rows[i].date \in AllDates(r)
    <3>1. PICK s \in DetailRows(r) : rows[i] = Selected(s, v)
      BY <1>2
    <3> QED
      BY <3>1 DEF AllDates, Selected
  <2>2. ASSUME NEW s \in DetailRows(r)
        PROVE  \E i \in DOMAIN rows : rows[i].date = statuses[s].date
    <3>1. PICK i \in DOMAIN rows : rows[i] = Selected(s, v)
      BY <1>1
    <3>2. Selected(s, v).date = statuses[s].date
      BY DEF Selected
    <3> QED
      BY <3>1, <3>2
  <2> QED
    BY <2>1, <2>2 DEF AllDates
<1>8. \E pair : Extremes(pair, AllDates(r)) /\ d.total_time = pair[2] - pair[1]
  <2>1. {rows[1].date} \cup {rows[i].date : i \in 1..Len(rows)} = AllDates(r)
    BY <1>2, <1>7
  <2>2. Extremes(FoldOf(rows).whole, AllDates(r))
    BY <1>3, <2>1 DEF Measured
  <2> QED
    BY <1>5, <2>2
<1>9. ASSUME NEW key \in DOMAIN d.services
      PROVE  /\ {row.date : row \in {x \in Seqs!ToSet(rows) : ServiceSource(x) = key}}
                   = StatusDates(r, v, key)
             /\ StatusDates(r, v, key) \in SUBSET Nat
             /\ \E pair : /\ Extremes(pair, StatusDates(r, v, key))
                          /\ d.services[key] = pair[2] - pair[1]
  <2>1. DatesOf(rows, Len(rows), key) = StatusDates(r, v, key)
    <3>1. ASSUME NEW i \in DOMAIN rows, ServiceSource(rows[i]) = key
          PROVE  rows[i].date \in StatusDates(r, v, key)
      <4>1. PICK s \in DetailRows(r) : rows[i] = Selected(s, v)
        BY <1>2
      <4>2. rows[i].date = statuses[s].date
        BY <4>1 DEF Selected
      <4> QED
        BY <3>1, <4>1, <4>2 DEF StatusDates
    <3>2. ASSUME NEW s \in DetailRows(r), ServiceSource(Selected(s, v)) = key
          PROVE  statuses[s].date \in DatesOf(rows, Len(rows), key)
      <4>1. PICK i \in DOMAIN rows : rows[i] = Selected(s, v)
        BY <1>1
      <4>2. rows[i].date = statuses[s].date
        BY <4>1 DEF Selected
      <4> QED
        BY <1>2, <3>2, <4>1, <4>2 DEF DatesOf
    <3> QED
      BY <1>2, <3>1, <3>2 DEF DatesOf, StatusDates
  <2>2. StatusDates(r, v, key) \in SUBSET Nat
    BY <1>1 DEF StatusDates, AllDates
  <2>3. key \in DOMAIN FoldOf(rows).times
    BY <1>5
  <2>4. Extremes(FoldOf(rows).times[key], StatusDates(r, v, key))
    BY <1>3, <2>1, <2>3 DEF Measured
  <2>5. d.services[key] = FoldOf(rows).times[key][2] - FoldOf(rows).times[key][1]
    BY <1>5, <2>3
  <2>6. {row.date : row \in {x \in Seqs!ToSet(rows) : ServiceSource(x) = key}}
           = StatusDates(r, v, key)
    <3> HIDE DEF S
    <3>1. \A s : Selected(s, v).date = statuses[s].date
      BY DEF Selected
    <3>2. ASSUME NEW x \in Seqs!ToSet(rows), ServiceSource(x) = key
          PROVE  x.date \in StatusDates(r, v, key)
      BY <1>4, <3>1, <3>2 DEF StatusDates, S
    <3>3. ASSUME NEW s \in DetailRows(r), ServiceSource(Selected(s, v)) = key
          PROVE  \E x \in Seqs!ToSet(rows) :
                    ServiceSource(x) = key /\ x.date = statuses[s].date
      BY <1>4, <3>1, <3>3 DEF S
    <3> QED
      BY <3>2, <3>3 DEF StatusDates
  <2> QED
    BY <2>2, <2>4, <2>5, <2>6
<1>10. {row.date : row \in Seqs!ToSet(rows)} = AllDates(r)
  <2>1. {row.date : row \in Seqs!ToSet(rows)} = {rows[i].date : i \in DOMAIN rows}
    BY DEF Seqs!ToSet
  <2> QED
    BY <1>7, <2>1
<1> QED
  BY <1>1, <1>4, <1>6, <1>8, <1>9, <1>10

(***************************************************************************)
(* CalculateDurations does not depend on the order it is given the rows    *)
(* in, and agrees with the latest date less the earliest, per service and  *)
(* source and over all.  A verbosity without sources leaves the total time *)
(* as it is and merges the sources of a service, each of which takes no    *)
(* longer than the service.                                                *)
(***************************************************************************)
THEOREM DurationsAreSpans == ReadSpec => []DurationsAgree
<1>1. Readable => DurationsAgree
  <2> SUFFICES ASSUME Readable, NEW r \in Requests, NEW v \in Verbosities,
                      NEW rows \in RetrieveRequestIdPayloads(r, "status_msg", "asc", v),
                      rows # <<>>, NEW d, d = CalculateDurations(rows)
               PROVE  /\ DOMAIN d.services = {ServiceSource(row) : row \in Seqs!ToSet(rows)}
                      /\ \A key \in DOMAIN d.services :
                            d.services[key]
                               = Span({row.date : row \in
                                          {x \in Seqs!ToSet(rows) : ServiceSource(x) = key}})
                      /\ d.total_time = Span({row.date : row \in Seqs!ToSet(rows)})
                      /\ \A full \in RetrieveRequestIdPayloads(r, "date", "asc", "0") :
                            LET e == CalculateDurations(full)
                            IN  /\ e.total_time = d.total_time
                                /\ v # "0" => \A key \in DOMAIN e.services :
                                      e.services[key] <= d.services[<<key[1], "undefined">>]
    BY DEF DurationsAgree
  <2>1. /\ Seqs!ToSet(rows) # {}
        /\ Seqs!ToSet(rows) = {Selected(s, v) : s \in DetailRows(r)}
        /\ DOMAIN d.services = {ServiceSource(row) : row \in Seqs!ToSet(rows)}
        /\ \A key \in DOMAIN d.services :
              /\ {row.date : row \in {x \in Seqs!ToSet(rows) : ServiceSource(x) = key}}
                    = StatusDates(r, v, key)
              /\ StatusDates(r, v, key) \in SUBSET Nat
              /\ \E pair : /\ Extremes(pair, StatusDates(r, v, key))
                           /\ d.services[key] = pair[2] - pair[1]
        /\ {row.date : row \in Seqs!ToSet(rows)} = AllDates(r)
        /\ AllDates(r) \in SUBSET Nat
        /\ \E pair : /\ Extremes(pair, AllDates(r))
                     /\ d.total_time = pair[2] - pair[1]
    BY DurationsOfDetails
  <2>2. ASSUME NEW key \in DOMAIN d.services
        PROVE  d.services[key]
                  = Span({row.date : row \in
                             {x \in Seqs!ToSet(rows) : ServiceSource(x) = key}})
    <3>1. PICK pair : /\ Extremes(pair, StatusDates(r, v, key))
                      /\ d.services[key] = pair[2] - pair[1]
      BY <2>1
    <3>2. StatusDates(r, v, key) \in SUBSET Nat
      BY <2>1
    <3>3. Span(StatusDates(r, v, key)) = pair[2] - pair[1]
      BY <3>1, <3>2, SpanIs
    <3> QED
      BY <2>1, <3>1, <3>3
  <2>3. d.total_time = Span(AllDates(r))
    <3>1. PICK pair : Extremes(pair, AllDates(r)) /\ d.total_time = pair[2] - pair[1]
      BY <2>1
    <3>2. AllDates(r) \in SUBSET Nat
      BY <2>1
    <3> QED
      BY <3>1, <3>2, SpanIs
  <2>4. ASSUME NEW full \in RetrieveRequestIdPayloads(r, "date", "asc", "0"),
               NEW e, e = CalculateDurations(full)
        PROVE  /\ e.total_time = d.total_time
               /\ v # "0" => \A key \in DOMAIN e.services :
                     e.services[key] <= d.services[<<key[1], "undefined">>]
    <3>1. full # <<>>
      <4>1. DetailRows(r) # {}
        BY <2>1
      <4> QED
        BY <4>1, FullHasRows
    <3>2. /\ Seqs!ToSet(full) = {Selected(s, "0") : s \in DetailRows(r)}
          /\ DOMAIN e.services = {ServiceSource(row) : row \in Seqs!ToSet(full)}
          /\ \A key \in DOMAIN e.services :
                /\ StatusDates(r, "0", key) \in SUBSET Nat
                /\ \E pair : /\ Extremes(pair, StatusDates(r, "0", key))
                             /\ e.services[key] = pair[2] - pair[1]
          /\ \E pair : /\ Extremes(pair, AllDates(r))
                       /\ e.total_time = pair[2] - pair[1]
      BY <2>4, <3>1, DurationsOfDetails
    <3>3. e.total_time = d.total_time
      <4>1. PICK pair : Extremes(pair, AllDates(r)) /\ e.total_time = pair[2] - pair[1]
        BY <3>2
      <4>2. AllDates(r) \in SUBSET Nat
        BY <2>1
      <4> QED
        BY <2>3, <4>1, <4>2, SpanIs
    <3>4. ASSUME v # "0", NEW key \in DOMAIN e.services
          PROVE  e.services[key] <= d.services[<<key[1], "undefined">>]
      <4> DEFINE whole == <<key[1], "undefined">>
      <4>1. PICK s \in DetailRows(r) : key = ServiceSource(Selected(s, "0"))
        BY <3>2
      <4>2. \A t \in DetailRows(r) : ServiceSource(Selected(t, v)) = <<NameOf(t, "service"), "undefined">>
        BY <3>4, WithoutSource
      <4>3. \A t \in DetailRows(r) : ServiceSource(Selected(t, "0"))[1] = NameOf(t, "service")
        BY DEF ServiceSource, Selected
      <4>4. whole \in DOMAIN d.services
        BY <2>1, <4>1, <4>2, <4>3
      <4>5. StatusDates(r, "0", key) \subseteq StatusDates(r, v, whole)
        BY <4>2, <4>3 DEF StatusDates
      <4>6. PICK part : /\ Extremes(part, StatusDates(r, "0", key))
                        /\ e.services[key] = part[2] - part[1]
        BY <3>2
      <4>7. PICK all : /\ Extremes(all, StatusDates(r, v, whole))
                       /\ d.services[whole] = all[2] - all[1]
        BY <2>1, <4>4
      <4>8. StatusDates(r, v, whole) \in SUBSET Nat
        BY <2>1, <4>4
      <4> HIDE DEF whole
      <4>9. part[2] - part[1] <= all[2] - all[1]
        BY <4>5, <4>6, <4>7, <4>8, SpanGrows
      <4> QED
        BY <4>6, <4>7, <4>9 DEF whole
    <3> QED
      BY <3>3, <3>4
  <2> QED
    BY <2>1, <2>2, <2>3, <2>4
<1> QED
  BY <1>1, AlwaysReadable, PTL

=============================================================================
