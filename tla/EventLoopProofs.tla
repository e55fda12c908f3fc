--------------------------- MODULE EventLoopProofs ---------------------------
(***************************************************************************)
(* The safety properties of EventLoop for any number of processes,         *)
(* partitions, messages, rebalances, signals and upsets.                   *)
(***************************************************************************)
EXTENDS EventLoop, FiniteSetTheorems, SequenceTheorems, TLAPS

(***************************************************************************)
(* What the group and its members agree on.  A member owns all that it     *)
(* believes it holds or, once it was evicted, nothing.                     *)
(***************************************************************************)
Membership ==
    \A c \in Consumers :
        /\ loop[c] = "down" => holds[c] = {}
        /\ \A p \in TopicPartitions : owner[p] = c =>
              /\ p \in holds[c]
              /\ \A q \in holds[c] : owner[q] = c

(***************************************************************************)
(* Offsets: what is committed was there to be read; the owner of a         *)
(* partition reads on from where the group has committed, and has stored   *)
(* just the offset it has come to, if it has read anything.                *)
(***************************************************************************)
OwnerReadsOn(c, p) ==
    /\ committed[p] <= position[c][p]
    /\ stored[c][p] \in {NoOffset, position[c][p]}
    /\ stored[c][p] = NoOffset => position[c][p] <= StartPosition(p)

Positions ==
    \A p \in TopicPartitions :
        /\ committed[p] <= log[p]
        /\ \A c \in Consumers : /\ p \in holds[c] => position[c][p] <= log[p]
                                /\ owner[p] = c => OwnerReadsOn(c, p)

\* Whatever a member has come past was handed over or skipped, the evicted too.
Covered ==
    \A p \in TopicPartitions, o \in Offsets :
        \/ o < committed[p]
        \/ \E c \in Consumers : p \in holds[c] /\ o < position[c][p]
        => o \in RangeOf(handed[p]) \cup skipped[p]

\* A message that was handed over is handled, being handled, or died.
Accounted ==
    \A p \in TopicPartitions, o \in Offsets :
        o \in RangeOf(handed[p]) =>
            \/ o \in done[p] \cup killed[p]
            \/ \E c \in Consumers : current[c] = <<p, o>>

(***************************************************************************)
(* Without upsets every holder is the owner, and what was handed over lies *)
(* below where the owner is, or the next owner will be.                    *)
(***************************************************************************)
Behind(p, n) == \A h \in RangeOf(handed[p]) : h < n

Undisturbed ==
    upsets = 0 =>
        \A p \in TopicPartitions :
            /\ owner[p] # Departed
            /\ owner[p] = Nobody => Behind(p, committed[p])
            /\ \A c \in Consumers :
                  /\ p \in holds[c] => owner[p] = c
                  /\ owner[p] = c => /\ Behind(p, position[c][p])
                                     /\ stored[c][p] = NoOffset => Behind(p, committed[p])

(***************************************************************************)
(* How often an offset can still be handed over: once by the owner, or the *)
(* next one, unless it is past it, and once by each evicted member that is *)
(* not past it and does not know yet.  Every upset makes room for one more.*)
(***************************************************************************)
HandOvers(p, o) == {i \in DOMAIN handed[p] : handed[p][i] = o}

Evicted(p, o) == {c \in Consumers : p \in holds[c] /\ owner[p] # c /\ position[c][p] <= o}

ToCome(p, o) == IF \/ \E c \in Consumers : owner[p] = c /\ position[c][p] <= o
                   \/ owner[p] \notin Consumers /\ StartPosition(p) <= o
                THEN 1 ELSE 0

Budget ==
    \A p \in TopicPartitions, o \in Offsets :
        /\ IsFiniteSet(Evicted(p, o))
        /\ Cardinality(HandOvers(p, o)) + Cardinality(Evicted(p, o)) + ToCome(p, o)
              <= 1 + upsets

(***************************************************************************)
(* A reset is never behind an earlier one: what was skipped lies below     *)
(* where the owner is, and below where the next owner will start.          *)
(***************************************************************************)
Jumped ==
    \A p \in TopicPartitions : \A o \in skipped[p] :
        /\ o < StartPosition(p)
        /\ \A c \in Consumers : owner[p] = c => o < position[c][p]

IInv == /\ TypeOK /\ Membership /\ Positions /\ Covered /\ NoGaps /\ Accounted
        /\ OrderKept /\ Undisturbed /\ Jumped /\ SkipsBeforeFirstHandOver /\ Budget

-----------------------------------------------------------------------------
\* Every part of a step that other parts of the module have a name for.
LEMMA ReleaseType ==
    ASSUME TypeOK, NEW c \in Consumers, NEW S, Release(c, S)
    PROVE  /\ holds' \in [Consumers -> SUBSET TopicPartitions]
           /\ position' \in [Consumers -> [TopicPartitions -> Offsets]]
           /\ stored' \in [Consumers -> [TopicPartitions -> Offsets]]
  BY LoopBoundsAssumption DEF TypeOK, Release, Offsets, NoOffset

\* A commit writes what the client stored,
LEMMA CommitType ==
    ASSUME TypeOK, NEW c \in Consumers, LastCommit(c) \/ CommitStored(c)
    PROVE  /\ committed' \in [TopicPartitions -> Offsets]
           /\ LastCommit(c) => upsets' \in 0..MaxUpsets
  BY LoopBoundsAssumption DEF TypeOK, LastCommit, CommitStored, Upset

\* ... a partition that is given up gets nobody for an owner,
LEMMA DisownType ==
    ASSUME TypeOK, NEW c \in Consumers, NEW to \in {Nobody, Departed}, Disown(c, to)
    PROVE  owner' \in [TopicPartitions -> Consumers \cup {Nobody, Departed}]
  BY DEF TypeOK, Disown

\* ... and one that is taken on is read from an offset of the topic.
LEMMA StartPositionType ==
    ASSUME TypeOK, NEW p \in TopicPartitions
    PROVE  StartPosition(p) \in Offsets
  BY LoopBoundsAssumption DEF TypeOK, StartPosition, ResetPosition, Offsets

\* The offset that is handed over, and what becomes of the others.
LEMMA PollHandsOver ==
    ASSUME TypeOK, NEW c \in Consumers, NEW p \in TopicPartitions, Poll(c, p)
    PROVE  /\ position[c][p] \in Offsets /\ position[c][p] + 1 \in Offsets
           /\ handed' \in [TopicPartitions -> Seq(Offsets)]
           /\ \A q \in TopicPartitions \ {p} : handed'[q] = handed[q]
           /\ handed'[p] = Append(handed[p], position[c][p])
           /\ DOMAIN handed[p] = 1..Len(handed[p]) /\ Len(handed[p]) \in Nat
           /\ DOMAIN handed'[p] = 1..(Len(handed[p]) + 1)
           /\ \A i \in DOMAIN handed[p] : handed'[p][i] = handed[p][i]
           /\ handed'[p][Len(handed[p]) + 1] = position[c][p]
           /\ RangeOf(handed'[p]) = RangeOf(handed[p]) \cup {position[c][p]}
<1> DEFINE h == handed[p]
           o == position[c][p]
<1>1. o \in Offsets /\ o + 1 \in Offsets /\ h \in Seq(Offsets)
  BY LoopBoundsAssumption DEF TypeOK, Poll, HandOver, Offsets
<1>2. handed' = [handed EXCEPT ![p] = Append(h, o)]
  BY DEF Poll, HandOver
<1>3. Append(h, o) \in Seq(Offsets)
  BY <1>1
<1>4. /\ handed' \in [TopicPartitions -> Seq(Offsets)]
      /\ \A q \in TopicPartitions \ {p} : handed'[q] = handed[q]
      /\ handed'[p] = Append(h, o)
  BY <1>2, <1>3 DEF TypeOK
<1>5. /\ DOMAIN h = 1..Len(h) /\ Len(h) \in Nat
      /\ DOMAIN handed'[p] = 1..(Len(h) + 1)
      /\ \A i \in DOMAIN h : handed'[p][i] = h[i]
      /\ handed'[p][Len(h) + 1] = o
  BY <1>1, <1>3, <1>4, AppendProperties, LenProperties
<1>6. RangeOf(handed'[p]) = RangeOf(h) \cup {o}
  BY <1>5 DEF RangeOf
<1> QED
  BY <1>1, <1>4, <1>5, <1>6

\* The topic is empty and nobody has joined.
LEMMA TypeInit == Init => TypeOK
<1> SUFFICES ASSUME Init PROVE TypeOK
  OBVIOUS
<1>1. handed \in [TopicPartitions -> Seq(Offsets)]
  BY EmptySeq DEF Init
<1> QED
  BY <1>1, LoopBoundsAssumption
     DEF Init, TypeOK, Offsets, NoOffsets, NoOffset, NoneOf, NoMessage

\* Every action assigns values of its types.
LEMMA TypeStep == TypeOK /\ [Next]_vars => TypeOK'
<1> SUFFICES ASSUME TypeOK, [Next]_vars PROVE TypeOK'
  OBVIOUS
<1> USE LoopBoundsAssumption
<1>1. ASSUME NEW p \in TopicPartitions, Produce(p) PROVE TypeOK'
  BY SMTT(30), <1>1 DEF TypeOK, Produce, Offsets, client, process, seen, bounds
<1>2. ASSUME NEW p \in TopicPartitions, Miss(p) PROVE TypeOK'
  BY <1>2 DEF TypeOK, Miss, client, process, seen, bounds
<1>3. ASSUME NEW c \in Consumers, NEW p \in TopicPartitions, Assign(c, p) PROVE TypeOK'
  <2>1. position' \in [Consumers -> [TopicPartitions -> Offsets]]
    BY <1>3, StartPositionType DEF TypeOK, Assign
  <2>2. skipped' \in [TopicPartitions -> SUBSET Offsets]
    BY <1>3 DEF TypeOK, Assign
  <2>3. stored' \in [Consumers -> [TopicPartitions -> Offsets]]
    BY <1>3 DEF TypeOK, Assign, Offsets, NoOffset
  <2> QED
    BY <1>3, <2>1, <2>2, <2>3 DEF TypeOK, Assign, process, bounds
<1>4. ASSUME NEW c \in Consumers, NEW p \in TopicPartitions, Poll(c, p) PROVE TypeOK'
  <2>1. /\ position' \in [Consumers -> [TopicPartitions -> Offsets]]
        /\ stored' \in [Consumers -> [TopicPartitions -> Offsets]]
    BY <1>4, PollHandsOver DEF TypeOK, Poll, HandOver
  <2>2. /\ current' \in [Consumers -> (TopicPartitions \X Offsets) \cup {NoMessage}]
        /\ loop' \in [Consumers -> {"down", "polling", "handling"}]
    BY <1>4, PollHandsOver DEF TypeOK, Poll, HandOver
  <2>3. \A d \in Consumers : current'[d] # NoMessage <=> loop'[d] = "handling"
    BY <1>4 DEF TypeOK, Poll, HandOver, NoMessage
  <2> QED
    BY <1>4, <2>1, <2>2, <2>3, PollHandsOver DEF TypeOK, Poll, HandOver, broker, bounds
<1>5. ASSUME NEW c \in Consumers, Start(c) PROVE TypeOK'
  BY <1>5 DEF TypeOK, Start, broker, client, seen, bounds
<1>6. ASSUME NEW c \in Consumers, Handled(c) PROVE TypeOK'
  <2>1. current[c] \in TopicPartitions \X Offsets
    BY <1>6 DEF TypeOK, Handled
  <2>2. done' \in [TopicPartitions -> SUBSET Offsets]
    BY <1>6, <2>1 DEF TypeOK, Handled
  <2> QED
    BY <1>6, <2>2 DEF TypeOK, Handled, broker, client, bounds
<1>7. ASSUME NEW c \in Consumers, AutoCommit(c) PROVE TypeOK'
  BY <1>7, CommitType DEF TypeOK, AutoCommit, client, process, seen, bounds
<1>8. ASSUME NEW c \in Consumers, Revoke(c) PROVE TypeOK'
  BY <1>8, CommitType, ReleaseType, DisownType DEF TypeOK, Revoke, process, seen
<1>9. ASSUME NEW c \in Consumers, Evict(c) PROVE TypeOK'
  BY <1>9, DisownType DEF TypeOK, Evict, Upset, client, process, seen
<1>10. ASSUME NEW c \in Consumers, Lose(c) PROVE TypeOK'
  BY <1>10, ReleaseType DEF TypeOK, Lose, broker, process, seen, bounds
<1>11. ASSUME NEW c \in Consumers, Signal(c) PROVE TypeOK'
  BY <1>11 DEF TypeOK, Signal, broker, client, seen
<1>12. ASSUME NEW c \in Consumers, Stop(c) PROVE TypeOK'
  <2>1. \A d \in Consumers : current'[d] # NoMessage <=> loop'[d] = "handling"
    BY <1>12 DEF TypeOK, Stop
  <2> QED
    BY <1>12, <2>1, CommitType, ReleaseType, DisownType DEF TypeOK, Stop, seen
<1>13. ASSUME NEW c \in Consumers, Crash(c) PROVE TypeOK'
  <2>1. loop[c] = "handling" => current[c] \in TopicPartitions \X Offsets
    BY <1>13 DEF TypeOK
  <2>2. killed' \in [TopicPartitions -> SUBSET Offsets]
    BY <1>13, <2>1 DEF TypeOK, Crash
  <2>3. upsets' \in 0..MaxUpsets
    BY <1>13 DEF TypeOK, Crash, Upset
  <2> QED
    BY <1>13, <2>2, <2>3, ReleaseType, DisownType DEF TypeOK, Crash
<1>14. CASE UNCHANGED vars
  BY <1>14 DEF TypeOK, vars, broker, client, process, seen, bounds
<1> QED
  BY <1>1, <1>2, <1>3, <1>4, <1>5, <1>6, <1>7, <1>8, <1>9, <1>10, <1>11, <1>12, <1>13, <1>14
     DEF Next

-----------------------------------------------------------------------------
\* The member that owns a partition knows just what it owns.
LEMMA OwnerHolds ==
    ASSUME TypeOK, Membership, NEW c \in Consumers, NEW p \in TopicPartitions, owner[p] = c
    PROVE  p \in holds[c] /\ holds[c] = OwnedBy(c)
  BY DEF TypeOK, Membership, OwnedBy

\* Members take on and let go of partitions in step with the group, or are
\* evicted from all of them at once.
LEMMA MembershipStep == TypeOK /\ Membership /\ [Next]_vars => Membership'
<1> SUFFICES ASSUME TypeOK, Membership, [Next]_vars PROVE Membership'
  OBVIOUS
<1> USE MemberAssumption DEF TypeOK, Membership
<1>1. CASE \/ UNCHANGED vars
           \/ \E p \in TopicPartitions : Produce(p)
           \/ \E c \in Consumers : \/ \E p \in TopicPartitions : Poll(c, p)
                                   \/ Start(c) \/ Handled(c) \/ AutoCommit(c) \/ Signal(c)
  <2>1. UNCHANGED <<owner, holds>>
    BY <1>1 DEF vars, Produce, Poll, HandOver, Start, Handled, AutoCommit, Signal,
                broker, client
  <2>2. \A d \in Consumers : loop'[d] = "down" => loop[d] = "down"
    BY <1>1 DEF vars, Produce, Poll, HandOver, Start, Handled, AutoCommit, Signal,
                process
  <2> QED
    BY <2>1, <2>2
<1>2. ASSUME NEW p \in TopicPartitions, Miss(p) PROVE Membership'
  BY <1>2 DEF Miss, client, process
<1>3. ASSUME NEW c \in Consumers, NEW p \in TopicPartitions, Assign(c, p) PROVE Membership'
  <2>1. \A q \in holds[c] : owner[q] = c
    BY <1>3 DEF Assign, OwnedBy
  <2> QED
    BY <1>3, <2>1 DEF Assign, Polls, process
<1>4. ASSUME NEW c \in Consumers, Revoke(c) PROVE Membership'
  BY <1>4 DEF Revoke, Disown, Release, process
<1>5. ASSUME NEW c \in Consumers, Evict(c) PROVE Membership'
  BY <1>5 DEF Evict, Disown, process, client
<1>6. ASSUME NEW c \in Consumers, Lose(c) PROVE Membership'
  <2>1. \A p \in TopicPartitions : owner[p] # c
    BY <1>6, OwnerHolds DEF Lose
  <2> QED
    BY <1>6, <2>1 DEF Lose, Release, broker, process
<1>7. ASSUME NEW c \in Consumers, Stop(c) PROVE Membership'
  BY <1>7 DEF Stop, Disown, Release
<1>8. ASSUME NEW c \in Consumers, Crash(c) PROVE Membership'
  BY <1>8 DEF Crash, Disown, Release
<1> QED
  BY <1>1, <1>2, <1>3, <1>4, <1>5, <1>6, <1>7, <1>8 DEF Next

\* A commit writes what the owner has stored, and nothing else.
LEMMA CommitWrites ==
    ASSUME TypeOK, Membership, NEW c \in Consumers, CommitStored(c)
    PROVE  \A p \in TopicPartitions :
               committed'[p] = IF owner[p] = c /\ stored[c][p] # NoOffset
                               THEN stored[c][p] ELSE committed[p]
  BY OwnerHolds DEF CommitStored

\* The committed offset is never ahead of the owner, and only moves forward.
LEMMA CommitAhead ==
    ASSUME TypeOK, Membership, Positions, NEW c \in Consumers,
           CommitStored(c) \/ UNCHANGED committed
    PROVE  \A p \in TopicPartitions :
               /\ committed[p] <= committed'[p]
               /\ owner[p] # c => committed'[p] = committed[p]
               /\ owner[p] = c =>
                     /\ committed'[p] <= position[c][p]
                     /\ stored[c][p] = NoOffset => committed'[p] = committed[p]
<1> USE LoopBoundsAssumption DEF TypeOK, Offsets, Positions, OwnerReadsOn
<1> QED
  BY SMTT(30), CommitWrites

-----------------------------------------------------------------------------
(***************************************************************************)
(* A step other than Assign and Poll hands nothing over and reads nothing: *)
(* messages are added, owners commit what they have stored, and partitions *)
(* are let go.  No step takes the partitions of another member, or what it *)
(* knows of them.                                                          *)
(***************************************************************************)
Settles ==
    /\ UNCHANGED <<position, handed, skipped>>
    /\ upsets' \in {upsets, upsets + 1}
    /\ \A p \in TopicPartitions :
          /\ log[p] <= log'[p]
          /\ \/ committed'[p] = committed[p]
             \/ /\ owner[p] \in Consumers
                /\ stored[owner[p]][p] # NoOffset
                /\ committed'[p] = stored[owner[p]][p]
    /\ \A p \in TopicPartitions, c \in Consumers :
          /\ p \in holds'[c] => p \in holds[c]
          /\ owner'[p] = c => owner[p] = c /\ stored'[c][p] = stored[c][p]

\* Without an upset partitions are given up after a commit, and nobody holds on.
LetsGoInOrder ==
    upsets' = upsets =>
        \A p \in TopicPartitions :
            /\ owner'[p] = Departed => owner[p] = Departed
            /\ \A c \in Consumers :
                  owner[p] = c /\ owner'[p] # c =>
                      /\ p \notin holds'[c]
                      /\ stored[c][p] # NoOffset => committed'[p] = stored[c][p]

\* A member lets its partitions go: Revoke, Evict, Stop or Crash.
LEMMA LettingGo ==
    ASSUME TypeOK, Membership, NEW c \in Consumers, NEW to \in {Nobody, Departed},
           Disown(c, to), UNCHANGED <<log, handed, skipped>>,
           \/ /\ LastCommit(c) \/ (Upset /\ UNCHANGED committed)
              /\ Release(c, holds[c])
              /\ to = Nobody \/ upsets' # upsets
           \/ Upset /\ UNCHANGED <<committed, client>>
    PROVE  Settles /\ LetsGoInOrder
<1> USE LoopBoundsAssumption, MemberAssumption
<1>1. upsets \in Nat /\ upsets' \in {upsets, upsets + 1}
  BY DEF TypeOK, LastCommit, Upset
<1>2. UNCHANGED position
  BY DEF Release, client
<1>3. \A p \in TopicPartitions :
          \/ committed'[p] = committed[p]
          \/ owner[p] = c /\ stored[c][p] # NoOffset /\ committed'[p] = stored[c][p]
  BY CommitWrites DEF LastCommit
<1>4. \A p \in TopicPartitions : owner'[p] = IF owner[p] = c THEN to ELSE owner[p]
  BY DEF Disown
<1>5. \A p \in TopicPartitions, d \in Consumers :
          /\ p \in holds'[d] => p \in holds[d]
          /\ d # c => stored'[d][p] = stored[d][p]
  BY DEF TypeOK, Release, client
<1>6. \A p \in TopicPartitions : log[p] <= log'[p]
  BY DEF TypeOK, Offsets
<1>7. Settles
  BY <1>1, <1>2, <1>3, <1>4, <1>5, <1>6 DEF Settles, Nobody, Departed
<1>8. ASSUME upsets' = upsets PROVE CommitStored(c) /\ Release(c, holds[c]) /\ to = Nobody
  BY <1>1, <1>8 DEF LastCommit, Upset
<1>9. ASSUME upsets' = upsets
      PROVE  \A p \in TopicPartitions :
                /\ p \notin holds'[c]
                /\ owner[p] = c /\ stored[c][p] # NoOffset => committed'[p] = stored[c][p]
  BY <1>8, <1>9, CommitWrites DEF TypeOK, Release
<1>10. LetsGoInOrder
  BY <1>4, <1>8, <1>9 DEF LetsGoInOrder, Nobody, Departed
<1> QED
  BY <1>7, <1>10

\* Every step but taking on a partition or polling one only settles or lets go.
LEMMA HowStepsEnd ==
    ASSUME TypeOK, Membership, [Next]_vars
    PROVE  \/ Settles /\ LetsGoInOrder
           \/ \E c \in Consumers, p \in TopicPartitions : Assign(c, p) \/ Poll(c, p)
<1> USE LoopBoundsAssumption, MemberAssumption
<1> DEFINE Goal == Settles /\ LetsGoInOrder
<1>1. ASSUME UNCHANGED <<owner, holds, position, stored, handed, skipped, upsets>>,
             \A p \in TopicPartitions : log[p] <= log'[p],
             \A p \in TopicPartitions : committed'[p] = committed[p]
      PROVE  Goal
  BY <1>1 DEF Settles, LetsGoInOrder
<1>2. \A p \in TopicPartitions : log[p] <= log[p]
  BY DEF TypeOK, Offsets
<1>3. ASSUME NEW p \in TopicPartitions, Produce(p) PROVE Goal
  <2>1. \A q \in TopicPartitions : log[q] <= log'[q]
    BY <1>3 DEF TypeOK, Offsets, Produce
  <2> QED
    BY <1>1, <1>3, <2>1 DEF Produce, client, seen, bounds
<1>4. ASSUME NEW p \in TopicPartitions, Miss(p) PROVE Goal
  <2>1. UNCHANGED <<log, committed, holds, position, stored, handed, skipped, upsets>>
    BY <1>4 DEF Miss, client, seen, bounds
  <2>2. \A q \in TopicPartitions : owner[q] = owner'[q] \/ (owner[q] = Departed /\ owner'[q] = Nobody)
    BY <1>4 DEF TypeOK, Miss
  <2> QED
    BY <1>2, <2>1, <2>2 DEF Settles, LetsGoInOrder, Nobody, Departed
<1>5. ASSUME NEW c \in Consumers, Start(c) \/ Handled(c) \/ Signal(c) PROVE Goal
  BY <1>1, <1>2, <1>5 DEF Start, Handled, Signal, broker, client, seen, bounds
<1>6. ASSUME NEW c \in Consumers, AutoCommit(c) PROVE Goal
  <2>1. UNCHANGED <<log, owner, holds, position, stored, handed, skipped, upsets>>
    BY <1>6 DEF AutoCommit, client, seen, bounds
  <2>2. \A p \in TopicPartitions :
            \/ committed'[p] = committed[p]
            \/ owner[p] = c /\ stored[c][p] # NoOffset /\ committed'[p] = stored[c][p]
    BY <1>6, CommitWrites DEF AutoCommit
  <2> QED
    BY <1>2, <2>1, <2>2 DEF Settles, LetsGoInOrder
<1>7. ASSUME NEW c \in Consumers, Revoke(c) PROVE Goal
  <2>1. /\ Disown(c, Nobody) /\ UNCHANGED <<log, handed, skipped>>
        /\ LastCommit(c) /\ Release(c, holds[c])
    BY <1>7 DEF Revoke, seen
  <2> QED
    BY <2>1, LettingGo
<1>8. ASSUME NEW c \in Consumers, Evict(c) PROVE Goal
  BY <1>8, LettingGo DEF Evict, seen
<1>9. ASSUME NEW c \in Consumers, Stop(c) PROVE Goal
  <2>1. /\ Disown(c, Nobody) /\ UNCHANGED <<log, handed, skipped>>
        /\ LastCommit(c) /\ Release(c, holds[c])
    BY <1>9 DEF Stop, seen
  <2> QED
    BY <2>1, LettingGo
<1>10. ASSUME NEW c \in Consumers, Crash(c) PROVE Goal
  <2>1. upsets' # upsets
    BY <1>10 DEF TypeOK, Crash, Upset
  <2> QED
    BY <1>10, <2>1, LettingGo DEF Crash
<1>11. ASSUME NEW c \in Consumers, Lose(c) PROVE Goal
  <2>1. \A p \in TopicPartitions : owner[p] # c
    BY <1>11, OwnerHolds DEF Lose
  <2>2. UNCHANGED <<log, committed, owner, position, handed, skipped, upsets>>
    BY <1>11 DEF Lose, Release, broker, seen, bounds
  <2>3. \A p \in TopicPartitions, d \in Consumers :
            /\ p \in holds'[d] => p \in holds[d]
            /\ d # c => stored'[d][p] = stored[d][p]
    BY <1>11 DEF TypeOK, Lose, Release
  <2> QED
    BY <1>2, <2>1, <2>2, <2>3 DEF Settles, LetsGoInOrder
<1>12. CASE UNCHANGED vars
  BY <1>1, <1>2, <1>12 DEF vars, broker, client, seen, bounds
<1> QED
  BY <1>3, <1>4, <1>5, <1>6, <1>7, <1>8, <1>9, <1>10, <1>11, <1>12 DEF Next

\* What a member receives, and that nothing else moves.
LEMMA AssignMoves ==
    ASSUME TypeOK, Membership, NEW c \in Consumers, NEW p \in TopicPartitions, Assign(c, p)
    PROVE  /\ UNCHANGED <<log, committed, handed, upsets>>
           /\ owner[p] = Nobody /\ p \notin holds[c]
           /\ owner'[p] = c /\ p \in holds'[c]
           /\ position'[c][p] = StartPosition(p) /\ stored'[c][p] = NoOffset
           /\ \A q \in TopicPartitions : skipped[q] \subseteq skipped'[q]
           /\ \A o \in Offsets : committed[p] <= o /\ o < StartPosition(p)
                                    => o \in RangeOf(handed[p]) \cup skipped'[p]
           /\ \A q \in TopicPartitions, d \in Consumers : q # p \/ d # c =>
                 /\ position'[d][q] = position[d][q] /\ stored'[d][q] = stored[d][q]
                 /\ q \in holds'[d] <=> q \in holds[d]
           /\ \A q \in TopicPartitions \ {p} : owner'[q] = owner[q]
           /\ \A q \in TopicPartitions : StartPosition(q)' = StartPosition(q)
<1>1. UNCHANGED <<log, committed, handed, upsets>>
  BY DEF Assign, bounds
<1>2. owner[p] = Nobody /\ p \notin holds[c]
  BY MemberAssumption DEF Assign, OwnedBy, Nobody
<1>3. /\ owner'[p] = c /\ p \in holds'[c]
      /\ position'[c][p] = StartPosition(p) /\ stored'[c][p] = NoOffset
  BY DEF TypeOK, Assign
<1>4. /\ \A q \in TopicPartitions : skipped[q] \subseteq skipped'[q]
      /\ \A o \in Offsets : committed[p] <= o /\ o < StartPosition(p)
                               => o \in RangeOf(handed[p]) \cup skipped'[p]
  BY DEF TypeOK, Assign
<1>5. /\ \A q \in TopicPartitions, d \in Consumers : q # p \/ d # c =>
            /\ position'[d][q] = position[d][q] /\ stored'[d][q] = stored[d][q]
            /\ q \in holds'[d] <=> q \in holds[d]
      /\ \A q \in TopicPartitions \ {p} : owner'[q] = owner[q]
  BY DEF TypeOK, Assign
<1>6. \A q \in TopicPartitions : StartPosition(q)' = StartPosition(q)
  BY <1>1 DEF StartPosition, ResetPosition
<1> QED
  BY <1>1, <1>2, <1>3, <1>4, <1>5, <1>6

\* What a member reads, and that nothing else moves.
LEMMA PollMoves ==
    ASSUME TypeOK, NEW c \in Consumers, NEW p \in TopicPartitions, Poll(c, p)
    PROVE  /\ UNCHANGED <<log, committed, owner, holds, skipped, upsets>>
           /\ p \in holds[c] /\ position[c][p] < log[p]
           /\ position'[c][p] = position[c][p] + 1 /\ stored'[c][p] = position[c][p] + 1
           /\ \A q \in TopicPartitions, d \in Consumers : q # p \/ d # c =>
                 position'[d][q] = position[d][q] /\ stored'[d][q] = stored[d][q]
           /\ \A q \in TopicPartitions : StartPosition(q)' = StartPosition(q)
<1>1. UNCHANGED <<log, committed, owner, holds, skipped, upsets>>
  BY DEF Poll, HandOver, broker, bounds
<1>2. /\ p \in holds[c] /\ position[c][p] < log[p]
      /\ position'[c][p] = position[c][p] + 1 /\ stored'[c][p] = position[c][p] + 1
      /\ \A q \in TopicPartitions, d \in Consumers : q # p \/ d # c =>
            position'[d][q] = position[d][q] /\ stored'[d][q] = stored[d][q]
  BY DEF TypeOK, Poll, HandOver
<1>3. \A q \in TopicPartitions : StartPosition(q)' = StartPosition(q)
  BY <1>1 DEF StartPosition, ResetPosition
<1> QED
  BY <1>1, <1>2, <1>3

\* A poll reads one offset of one partition.
LEMMA PollReads ==
    ASSUME TypeOK, NEW c \in Consumers, NEW p \in TopicPartitions, Poll(c, p)
    PROVE  /\ RangeOf(handed'[p]) = RangeOf(handed[p]) \cup {position[c][p]}
           /\ \A q \in TopicPartitions \ {p} : handed'[q] = handed[q]
<1>1. RangeOf(handed'[p]) = RangeOf(handed[p]) \cup {position[c][p]}
  BY PollHandsOver
<1>2. \A q \in TopicPartitions \ {p} : handed'[q] = handed[q]
  BY PollHandsOver
<1> QED
  BY <1>1, <1>2

\* What the owner stores is where it has come to.
LEMMA OwnersPlace ==
    ASSUME TypeOK, Membership, Positions, NEW c \in Consumers, NEW p \in TopicPartitions,
           owner[p] = c
    PROVE  /\ p \in holds[c] /\ position[c][p] <= log[p] /\ committed[p] <= position[c][p]
           /\ stored[c][p] \in {NoOffset, position[c][p]}
           /\ stored[c][p] = NoOffset => position[c][p] <= StartPosition(p)
  BY OwnerHolds DEF Positions, OwnerReadsOn

\* Offsets are numbers.
LEMMA OffsetNumbers ==
    ASSUME TypeOK
    PROVE  /\ Offsets \subseteq Nat
           /\ \A p \in TopicPartitions :
                 /\ log[p] \in Nat /\ committed[p] \in Nat
                 /\ StartPosition(p) \in Nat
                 /\ \A c \in Consumers : position[c][p] \in Nat /\ stored[c][p] \in Nat
  BY LoopBoundsAssumption, OffsetResetAssumption
     DEF TypeOK, Offsets, StartPosition, ResetPosition, NoOffset

\* ... after a step as before it.
LEMMA NextOffsetNumbers ==
    ASSUME TypeOK'
    PROVE  \A p \in TopicPartitions :
              /\ log'[p] \in Nat /\ committed'[p] \in Nat /\ StartPosition(p)' \in Nat
              /\ \A c \in Consumers : position'[c][p] \in Nat /\ stored'[c][p] \in Nat
  BY LoopBoundsAssumption, OffsetResetAssumption
     DEF TypeOK, Offsets, StartPosition, ResetPosition, NoOffset

\* What a commit settles when other members let go or read on.
LEMMA SettledCommit ==
    ASSUME TypeOK, TypeOK', Membership, Positions, Settles, NEW p \in TopicPartitions
    PROVE  /\ committed[p] <= committed'[p] /\ committed'[p] <= log'[p]
           /\ \A c \in Consumers : owner[p] = c /\ stored[c][p] = NoOffset
                 => committed'[p] = committed[p]
           /\ committed'[p] = committed[p] => StartPosition(p) <= StartPosition(p)'
           /\ \/ committed'[p] = committed[p]
              \/ \E c \in Consumers : owner[p] = c /\ committed'[p] = position[c][p]
<1>1. CASE committed'[p] = committed[p]
  <2>1. committed'[p] <= log'[p]
    BY <1>1, OffsetNumbers, NextOffsetNumbers DEF Settles, Positions
  <2>2. StartPosition(p) <= StartPosition(p)'
    BY <1>1, OffsetNumbers, OffsetResetAssumption DEF Settles, StartPosition, ResetPosition
  <2> QED
    BY <1>1, <2>1, <2>2, OffsetNumbers
<1>2. CASE committed'[p] # committed[p]
  <2>1. PICK c \in Consumers : /\ owner[p] = c /\ stored[c][p] # NoOffset
                               /\ committed'[p] = stored[c][p] /\ log[p] <= log'[p]
    BY <1>2 DEF Settles
  <2>2. committed'[p] = position[c][p]
    BY <2>1, OwnersPlace
  <2>3. committed[p] <= committed'[p]
    BY <2>1, <2>2, OwnersPlace
  <2>4. committed'[p] <= log'[p]
    BY <2>1, <2>2, OwnersPlace, OffsetNumbers, NextOffsetNumbers
  <2> QED
    BY <1>2, <2>1, <2>2, <2>3, <2>4
<1> QED
  BY <1>1, <1>2

\* Nobody reads beyond the log, or commits beyond what it read.
LEMMA PositionsStep ==
    TypeOK /\ Membership /\ Positions /\ [Next]_vars => Positions'
<1> SUFFICES ASSUME TypeOK, Membership, Positions, [Next]_vars, TypeOK' PROVE Positions'
  BY TypeStep
<1>1. CASE Settles
  <2>1. ASSUME NEW p \in TopicPartitions, NEW c \in Consumers, p \in holds'[c]
        PROVE  position'[c][p] <= log'[p]
    <3>1. p \in holds[c] /\ position'[c][p] = position[c][p] /\ log[p] <= log'[p]
      BY <1>1, <2>1 DEF Settles
    <3>2. position[c][p] <= log[p]
      BY <3>1 DEF Positions
    <3> QED
      BY <3>1, <3>2, OffsetNumbers, NextOffsetNumbers
  <2>2. ASSUME NEW p \in TopicPartitions, NEW c \in Consumers, owner'[p] = c
        PROVE  OwnerReadsOn(c, p)'
    <3>1. /\ owner[p] = c /\ stored'[c][p] = stored[c][p]
          /\ position'[c][p] = position[c][p]
      BY <1>1, <2>2 DEF Settles
    <3>2. committed'[p] = committed[p] \/ committed'[p] = position[c][p]
      BY <1>1, <3>1, SettledCommit
    <3>3. committed'[p] <= position'[c][p]
      BY <3>1, <3>2, OwnersPlace, OffsetNumbers, NextOffsetNumbers
    <3>4. stored'[c][p] = NoOffset => position'[c][p] <= StartPosition(p)'
      <4>1. ASSUME stored[c][p] = NoOffset
            PROVE  /\ position[c][p] <= StartPosition(p)
                   /\ StartPosition(p) <= StartPosition(p)'
        BY <1>1, <3>1, <4>1, SettledCommit, OwnersPlace
      <4>2. /\ position[c][p] \in Nat /\ StartPosition(p) \in Nat
            /\ StartPosition(p)' \in Nat
        BY OffsetNumbers, NextOffsetNumbers
      <4> QED
        BY <3>1, <4>1, <4>2
    <3> QED
      BY <3>1, <3>3, <3>4, OwnersPlace DEF OwnerReadsOn
  <2> QED
    BY <1>1, <2>1, <2>2, SettledCommit DEF Positions
<1>2. ASSUME NEW c \in Consumers, NEW p \in TopicPartitions, Assign(c, p) PROVE Positions'
  <2>1. committed[p] <= StartPosition(p) /\ StartPosition(p) <= log[p]
    BY OffsetNumbers, OffsetResetAssumption
       DEF Positions, StartPosition, ResetPosition, NoOffset
  <2>2. OwnerReadsOn(c, p)'
    BY <1>2, <2>1, AssignMoves, OffsetNumbers DEF OwnerReadsOn
  <2>3. ASSUME NEW d \in Consumers, NEW q \in TopicPartitions, d # c \/ q # p
        PROVE  /\ q \in holds'[d] => position'[d][q] <= log'[q]
               /\ owner'[q] = d => OwnerReadsOn(d, q)'
    BY <1>2, <2>3, AssignMoves DEF Positions, OwnerReadsOn
  <2> QED
    BY <1>2, <2>1, <2>2, <2>3, AssignMoves DEF Positions
<1>3. ASSUME NEW c \in Consumers, NEW p \in TopicPartitions, Poll(c, p) PROVE Positions'
  <2>1. position'[c][p] <= log'[p] /\ (owner'[p] = c => OwnerReadsOn(c, p)')
    BY <1>3, PollMoves, OwnersPlace, OffsetNumbers, NextOffsetNumbers DEF OwnerReadsOn, NoOffset
  <2>2. ASSUME NEW d \in Consumers, NEW q \in TopicPartitions, d # c \/ q # p
        PROVE  /\ q \in holds'[d] => position'[d][q] <= log'[q]
               /\ owner'[q] = d => OwnerReadsOn(d, q)'
    BY <1>3, <2>2, PollMoves DEF Positions, OwnerReadsOn
  <2> QED
    BY <1>3, <2>1, <2>2, PollMoves DEF Positions
<1> QED
  BY <1>1, <1>2, <1>3, HowStepsEnd

-----------------------------------------------------------------------------
\* What was handed over or skipped stays so.
LEMMA SeenGrows ==
    ASSUME TypeOK, Membership, [Next]_vars, NEW p \in TopicPartitions
    PROVE  /\ RangeOf(handed[p]) \subseteq RangeOf(handed'[p])
           /\ skipped[p] \subseteq skipped'[p]
<1>1. CASE Settles
  BY <1>1 DEF Settles
<1>2. ASSUME NEW c \in Consumers, NEW q \in TopicPartitions, Assign(c, q)
      PROVE  handed' = handed /\ skipped[p] \subseteq skipped'[p]
  BY <1>2, AssignMoves
<1>3. ASSUME NEW c \in Consumers, NEW q \in TopicPartitions, Poll(c, q)
      PROVE  /\ RangeOf(handed[p]) \subseteq RangeOf(handed'[p])
             /\ skipped' = skipped
  BY <1>3, PollMoves, PollReads
<1> QED
  BY <1>1, <1>2, <1>3, HowStepsEnd

\* Reading from a committed offset on, a client leaves nothing before it unread.
LEMMA CoveredStep ==
    TypeOK /\ Membership /\ Positions /\ Covered /\ [Next]_vars => Covered'
<1> SUFFICES ASSUME TypeOK, TypeOK', Membership, Positions, Covered, [Next]_vars,
                    NEW p \in TopicPartitions, NEW o \in Offsets,
                    \/ o < committed'[p]
                    \/ \E c \in Consumers : p \in holds'[c] /\ o < position'[c][p]
             PROVE  o \in RangeOf(handed'[p]) \cup skipped'[p]
  BY TypeStep DEF Covered
<1>1. ASSUME \/ o < committed[p]
             \/ \E c \in Consumers : p \in holds[c] /\ o < position[c][p]
      PROVE  o \in RangeOf(handed'[p]) \cup skipped'[p]
  BY <1>1, SeenGrows DEF Covered
<1>2. CASE Settles
  <2>1. ASSUME NEW c \in Consumers, p \in holds'[c], o < position'[c][p]
        PROVE  p \in holds[c] /\ o < position[c][p]
    BY <1>2, <2>1 DEF Settles
  <2>2. ASSUME o < committed'[p]
        PROVE  \/ o < committed[p]
               \/ \E c \in Consumers : p \in holds[c] /\ o < position[c][p]
    BY <1>2, <2>2, SettledCommit, OwnerHolds
  <2> QED
    BY <1>1, <2>1, <2>2
<1>3. ASSUME NEW c \in Consumers, NEW q \in TopicPartitions, Assign(c, q)
      PROVE  o \in RangeOf(handed'[p]) \cup skipped'[p]
  <2>1. ASSUME p = q, ~(o < committed[p]), o < StartPosition(p)
        PROVE  o \in RangeOf(handed'[p]) \cup skipped'[p]
    <3>1. committed[p] <= o
      BY <2>1, OffsetNumbers
    <3> QED
      BY <1>3, <2>1, <3>1, AssignMoves
  <2>2. ASSUME NEW d \in Consumers, p \in holds'[d], o < position'[d][p], p # q \/ d # c
        PROVE  p \in holds[d] /\ o < position[d][p]
    BY <1>3, <2>2, AssignMoves
  <2>3. committed' = committed /\ position'[c][q] = StartPosition(q)
    BY <1>3, AssignMoves
  <2> QED
    BY <1>1, <2>1, <2>2, <2>3
<1>4. ASSUME NEW c \in Consumers, NEW q \in TopicPartitions, Poll(c, q)
      PROVE  o \in RangeOf(handed'[p]) \cup skipped'[p]
  <2>1. ASSUME p = q, o < position[c][p] + 1
        PROVE  \/ o < position[c][p] /\ p \in holds[c]
               \/ o \in RangeOf(handed'[p])
    <3>1. o < position[c][p] \/ o = position[c][p]
      BY <2>1, OffsetNumbers
    <3> QED
      BY <1>4, <2>1, <3>1, PollMoves, PollReads
  <2>2. ASSUME NEW d \in Consumers, p \in holds'[d], o < position'[d][p], p # q \/ d # c
        PROVE  p \in holds[d] /\ o < position[d][p]
    BY <1>4, <2>2, PollMoves
  <2>3. committed' = committed /\ position'[c][q] = position[c][q] + 1
    BY <1>4, PollMoves
  <2> QED
    BY <1>1, <2>1, <2>2, <2>3
<1> QED
  BY <1>2, <1>3, <1>4, HowStepsEnd

\* The message handed over next has all before it handed over or skipped.
LEMMA NoGapsStep ==
    TypeOK /\ Membership /\ Covered /\ NoGaps /\ [Next]_vars => NoGaps'
<1> SUFFICES ASSUME TypeOK, Membership, Covered, NoGaps, [Next]_vars,
                    NEW p \in TopicPartitions, NEW o \in Offsets,
                    NEW h \in RangeOf(handed'[p]), o < h
             PROVE  o \in RangeOf(handed'[p]) \cup skipped'[p]
  BY DEF NoGaps
<1>1. CASE h \in RangeOf(handed[p])
  BY <1>1, SeenGrows DEF NoGaps
<1>2. CASE h \notin RangeOf(handed[p])
  <2>1. handed' # handed
    BY <1>2
  <2>2. PICK c \in Consumers, q \in TopicPartitions : Poll(c, q)
    BY <2>1, HowStepsEnd, AssignMoves DEF Settles
  <2>3. p = q /\ h = position[c][p] /\ p \in holds[c]
    <3>1. p = q
      BY <1>2, <2>2, PollReads
    <3>2. RangeOf(handed'[q]) = RangeOf(handed[q]) \cup {position[c][q]}
      BY <2>2, PollReads
    <3>3. p \in holds[c]
      BY <2>2, <3>1, PollMoves
    <3> QED
      BY <1>2, <3>1, <3>2, <3>3
  <2> QED
    BY <2>3, SeenGrows DEF Covered
<1> QED
  BY <1>1, <1>2

-----------------------------------------------------------------------------
\* A message has an offset.
LEMMA SomeMessage ==
    ASSUME NEW p \in TopicPartitions, NEW o \in Offsets
    PROVE  <<p, o>> # NoMessage
  BY DEF NoMessage

\* Once handed over, a message is on its way: onMessage returns or is killed.
LEMMA AccountedStep ==
    TypeOK /\ Membership /\ Accounted /\ [Next]_vars => Accounted'
<1> SUFFICES ASSUME TypeOK, Membership, Accounted, [Next]_vars,
                    NEW p \in TopicPartitions, NEW o \in Offsets, o \in RangeOf(handed'[p])
             PROVE  \/ o \in done'[p] \cup killed'[p]
                    \/ \E c \in Consumers : current'[c] = <<p, o>>
  BY DEF Accounted
<1> DEFINE Goal == \/ o \in done'[p] \cup killed'[p]
                   \/ \E c \in Consumers : current'[c] = <<p, o>>
<1>1. ASSUME handed' = handed, UNCHANGED <<done, killed, current>> PROVE Goal
  BY <1>1 DEF Accounted
<1>2. ASSUME NEW c \in Consumers, handed' = handed,
             \A q \in TopicPartitions : done[q] \subseteq done'[q] /\ killed[q] \subseteq killed'[q],
             \A d \in Consumers \ {c} : current'[d] = current[d],
             current[c] = <<p, o>> => o \in done'[p] \cup killed'[p]
      PROVE  Goal
  BY <1>2 DEF Accounted
<1>3. ASSUME NEW c \in Consumers, NEW q \in TopicPartitions, Poll(c, q) PROVE Goal
  <2>1. /\ UNCHANGED <<done, killed>> /\ loop[c] = "polling"
        /\ current' = [current EXCEPT ![c] = <<q, position[c][q]>>]
    BY <1>3 DEF Poll, HandOver, Polls
  <2>2. current'[c] = <<q, position[c][q]>> /\ current[c] = NoMessage
        /\ \A d \in Consumers \ {c} : current'[d] = current[d]
    BY <2>1 DEF TypeOK
  <2>3. CASE o \in RangeOf(handed[p])
    BY <2>1, <2>2, <2>3, SomeMessage DEF Accounted
  <2>4. CASE o \notin RangeOf(handed[p])
    <3>1. RangeOf(handed'[q]) = RangeOf(handed[q]) \cup {position[c][q]}
      BY <1>3, PollReads
    <3>2. p = q
      BY <1>3, <2>4, PollReads
    <3> QED
      BY <2>2, <2>4, <3>1, <3>2
  <2> QED
    BY <2>3, <2>4
<1>4. ASSUME NEW c \in Consumers, Handled(c) PROVE Goal
  <2>1. current[c] \in TopicPartitions \X Offsets
    BY <1>4 DEF TypeOK, Handled
  <2>2. \A q \in TopicPartitions : done[q] \subseteq done'[q]
    BY <1>4, <2>1 DEF TypeOK, Handled
  <2>3. ASSUME current[c] = <<p, o>> PROVE o \in done'[p]
    BY <1>4, <2>3 DEF TypeOK, Handled
  <2>4. /\ UNCHANGED <<handed, killed>>
        /\ \A d \in Consumers \ {c} : current'[d] = current[d]
    BY <1>4 DEF TypeOK, Handled
  <2> QED
    BY <1>2, <2>2, <2>3, <2>4
<1>5. ASSUME NEW c \in Consumers, Crash(c) PROVE Goal
  <2>1. loop[c] = "handling" => current[c] \in TopicPartitions \X Offsets
    BY <1>5 DEF TypeOK
  <2>2. \A q \in TopicPartitions : killed[q] \subseteq killed'[q]
    BY <1>5, <2>1 DEF TypeOK, Crash
  <2>3. ASSUME current[c] = <<p, o>> PROVE o \in killed'[p]
    <3>1. loop[c] = "handling"
      BY <2>3, SomeMessage DEF TypeOK
    <3> QED
      BY <1>5, <2>3, <3>1 DEF TypeOK, Crash
  <2>4. /\ UNCHANGED <<handed, done>>
        /\ \A d \in Consumers \ {c} : current'[d] = current[d]
    BY <1>5 DEF TypeOK, Crash
  <2> QED
    BY <1>2, <2>2, <2>3, <2>4
<1>6. ASSUME NEW q \in TopicPartitions, Produce(q) \/ Miss(q) PROVE Goal
  BY <1>1, <1>6 DEF Produce, Miss, process, seen
<1>7. ASSUME NEW c \in Consumers,
             \/ \E q \in TopicPartitions : Assign(c, q)
             \/ Start(c) \/ AutoCommit(c) \/ Revoke(c) \/ Evict(c)
             \/ Lose(c) \/ Signal(c) \/ Stop(c)
      PROVE  Goal
  BY <1>1, <1>7
     DEF Assign, Start, AutoCommit, Revoke, Evict, Lose, Signal, Stop, process, seen
<1>8. CASE UNCHANGED vars
  BY <1>1, <1>8 DEF vars, process, seen
<1> QED
  BY <1>3, <1>4, <1>5, <1>6, <1>7, <1>8 DEF Next

-----------------------------------------------------------------------------
\* Without upsets what is handed over next lies above all that was.
LEMMA UndisturbedStep ==
    /\ TypeOK /\ Membership /\ Positions /\ Undisturbed
    /\ [Next]_vars
    => Undisturbed'
<1> SUFFICES ASSUME TypeOK, TypeOK', Membership, Positions, Undisturbed, [Next]_vars,
                    upsets' = 0
             PROVE  Undisturbed'
  BY TypeStep DEF Undisturbed
<1> DEFINE
      Ordered(p) == /\ owner[p] # Departed
                    /\ owner[p] = Nobody => Behind(p, committed[p])
      Owned(c, p) == /\ p \in holds[c] => owner[p] = c
                     /\ owner[p] = c =>
                           /\ Behind(p, position[c][p])
                           /\ stored[c][p] = NoOffset => Behind(p, committed[p])
<1>1. CASE Settles /\ LetsGoInOrder
  <2>1. upsets = 0 /\ upsets' = upsets
    BY <1>1 DEF Settles, TypeOK
  <2>2. \A p \in TopicPartitions : Ordered(p) /\ \A c \in Consumers : Owned(c, p)
    BY <2>1 DEF Undisturbed
  <2>3. ASSUME NEW p \in TopicPartitions PROVE owner'[p] # Departed
    BY <1>1, <2>1, <2>2 DEF LetsGoInOrder
  <2>4. ASSUME NEW p \in TopicPartitions, owner'[p] = Nobody
        PROVE  Behind(p, committed[p])'
    <3>1. CASE owner[p] = Nobody
      <4>1. committed'[p] = committed[p]
        BY <1>1, <3>1, MemberAssumption DEF Settles
      <4> QED
        BY <1>1, <2>2, <3>1, <4>1 DEF Settles, Behind
    <3>2. CASE owner[p] # Nobody
      <4>1. PICK c \in Consumers : owner[p] = c
        BY <2>2, <3>2 DEF TypeOK
      <4>2. c # Nobody
        BY MemberAssumption
      <4>3. CASE stored[c][p] = NoOffset
        BY <1>1, <2>2, <4>1, <4>3, SettledCommit DEF Settles, Behind
      <4>4. CASE stored[c][p] # NoOffset
        <5>1. committed'[p] = position[c][p]
          BY <1>1, <2>1, <2>4, <4>1, <4>2, <4>4, OwnersPlace DEF LetsGoInOrder
        <5> QED
          BY <1>1, <2>2, <4>1, <5>1 DEF Settles, Behind
      <4> QED
        BY <4>3, <4>4
    <3> QED
      BY <3>1, <3>2
  <2>5. ASSUME NEW p \in TopicPartitions, NEW c \in Consumers, p \in holds'[c]
        PROVE  owner'[p] = c
    BY <1>1, <2>1, <2>2, <2>5 DEF Settles, LetsGoInOrder
  <2>6. ASSUME NEW p \in TopicPartitions, NEW c \in Consumers, owner'[p] = c
        PROVE  /\ Behind(p, position[c][p])'
               /\ stored'[c][p] = NoOffset => Behind(p, committed[p])'
    <3>1. owner[p] = c /\ stored'[c][p] = stored[c][p] /\ UNCHANGED <<position, handed>>
      BY <1>1, <2>6 DEF Settles
    <3>2. stored[c][p] = NoOffset => committed'[p] = committed[p]
      BY <1>1, <3>1, SettledCommit
    <3> QED
      BY <2>2, <3>1, <3>2 DEF Behind
  <2> QED
    BY <2>3, <2>4, <2>5, <2>6 DEF Undisturbed
<1>2. ASSUME NEW c \in Consumers, NEW p \in TopicPartitions, Assign(c, p)
      PROVE  Undisturbed'
  <2>1. \A q \in TopicPartitions : Ordered(q) /\ \A d \in Consumers : Owned(d, q)
    BY <1>2, AssignMoves DEF Undisturbed
  <2>2. ASSUME NEW q \in TopicPartitions \ {p}
        PROVE  Ordered(q)' /\ \A d \in Consumers : Owned(d, q)'
    BY <1>2, <2>1, AssignMoves DEF Behind
  <2>3. Nobody \notin Consumers /\ Departed \notin Consumers
    BY MemberAssumption
  <2>4. Behind(p, committed[p])' /\ Behind(p, position[c][p])'
    <3>1. \A h \in RangeOf(handed[p]) : h < committed[p]
      BY <1>2, <2>1, AssignMoves DEF Behind
    <3>2. committed[p] <= StartPosition(p)
      BY OffsetNumbers, OffsetResetAssumption
         DEF Positions, StartPosition, ResetPosition, NoOffset
    <3>3. RangeOf(handed[p]) \subseteq Nat
      BY SMTT(30), OffsetNumbers DEF TypeOK, RangeOf
    <3> QED
      <4>1. /\ committed'[p] = committed[p] /\ position'[c][p] = StartPosition(p)
            /\ handed' = handed
        BY <1>2, AssignMoves
      <4>2. committed[p] \in Nat /\ StartPosition(p) \in Nat
        BY OffsetNumbers
      <4>3. \A h \in RangeOf(handed[p]) : h < StartPosition(p)
        BY <3>1, <3>2, <3>3, <4>2
      <4> QED
        BY <3>1, <4>1, <4>3 DEF Behind
  <2>5. owner'[p] = c /\ \A d \in Consumers \ {c} : p \notin holds'[d]
    BY <1>2, <2>1, <2>3, AssignMoves
  <2>6. Ordered(p)' /\ \A d \in Consumers : Owned(d, p)'
    BY <2>3, <2>4, <2>5
  <2> QED
    BY <2>2, <2>6 DEF Undisturbed
<1>3. ASSUME NEW c \in Consumers, NEW p \in TopicPartitions, Poll(c, p)
      PROVE  Undisturbed'
  <2>1. \A q \in TopicPartitions : Ordered(q) /\ \A d \in Consumers : Owned(d, q)
    BY <1>3, PollMoves DEF Undisturbed
  <2>2. ASSUME NEW q \in TopicPartitions \ {p}
        PROVE  Ordered(q)' /\ \A d \in Consumers : Owned(d, q)'
    <3>1. handed'[q] = handed[q]
      BY <1>3, PollReads
    <3> QED
      BY <1>3, <2>1, <3>1, PollMoves DEF Behind
  <2>3. owner[p] = c /\ c # Nobody /\ c # Departed
    BY <1>3, <2>1, PollMoves, MemberAssumption
  <2>4. Behind(p, position[c][p])'
    <3>1. \A h \in RangeOf(handed[p]) : h < position[c][p]
      BY <2>1, <2>3 DEF Behind
    <3>2. RangeOf(handed'[p]) = RangeOf(handed[p]) \cup {position[c][p]}
      BY <1>3, PollReads
    <3>3. RangeOf(handed[p]) \subseteq Nat
      BY SMTT(30), OffsetNumbers DEF TypeOK, RangeOf
    <3>4. position'[c][p] = position[c][p] + 1 /\ position[c][p] \in Nat
      BY <1>3, PollMoves, OffsetNumbers
    <3> QED
      BY <3>1, <3>2, <3>3, <3>4 DEF Behind
  <2>5. stored'[c][p] # NoOffset
    BY <1>3, PollMoves, OffsetNumbers DEF NoOffset
  <2>6. Ordered(p)' /\ \A d \in Consumers : Owned(d, p)'
    BY <1>3, <2>1, <2>3, <2>4, <2>5, PollMoves
  <2> QED
    BY <2>2, <2>6 DEF Undisturbed
<1> QED
  BY <1>1, <1>2, <1>3, HowStepsEnd

\* Undisturbed, the next offset handed over is one above the last.
LEMMA OrderStep ==
    /\ TypeOK /\ Membership /\ Undisturbed /\ OrderKept
    /\ [Next]_vars
    => OrderKept'
<1> SUFFICES ASSUME TypeOK, Membership, Undisturbed, OrderKept, [Next]_vars, upsets' = 0,
                    NEW p \in TopicPartitions
             PROVE  \A i, j \in DOMAIN handed'[p] : i < j => handed'[p][i] < handed'[p][j]
  BY DEF OrderKept
<1>1. CASE Settles
  <2>1. upsets = 0 /\ handed' = handed
    BY <1>1 DEF Settles, TypeOK
  <2> QED
    BY <2>1 DEF OrderKept
<1>2. ASSUME NEW c \in Consumers, NEW q \in TopicPartitions, Assign(c, q)
      PROVE  \A i, j \in DOMAIN handed'[p] : i < j => handed'[p][i] < handed'[p][j]
  BY <1>2, AssignMoves DEF OrderKept
<1>3. ASSUME NEW c \in Consumers, NEW q \in TopicPartitions, Poll(c, q)
      PROVE  \A i, j \in DOMAIN handed'[p] : i < j => handed'[p][i] < handed'[p][j]
  <2>1. upsets = 0 /\ \A i, j \in DOMAIN handed[p] : i < j => handed[p][i] < handed[p][j]
    BY <1>3, PollMoves DEF OrderKept
  <2>2. CASE p # q
    BY <1>3, <2>1, <2>2, PollReads
  <2>3. CASE p = q
    <3>1. owner[p] = c
      BY <1>3, <2>1, <2>3, PollMoves DEF Undisturbed
    <3>2. \A i \in DOMAIN handed[p] : handed[p][i] < position[c][p]
      BY <2>1, <3>1 DEF Undisturbed, Behind, RangeOf
    <3>3. /\ DOMAIN handed[p] = 1..Len(handed[p]) /\ Len(handed[p]) \in Nat
          /\ DOMAIN handed'[p] = 1..(Len(handed[p]) + 1)
          /\ \A i \in DOMAIN handed[p] : handed'[p][i] = handed[p][i]
          /\ handed'[p][Len(handed[p]) + 1] = position[c][p]
      BY <1>3, <2>3, PollHandsOver
    <3> QED
      BY <2>1, <3>2, <3>3
  <2> QED
    BY <2>2, <2>3
<1> QED
  BY <1>1, <1>2, <1>3, HowStepsEnd

-----------------------------------------------------------------------------
\* What taking a partition on skips lies below where it is read from.
LEMMA AssignSkips ==
    ASSUME TypeOK, NEW c \in Consumers, NEW p \in TopicPartitions, Assign(c, p)
    PROVE  /\ \A q \in TopicPartitions \ {p} : skipped'[q] = skipped[q]
           /\ \A o \in skipped'[p] \ skipped[p] :
                 o \in Offsets /\ committed[p] <= o /\ o < StartPosition(p)
  BY DEF TypeOK, Assign

\* Positions and commits move forward, so an old jump stays behind them.
LEMMA JumpedStep ==
    TypeOK /\ Membership /\ Positions /\ Jumped /\ [Next]_vars => Jumped'
<1> SUFFICES ASSUME TypeOK, TypeOK', Membership, Positions, Jumped, [Next]_vars,
                    NEW p \in TopicPartitions, NEW o \in skipped'[p]
             PROVE  /\ o < StartPosition(p)'
                    /\ \A c \in Consumers : owner'[p] = c => o < position'[c][p]
  BY TypeStep DEF Jumped
<1>1. o \in Nat
  BY OffsetNumbers DEF TypeOK
<1>2. CASE Settles
  <2>1. /\ o \in skipped[p] /\ o < StartPosition(p)
        /\ \A c \in Consumers : owner[p] = c => o < position[c][p]
    BY <1>2 DEF Settles, Jumped
  <2>2. o < StartPosition(p)'
    <3>1. CASE committed'[p] = committed[p]
      <4>1. StartPosition(p) <= StartPosition(p)'
        BY <1>2, <3>1, SettledCommit
      <4> QED
        BY <1>1, <2>1, <4>1, OffsetNumbers, NextOffsetNumbers
    <3>2. CASE committed'[p] # committed[p]
      <4>1. o < committed'[p]
        BY <1>2, <2>1, <3>2, SettledCommit
      <4>2. StartPosition(p)' = committed'[p]
        BY <1>1, <4>1, NextOffsetNumbers DEF StartPosition, NoOffset
      <4> QED
        BY <4>1, <4>2
    <3> QED
      BY <3>1, <3>2
  <2> QED
    BY <1>2, <2>1, <2>2 DEF Settles
<1>3. ASSUME NEW c \in Consumers, NEW q \in TopicPartitions, Assign(c, q)
      PROVE  /\ o < StartPosition(p)'
             /\ \A d \in Consumers : owner'[p] = d => o < position'[d][p]
  <2>1. o < StartPosition(p)
    BY <1>3, AssignSkips DEF Jumped
  <2>2. StartPosition(p)' = StartPosition(p)
    BY <1>3, AssignMoves
  <2>3. CASE p = q
    BY <1>3, <2>1, <2>2, <2>3, AssignMoves
  <2>4. CASE p # q
    BY <1>3, <2>1, <2>2, <2>4, AssignMoves, AssignSkips DEF Jumped
  <2> QED
    BY <2>3, <2>4
<1>4. ASSUME NEW c \in Consumers, NEW q \in TopicPartitions, Poll(c, q)
      PROVE  /\ o < StartPosition(p)'
             /\ \A d \in Consumers : owner'[p] = d => o < position'[d][p]
  <2>1. /\ o < StartPosition(p)
        /\ \A d \in Consumers : owner[p] = d => o < position[d][p]
    BY <1>4, PollMoves DEF Jumped
  <2>2. \A d \in Consumers : position[d][p] <= position'[d][p]
    BY <1>4, PollMoves, OffsetNumbers
  <2> QED
    BY <1>1, <1>4, <2>1, <2>2, PollMoves, OffsetNumbers, NextOffsetNumbers
<1> QED
  BY <1>2, <1>3, <1>4, HowStepsEnd

\* Undisturbed, a partition that was read from has a commit where reading goes on.
LEMMA SkipsStep ==
    /\ TypeOK /\ Membership /\ Undisturbed /\ Jumped /\ SkipsBeforeFirstHandOver
    /\ [Next]_vars
    => SkipsBeforeFirstHandOver'
<1> SUFFICES ASSUME TypeOK, Membership, Undisturbed, Jumped, SkipsBeforeFirstHandOver,
                    [Next]_vars, upsets' = 0, NEW p \in TopicPartitions,
                    NEW o \in skipped'[p], NEW h \in RangeOf(handed'[p])
             PROVE  o < h
  BY DEF SkipsBeforeFirstHandOver
<1>1. CASE Settles
  <2>1. upsets = 0 /\ handed' = handed /\ skipped' = skipped
    BY <1>1 DEF Settles, TypeOK
  <2> QED
    BY <2>1 DEF SkipsBeforeFirstHandOver
<1>2. ASSUME NEW c \in Consumers, NEW q \in TopicPartitions, Assign(c, q) PROVE o < h
  <2>1. upsets = 0 /\ handed' = handed /\ owner[q] = Nobody
    BY <1>2, AssignMoves
  <2>2. CASE o \in skipped[p]
    BY <2>1, <2>2 DEF SkipsBeforeFirstHandOver
  <2>3. CASE o \notin skipped[p]
    <3>1. p = q /\ committed[p] <= o /\ o < StartPosition(p)
      BY <1>2, <2>3, AssignSkips
    <3>2. h < committed[p] /\ h \in Nat
      <4>1. RangeOf(handed[p]) \subseteq Nat
        BY SMTT(30), OffsetNumbers DEF TypeOK, RangeOf
      <4> QED
        BY <2>1, <3>1, <4>1 DEF Undisturbed, Behind
    <3>3. StartPosition(p) = committed[p]
      BY <3>2, OffsetNumbers DEF StartPosition, NoOffset
    <3>4. o \in Nat
      BY <1>2, <2>3, <3>1, AssignSkips, OffsetNumbers
    <3> QED
      BY <3>1, <3>3, <3>4, OffsetNumbers
  <2> QED
    BY <2>2, <2>3
<1>3. ASSUME NEW c \in Consumers, NEW q \in TopicPartitions, Poll(c, q) PROVE o < h
  <2>1. upsets = 0 /\ skipped' = skipped
    BY <1>3, PollMoves
  <2>2. CASE h \in RangeOf(handed[p])
    BY <2>1, <2>2 DEF SkipsBeforeFirstHandOver
  <2>3. CASE h \notin RangeOf(handed[p])
    <3>1. p = q /\ h = position[c][p]
      BY <1>3, <2>3, PollReads
    <3>2. owner[p] = c
      BY <1>3, <2>1, <3>1, PollMoves DEF Undisturbed
    <3> QED
      BY <2>1, <3>1, <3>2 DEF Jumped
  <2> QED
    BY <2>2, <2>3
<1> QED
  BY <1>1, <1>2, <1>3, HowStepsEnd

-----------------------------------------------------------------------------
\* The three numbers of the budget.
LEMMA BudgetNumbers ==
    ASSUME TypeOK, NEW p \in TopicPartitions, NEW o
    PROVE  /\ IsFiniteSet(HandOvers(p, o)) /\ Cardinality(HandOvers(p, o)) \in Nat
           /\ ToCome(p, o) \in {0, 1}
           /\ IsFiniteSet(Evicted(p, o)) => Cardinality(Evicted(p, o)) \in Nat
<1>1. DOMAIN handed[p] = 1..Len(handed[p]) /\ Len(handed[p]) \in Nat
  BY LenProperties DEF TypeOK
<1>2. IsFiniteSet(DOMAIN handed[p])
  BY <1>1, FS_Interval
<1>3. IsFiniteSet(HandOvers(p, o))
  BY <1>2, FS_Subset DEF HandOvers
<1> QED
  BY <1>3, FS_CardinalityType DEF ToCome

(***************************************************************************)
(* A step that hands nothing over costs nothing.  A member that is evicted *)
(* was due to read on itself; what its successor may read once more is     *)
(* what the upset adds to the budget.                                      *)
(***************************************************************************)
LEMMA SettledBudget ==
    ASSUME TypeOK, TypeOK', Membership, Positions, Budget, Settles, LetsGoInOrder
    PROVE  Budget'
<1> SUFFICES ASSUME NEW p \in TopicPartitions, NEW o \in Offsets
             PROVE  /\ IsFiniteSet(Evicted(p, o)')
                    /\ Cardinality(HandOvers(p, o)') + Cardinality(Evicted(p, o)') + ToCome(p, o)'
                          <= 1 + upsets'
  BY DEF Budget
<1> DEFINE E == Evicted(p, o)
           H == HandOvers(p, o)
<1>1. /\ IsFiniteSet(E) /\ Cardinality(E) \in Nat /\ Cardinality(H) \in Nat
      /\ ToCome(p, o) \in {0, 1} /\ upsets \in Nat
      /\ Cardinality(H) + Cardinality(E) + ToCome(p, o) <= 1 + upsets
  BY SMTT(30), BudgetNumbers DEF Budget, TypeOK
<1>2. H' = H /\ upsets' \in {upsets, upsets + 1}
  BY DEF Settles, HandOvers
<1>3. ToCome(p, o)' \in {0, 1}
  BY DEF ToCome
<1>4. \A c \in E' : c \in E \/ (owner[p] = c /\ position[c][p] <= o)
  BY DEF Settles, Evicted
<1>5. CASE upsets' = upsets
  <2>1. E' \subseteq E
    BY <1>4, <1>5 DEF LetsGoInOrder, Evicted
  <2>2. IsFiniteSet(E') /\ Cardinality(E') <= Cardinality(E) /\ Cardinality(E') \in Nat
    BY <1>1, <2>1, FS_Subset, FS_CardinalityType
  <2>3. ASSUME NEW c \in Consumers, owner'[p] = c, position'[c][p] <= o
        PROVE  owner[p] = c /\ position[c][p] <= o
    BY <2>3 DEF Settles
  <2>4. ASSUME owner'[p] \notin Consumers, StartPosition(p)' <= o, owner[p] \in Consumers
        PROVE  position[owner[p]][p] <= o
    <3> DEFINE c == owner[p]
    <3> HIDE DEF c
    <3>1. c \in Consumers /\ owner[p] = c /\ owner'[p] # c
      BY <2>4 DEF c
    <3>2. CASE stored[c][p] = NoOffset
      <4>1. position[c][p] <= StartPosition(p) /\ StartPosition(p) <= StartPosition(p)'
        BY <3>1, <3>2, OwnersPlace, SettledCommit
      <4>2. /\ position[c][p] \in Nat /\ StartPosition(p) \in Nat
            /\ StartPosition(p)' \in Nat /\ o \in Nat
        BY <3>1, OffsetNumbers, NextOffsetNumbers
      <4> QED
        BY <2>4, <4>1, <4>2 DEF c
    <3>3. CASE stored[c][p] # NoOffset
      <4>1. committed'[p] = position[c][p] /\ committed'[p] # NoOffset
        BY <1>5, <3>1, <3>3, OwnersPlace DEF LetsGoInOrder
      <4>2. StartPosition(p)' = position[c][p]
        BY <4>1 DEF StartPosition
      <4> QED
        BY <2>4, <4>2 DEF c
    <3> QED
      BY <3>2, <3>3
  <2>5. ASSUME owner'[p] \notin Consumers, StartPosition(p)' <= o, owner[p] \notin Consumers
        PROVE  StartPosition(p) <= o
    <3>1. StartPosition(p) <= StartPosition(p)'
      BY <2>5, SettledCommit
    <3>2. StartPosition(p) \in Nat /\ StartPosition(p)' \in Nat /\ o \in Nat
      BY OffsetNumbers, NextOffsetNumbers
    <3> QED
      BY <2>5, <3>1, <3>2
  <2>6. ToCome(p, o)' = 1 => ToCome(p, o) = 1
    BY <2>3, <2>4, <2>5 DEF ToCome
  <2>7. ToCome(p, o)' <= ToCome(p, o)
    BY <1>1, <1>3, <2>6
  <2> QED
    BY <1>1, <1>2, <1>3, <1>5, <2>2, <2>7
<1>6. CASE upsets' = upsets + 1
  <2>1. CASE E' \subseteq E
    <3>1. IsFiniteSet(E') /\ Cardinality(E') <= Cardinality(E) /\ Cardinality(E') \in Nat
      BY <1>1, <2>1, FS_Subset, FS_CardinalityType
    <3> QED
      BY <1>1, <1>2, <1>3, <1>6, <3>1
  <2>2. CASE ~(E' \subseteq E)
    <3>1. PICK c \in Consumers : owner[p] = c /\ position[c][p] <= o
      BY <1>4, <2>2 DEF Evicted
    <3>2. ToCome(p, o) = 1
      BY <3>1 DEF ToCome
    <3>3. E' \subseteq E \cup {c}
      BY <1>4, <3>1
    <3>4. IsFiniteSet(E \cup {c}) /\ Cardinality(E \cup {c}) <= Cardinality(E) + 1
          /\ Cardinality(E \cup {c}) \in Nat
      <4>1. /\ IsFiniteSet(E \cup {c})
            /\ \/ Cardinality(E \cup {c}) = Cardinality(E)
               \/ Cardinality(E \cup {c}) = Cardinality(E) + 1
        BY <1>1, FS_AddElement
      <4> QED
        BY <1>1, <4>1
    <3>5. /\ IsFiniteSet(E') /\ Cardinality(E') \in Nat
          /\ Cardinality(E') <= Cardinality(E \cup {c})
      BY <3>3, <3>4, FS_Subset, FS_CardinalityType
    <3> QED
      BY <1>1, <1>2, <1>3, <1>6, <3>2, <3>4, <3>5
  <2> QED
    BY <2>1, <2>2
<1> QED
  BY <1>2, <1>5, <1>6

\* Who receives a partition may hand over what its next owner could.
LEMMA AssignBudget ==
    ASSUME TypeOK, Membership, Budget,
           NEW c \in Consumers, NEW q \in TopicPartitions, Assign(c, q)
    PROVE  Budget'
<1> SUFFICES ASSUME NEW p \in TopicPartitions, NEW o \in Offsets
             PROVE  /\ IsFiniteSet(Evicted(p, o)')
                    /\ Cardinality(HandOvers(p, o)') + Cardinality(Evicted(p, o)') + ToCome(p, o)'
                          <= 1 + upsets'
  BY DEF Budget
<1>1. HandOvers(p, o)' = HandOvers(p, o) /\ upsets' = upsets
  BY AssignMoves DEF HandOvers
<1>2. ASSUME NEW d \in Evicted(p, o)' PROVE d \in Evicted(p, o)
  <2>1. d \in Consumers /\ p \in holds'[d] /\ owner'[p] # d /\ position'[d][p] <= o
    BY <1>2 DEF Evicted
  <2>2. p # q \/ d # c
    BY <2>1, AssignMoves
  <2>3. p \in holds[d] /\ position[d][p] <= o
    BY <2>1, <2>2, AssignMoves
  <2>4. owner[p] # d
    BY <2>1, AssignMoves, MemberAssumption
  <2> QED
    BY <2>1, <2>3, <2>4 DEF Evicted
<1>3. ASSUME NEW d \in Evicted(p, o) PROVE d \in Evicted(p, o)'
  <2>1. d \in Consumers /\ p \in holds[d] /\ owner[p] # d /\ position[d][p] <= o
    BY <1>3 DEF Evicted
  <2>2. p # q \/ d # c
    BY <2>1, AssignMoves
  <2>3. p \in holds'[d] /\ position'[d][p] = position[d][p] /\ owner'[p] # d
    BY <2>1, <2>2, AssignMoves
  <2> QED
    BY <2>1, <2>3 DEF Evicted
<1>4. Evicted(p, o)' = Evicted(p, o)
  BY <1>2, <1>3
<1>5. ToCome(p, o)' = ToCome(p, o)
  <2>1. CASE p = q
    <3>1. owner[p] \notin Consumers
      BY <2>1, AssignMoves, MemberAssumption
    <3>2. \A d \in Consumers : owner'[p] = d <=> d = c
      BY <2>1, AssignMoves
    <3>3. position'[c][p] = StartPosition(p)
      BY <2>1, AssignMoves
    <3> QED
      BY <3>1, <3>2, <3>3 DEF ToCome
  <2>2. CASE p # q
    <3>1. /\ owner'[p] = owner[p] /\ StartPosition(p)' = StartPosition(p)
          /\ \A d \in Consumers : position'[d][p] = position[d][p]
      BY <2>2, AssignMoves
    <3> QED
      BY <3>1 DEF ToCome
  <2> QED
    BY <2>1, <2>2
<1> QED
  BY <1>1, <1>4, <1>5 DEF Budget

\* Who hands a message over has used up its own share of the budget.
LEMMA PollBudget ==
    ASSUME TypeOK, TypeOK', Membership, Budget,
           NEW c \in Consumers, NEW q \in TopicPartitions, Poll(c, q)
    PROVE  Budget'
<1> SUFFICES ASSUME NEW p \in TopicPartitions, NEW o \in Offsets
             PROVE  /\ IsFiniteSet(Evicted(p, o)')
                    /\ Cardinality(HandOvers(p, o)') + Cardinality(Evicted(p, o)') + ToCome(p, o)'
                          <= 1 + upsets'
  BY DEF Budget
<1> DEFINE E == Evicted(p, o)
           H == HandOvers(p, o)
           n == position[c][q]
<1>1. /\ IsFiniteSet(E) /\ Cardinality(E) \in Nat
      /\ IsFiniteSet(H) /\ Cardinality(H) \in Nat
      /\ ToCome(p, o) \in {0, 1} /\ upsets \in Nat
      /\ Cardinality(H) + Cardinality(E) + ToCome(p, o) <= 1 + upsets
  BY SMTT(30), BudgetNumbers DEF Budget, TypeOK
<1>2. ToCome(p, o)' \in {0, 1} /\ upsets' = upsets
  BY PollMoves DEF ToCome
<1>3. n \in Nat /\ o \in Nat
  BY OffsetNumbers
<1>4. ASSUME NEW d \in Consumers, p # q \/ d # c
      PROVE  position'[d][p] = position[d][p]
  BY <1>4, PollMoves
<1>5. position'[c][q] = n + 1 /\ UNCHANGED <<owner, holds>> /\ q \in holds[c]
      /\ StartPosition(p)' = StartPosition(p)
  BY PollMoves
<1>6. E' \subseteq E
  <2>1. ASSUME NEW d \in E' PROVE d \in E
    <3>1. d \in Consumers /\ p \in holds[d] /\ owner[p] # d /\ position'[d][p] <= o
      BY <2>1, <1>5 DEF Evicted
    <3>2. position[d][p] <= o
      BY <1>3, <1>4, <1>5, <3>1
    <3> QED
      BY <3>1, <3>2 DEF Evicted
  <2> QED
    BY <2>1
<1>7. ToCome(p, o)' <= ToCome(p, o)
  <2>1. ASSUME NEW d \in Consumers, owner'[p] = d, position'[d][p] <= o
        PROVE  owner[p] = d /\ position[d][p] <= o
    BY <1>3, <1>4, <1>5, <2>1
  <2>2. ToCome(p, o)' = 1 => ToCome(p, o) = 1
    BY <1>5, <2>1 DEF ToCome
  <2> QED
    BY <1>1, <1>2, <2>2
<1>8. /\ IsFiniteSet(E') /\ Cardinality(E') \in Nat /\ Cardinality(E') <= Cardinality(E)
  BY <1>1, <1>6, FS_Subset, FS_CardinalityType
<1>9. CASE p # q \/ o # n
  <2>1. H' = H
    <3>1. CASE p # q
      BY <3>1, PollReads DEF HandOvers
    <3>2. CASE p = q /\ o # n
      <4>1. /\ DOMAIN handed[p] = 1..Len(handed[p]) /\ Len(handed[p]) \in Nat
            /\ DOMAIN handed'[p] = 1..(Len(handed[p]) + 1)
            /\ \A i \in DOMAIN handed[p] : handed'[p][i] = handed[p][i]
            /\ handed'[p][Len(handed[p]) + 1] = n
        BY <3>2, PollHandsOver
      <4> QED
        BY <3>2, <4>1 DEF HandOvers
    <3> QED
      BY <1>9, <3>1, <3>2
  <2> QED
    BY <1>1, <1>2, <1>7, <1>8, <2>1
<1>10. CASE p = q /\ o = n
  <2> DEFINE k == Len(handed[p]) + 1
  <2>1. /\ DOMAIN handed[p] = 1..Len(handed[p]) /\ Len(handed[p]) \in Nat
        /\ DOMAIN handed'[p] = 1..(Len(handed[p]) + 1)
        /\ \A i \in DOMAIN handed[p] : handed'[p][i] = handed[p][i]
        /\ handed'[p][Len(handed[p]) + 1] = n
    BY <1>10, PollHandsOver
  <2>2. H' = H \cup {k} /\ k \notin H
    BY <1>10, <2>1 DEF HandOvers
  <2>3. Cardinality(H') = Cardinality(H) + 1
    BY <1>1, <2>2, FS_AddElement
  <2>4. position'[c][p] = o + 1 /\ ~(o + 1 <= o)
    BY <1>3, <1>5, <1>10
  <2>5. CASE owner[p] = c
    <3>1. ToCome(p, o) = 1
      BY <1>3, <1>10, <2>5 DEF ToCome
    <3>2. ToCome(p, o)' = 0
      BY <1>5, <2>4, <2>5 DEF ToCome
    <3> QED
      BY <1>1, <1>2, <1>8, <2>3, <3>1, <3>2
  <2>6. CASE owner[p] # c
    <3>1. c \in E /\ c \notin E'
      BY <1>3, <1>5, <1>10, <2>4, <2>6 DEF Evicted
    <3>2. E' # E
      BY <3>1
    <3>3. Cardinality(E') # Cardinality(E)
      BY <1>1, <1>6, <3>2, FS_Subset
    <3> QED
      BY <1>1, <1>2, <1>7, <1>8, <2>3, <3>3
  <2> QED
    BY <2>5, <2>6
<1> QED
  BY <1>9, <1>10

-----------------------------------------------------------------------------
\* The invariant holds of an empty topic,
LEMMA InvInit == Init => IInv
<1> SUFFICES ASSUME Init PROVE IInv
  OBVIOUS
<1>1. TypeOK
  BY TypeInit
<1>2. \A p \in TopicPartitions : /\ handed[p] = <<>> /\ owner[p] = Nobody
                                 /\ committed[p] = 0 /\ log[p] = 0
                                 /\ \A c \in Consumers : holds[c] = {}
  BY DEF Init, NoOffsets, NoOffset
<1>3. \A p \in TopicPartitions : DOMAIN handed[p] = {} /\ RangeOf(handed[p]) = {}
  <2>1. ASSUME NEW p \in TopicPartitions PROVE DOMAIN handed[p] = {}
    BY <1>2
  <2> QED
    BY <2>1 DEF RangeOf
<1>4. Membership
  BY <1>2, MemberAssumption DEF Init, Membership
<1>5. Positions
  BY <1>2, MemberAssumption DEF Positions
<1>6. Covered
  BY <1>1, <1>2, OffsetNumbers DEF Covered
<1>7. NoGaps /\ Accounted /\ OrderKept
  BY <1>3 DEF NoGaps, Accounted, OrderKept
<1>8. Undisturbed
  BY <1>2, <1>3, MemberAssumption DEF Undisturbed, Behind, Nobody, Departed
<1>10. Jumped /\ SkipsBeforeFirstHandOver
  BY <1>3 DEF Init, NoneOf, Jumped, SkipsBeforeFirstHandOver
<1>9. Budget
  <2> SUFFICES ASSUME NEW p \in TopicPartitions, NEW o \in Offsets
               PROVE  /\ IsFiniteSet(Evicted(p, o))
                      /\ Cardinality(HandOvers(p, o)) + Cardinality(Evicted(p, o)) + ToCome(p, o)
                            <= 1 + upsets
    BY DEF Budget
  <2>1. HandOvers(p, o) = {} /\ Evicted(p, o) = {}
    BY <1>2, <1>3 DEF HandOvers, Evicted
  <2>2. ToCome(p, o) \in {0, 1} /\ upsets = 0
    BY DEF ToCome, Init
  <2> QED
    BY <2>1, <2>2, FS_EmptySet
<1> QED
  BY <1>1, <1>4, <1>5, <1>6, <1>7, <1>8, <1>9, <1>10 DEF IInv

\* ... and every step of consumers, brokers and producers keeps it.
LEMMA InvStep == IInv /\ [Next]_vars => IInv'
<1> SUFFICES ASSUME IInv, [Next]_vars PROVE IInv'
  OBVIOUS
<1>1. /\ TypeOK /\ Membership /\ Positions /\ Covered /\ NoGaps /\ Accounted
      /\ OrderKept /\ Undisturbed /\ Jumped /\ SkipsBeforeFirstHandOver /\ Budget
  BY DEF IInv
<1>2. TypeOK' /\ Membership' /\ Positions'
  BY <1>1, TypeStep, MembershipStep, PositionsStep
<1>3. Covered' /\ NoGaps' /\ Accounted'
  BY <1>1, CoveredStep, NoGapsStep, AccountedStep
<1>4. Undisturbed' /\ OrderKept' /\ Jumped' /\ SkipsBeforeFirstHandOver'
  BY <1>1, UndisturbedStep, OrderStep, JumpedStep, SkipsStep
<1>5. Budget'
  BY <1>1, <1>2, HowStepsEnd, SettledBudget, AssignBudget, PollBudget
<1> QED
  BY <1>2, <1>3, <1>4, <1>5 DEF IInv

\* The inductive invariant, in every reachable state.
THEOREM LoopInvariant == Spec => []IInv
  BY InvInit, InvStep, PTL DEF Spec

(***************************************************************************)
(* Offsets stay offsets and every process has a message in its hands just  *)
(* when onMessage runs, for any group and any topic.                       *)
(***************************************************************************)
THEOREM LoopTypeCorrect == Spec => []TypeOK
  BY LoopInvariant, PTL DEF IInv

(***************************************************************************)
(* A process that joins late, takes over from a member that was evicted,   *)
(* crashed or stopped, or finds no commit, passes no message over that the *)
(* reset did not.                                                          *)
(***************************************************************************)
THEOREM NothingPassedOver == Spec => []NoGaps
  BY LoopInvariant, PTL DEF IInv

(***************************************************************************)
(* The commit of a message that is not handled yet: below the committed    *)
(* offset nothing is lost but what some process works on or died with.     *)
(***************************************************************************)
THEOREM LossWindow == Spec => []CommitWindow
<1>1. ASSUME IInv PROVE CommitWindow
  <2> SUFFICES ASSUME NEW p \in TopicPartitions, NEW o \in Offsets, o < committed[p]
               PROVE  \/ o \in done[p] \cup killed[p] \cup skipped[p]
                      \/ \E c \in Consumers : current[c] = <<p, o>>
    BY DEF CommitWindow
  <2>1. o \in RangeOf(handed[p]) \cup skipped[p]
    BY <1>1 DEF IInv, Covered
  <2> QED
    BY <1>1, <2>1 DEF IInv, Accounted
<1> QED
  BY <1>1, LoopInvariant, PTL

\* Rebalances and graceful stops repeat nothing; an upset repeats a message once.
THEOREM RepeatsBounded == Spec => []RepeatsNeedUpsets
<1>1. ASSUME IInv PROVE RepeatsNeedUpsets
  <2> SUFFICES ASSUME NEW p \in TopicPartitions, NEW o \in Offsets
               PROVE  Cardinality(HandOvers(p, o)) <= 1 + upsets
    BY DEF RepeatsNeedUpsets, HandOvers
  <2>1. /\ IsFiniteSet(Evicted(p, o)) /\ TypeOK /\ upsets \in Nat
        /\ Cardinality(HandOvers(p, o)) + Cardinality(Evicted(p, o)) + ToCome(p, o) <= 1 + upsets
    BY <1>1 DEF IInv, Budget, TypeOK
  <2>2. /\ Cardinality(HandOvers(p, o)) \in Nat /\ Cardinality(Evicted(p, o)) \in Nat
        /\ ToCome(p, o) \in {0, 1}
    BY <2>1, BudgetNumbers
  <2> QED
    BY <2>1, <2>2
<1> QED
  BY <1>1, LoopInvariant, PTL

\* While nothing goes wrong a partition is read in order, whoever reads it.
THEOREM ReadInOrder == Spec => []OrderKept
  BY LoopInvariant, PTL DEF IInv

\* No member, evicted or not, takes the group back behind what it committed.
THEOREM NoCommitGoesBack == Spec => CommitsOnlyForward
<1>1. ASSUME IInv, [Next]_vars PROVE \A p \in TopicPartitions : committed[p] <= committed'[p]
  <2>1. TypeOK /\ TypeOK' /\ Membership /\ Positions
    BY <1>1, InvStep DEF IInv
  <2>2. CASE Settles
    BY <2>1, <2>2, SettledCommit
  <2>3. CASE UNCHANGED committed
    BY <2>1, <2>3, OffsetNumbers
  <2> QED
    BY <1>1, <2>1, <2>2, <2>3, HowStepsEnd, AssignMoves, PollMoves
<1>2. ASSUME IInv, [Next]_vars
      PROVE  [\A p \in TopicPartitions : committed[p] <= committed'[p]]_vars
  BY <1>1, <1>2
<1> QED
  BY <1>2, LoopInvariant, PTL DEF Spec, CommitsOnlyForward

(***************************************************************************)
(* While nothing goes wrong a reset passes over what came before the group *)
(* began to read, and nothing after: a last commit precedes every handover.*)
(***************************************************************************)
THEOREM NoSkipOnceRead == Spec => []SkipsBeforeFirstHandOver
  BY LoopInvariant, PTL DEF IInv

=============================================================================
