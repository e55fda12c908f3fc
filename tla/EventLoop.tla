------------------------------ MODULE EventLoop ------------------------------
(***************************************************************************)
(* NewConsumerEventLoop of internal/kafka/kafka.go: the processes of one   *)
(* consumer group that read the status topic.  A process polls, runs       *)
(* onMessage to its end on what Poll returns, polls again, and leaves when *)
(* it finds a signal; it sets no offset itself.                            *)
(*                                                                         *)
(* What the loop relies on and is not in the repository is modelled as     *)
(* NewConsumer configures it: the broker (log, group membership, committed *)
(* offsets) and the client library, which takes an offset as stored when   *)
(* Poll hands its message over, commits stored offsets from a thread of    *)
(* its own, and serves rebalances inside Poll.                             *)
(***************************************************************************)
EXTENDS Naturals, Sequences, FiniteSets

CONSTANTS
    Consumers,        \* the processes of the group
    TopicPartitions,  \* the partitions of the topic
    OffsetReset,      \* auto.offset.reset: "latest" or "earliest"
    MaxLog,           \* bound: messages per partition
    MaxRebalances,    \* bound: revocations for the sake of other members
    MaxStops,         \* bound: signals
    MaxUpsets         \* bound: crashes, evictions and failed last commits

ASSUME OffsetResetAssumption == OffsetReset \in {"latest", "earliest"}
ASSUME LoopBoundsAssumption ==
    MaxLog \in Nat /\ MaxRebalances \in Nat /\ MaxStops \in Nat /\ MaxUpsets \in Nat

VARIABLES
    log,        \* broker: messages produced, per partition
    committed,  \* broker: next offset to read, NoOffset if never committed
    owner,      \* broker: the member each partition belongs to
    loop,       \* what each process is doing
    sigchan,    \* whether a signal waits in the process's channel
    holds,      \* client: the partitions a process believes it owns
    position,   \* client: the next offset to hand over
    stored,     \* client: the offset to commit, NoOffset if none
    current,    \* the message each process's onMessage works on
    \* History: no guard reads these, but for the bounds.
    handed,     \* per partition, the offsets handed over, in that order
    done,       \* per partition, the offsets whose onMessage returned
    killed,     \* per partition, the offsets whose onMessage was killed
    skipped,    \* per partition, the offsets jumped over by a reset
    rebalances, stops, upsets

broker  == <<log, committed, owner>>
client  == <<holds, position, stored>>
process == <<loop, sigchan, current>>
seen    == <<handed, done, killed, skipped>>
bounds  == <<rebalances, stops, upsets>>
vars    == <<broker, client, process, seen, bounds>>

NoOffset  == 0   \* a stored offset is at least 1
Offsets   == 0..MaxLog
NoMessage == <<>>
Nobody    == "nobody"
Departed  == "departed"   \* a member that died and was not yet missed

ASSUME MemberAssumption == Consumers \cap {Nobody, Departed} = {}

Polls(c)    == loop[c] = "polling" /\ ~sigchan[c]
OwnedBy(c)  == {p \in TopicPartitions : owner[p] = c}
RangeOf(s)  == {s[i] : i \in DOMAIN s}

TypeOK ==
    /\ log \in [TopicPartitions -> Offsets]
    /\ committed \in [TopicPartitions -> Offsets]
    /\ owner \in [TopicPartitions -> Consumers \cup {Nobody, Departed}]
    /\ loop \in [Consumers -> {"down", "polling", "handling"}]
    /\ sigchan \in [Consumers -> BOOLEAN]
    /\ holds \in [Consumers -> SUBSET TopicPartitions]
    /\ position \in [Consumers -> [TopicPartitions -> Offsets]]
    /\ stored \in [Consumers -> [TopicPartitions -> Offsets]]
    /\ current \in [Consumers -> (TopicPartitions \X Offsets) \cup {NoMessage}]
    /\ \A c \in Consumers : current[c] # NoMessage <=> loop[c] = "handling"
    /\ handed \in [TopicPartitions -> Seq(Offsets)]
    /\ done \in [TopicPartitions -> SUBSET Offsets]
    /\ killed \in [TopicPartitions -> SUBSET Offsets]
    /\ skipped \in [TopicPartitions -> SUBSET Offsets]
    /\ rebalances \in 0..MaxRebalances
    /\ stops \in 0..MaxStops
    /\ upsets \in 0..MaxUpsets

NoOffsets == [p \in TopicPartitions |-> NoOffset]
NoneOf    == [p \in TopicPartitions |-> {}]

Init ==
    /\ log = [p \in TopicPartitions |-> 0]
    /\ committed = NoOffsets
    /\ owner = [p \in TopicPartitions |-> Nobody]
    /\ loop = [c \in Consumers |-> "down"]
    /\ sigchan = [c \in Consumers |-> FALSE]
    /\ holds = [c \in Consumers |-> {}]
    /\ position = [c \in Consumers |-> NoOffsets]
    /\ stored = [c \in Consumers |-> NoOffsets]
    /\ current = [c \in Consumers |-> NoMessage]
    /\ handed = [p \in TopicPartitions |-> <<>>]
    /\ done = NoneOf /\ killed = NoneOf /\ skipped = NoneOf
    /\ rebalances = 0 /\ stops = 0 /\ upsets = 0

Upset == upsets < MaxUpsets /\ upsets' = upsets + 1

\* The process keeps nothing of the partitions in S.
Release(c, S) ==
    /\ holds' = [holds EXCEPT ![c] = @ \ S]
    /\ stored' = [stored EXCEPT ![c] =
                     [p \in TopicPartitions |-> IF p \in S THEN NoOffset ELSE @[p]]]
    /\ UNCHANGED position

Disown(c, to) ==
    owner' = [p \in TopicPartitions |-> IF owner[p] = c THEN to ELSE owner[p]]

-----------------------------------------------------------------------------
\* Some service reports a status.
Produce(p) ==
    /\ log[p] < MaxLog
    /\ log' = [log EXCEPT ![p] = @ + 1]
    /\ UNCHANGED <<committed, owner, client, process, seen, bounds>>

\* NewConsumer: connected and subscribed, nothing assigned yet.
Start(c) ==
    /\ loop[c] = "down"
    /\ loop' = [loop EXCEPT ![c] = "polling"]
    /\ UNCHANGED <<broker, client, sigchan, current, seen, bounds>>

(***************************************************************************)
(* In Poll the process receives a partition.  It starts at the committed   *)
(* offset, or where auto.offset.reset says when there is none.             *)
(***************************************************************************)
ResetPosition(p) == IF OffsetReset = "latest" THEN log[p] ELSE 0

\* Mutant: a reset at every assignment.
StartPosition_Resets(p) == ResetPosition(p)

StartPosition(p) == IF committed[p] = NoOffset THEN ResetPosition(p) ELSE committed[p]

Assign(c, p) ==
    /\ Polls(c)
    /\ owner[p] = Nobody
    /\ holds[c] = OwnedBy(c)
    /\ owner' = [owner EXCEPT ![p] = c]
    /\ holds' = [holds EXCEPT ![c] = @ \cup {p}]
    /\ position' = [position EXCEPT ![c][p] = StartPosition(p)]
    /\ stored' = [stored EXCEPT ![c][p] = NoOffset]
    /\ skipped' = [skipped EXCEPT ![p] =
                      @ \cup {o \in Offsets : /\ committed[p] <= o
                                              /\ o < StartPosition(p)
                                              /\ o \notin RangeOf(handed[p])}]
    /\ UNCHANGED <<log, committed, process, handed, done, killed, bounds>>

(***************************************************************************)
(* Poll returns a message and onMessage starts on it; its return brings    *)
(* the process back to the top of the loop.                                *)
(***************************************************************************)
HandOver(c, p, next, store) ==
    /\ Polls(c) /\ p \in holds[c] /\ position[c][p] < log[p]
    /\ loop' = [loop EXCEPT ![c] = "handling"]
    /\ current' = [current EXCEPT ![c] = <<p, position[c][p]>>]
    /\ position' = [position EXCEPT ![c][p] = next]
    /\ stored' = [stored EXCEPT ![c][p] = store]
    /\ handed' = [handed EXCEPT ![p] = Append(@, position[c][p])]
    /\ UNCHANGED <<broker, sigchan, holds, done, killed, skipped, bounds>>

\* Mutants: a second Poll of the round drops what it returns; the offset of
\* what was fetched is stored, not of what was handed over.
Poll_Twice(c, p) == \E dropped \in 0..1 :
    /\ position[c][p] + dropped < log[p]
    /\ HandOver(c, p, position[c][p] + 1 + dropped, position[c][p] + 1)
Poll_StoresFetched(c, p) == HandOver(c, p, position[c][p] + 1, log[p])

Poll(c, p) == HandOver(c, p, position[c][p] + 1, position[c][p] + 1)

Handled(c) ==
    /\ loop[c] = "handling"
    /\ loop' = [loop EXCEPT ![c] = "polling"]
    /\ current' = [current EXCEPT ![c] = NoMessage]
    /\ LET p == current[c][1]
       IN  done' = [done EXCEPT ![p] = @ \cup {current[c][2]}]
    /\ UNCHANGED <<broker, client, sigchan, handed, killed, skipped, bounds>>

(***************************************************************************)
(* Stored offsets are committed, in the background every                   *)
(* auto.commit.interval.ms whatever the process is doing, and once more    *)
(* before partitions are given up.  The broker takes a commit for what the *)
(* member owns only.                                                       *)
(***************************************************************************)
\* Mutant: a commit is taken from any process.
CommitStored_Unfenced(c) ==
    committed' = [p \in TopicPartitions |->
                    IF stored[c][p] # NoOffset THEN stored[c][p] ELSE committed[p]]

CommitStored(c) ==
    committed' = [p \in TopicPartitions |->
                    IF p \in holds[c] /\ owner[p] = c /\ stored[c][p] # NoOffset
                    THEN stored[c][p] ELSE committed[p]]

AutoCommit(c) ==
    /\ loop[c] # "down"
    /\ CommitStored(c)
    /\ committed' # committed
    /\ UNCHANGED <<log, owner, client, process, seen, bounds>>

\* Mutant: partitions are given up without it.
LastCommit_Missing(c) == UNCHANGED <<committed, upsets>>

LastCommit(c) == \/ CommitStored(c) /\ UNCHANGED upsets
                 \/ Upset /\ UNCHANGED committed

\* In Poll the process gives its partitions up, for a rebalance.
Revoke(c) ==
    /\ Polls(c)
    /\ holds[c] # {} /\ holds[c] = OwnedBy(c)
    /\ rebalances < MaxRebalances
    /\ rebalances' = rebalances + 1
    /\ LastCommit(c)
    /\ Release(c, holds[c])
    /\ Disown(c, Nobody)
    /\ UNCHANGED <<log, process, seen, stops>>

(***************************************************************************)
(* The group evicts a member that missed max.poll.interval.ms or its       *)
(* heartbeats.  The member goes on with what it holds until a later Poll   *)
(* tells it, and then drops it without a commit.                           *)
(***************************************************************************)
Evict(c) ==
    /\ loop[c] # "down" /\ OwnedBy(c) # {}
    /\ Upset
    /\ Disown(c, Nobody)
    /\ UNCHANGED <<log, committed, client, process, seen, rebalances, stops>>

Lose(c) ==
    /\ Polls(c)
    /\ holds[c] # OwnedBy(c)
    /\ Release(c, holds[c])
    /\ UNCHANGED <<broker, process, seen, bounds>>

\* SIGINT or SIGTERM: the channel holds one, further ones are dropped.
Signal(c) ==
    /\ loop[c] # "down"
    /\ stops < MaxStops
    /\ stops' = stops + 1
    /\ sigchan' = [sigchan EXCEPT ![c] = TRUE]
    /\ UNCHANGED <<broker, client, loop, current, seen, rebalances, upsets>>

\* The select at the top of the loop finds the signal; then consumer.Close().
\* Mutant: the loop ends without Close.
Stop_WithoutClose(c) ==
    /\ loop[c] = "polling" /\ sigchan[c]
    /\ loop' = [loop EXCEPT ![c] = "down"]
    /\ sigchan' = [sigchan EXCEPT ![c] = FALSE]
    /\ Release(c, holds[c])
    /\ UNCHANGED <<broker, current, seen, bounds>>

Stop(c) ==
    /\ loop[c] = "polling" /\ sigchan[c]
    /\ loop' = [loop EXCEPT ![c] = "down"]
    /\ sigchan' = [sigchan EXCEPT ![c] = FALSE]
    /\ LastCommit(c)
    /\ Release(c, holds[c])
    /\ Disown(c, Nobody)
    /\ UNCHANGED <<log, current, seen, rebalances, stops>>

\* The process dies at any point; the group misses it after a while.
Crash(c) ==
    /\ loop[c] # "down"
    /\ Upset
    /\ loop' = [loop EXCEPT ![c] = "down"]
    /\ sigchan' = [sigchan EXCEPT ![c] = FALSE]
    /\ current' = [current EXCEPT ![c] = NoMessage]
    /\ killed' = IF loop[c] = "handling"
                 THEN [killed EXCEPT ![current[c][1]] = @ \cup {current[c][2]}]
                 ELSE killed
    /\ Release(c, holds[c])
    /\ Disown(c, Departed)
    /\ UNCHANGED <<log, committed, handed, done, skipped, rebalances, stops>>

Miss(p) ==
    /\ owner[p] = Departed
    /\ owner' = [owner EXCEPT ![p] = Nobody]
    /\ UNCHANGED <<log, committed, client, process, seen, bounds>>

-----------------------------------------------------------------------------
Next ==
    \/ \E p \in TopicPartitions : Produce(p) \/ Miss(p)
    \/ \E c \in Consumers, p \in TopicPartitions : Assign(c, p) \/ Poll(c, p)
    \/ \E c \in Consumers : \/ Start(c) \/ Handled(c) \/ AutoCommit(c)
                            \/ Revoke(c) \/ Evict(c) \/ Lose(c)
                            \/ Signal(c) \/ Stop(c) \/ Crash(c)

Spec == Init /\ [][Next]_vars

(***************************************************************************)
(* Processes are restarted and go round their loop, onMessage returns      *)
(* (MessageHandler!CallEnds), the library commits, the group hands out     *)
(* what nobody owns and misses the dead.                                   *)
(***************************************************************************)
FairSpec ==
    /\ Spec
    /\ \A c \in Consumers : /\ WF_vars(Start(c)) /\ WF_vars(Handled(c))
                            /\ WF_vars(AutoCommit(c)) /\ WF_vars(Lose(c))
                            /\ WF_vars(Stop(c))
    /\ \A p \in TopicPartitions :
            /\ WF_vars(Miss(p))
            /\ WF_vars(\E c \in Consumers : Assign(c, p))
    /\ \A c \in Consumers, p \in TopicPartitions : WF_vars(Poll(c, p))

-----------------------------------------------------------------------------
(***************************************************************************)
(* No message is passed over: when one was handed over, so was every       *)
(* earlier one of its partition, unless a reset jumped over it.  Holds     *)
(* through crashes, evictions and the handovers they cause.                *)
(***************************************************************************)
NoGaps ==
    \A p \in TopicPartitions, o \in Offsets :
        (\E h \in RangeOf(handed[p]) : o < h) =>
            o \in RangeOf(handed[p]) \cup skipped[p]

(***************************************************************************)
(* The window in which a message can be lost.  Poll stores the offset      *)
(* before onMessage runs, so the background commit may cover a message     *)
(* that is still being worked on, one per process, and nothing else: below *)
(* the committed offset every message was handled, is in some process's    *)
(* hands, or died there.                                                   *)
(***************************************************************************)
CommitWindow ==
    \A p \in TopicPartitions, o \in Offsets :
        o < committed[p] =>
            \/ o \in done[p] \cup killed[p] \cup skipped[p]
            \/ \E c \in Consumers : current[c] = <<p, o>>

(***************************************************************************)
(* A message is handed over once more at most for every crash, eviction or *)
(* failed last commit: rebalances and graceful stops repeat nothing.       *)
(***************************************************************************)
RepeatsNeedUpsets ==
    \A p \in TopicPartitions, o \in Offsets :
        Cardinality({i \in DOMAIN handed[p] : handed[p][i] = o}) <= 1 + upsets

(***************************************************************************)
(* Without upsets a partition's messages are handed over in their order,   *)
(* whoever owned it, so the statuses of a request are upserted in order.   *)
(***************************************************************************)
OrderKept ==
    upsets = 0 =>
        \A p \in TopicPartitions : \A i, j \in DOMAIN handed[p] :
            i < j => handed[p][i] < handed[p][j]

(***************************************************************************)
(* The committed offset never moves back, whatever an evicted process      *)
(* that does not know it yet still stores and tries to commit.             *)
(***************************************************************************)
CommitsOnlyForward ==
    [][\A p \in TopicPartitions : committed[p] <= committed'[p]]_vars

(***************************************************************************)
(* What a reset passes over is older than all the group reads: without     *)
(* upsets no message is passed over in a partition once one of it was      *)
(* handed over, through rebalances and graceful stops, because whoever     *)
(* gives a partition up commits first where the next owner has to read on. *)
(***************************************************************************)
SkipsBeforeFirstHandOver ==
    upsets = 0 =>
        \A p \in TopicPartitions :
            \A o \in skipped[p], h \in RangeOf(handed[p]) : o < h

(***************************************************************************)
(* Every message is in the end handed over or was passed over by a reset:  *)
(* the group does not get stuck on crashes, evictions and signals.         *)
(***************************************************************************)
EventuallyHanded ==
    \A p \in TopicPartitions, o \in Offsets :
        o < log[p] ~> o \in RangeOf(handed[p]) \cup skipped[p]

=============================================================================
