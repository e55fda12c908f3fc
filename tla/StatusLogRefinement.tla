------------------------- MODULE StatusLogRefinement -------------------------
(***************************************************************************)
(* MessageHandler implements StatusLog.  What is recorded is read the way  *)
(* the API reads it: a status row joined with its payload, its status, its *)
(* service and, when there is one, its source.                             *)
(***************************************************************************)
EXTENDS MessageHandler

\* What message m asks to be recorded.
Asked(m) ==
    IF Accepted(m)
    THEN [request |-> m.request,
          names   |-> [k \in Kinds |-> Lower[m.names[k]]],
          date    |-> m.date]
    ELSE Garbage

Entries == {Asked(m) : m \in {x \in Messages : Accepted(x)}}

ASSUME NothingAssumption == Garbage \notin Entries

\* What status row says, read through its references.
Read(row) ==
    [request |-> payloads[row.payload].request,
     names   |-> [k \in Kinds |-> IF row.refs[k] = NoId THEN Blank
                                  ELSE lookups[k][row.refs[k]]],
     date    |-> row.date]

RowsOf(d) == {id \in DOMAIN statuses : statuses[id].delivery = d}

Inbox    == [d \in Known |-> Asked(delivered[d].msg)]
Open     == {task[c].delivery : c \in Consumers} \ {0}
Recorded == [d \in {statuses[id].delivery : id \in DOMAIN statuses} |->
                Read(statuses[CHOOSE id \in RowsOf(d) : TRUE])]

Log == INSTANCE StatusLog WITH
    Entries <- Entries, Nothing <- Garbage,
    inbox <- Inbox, open <- Open, recorded <- Recorded

(***************************************************************************)
(* Every step of the consumers, failed statements and kills included, is a *)
(* step of StatusLog or changes nothing there: statuses are recorded one   *)
(* at a time, for a message being handled, with what the message said, and *)
(* no later step of any consumer changes what a reader gets for them.      *)
(***************************************************************************)
ImplementsStatusLog == Log!Spec

=============================================================================
