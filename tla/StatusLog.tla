------------------------------ MODULE StatusLog ------------------------------
(***************************************************************************)
(* What the consumers promise to the readers of the database, without      *)
(* tables, statements, caches or retries: messages are taken in one after  *)
(* another; while a message is open its entry may be recorded, once; an    *)
(* entry says what its message said and is never changed; a message that   *)
(* was closed is not recorded any more.  Not every message is recorded.    *)
(***************************************************************************)
EXTENDS Naturals, Sequences

CONSTANTS
    Entries,  \* what a message can ask to be recorded
    Nothing   \* what a message asks for that is not acceptable, no entry

VARIABLES
    inbox,    \* what each message taken in asks for
    open,     \* the messages being worked on, by number
    recorded  \* the entries recorded so far: number -> entry

logVars == <<inbox, open, recorded>>

Init == /\ inbox = << >>
        /\ open = {}
        /\ recorded = [d \in {} |-> Nothing]

Take(e) ==
    /\ inbox' = Append(inbox, e)
    /\ open' = IF e = Nothing THEN open ELSE open \cup {Len(inbox) + 1}
    /\ UNCHANGED recorded

Record(d) ==
    /\ d \in open \ DOMAIN recorded
    /\ recorded' = [e \in DOMAIN recorded \cup {d} |->
                      IF e = d THEN inbox[d] ELSE recorded[e]]
    /\ open' \in {open, open \ {d}}
    /\ UNCHANGED inbox

Close(d) ==
    /\ d \in open
    /\ open' = open \ {d}
    /\ UNCHANGED <<inbox, recorded>>

\* Entries may be cleaned up, at any time; those that stay are not changed.
Clean ==
    /\ \E kept \in SUBSET DOMAIN recorded : recorded' = [d \in kept |-> recorded[d]]
    /\ UNCHANGED <<inbox, open>>

Next == \/ \E e \in Entries \cup {Nothing} : Take(e)
        \/ \E d \in open : Record(d) \/ Close(d)

Spec == Init /\ [][Next]_logVars

\* The log beside jobs that clean it up.
CleanedSpec == Init /\ [][Next \/ Clean]_logVars

=============================================================================
