----------------------------- MODULE ReadClients -----------------------------
(***************************************************************************)
(* Clients of the read queries while the consumers write and the jobs      *)
(* clean.  One of them walks through /payloads, page after page, each page *)
(* a query of its own; the other answers are looked at in every state.     *)
(***************************************************************************)
EXTENDS TrackerSystem, ReadQueries
API == INSTANCE ApiRequest WITH RequestSet <- {}

CONSTANT Walks   \* the sort column, direction and page size of a walk

ASSUME WalksAssumption ==
    Walks \subseteq [sortBy   : Columns \cup {"created_at"},
                     sortDir  : Directions,
                     pageSize : 1..(IntLimit - 1)]

VARIABLES
    walk,    \* where the walk is: its settings, the next page, the payloads seen
    during   \* history: what happened to the payloads since the walk began

readVars == <<walk, during>>
allVars  == <<systemVars, readVars>>

NoWalk  == [phase |-> "idle"]
Nothing == [atStart |-> {}, inserted |-> {}, deleted |-> {}, moved |-> {}, tied |-> {}]

ReadTypeOK ==
    /\ walk.phase \in {"idle", "reading", "done"}
    /\ walk.phase # "idle" => /\ walk.set \in Walks
                              /\ walk.page \in Nat
                              /\ Seqs!ToSet(walk.seen) \subseteq Nat \ {NoId}
                              /\ walk.phase = "reading" <=>
                                    Len(walk.seen) = walk.page * walk.set.pageSize
    /\ DOMAIN during = DOMAIN Nothing
    /\ \A x \in DOMAIN during : during[x] \subseteq Nat \ {NoId}

ReadInit == SystemInit /\ walk = NoWalk /\ during = Nothing

-----------------------------------------------------------------------------
WalkQuery == [filters  |-> [x \in Columns |-> Blank], created |-> NoRows,
              sortBy   |-> walk.set.sortBy, sortDir |-> walk.set.sortDir,
              page     |-> walk.page,       pageSize |-> walk.set.pageSize]

StartWalk(w) ==
    /\ walk = NoWalk
    /\ walk' = [phase |-> "reading", set |-> w, page |-> 0, seen |-> <<>>]
    /\ during' = [during EXCEPT !.atStart = DOMAIN payloads]
    /\ UNCHANGED systemVars

Tied(by) == {id \in DOMAIN payloads : \E other \in DOMAIN payloads \ {id} :
                PayloadKey(id, by) = PayloadKey(other, by)}

\* Payloads, asked for the next page; the walk ends at one that is not full.
ReadPage ==
    /\ walk.phase = "reading"
    /\ \E ids \in RetrievePayloads(WalkQuery) :
          walk' = [walk EXCEPT
                     !.phase = IF Len(ids) < walk.set.pageSize THEN "done" ELSE "reading",
                     !.page = @ + 1,
                     !.seen = @ \o ids]
    /\ during' = [during EXCEPT !.tied = @ \cup Tied(walk.set.sortBy)]
    /\ UNCHANGED systemVars

\* A step of the consumers or the jobs, and what it does to the payloads.
WriteMeanwhile ==
    /\ SystemNext /\ UNCHANGED walk
    /\ IF walk.phase = "reading"
       THEN during' = [during EXCEPT
              !.inserted = @ \cup (DOMAIN payloads' \ DOMAIN payloads),
              !.deleted  = @ \cup (DOMAIN payloads \ DOMAIN payloads'),
              !.moved    = @ \cup {id \in DOMAIN payloads \cap DOMAIN payloads' :
                                     PayloadKey(id, walk.set.sortBy)
                                        # PayloadKey(id, walk.set.sortBy)'}]
       ELSE UNCHANGED during

ReadNext == WriteMeanwhile \/ ReadPage \/ \E w \in Walks : StartWalk(w)

ReadSpec == ReadInit /\ [][ReadNext]_allVars

-----------------------------------------------------------------------------
(***************************************************************************)
(* A walk through all pages finds every payload that was there from its    *)
(* start to its end, unless meanwhile a payload was deleted, one changed   *)
(* its place, or it tied with another in the sort column.  It finds none   *)
(* twice unless one was inserted, changed its place or tied.  Both as far  *)
(* as page times page_size does not overflow.  By created_at, the default, *)
(* no payload ever changes its place.                                      *)
(***************************************************************************)
OffsetsFit == (walk.page - 1) * walk.set.pageSize < IntLimit

WalkIsReliable ==
    walk.phase # "idle" =>
        /\ walk.phase = "done" /\ OffsetsFit =>
              \A id \in during.atStart \cap DOMAIN payloads :
                  \/ id \in Seqs!ToSet(walk.seen) \cup during.tied
                  \/ during.deleted \cup during.moved # {}
        /\ OffsetsFit =>
              \A i, j \in DOMAIN walk.seen :
                  i # j /\ walk.seen[i] = walk.seen[j] =>
                      \/ walk.seen[i] \in during.tied
                      \/ during.inserted \cup during.moved # {}
        /\ walk.set.sortBy = "created_at" => during.moved = {}

(***************************************************************************)
(* Whatever the page size, each row of an answer is on exactly one of its  *)
(* pages, as far as page times page_size does not overflow.                *)
(***************************************************************************)
PagesPartition ==
    LET key == [id \in DOMAIN payloads |-> PayloadKey(id, "created_at")]
    IN  \A list \in OrderBy(key, "desc"), n \in 1..(IntLimit - 1) :
          \A i \in DOMAIN list : i <= IntLimit =>
             Cardinality({p \in 0..((IntLimit - 1) \div n) :
                             list[i] \in Seqs!ToSet(Page(list, p, n))}) = 1

(***************************************************************************)
(* No status that is stored gets lost in the joins: it is among the        *)
(* details of exactly one request, which is its message's own unless some  *)
(* message chose the id of its payload, with the names that its message    *)
(* gave, and in /statuses just if the message gave a source.               *)
(***************************************************************************)
AllStatuses == [names |-> [k \in Kinds |-> Blank], date |-> NoRows, sortBy |-> "date",
                sortDir |-> "asc", page |-> 0, pageSize |-> -1]

EveryStatusListed ==
    \A s \in DOMAIN statuses :
        LET m == delivered[statuses[s].delivery].msg
        IN  /\ Cardinality({r \in Requests : s \in DetailRows(r)}) = 1
            /\ NoChosenIds => s \in DetailRows(m.request)
            /\ \A k \in Kinds : NameOf(s, k) = Lower[m.names[k]]
            /\ \A list \in RetrieveStatuses(AllStatuses) :
                  s \in Seqs!ToSet(list) <=> m.names["source"] # Blank

(***************************************************************************)
(* CalculateDurations does not depend on the order it is given the rows    *)
(* in, and agrees with the latest date less the earliest, per service and  *)
(* source and over all.  A verbosity without sources leaves the total time *)
(* as it is and merges the sources of a service, each of which takes no    *)
(* longer than the service.                                                *)
(***************************************************************************)
Span(dates) == CHOOSE n \in {b - a : a, b \in dates} : \A a, b \in dates : b - a <= n

DurationsAgree ==
    \A r \in Requests, v \in Verbosities :
        \A rows \in RetrieveRequestIdPayloads(r, "status_msg", "asc", v) : rows # <<>> =>
            LET d == CalculateDurations(rows)
                all == Seqs!ToSet(rows)
            IN  /\ DOMAIN d.services = {ServiceSource(row) : row \in all}
                /\ \A key \in DOMAIN d.services :
                      d.services[key]
                         = Span({row.date : row \in {x \in all : ServiceSource(x) = key}})
                /\ d.total_time = Span({row.date : row \in all})
                /\ \A full \in RetrieveRequestIdPayloads(r, "date", "asc", "0") :
                      LET e == CalculateDurations(full)
                      IN  /\ e.total_time = d.total_time
                          /\ v # "0" => \A key \in DOMAIN e.services :
                                e.services[key] <= d.services[<<key[1], "undefined">>]

(***************************************************************************)
(* "returns 404 when no match is found"                                    *)
(* (docs/data-validation-guidelines.md:7): a request that has statuses is  *)
(* found, whichever of the documented parameters a client sends.           *)
(***************************************************************************)
FoundIfStored ==
    \A r \in Requests, by \in API!validIDSortBy, dir \in API!validSortDir, v \in Verbosities :
        DetailRows(r) # {} => <<>> \notin RetrieveRequestIdPayloads(r, by, dir, v)

=============================================================================
