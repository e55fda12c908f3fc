---------------------------- MODULE MCApiServer ----------------------------
EXTENDS ApiServer

\* A listing as most clients send it: page 0 of ten, nothing else said.
Bare(endpoint) == [endpoint |-> endpoint, sort_by |-> "", sort_dir |-> "",
                   page |-> "", page_size |-> "", created_at |-> "", date |-> "",
                   identity |-> "missing", uuid |-> TRUE]

Link(endpoint, identity, uuid) ==
    [Bare(endpoint) EXCEPT !.identity = identity, !.uuid = uuid]

\* One request for every way through a handler, and the ways past a check.
MCRequestSet ==
    {Bare(e) : e \in {"payloads", "details", "lubdub", "root", "health", "archive"}}
    \cup {Link("archiveLink", i, TRUE) : i \in {"not JSON", "no role", "role"}}
    \cup {Link("archiveLink", "role", FALSE), Link("kibanaLink", "missing", FALSE),
          Link("kibanaLink", "missing", TRUE), Link("roles", "role", FALSE),
          Link("roles", "not base64", TRUE)}
    \cup {[Bare("statuses") EXCEPT !.page = p, !.page_size = s] :
             p \in {"", "malformed"}, s \in {"parses", "malformed"}}
    \cup {[Bare("details")  EXCEPT !.created_at = "malformed"],
          [Bare("details")  EXCEPT !.sort_by = "account"],
          [Bare("payloads") EXCEPT !.sort_by = "date"],
          [Bare("payloads") EXCEPT !.created_at = "malformed"],
          [Bare("statuses") EXCEPT !.date = "malformed"],
          [Bare("statuses") EXCEPT !.sort_dir = "up"]}
============================================================================
