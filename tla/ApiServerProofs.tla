--------------------------- MODULE ApiServerProofs ---------------------------
(***************************************************************************)
(* The safety properties of ApiServer for any set of requests and any      *)
(* number of them.  Each follows from what is known of a single request    *)
(* at each point of its handler (Known), from the process' end being the   *)
(* last thing that happens, and from the configuration never changing.     *)
(***************************************************************************)
EXTENDS ApiServer, SequenceTheorems, FiniteSetTheorems, TLAPS

Events == {"none", "AUTH_FAILURE", "AUTHZ_FAILURE", "READ"}

\* What a handler knows of its request while it waits for somebody.
Waiting(c) ==
    /\ c.pc \in {"check", "query", "broker", "aborted"} => c.event = "none"
    /\ c.pc = "query" => c.request.endpoint \in Listings \cup {"health"}
    /\ c.pc = "query" /\ c.request.endpoint \in Listings => ~Refused(c.request)
    /\ c.pc \in {"broker", "link"} => /\ c.request.endpoint = "archiveLink"
                                      /\ c.request.identity = "role" /\ c.request.uuid
                                      /\ config[1] = "storage-broker"
    /\ c.pc = "link" => c.event = Logged("READ")

\* What the security log has of a request.
Recorded(c) ==
    config = <<"storage-broker", "INFO">> =>
        /\ c.request.endpoint = "archiveLink" /\ c.code = 200 => c.event = "READ"
        /\ c.event = "READ" => /\ c.request.endpoint = "archiveLink"
                               /\ c.request.identity = "role" /\ c.request.uuid
                               /\ c.code = 200 \/ c.pc = "link"
        /\ c.event \in {"AUTH_FAILURE", "AUTHZ_FAILURE"} <=> c.code \in {401, 403}

\* What the status code of a listing says of its parameters.
Decided(c) ==
    c.request.endpoint \in Listings =>
        /\ c.code = 400 => Refused(c.request)
        /\ c.code \in {200, 404, 500} => ~Refused(c.request)

Known(c) ==
    /\ c.code = NoCode <=> c.pc # "done"
    /\ Waiting(c) /\ Recorded(c) /\ Decided(c)

IInv ==
    /\ TypeOK
    /\ lifecycle # "none" => server = "down"
    /\ \A i \in DOMAIN calls : Known(calls[i])

-----------------------------------------------------------------------------
(***************************************************************************)
(* The shape of a step of a handler: one request of those under way moves, *)
(* and what it becomes is again a request about which all is Known.        *)
(***************************************************************************)
Becomes(i, c) == /\ c \in Call /\ Known(c)
                 /\ calls' = [calls EXCEPT ![i] = c]

Moves(i) ==
    /\ i \in DOMAIN calls /\ server # "down"
    /\ \E c \in Call : Becomes(i, c)
    /\ UNCHANGED main
    /\ responseCodes' \in [Codes -> Nat] /\ requests' \in Nat /\ invalidIDs' \in Nat

\* Requests are in an array that is written at one place.
LEMMA MoveKeepsIInv ==
    ASSUME IInv, NEW i, Moves(i)
    PROVE  IInv'
<1> USE DEF IInv, TypeOK, Moves, main, config
<1> PICK c \in Call : Becomes(i, c)
  OBVIOUS
<1>1. i \in 1..Len(calls) /\ DOMAIN calls = 1..Len(calls)
  BY LenProperties
<1>2. /\ calls' \in Seq(Call) /\ Len(calls') = Len(calls)
      /\ \A j \in 1..Len(calls) : calls'[j] = IF j = i THEN c ELSE calls[j]
  BY <1>1, ExceptSeq DEF Becomes
<1>3. DOMAIN calls' = DOMAIN calls
  BY <1>1, <1>2, LenProperties
<1>4. ASSUME NEW j \in DOMAIN calls' PROVE Known(calls[j])'
  BY <1>1, <1>2, <1>3, <1>4 DEF Becomes, Known, Waiting, Recorded, Decided, Logged
<1>5. TypeOK'
  BY <1>2, <1>3, <1>4 DEF Known
<1>6. (lifecycle # "none" => server = "down")'
  OBVIOUS
<1> QED
  BY <1>4, <1>5, <1>6

(***************************************************************************)
(* What a handler has to see to before it answers with code and enters     *)
(* event in the security log.                                              *)
(***************************************************************************)
Justified(r, code, event) ==
    /\ r.endpoint = "archiveLink" /\ code = 200 /\ requestor = "storage-broker" =>
          event = "READ"
    /\ event = "READ" => /\ r.endpoint = "archiveLink" /\ r.identity = "role" /\ r.uuid
                         /\ code = 200
    /\ event \in {"AUTH_FAILURE", "AUTHZ_FAILURE"} <=> code \in {401, 403}
    /\ r.endpoint \in Listings => /\ code = 400 => Refused(r)
                                  /\ code \in {200, 404, 500} => ~Refused(r)

\* A handler that sees to it may answer.
LEMMA AnswerMoves ==
    ASSUME IInv, server # "down", UNCHANGED main, requests' \in Nat, invalidIDs' \in Nat,
           NEW i \in DOMAIN calls, NEW code \in Codes, NEW event \in Events,
           Justified(calls[i].request, code, event), Answer(i, code, event)
    PROVE  IInv'
<1> DEFINE r == calls[i].request
           c == [request |-> r, pc |-> "done", code |-> code, event |-> Logged(event)]
<1>1. calls[i] \in Call
  BY LenProperties, ElementOfSeq DEF IInv, TypeOK
<1>2. Logged(event) \in Events /\ code # NoCode
  BY DEF Logged, Events, Codes, NoCode
<1>3. c \in Call
  BY <1>1, <1>2 DEF Call, Events
<1>4. calls' = [calls EXCEPT ![i] = c]
  <2> DEFINE x == calls[i]
             c1 == [request |-> r, pc |-> "done", code |-> x.code, event |-> x.event]
             c2 == [request |-> r, pc |-> "done", code |-> code, event |-> x.event]
  <2>1. [x EXCEPT !.pc = "done"] = c1 /\ [c1 EXCEPT !.code = code] = c2
    BY <1>1 DEF Call
  <2>2. [c2 EXCEPT !.event = Logged(event)] = c
    OBVIOUS
  <2>3. calls' = [calls EXCEPT ![i] = [calls[i] EXCEPT !.pc = "done", !.code = code,
                                                      !.event = Logged(event)]]
    BY DEF Answer
  <2> QED
    BY <2>1, <2>2, <2>3, Zenon
<1>5. Recorded(c)
  BY DEF Recorded, Justified, config, Logged
<1>6. Waiting(c) /\ Decided(c)
  BY DEF Waiting, Decided, Justified
<1>7. Known(c)
  BY <1>2, <1>5, <1>6 DEF Known
<1>8. responseCodes' \in [Codes -> Nat]
  BY DEF Answer, WriteHeader, IInv, TypeOK
<1> QED
  BY <1>3, <1>4, <1>7, <1>8, MoveKeepsIInv DEF Moves, Becomes

\* What it has to see to before it waits for somebody, and has not answered.
MayAwait(r, pc) ==
    /\ pc = "query" => /\ r.endpoint \in Listings \cup {"health"}
                       /\ r.endpoint \in Listings => ~Refused(r)
    /\ pc = "broker" => /\ r.endpoint = "archiveLink" /\ r.identity = "role" /\ r.uuid
                        /\ requestor = "storage-broker"

\* ... and one that sees to that may wait.
LEMMA AwaitMoves ==
    ASSUME IInv, server # "down", UNCHANGED main, requests' \in Nat, invalidIDs' \in Nat,
           NEW i \in DOMAIN calls, NEW pc \in {"query", "broker", "aborted"},
           calls[i].pc = "check", MayAwait(calls[i].request, pc), Await(i, pc)
    PROVE  IInv'
<1> DEFINE r == calls[i].request
           c == [request |-> r, pc |-> pc, code |-> NoCode, event |-> "none"]
<1>1. calls[i] \in Call /\ calls[i].code = NoCode /\ calls[i].event = "none"
  BY LenProperties, ElementOfSeq DEF IInv, TypeOK, Known, Waiting
<1>2. c \in Call
  BY <1>1 DEF Call, Pending
<1>3. calls' = [calls EXCEPT ![i] = c]
  <2>1. [calls[i] EXCEPT !.pc = pc] = c
    BY <1>1 DEF Call
  <2>2. calls' = [calls EXCEPT ![i] = [calls[i] EXCEPT !.pc = pc]]
    BY DEF Await
  <2> QED
    BY <2>1, <2>2
<1>4. Waiting(c)
  BY DEF Waiting, MayAwait, config
<1>5. Recorded(c) /\ Decided(c)
  BY DEF Recorded, Decided, NoCode
<1>6. Known(c)
  BY <1>4, <1>5 DEF Known
<1>7. responseCodes' \in [Codes -> Nat]
  BY DEF Await, IInv, TypeOK
<1> QED
  BY <1>2, <1>3, <1>6, <1>7, MoveKeepsIInv DEF Moves, Becomes

-----------------------------------------------------------------------------
\* The role lets a request through, and its absence is told apart.
LEMMA RoleCode ==
    ASSUME NEW r
    PROVE  LET role == checkForRole(r)
           IN  \/ r.identity = "role" /\ role.code = 200
               \/ role.code = 403 /\ role.event = "AUTHZ_FAILURE"
               \/ role.code = 401 /\ role.event = "AUTH_FAILURE"
<1>1. CASE r.identity = "role"
  <2>1. checkForRole(r) = [code |-> 200, event |-> "none"]
    BY <1>1 DEF checkForRole
  <2> QED
    BY <1>1, <2>1
<1>2. CASE r.identity = "no role"
  <2>1. checkForRole(r) = [code |-> 403, event |-> "AUTHZ_FAILURE"]
    BY <1>2 DEF checkForRole
  <2> QED
    BY <2>1
<1>3. CASE r.identity \notin {"role", "no role"}
  <2>1. checkForRole(r) = [code |-> 401, event |-> "AUTH_FAILURE"]
    BY <1>3 DEF checkForRole
  <2> QED
    BY <2>1
<1> QED
  BY <1>1, <1>2, <1>3

\* The steps by which a request is answered or goes on to wait.
LEMMA AskMoves ==
    ASSUME IInv, server # "down", UNCHANGED main, requests' \in Nat, invalidIDs' \in Nat,
           NEW i, At(i, "check", Listings), Ask(i)
    PROVE  IInv'
<1>1. CASE Refused(calls[i].request)
  <2>1. Justified(calls[i].request, 400, "none")
    BY <1>1 DEF Justified, Listings, At
  <2> QED
    BY <1>1, <2>1, AnswerMoves DEF Ask, Refuse, At, Codes, Events
<1>2. CASE ~Refused(calls[i].request)
  <2>1. MayAwait(calls[i].request, "query")
    BY <1>2 DEF MayAwait, At
  <2> QED
    BY <1>2, <2>1, AwaitMoves DEF Ask, At
<1> QED
  BY <1>1, <1>2

\* A bad request id is refused, by a handler that lists nothing.
LEMMA RefuseIDMoves ==
    ASSUME IInv, server # "down", UNCHANGED main, requests' \in Nat,
           NEW i, At(i, "check", Endpoints \ Listings), RefuseID(i)
    PROVE  IInv'
<1>1. Justified(calls[i].request, 400, "none")
  BY DEF Justified, At
<1>2. invalidIDs' \in Nat
  BY DEF RefuseID, IInv, TypeOK
<1> QED
  BY <1>1, <1>2, AnswerMoves DEF RefuseID, At, Codes, Events

\* An identity without the role is refused and entered in the security log.
LEMMA RefuseRoleMoves ==
    ASSUME IInv, server # "down", UNCHANGED main, requests' \in Nat,
           NEW i, At(i, "check", Endpoints \ Listings),
           checkForRole(calls[i].request).code # 200, RefuseRole(i)
    PROVE  IInv'
<1> DEFINE role == checkForRole(calls[i].request)
<1>1. \/ role.code = 403 /\ role.event = "AUTHZ_FAILURE"
      \/ role.code = 401 /\ role.event = "AUTH_FAILURE"
  BY RoleCode
<1>2. invalidIDs' \in Nat /\ Answer(i, role.code, role.event)
  BY DEF RefuseRole, IInv, TypeOK
<1>3. Justified(calls[i].request, role.code, role.event)
  BY <1>1 DEF Justified, At
<1>4. role.code \in Codes /\ role.event \in Events
  BY <1>1 DEF Codes, Events
<1> QED
  BY <1>2, <1>3, <1>4, AnswerMoves DEF At

\* The handlers, up to where they wait, and SendLink, which waits no more.
LEMMA HandleKeepsIInv ==
    ASSUME IInv, server # "down", NEW i, Handle(i)
    PROVE  IInv'
<1> requests \in Nat /\ invalidIDs \in Nat
  BY DEF IInv, TypeOK
<1>1. CASE Payloads(i)
  <2>1. At(i, "check", Listings) /\ UNCHANGED main /\ requests' \in Nat /\ invalidIDs' \in Nat
    BY <1>1 DEF Payloads, At, Listings
  <2> QED
    BY <1>1, <2>1, AskMoves DEF Payloads
<1>2. CASE RequestIdPayloads(i) \/ Statuses(i)
  <2>1. At(i, "check", Listings) /\ UNCHANGED main /\ requests' \in Nat /\ invalidIDs' \in Nat
    BY <1>2 DEF RequestIdPayloads, Statuses, At, Listings
  <2> QED
    BY <1>2, <2>1, AskMoves DEF RequestIdPayloads, Statuses
<1>3. CASE PayloadArchiveLink(i)
  <2>1. /\ At(i, "check", {"archiveLink"}) /\ At(i, "check", Endpoints \ Listings)
        /\ UNCHANGED main /\ requests' \in Nat /\ requestor = "storage-broker"
    BY <1>3 DEF PayloadArchiveLink, At, Endpoints, Listings
  <2>2. CASE checkForRole(calls[i].request).code # 200
    BY <1>3, <2>1, <2>2, RefuseRoleMoves DEF PayloadArchiveLink
  <2>3. CASE checkForRole(calls[i].request).code = 200 /\ ~calls[i].request.uuid
    BY <1>3, <2>1, <2>3, RefuseIDMoves DEF PayloadArchiveLink
  <2>4. CASE checkForRole(calls[i].request).code = 200 /\ calls[i].request.uuid
    <3>1. Await(i, "broker") /\ invalidIDs' \in Nat
      BY <1>3, <2>4 DEF PayloadArchiveLink
    <3>2. calls[i].request.identity = "role"
      BY <2>4, RoleCode
    <3>3. MayAwait(calls[i].request, "broker")
      BY <2>1, <2>4, <3>2 DEF MayAwait, At
    <3> QED
      BY <2>1, <3>1, <3>3, AwaitMoves DEF At
  <2> QED
    BY <2>2, <2>3, <2>4
<1>4. CASE MockArchiveLink(i)
  <2>1. /\ i \in DOMAIN calls /\ Answer(i, 200, "none")
        /\ UNCHANGED main /\ requests' \in Nat /\ invalidIDs' \in Nat
    BY <1>4 DEF MockArchiveLink, At
  <2>2. Justified(calls[i].request, 200, "none")
    BY <1>4 DEF MockArchiveLink, At, Justified, Listings
  <2> QED
    BY <2>1, <2>2, AnswerMoves DEF Codes, Events
<1>5. CASE NoArchiveLink(i)
  BY <1>5, AwaitMoves DEF NoArchiveLink, At, MayAwait
<1>6. CASE PayloadKibanaLink(i)
  <2>1. /\ At(i, "check", {"kibanaLink"}) /\ At(i, "check", Endpoints \ Listings)
        /\ UNCHANGED main /\ requests' \in Nat
    BY <1>6 DEF PayloadKibanaLink, At, Endpoints, Listings
  <2>2. CASE calls[i].request.uuid
    <3>1. Justified(calls[i].request, 200, "none")
      BY <2>1 DEF Justified, At, Listings
    <3> QED
      BY <1>6, <2>1, <2>2, <3>1, AnswerMoves DEF PayloadKibanaLink, At, Codes, Events
  <2>3. CASE ~calls[i].request.uuid
    BY <1>6, <2>1, <2>3, RefuseIDMoves DEF PayloadKibanaLink
  <2> QED
    BY <2>2, <2>3
<1>7. CASE RolesArchiveLink(i)
  <2>1. /\ At(i, "check", {"roles"}) /\ At(i, "check", Endpoints \ Listings)
        /\ UNCHANGED main /\ requests' \in Nat
    BY <1>7 DEF RolesArchiveLink, At, Endpoints, Listings
  <2>2. CASE checkForRole(calls[i].request).code = 200
    <3>1. Justified(calls[i].request, 200, "none")
      BY <2>1 DEF Justified, At, Listings
    <3> QED
      BY <1>7, <2>1, <2>2, <3>1, AnswerMoves DEF RolesArchiveLink, At, Codes, Events
  <2>3. CASE checkForRole(calls[i].request).code # 200
    BY <1>7, <2>1, <2>3, RefuseRoleMoves DEF RolesArchiveLink
  <2> QED
    BY <2>2, <2>3
<1>8. CASE Plain(i)
  <2>1. PICK code \in {200, 404} : Answer(i, code, "none")
    BY <1>8 DEF Plain
  <2>2. Justified(calls[i].request, code, "none")
    BY <1>8 DEF Plain, At, Justified, Listings
  <2> QED
    BY <1>8, <2>1, <2>2, AnswerMoves DEF Plain, At, Codes, Events
<1>9. CASE HealthCheck(i)
  <2>1. MayAwait(calls[i].request, "query")
    BY <1>9 DEF HealthCheck, At, MayAwait, Listings
  <2> QED
    BY <1>9, <2>1, AwaitMoves DEF HealthCheck, At
<1>10. CASE SendLink(i)
  <2> DEFINE c == calls[i]
  <2>1. /\ i \in DOMAIN calls /\ c \in Call /\ c.pc = "link" /\ Answer(i, 200, c.event)
        /\ UNCHANGED main /\ requests' \in Nat /\ invalidIDs' \in Nat
    BY <1>10, LenProperties, ElementOfSeq DEF SendLink, At, IInv, TypeOK
  <2>2. /\ c.request.endpoint = "archiveLink" /\ c.request.identity = "role"
        /\ c.request.uuid /\ c.event = Logged("READ") /\ requestor = "storage-broker"
    BY <2>1 DEF IInv, Known, Waiting, config
  <2>3. Answer(i, 200, "READ")
    BY <2>1, <2>2 DEF Answer, Logged
  <2>4. Justified(c.request, 200, "READ")
    BY <2>2 DEF Justified, Listings
  <2> QED
    BY <2>1, <2>3, <2>4, AnswerMoves DEF Codes, Events
<1> QED
  BY <1>1, <1>2, <1>3, <1>4, <1>5, <1>6, <1>7, <1>8, <1>9, <1>10 DEF Handle

\* What the database and storage-broker have to say.
LEMMA ReturnsKeepIInv ==
    ASSUME IInv, server # "down", NEW i,
           QueryReturns(i) \/ PingReturns(i) \/ BrokerAnswers(i) \/ BrokerTimesOut(i)
    PROVE  IInv'
<1> DEFINE r == calls[i].request
<1>1. /\ i \in DOMAIN calls /\ calls[i] \in Call /\ Known(calls[i])
      /\ UNCHANGED main /\ requests' \in Nat /\ invalidIDs' \in Nat
  BY LenProperties, ElementOfSeq
     DEF QueryReturns, PingReturns, BrokerAnswers, BrokerTimesOut, At, IInv, TypeOK
<1>2. CASE QueryReturns(i)
  <2>1. PICK code \in {200, 404, 500} : Answer(i, code, "none")
    BY <1>2 DEF QueryReturns
  <2>2. Justified(r, code, "none")
    BY <1>1, <1>2 DEF QueryReturns, At, Known, Waiting, Justified, Listings
  <2> QED
    BY <1>1, <2>1, <2>2, AnswerMoves DEF Codes, Events
<1>3. CASE PingReturns(i)
  <2>1. PICK code \in {200, 500} : Answer(i, code, "none")
    BY <1>3 DEF PingReturns
  <2>2. Justified(r, code, "none")
    BY <1>3 DEF PingReturns, At, Justified, Listings
  <2> QED
    BY <1>1, <2>1, <2>2, AnswerMoves DEF Codes, Events
<1>4. CASE BrokerTimesOut(i) \/ BrokerAnswers(i)
  <2>1. calls[i].pc = "broker" /\ r.endpoint = "archiveLink" /\ r.identity = "role" /\ r.uuid
        /\ config[1] = "storage-broker" /\ calls[i].code = NoCode
    BY <1>1, <1>4 DEF BrokerAnswers, BrokerTimesOut, At, Known, Waiting
  <2>2. CASE \E code \in {404, 500} : Answer(i, code, "none")
    <3>1. PICK code \in {404, 500} : Answer(i, code, "none")
      BY <2>2
    <3>2. Justified(r, code, "none")
      BY <2>1 DEF Justified, Listings
    <3> QED
      BY <1>1, <3>1, <3>2, AnswerMoves DEF Codes, Events
  <2>3. CASE LinkFound(i)
    <3> DEFINE x  == calls[i]
               c1 == [request |-> r, pc |-> "link", code |-> x.code, event |-> x.event]
               c  == [request |-> r, pc |-> "link", code |-> x.code, event |-> Logged("READ")]
    <3>1. [x EXCEPT !.pc = "link"] = c1
      BY <1>1 DEF Call
    <3>2. [c1 EXCEPT !.event = Logged("READ")] = c
      OBVIOUS
    <3>3. calls' = [calls EXCEPT ![i] = [calls[i] EXCEPT !.pc = "link", !.event = Logged("READ")]]
      BY <2>3 DEF LinkFound
    <3>4. calls' = [calls EXCEPT ![i] = c]
      BY <3>1, <3>2, <3>3, Zenon
    <3>5. c \in Call
      BY <1>1 DEF Call, Pending, Logged
    <3>6. Waiting(c) /\ Recorded(c) /\ Decided(c)
      BY <2>1 DEF Waiting, Recorded, Decided, config, Logged, NoCode
    <3>7. Known(c)
      BY <2>1, <3>6 DEF Known
    <3>8. responseCodes' \in [Codes -> Nat]
      BY <2>3 DEF LinkFound, IInv, TypeOK
    <3> QED
      BY <1>1, <3>4, <3>5, <3>7, <3>8, MoveKeepsIInv DEF Moves, Becomes
  <2> QED
    BY <1>4, <2>2, <2>3 DEF BrokerTimesOut, BrokerAnswers
<1> QED
  BY <1>2, <1>3, <1>4

\* A request that arrives is new to its handler, or never gets there.
LEMMA ArriveKeepsIInv ==
    ASSUME IInv, NEW r \in RequestSet, Arrive(r)
    PROVE  IInv'
<1>1. PICK c \in Call : /\ calls' = Append(calls, c) /\ c.event = "none"
                        /\ \/ c.pc = "check" /\ c.code = NoCode
                           \/ c.pc = "done" /\ c.code = 429
  <2>1. PICK start \in {[pc |-> "check", code |-> NoCode], [pc |-> "done", code |-> 429]} :
            calls' = Append(calls, [request |-> r, pc |-> start.pc, code |-> start.code,
                                    event |-> "none"])
    BY DEF Arrive
  <2> DEFINE c == [request |-> r, pc |-> start.pc, code |-> start.code, event |-> "none"]
  <2>2. c \in Call
    BY DEF Call, Pending, Codes, NoCode
  <2> QED
    BY <2>1, <2>2
<1>2. Known(c)
  BY <1>1 DEF Known, Waiting, Recorded, Decided, NoCode
<1>3. /\ calls' \in Seq(Call) /\ Len(calls) \in Nat /\ DOMAIN calls = 1..Len(calls)
      /\ Len(calls') = Len(calls) + 1 /\ calls'[Len(calls) + 1] = c
      /\ \A j \in DOMAIN calls : calls'[j] = calls[j]
  BY <1>1, AppendProperties, LenProperties DEF IInv, TypeOK
<1>4. DOMAIN calls' = 1..(Len(calls) + 1)
  BY <1>3, LenProperties
<1>5. ASSUME NEW j \in DOMAIN calls' PROVE Known(calls[j])'
  <2>1. Known(calls'[j])
    BY <1>2, <1>3, <1>4 DEF IInv
  <2> QED
    BY <2>1 DEF Arrive, main, config, Known, Waiting, Recorded, Decided, Logged
<1>6. TypeOK'
  BY <1>3, <1>5 DEF Arrive, main, config, counters, Known, IInv, TypeOK
<1> QED
  BY <1>5, <1>6 DEF Arrive, main, IInv

\* Nothing else touches the requests, not even the end of the process.
LEMMA MainKeepsIInv ==
    ASSUME IInv, Signal \/ Shutdown \/ DeadlinePasses \/ Leave \/ ServeFails \/ Killed
    PROVE  IInv'
<1>1. UNCHANGED <<calls, config, counters>>
  BY DEF Signal, Shutdown, DeadlinePasses, Leave, ServeFails, Killed, Exit
<1>2. (\A i \in DOMAIN calls : Known(calls[i]))'
  BY <1>1 DEF IInv, Known, Waiting, Recorded, Decided, Logged, config
<1>3. TypeOK'
  BY <1>1 DEF Signal, Shutdown, DeadlinePasses, Leave, ServeFails, Killed, Exit, Logged,
              IInv, TypeOK, config, counters
<1>4. (lifecycle # "none" => server = "down")'
  BY <1>1 DEF Signal, Shutdown, DeadlinePasses, Leave, ServeFails, Killed, Exit, Logged,
              IInv
<1> QED
  BY <1>2, <1>3, <1>4 DEF IInv

\* Before the first request there is nothing to get wrong.
LEMMA InitIInv == Init => IInv
<1> SUFFICES ASSUME Init PROVE IInv
  OBVIOUS
<1>1. calls \in Seq(Call) /\ DOMAIN calls = {}
  BY EmptySeq DEF Init
<1>2. responseCodes \in [Codes -> Nat] /\ requests \in Nat /\ invalidIDs \in Nat
  BY DEF Init
<1>3. TypeOK
  BY <1>1, <1>2 DEF Init, TypeOK
<1> QED
  BY <1>1, <1>3 DEF Init, IInv

\* Every step of ApiServer keeps the inductive invariant.
LEMMA StepIInv == IInv /\ [Next]_vars => IInv'
<1> SUFFICES ASSUME IInv, [Next]_vars PROVE IInv'
  OBVIOUS
<1>1. CASE UNCHANGED vars
  BY <1>1 DEF vars, main, config, counters, IInv, TypeOK,
              Known, Waiting, Recorded, Decided, Logged
<1>2. ASSUME NEW r \in RequestSet, Arrive(r) PROVE IInv'
  BY <1>2, ArriveKeepsIInv
<1>3. ASSUME NEW i \in 1..MaxCalls, server # "down", Handle(i) PROVE IInv'
  BY <1>3, HandleKeepsIInv
<1>4. ASSUME NEW i \in 1..MaxCalls, server # "down",
             QueryReturns(i) \/ PingReturns(i) \/ BrokerAnswers(i) \/ BrokerTimesOut(i)
      PROVE  IInv'
  BY <1>4, ReturnsKeepIInv
<1>5. CASE Signal \/ Shutdown \/ DeadlinePasses \/ Leave \/ ServeFails \/ Killed
  BY <1>5, MainKeepsIInv
<1> QED
  BY <1>1, <1>2, <1>3, <1>4, <1>5 DEF Next

\* So the invariant holds for ever, with any requests and configuration.
LEMMA SpecIInv == Spec => []IInv
  BY InitIInv, StepIInv, PTL DEF Spec

-----------------------------------------------------------------------------
\* Whatever clients send, the process is in a state the code knows.
THEOREM ApiTypeCorrect == Spec => []TypeOK
  BY SpecIInv, PTL DEF IInv

(***************************************************************************)
(* The security log has every archive link that is handed out, and every   *)
(* request that is turned away for its identity, whoever else is at work.  *)
(***************************************************************************)
THEOREM AuditComplete == Spec => []LinksAreLogged
<1>1. IInv => LinksAreLogged
  BY DEF IInv, Known, Recorded, LinksAreLogged
<1> QED
  BY <1>1, SpecIInv, PTL

(***************************************************************************)
(* A listing is refused only for a bad parameter, and gets as far as its   *)
(* query only without a bad sort, timestamp or page size.  This takes what *)
(* requests are made of: every number and every timestamp is absent,       *)
(* parses or is malformed.                                                 *)
(***************************************************************************)
THEOREM ParametersDecide == Spec => []RefusalsJustified
<1>1. ASSUME NEW r \in RequestSet, r.endpoint \in Listings
      PROVE  /\ Refused(r) => BadSort(r) \/ BadTime(r) \/ BadPage(r)
             /\ ~Refused(r) => ~BadSort(r) /\ ~BadTime(r) /\ r.page_size # "malformed"
  <2>1. /\ r.page \in Parsed /\ r.page_size \in Parsed
        /\ r.created_at \in Parsed /\ r.date \in Parsed
    BY RequestAssumption
  <2>2. initQuery_err(r) => BadPage(r)
    BY DEF initQuery_err, BadPage
  <2>3. ~initQuery_err(r) => r.page_size # "malformed"
    BY <2>1 DEF initQuery_err, Parsed
  <2>4. (SortBy(r) \notin SortColumns(r.endpoint) \/ SortDir(r) \notin validSortDir) <=> BadSort(r)
    BY <1>1 DEF SortBy, SortDir, BadSort, Listings, SortColumns, validSortDir,
                validAllSortBy, validIDSortBy, validStatusesSortBy
  <2>5. (r.endpoint # "details" /\ ~validTimestamps(r, r.endpoint = "statuses")) <=> BadTime(r)
    BY <1>1 DEF validTimestamps, BadTime, Listings
  <2> QED
    BY <2>2, <2>3, <2>4, <2>5 DEF Refused
<1>2. IInv => RefusalsJustified
  <2> SUFFICES ASSUME IInv, NEW i \in DOMAIN calls, calls[i].request.endpoint \in Listings
               PROVE  LET c == calls[i] IN
                        /\ c.code = 400 =>
                              BadSort(c.request) \/ BadTime(c.request) \/ BadPage(c.request)
                        /\ c.code \in {200, 404, 500} =>
                              /\ ~BadSort(c.request) /\ ~BadTime(c.request)
                              /\ c.request.page_size # "malformed"
    BY DEF RefusalsJustified
  <2>1. calls[i].request \in RequestSet
    <3>1. calls[i] \in Call
      BY LenProperties, ElementOfSeq DEF IInv, TypeOK
    <3> QED
      BY <3>1 DEF Call
  <2>2. Decided(calls[i])
    BY DEF IInv, Known
  <2> QED
    BY <1>1, <2>1, <2>2 DEF Decided
<1> QED
  BY <1>2, SpecIInv, PTL

-----------------------------------------------------------------------------
(***************************************************************************)
(* The counters.  Each is the number of the requests that one of these     *)
(* conditions picks out.                                                   *)
(***************************************************************************)
Sent(c, code) == c.pc = "done" /\ c.code = code /\ code # 429 /\ Metered(c)
BadID(c)      == c.code = 400 /\ c.request.endpoint \in {"archiveLink", "kibanaLink"}
Listed(c)     == c.request.endpoint = "payloads" /\ c.code # 429 /\ c.pc # "check"

AllSent(code) == {i \in DOMAIN calls : Sent(calls[i], code)}
AllBadIDs     == {i \in DOMAIN calls : BadID(calls[i])}
AllListed     == {i \in DOMAIN calls : Listed(calls[i])}

Tallies == /\ \A code \in Codes : responseCodes[code] = Cardinality(AllSent(code))
           /\ invalidIDs = Cardinality(AllBadIDs)
           /\ requests = Cardinality(AllListed)

\* The property says just this.
LEMMA TalliesTell == Tallies => CountersTellAnswers
<1>1. \A code \in Codes :
         CallsWith(LAMBDA c : c.pc = "done" /\ c.code = code /\ code # 429 /\ Metered(c))
            = Cardinality(AllSent(code))
  BY DEF CallsWith, AllSent, Sent
<1>2. CallsWith(LAMBDA c : c.code = 400 /\ c.request.endpoint \in {"archiveLink", "kibanaLink"})
        = Cardinality(AllBadIDs)
  BY DEF CallsWith, AllBadIDs, BadID
<1> QED
  BY <1>1, <1>2 DEF Tallies, CountersTellAnswers

\* A condition that one more request meets picks out one more.
LEMMA OneMore ==
    ASSUME NEW n \in Nat, NEW S \in SUBSET (1..n), NEW i, NEW T,
           T = S \/ (i \notin S /\ T = S \cup {i})
    PROVE  /\ Cardinality(S) \in Nat
           /\ Cardinality(T) = IF T = S THEN Cardinality(S) ELSE Cardinality(S) + 1
<1>1. IsFiniteSet(S)
  <2>1. IsFiniteSet(1..n)
    BY FS_Interval
  <2> QED
    BY <2>1, FS_Subset
<1>2. Cardinality(S) \in Nat
  BY <1>1, FS_CardinalityType
<1>3. i \notin S => Cardinality(S \cup {i}) = Cardinality(S) + 1
  BY <1>1, FS_AddElement
<1> QED
  BY <1>2, <1>3

(***************************************************************************)
(* Every step that touches the requests makes call i the call c: it is     *)
(* answered, with a code that is counted if its route is metered, or goes  *)
(* on to wait; and the other counters move for what it is about.           *)
(***************************************************************************)
Turns(i, c) ==
    /\ i \in DOMAIN calls /\ calls[i].pc \in Pending
    /\ calls' = [calls EXCEPT ![i] = c]
    /\ c.request = calls[i].request /\ c.pc # "check"
    /\ \/ c.pc # "done" /\ c.code = NoCode /\ UNCHANGED responseCodes
       \/ c.pc = "done" /\ c.code \in Codes \ {429} /\ WriteHeader(i, c.code)

Booked(i, c) ==
    /\ invalidIDs' = IF BadID(c) THEN invalidIDs + 1 ELSE invalidIDs
    /\ requests' = IF calls[i].pc = "check" /\ c.request.endpoint = "payloads"
                   THEN requests + 1 ELSE requests

\* An answer turns a call in this way.
LEMMA AnswerTurns ==
    ASSUME IInv, NEW i \in DOMAIN calls, calls[i].pc \in Pending,
           NEW code \in Codes \ {429}, NEW event, Answer(i, code, event)
    PROVE  \E c : Turns(i, c) /\ c.code = code
<1> DEFINE c == [calls[i] EXCEPT !.pc = "done", !.code = code, !.event = Logged(event)]
<1>1. calls[i] \in Call
  BY LenProperties, ElementOfSeq DEF IInv, TypeOK
<1>2. c.request = calls[i].request /\ c.pc = "done" /\ c.code = code
  BY <1>1 DEF Call
<1>3. calls' = [calls EXCEPT ![i] = c] /\ WriteHeader(i, code)
  BY DEF Answer
<1> HIDE DEF c
<1>4. Turns(i, c)
  BY <1>2, <1>3 DEF Turns
<1> QED
  BY <1>2, <1>4

\* So does waiting.
LEMMA AwaitTurns ==
    ASSUME IInv, NEW i \in DOMAIN calls, calls[i].pc \in Pending,
           NEW pc \in {"query", "broker", "aborted"}, Await(i, pc)
    PROVE  \E c : Turns(i, c) /\ c.code = NoCode
<1> DEFINE c == [calls[i] EXCEPT !.pc = pc]
<1>1. calls[i] \in Call /\ calls[i].code = NoCode
  BY LenProperties, ElementOfSeq DEF IInv, TypeOK, Pending
<1>2. c.request = calls[i].request /\ c.pc = pc /\ c.code = NoCode
  BY <1>1 DEF Call
<1>3. calls' = [calls EXCEPT ![i] = c] /\ UNCHANGED responseCodes
  BY DEF Await
<1> HIDE DEF c
<1>4. Turns(i, c)
  BY <1>2, <1>3 DEF Turns
<1> QED
  BY <1>2, <1>4

\* So does a link that is found.
LEMMA LinkTurns ==
    ASSUME IInv, NEW i \in DOMAIN calls, calls[i].pc = "broker", LinkFound(i)
    PROVE  \E c : Turns(i, c) /\ c.code = NoCode
<1> DEFINE c == [calls[i] EXCEPT !.pc = "link", !.event = Logged("READ")]
<1>1. calls[i] \in Call /\ calls[i].code = NoCode
  BY LenProperties, ElementOfSeq DEF IInv, TypeOK, Pending
<1>2. c.request = calls[i].request /\ c.pc = "link" /\ c.code = NoCode
  BY <1>1 DEF Call
<1>3. calls' = [calls EXCEPT ![i] = c] /\ UNCHANGED responseCodes
  BY DEF LinkFound
<1> HIDE DEF c
<1>4. Turns(i, c)
  BY <1>2, <1>3 DEF Turns, Pending
<1> QED
  BY <1>2, <1>4

\* Whatever a call turns into, its tallies follow.
LEMMA TurnTallies ==
    ASSUME IInv, Tallies, NEW i, NEW c, Turns(i, c), Booked(i, c)
    PROVE  Tallies'
<1> DEFINE n == Len(calls)
           x == calls[i]
<1>1. /\ calls \in Seq(Call) /\ n \in Nat /\ DOMAIN calls = 1..n /\ i \in 1..n
      /\ calls' = [calls EXCEPT ![i] = c]
      /\ x.code = NoCode /\ x.pc # "done"
  BY LenProperties DEF IInv, TypeOK, Turns, Pending
<1>2. /\ DOMAIN calls' = 1..n /\ calls'[i] = c
      /\ \A j \in (1..n) \ {i} : calls'[j] = calls[j]
  BY <1>1
<1> HIDE DEF n
<1>3. ASSUME NEW code \in Codes
      PROVE  responseCodes'[code] = Cardinality(AllSent(code)')
  <2>1. ~Sent(x, code)
    BY <1>1 DEF Sent
  <2>2. i \notin AllSent(code) /\ AllSent(code) \in SUBSET (1..n)
    BY <1>1, <2>1 DEF AllSent
  <2>3. AllSent(code)' = {j \in DOMAIN calls' : Sent(calls'[j], code)}
    BY DEF AllSent, Sent, Metered
  <2>4. \A j : j \in AllSent(code)' <=> j \in AllSent(code) \/ (j = i /\ Sent(c, code))
    BY <1>1, <1>2, <2>1, <2>3 DEF AllSent
  <2>5. responseCodes'[code] = IF Sent(c, code) THEN responseCodes[code] + 1
                               ELSE responseCodes[code]
    <3>1. Metered(c) <=> Metered(calls[i])
      BY DEF Turns, Metered
    <3>2. responseCodes \in [Codes -> Nat]
      BY DEF IInv, TypeOK
    <3>3. CASE c.pc # "done" /\ UNCHANGED responseCodes
      BY <3>3 DEF Sent
    <3>4. CASE c.pc = "done" /\ c.code \in Codes \ {429} /\ WriteHeader(i, c.code)
      BY <3>1, <3>2, <3>4 DEF Sent, WriteHeader
    <3> QED
      BY <3>3, <3>4 DEF Turns
  <2>6. responseCodes[code] = Cardinality(AllSent(code))
    BY DEF Tallies
  <2>7. CASE Sent(c, code)
    <3>1. AllSent(code)' = AllSent(code) \cup {i} /\ AllSent(code)' # AllSent(code)
      BY <2>2, <2>4, <2>7
    <3> QED
      BY <1>1, <2>2, <2>5, <2>6, <2>7, <3>1, OneMore
  <2>8. CASE ~Sent(c, code)
    <3>1. AllSent(code)' = AllSent(code)
      BY <2>4, <2>8
    <3> QED
      BY <2>5, <2>6, <2>8, <3>1
  <2> QED
    BY <2>7, <2>8
<1>4. invalidIDs' = Cardinality(AllBadIDs')
  <2>1. i \notin AllBadIDs /\ AllBadIDs \in SUBSET (1..n)
    BY <1>1 DEF AllBadIDs, BadID, NoCode
  <2>2. \A j : j \in AllBadIDs' <=> j \in AllBadIDs \/ (j = i /\ BadID(c))
    <3>1. AllBadIDs' = {j \in DOMAIN calls' : BadID(calls'[j])}
      BY DEF AllBadIDs, BadID
    <3> QED
      BY <1>1, <1>2, <2>1, <3>1 DEF AllBadIDs
  <2>3. invalidIDs = Cardinality(AllBadIDs)
    BY DEF Tallies
  <2>4. CASE BadID(c)
    <3>1. AllBadIDs' = AllBadIDs \cup {i} /\ AllBadIDs' # AllBadIDs
      BY <2>1, <2>2, <2>4
    <3> QED
      BY <1>1, <2>1, <2>3, <2>4, <3>1, OneMore DEF Booked
  <2>5. CASE ~BadID(c)
    <3>1. AllBadIDs' = AllBadIDs
      BY <2>2, <2>5
    <3> QED
      BY <2>3, <2>5, <3>1 DEF Booked
  <2> QED
    BY <2>4, <2>5
<1>5. requests' = Cardinality(AllListed')
  <2>1. AllListed \in SUBSET (1..n)
    BY <1>1 DEF AllListed
  <2>2. c.code # 429 /\ c.pc # "check" /\ c.request = x.request
    BY DEF Turns, NoCode
  <2>3. /\ Listed(x) <=> x.request.endpoint = "payloads" /\ x.pc # "check"
        /\ Listed(c) <=> x.request.endpoint = "payloads"
    BY <1>1, <2>2 DEF Listed, NoCode
  <2>4. \A j : j \in AllListed' <=> (j \in AllListed /\ j # i) \/ (j = i /\ Listed(c))
    <3>1. AllListed' = {j \in DOMAIN calls' : Listed(calls'[j])}
      BY DEF AllListed, Listed
    <3> QED
      BY <1>1, <1>2, <3>1 DEF AllListed
  <2>5. i \in AllListed <=> Listed(x)
    BY <1>1 DEF AllListed
  <2>6. requests = Cardinality(AllListed)
    BY DEF Tallies
  <2>7. CASE x.pc = "check" /\ x.request.endpoint = "payloads"
    <3>1. i \notin AllListed /\ AllListed' = AllListed \cup {i}
      BY <2>3, <2>4, <2>5, <2>7
    <3>2. AllListed' # AllListed
      BY <3>1
    <3>3. requests' = requests + 1
      BY <2>2, <2>7 DEF Booked
    <3>4. Cardinality(AllListed') = Cardinality(AllListed) + 1
      BY <1>1, <2>1, <3>1, <3>2, OneMore
    <3> QED
      BY <2>6, <3>3, <3>4
  <2>8. CASE ~(x.pc = "check" /\ x.request.endpoint = "payloads")
    <3>1. AllListed' = AllListed
      BY <2>3, <2>4, <2>5, <2>8
    <3> QED
      BY <2>2, <2>6, <2>8, <3>1 DEF Booked
  <2> QED
    BY <2>7, <2>8
<1> QED
  BY <1>3, <1>4, <1>5 DEF Tallies

\* What a handler that ends or waits with this code does to the other counters.
Books(i, code) ==
    /\ invalidIDs' = IF code = 400 /\ calls[i].request.endpoint \in {"archiveLink", "kibanaLink"}
                     THEN invalidIDs + 1 ELSE invalidIDs
    /\ requests' = IF calls[i].pc = "check" /\ calls[i].request.endpoint = "payloads"
                   THEN requests + 1 ELSE requests

\* An answer, or a call that goes on to wait, with the other counters right.
LEMMA AnswerTallies ==
    ASSUME IInv, Tallies, NEW i \in DOMAIN calls, calls[i].pc \in Pending,
           NEW code \in Codes \ {429}, NEW event, Answer(i, code, event), Books(i, code)
    PROVE  Tallies'
<1>1. PICK c : Turns(i, c) /\ c.code = code
  BY AnswerTurns
<1>2. Booked(i, c)
  BY <1>1 DEF Turns, Books, Booked, BadID
<1> QED
  BY <1>1, <1>2, TurnTallies

\* A call that waits, or has found its link, is in no tally of answers yet.
LEMMA WaitTallies ==
    ASSUME IInv, Tallies, NEW i \in DOMAIN calls, calls[i].pc \in Pending,
           \/ \E pc \in {"query", "broker", "aborted"} : Await(i, pc)
           \/ calls[i].pc = "broker" /\ LinkFound(i),
           Books(i, NoCode)
    PROVE  Tallies'
<1>1. PICK c : Turns(i, c) /\ c.code = NoCode
  BY AwaitTurns, LinkTurns
<1>2. Booked(i, c)
  BY <1>1 DEF Turns, Books, Booked, BadID, NoCode
<1> QED
  BY <1>1, <1>2, TurnTallies

\* The handlers of the listings.
LEMMA AskTallies ==
    ASSUME IInv, Tallies, NEW i \in DOMAIN calls, calls[i].pc \in Pending, Ask(i),
           calls[i].request.endpoint \in Listings, Books(i, NoCode)
    PROVE  Tallies'
<1>1. Books(i, 400)
  BY DEF Books, Listings, NoCode
<1>2. CASE Refuse(i)
  BY <1>1, <1>2, AnswerTallies DEF Refuse, Codes
<1>3. CASE Await(i, "query")
  BY <1>3, WaitTallies
<1> QED
  BY <1>2, <1>3 DEF Ask

\* Every handler keeps the tallies.
LEMMA HandleTallies ==
    ASSUME IInv, Tallies, NEW i, Handle(i)
    PROVE  Tallies'
<1> DEFINE r == calls[i].request
<1>1. i \in DOMAIN calls /\ calls[i].pc \in Pending
  BY DEF Handle, Payloads, RequestIdPayloads, Statuses, PayloadArchiveLink, MockArchiveLink,
         NoArchiveLink, PayloadKibanaLink, RolesArchiveLink, Plain, HealthCheck, SendLink,
         At, Pending
<1>2. CASE Payloads(i)
  BY <1>1, <1>2, AskTallies DEF Payloads, At, Books, Listings, NoCode
<1>3. CASE RequestIdPayloads(i) \/ Statuses(i)
  BY <1>1, <1>3, AskTallies DEF RequestIdPayloads, Statuses, At, Books, Listings, NoCode
<1>4. CASE PayloadArchiveLink(i)
  <2>1. r.endpoint = "archiveLink" /\ requests' = requests
    BY <1>4 DEF PayloadArchiveLink, At
  <2>2. CASE RefuseRole(i)
    <3>1. checkForRole(r).code \in Codes \ {429} /\ checkForRole(r).code # 400
      BY DEF checkForRole, Codes
    <3>2. Books(i, checkForRole(r).code)
      BY <2>1, <2>2, <3>1 DEF RefuseRole, Books
    <3> QED
      BY <1>1, <2>2, <3>1, <3>2, AnswerTallies DEF RefuseRole
  <2>3. CASE RefuseID(i)
    <3>1. Books(i, 400)
      BY <2>1, <2>3 DEF RefuseID, Books
    <3> QED
      BY <1>1, <2>3, <3>1, AnswerTallies DEF RefuseID, Codes
  <2>4. CASE Await(i, "broker") /\ UNCHANGED invalidIDs
    <3>1. Books(i, NoCode)
      BY <2>1, <2>4 DEF Books, NoCode
    <3> QED
      BY <1>1, <2>4, <3>1, WaitTallies
  <2> QED
    BY <1>4, <2>2, <2>3, <2>4 DEF PayloadArchiveLink
<1>5. CASE MockArchiveLink(i)
  <2>1. Books(i, 200)
    BY <1>5 DEF MockArchiveLink, At, Books
  <2> QED
    BY <1>1, <1>5, <2>1, AnswerTallies DEF MockArchiveLink, Codes
<1>6. CASE NoArchiveLink(i)
  <2>1. Books(i, NoCode)
    BY <1>6 DEF NoArchiveLink, At, Books, NoCode
  <2> QED
    BY <1>1, <1>6, <2>1, WaitTallies DEF NoArchiveLink
<1>7. CASE PayloadKibanaLink(i)
  <2>1. r.endpoint = "kibanaLink" /\ requests' = requests
    BY <1>7 DEF PayloadKibanaLink, At
  <2>2. CASE Answer(i, 200, "none") /\ UNCHANGED invalidIDs
    <3>1. Books(i, 200)
      BY <2>1, <2>2 DEF Books
    <3> QED
      BY <1>1, <2>2, <3>1, AnswerTallies DEF Codes
  <2>3. CASE RefuseID(i)
    <3>1. Books(i, 400)
      BY <2>1, <2>3 DEF RefuseID, Books
    <3> QED
      BY <1>1, <2>3, <3>1, AnswerTallies DEF RefuseID, Codes
  <2> QED
    BY <1>7, <2>2, <2>3 DEF PayloadKibanaLink
<1>8. CASE RolesArchiveLink(i)
  <2>1. PICK code, event : /\ code \in {200, 401, 403}
                           /\ Answer(i, code, event)
                           /\ UNCHANGED <<invalidIDs, requests>>
    <3> DEFINE role == checkForRole(r)
    <3>1. role.code \in {200, 401, 403}
      BY DEF checkForRole
    <3> HIDE DEF role
    <3>2. \/ Answer(i, 200, "none") /\ UNCHANGED <<invalidIDs, requests>>
          \/ Answer(i, role.code, role.event) /\ UNCHANGED <<invalidIDs, requests>>
      BY <1>8 DEF RolesArchiveLink, RefuseRole, role
    <3> QED
      BY <3>1, <3>2
  <2>2. Books(i, code)
    BY <1>8, <2>1 DEF RolesArchiveLink, At, Books
  <2> QED
    BY <1>1, <2>1, <2>2, AnswerTallies DEF Codes
<1>9. CASE Plain(i)
  <2>1. PICK code \in {200, 404} : Answer(i, code, "none")
    BY <1>9 DEF Plain
  <2>2. Books(i, code)
    BY <1>9, <2>1 DEF Plain, At, Books
  <2> QED
    BY <1>1, <2>1, <2>2, AnswerTallies DEF Codes
<1>10. CASE HealthCheck(i)
  <2>1. Books(i, NoCode)
    BY <1>10 DEF HealthCheck, At, Books, NoCode
  <2> QED
    BY <1>1, <1>10, <2>1, WaitTallies DEF HealthCheck
<1>11. CASE SendLink(i)
  <2>1. Books(i, 200)
    BY <1>11 DEF SendLink, At, Books
  <2> QED
    BY <1>1, <1>11, <2>1, AnswerTallies DEF SendLink, Codes
<1> QED
  BY <1>2, <1>3, <1>4, <1>5, <1>6, <1>7, <1>8, <1>9, <1>10, <1>11 DEF Handle

\* So does what comes back from the database and from storage-broker.
LEMMA ReturnsTallies ==
    ASSUME IInv, Tallies, NEW i,
           QueryReturns(i) \/ PingReturns(i) \/ BrokerAnswers(i) \/ BrokerTimesOut(i)
    PROVE  Tallies'
<1>1. /\ i \in DOMAIN calls /\ calls[i].pc \in {"query", "broker"} /\ calls[i].pc \in Pending
      /\ UNCHANGED <<requests, invalidIDs>>
  BY DEF QueryReturns, PingReturns, BrokerAnswers, BrokerTimesOut, At, Pending
<1>2. CASE \E code \in {200, 404, 500} : Answer(i, code, "none")
  <2>1. PICK code \in {200, 404, 500} : Answer(i, code, "none")
    BY <1>2
  <2>2. Books(i, code)
    BY <1>1 DEF Books
  <2> QED
    BY <1>1, <2>1, <2>2, AnswerTallies DEF Codes
<1>3. CASE LinkFound(i) /\ BrokerAnswers(i)
  <2>1. calls[i].pc = "broker" /\ Books(i, NoCode)
    BY <1>1, <1>3 DEF BrokerAnswers, At, Books, NoCode
  <2> QED
    BY <1>1, <1>3, <2>1, WaitTallies
<1> QED
  BY <1>2, <1>3 DEF QueryReturns, PingReturns, BrokerAnswers, BrokerTimesOut

\* A request that arrives is in no tally yet, nor one that comes too fast.
LEMMA ArriveTallies ==
    ASSUME IInv, Tallies, NEW r \in RequestSet, Arrive(r)
    PROVE  Tallies'
<1>1. PICK c \in Call : /\ calls' = Append(calls, c) /\ c.event = "none"
                        /\ \/ c.pc = "check" /\ c.code = NoCode
                           \/ c.pc = "done" /\ c.code = 429
  <2>1. PICK start \in {[pc |-> "check", code |-> NoCode], [pc |-> "done", code |-> 429]} :
            calls' = Append(calls, [request |-> r, pc |-> start.pc, code |-> start.code,
                                    event |-> "none"])
    BY DEF Arrive
  <2> DEFINE c == [request |-> r, pc |-> start.pc, code |-> start.code, event |-> "none"]
  <2>2. c \in Call
    BY DEF Call, Pending, Codes, NoCode
  <2> QED
    BY <2>1, <2>2
<1> DEFINE n == Len(calls) + 1
<1>2. /\ DOMAIN calls = 1..Len(calls) /\ Len(calls) \in Nat /\ calls'[n] = c
      /\ Len(calls') = n /\ calls' \in Seq(Call)
      /\ \A j \in DOMAIN calls : calls'[j] = calls[j]
  BY <1>1, AppendProperties, LenProperties DEF IInv, TypeOK
<1>3. /\ n \notin DOMAIN calls
      /\ \A j : j \in DOMAIN calls' <=> j \in DOMAIN calls \/ j = n
  BY <1>2, LenProperties
<1> HIDE DEF n
<1>4. ~BadID(c) /\ ~Listed(c) /\ \A code \in Codes : ~Sent(c, code)
  BY <1>1 DEF BadID, Listed, Sent, NoCode
<1>5. UNCHANGED counters
  BY DEF Arrive
<1>6. ASSUME NEW code \in Codes PROVE AllSent(code)' = AllSent(code)
  <2>1. AllSent(code)' = {j \in DOMAIN calls' : Sent(calls'[j], code)}
    BY DEF AllSent, Sent, Metered
  <2> QED
    BY <1>2, <1>3, <1>4, <2>1 DEF AllSent
<1>7. AllBadIDs' = AllBadIDs
  <2>1. AllBadIDs' = {j \in DOMAIN calls' : BadID(calls'[j])}
    BY DEF AllBadIDs, BadID
  <2> QED
    BY <1>2, <1>3, <1>4, <2>1 DEF AllBadIDs
<1>8. AllListed' = AllListed
  <2>1. AllListed' = {j \in DOMAIN calls' : Listed(calls'[j])}
    BY DEF AllListed, Listed
  <2> QED
    BY <1>2, <1>3, <1>4, <2>1 DEF AllListed
<1> QED
  BY <1>5, <1>6, <1>7, <1>8 DEF Tallies, counters

\* The counters start at zero, and so do the tallies.
LEMMA InitTallies == Init => Tallies
<1> SUFFICES ASSUME Init PROVE Tallies
  OBVIOUS
<1>1. DOMAIN calls = {}
  BY EmptySeq DEF Init
<1>2. Cardinality({}) = 0
  BY FS_EmptySet
<1>3. AllBadIDs = {} /\ AllListed = {} /\ \A code \in Codes : AllSent(code) = {}
  BY <1>1 DEF AllBadIDs, AllListed, AllSent
<1>4. invalidIDs = 0 /\ requests = 0 /\ \A code \in Codes : responseCodes[code] = 0
  BY DEF Init
<1> QED
  BY <1>2, <1>3, <1>4 DEF Tallies

\* Every step of ApiServer keeps the tallies.
LEMMA StepTallies == IInv /\ Tallies /\ [Next]_vars => Tallies'
<1> SUFFICES ASSUME IInv, Tallies, [Next]_vars PROVE Tallies'
  OBVIOUS
<1>1. CASE UNCHANGED <<calls, counters>>
  BY <1>1 DEF counters, Tallies, AllSent, AllBadIDs, AllListed, Sent, BadID, Listed, Metered
<1>2. ASSUME NEW r \in RequestSet, Arrive(r) PROVE Tallies'
  BY <1>2, ArriveTallies
<1>3. ASSUME NEW i \in 1..MaxCalls, Handle(i) PROVE Tallies'
  BY <1>3, HandleTallies
<1>4. ASSUME NEW i \in 1..MaxCalls,
             QueryReturns(i) \/ PingReturns(i) \/ BrokerAnswers(i) \/ BrokerTimesOut(i)
      PROVE  Tallies'
  BY <1>4, ReturnsTallies
<1>5. CASE \/ Signal \/ Shutdown \/ DeadlinePasses \/ Leave \/ ServeFails \/ Killed
           \/ UNCHANGED vars
  <2>1. UNCHANGED <<calls, counters>>
    BY <1>5 DEF Signal, Shutdown, DeadlinePasses, Leave, ServeFails, Killed, Exit, vars
  <2> QED
    BY <1>1, <2>1
<1> QED
  BY <1>2, <1>3, <1>4, <1>5 DEF Next

\* So the tallies are right for ever.
LEMMA SpecTallies == Spec => []Tallies
<1>1. Init => IInv /\ Tallies
  BY InitIInv, InitTallies
<1>2. IInv /\ Tallies /\ [Next]_vars => (IInv /\ Tallies)'
  BY StepIInv, StepTallies
<1> QED
  BY <1>1, <1>2, PTL DEF Spec

(***************************************************************************)
(* The counters of the API say what its clients were told, however many    *)
(* requests are under way at a time and wherever each of them is.          *)
(***************************************************************************)
THEOREM CountersTellTruth == Spec => []CountersTellAnswers
  BY SpecTallies, TalliesTell, PTL

(***************************************************************************)
(* requests, "Number of requests to the payload tracker" (metrics.go:15),  *)
(* is the number of the requests for /payloads that have reached their     *)
(* handler, refused or not; no other endpoint moves it.                    *)
(***************************************************************************)
THEOREM RequestsArePayloads == Spec => [](requests = Cardinality(AllListed))
<1>1. Tallies => requests = Cardinality(AllListed)
  BY DEF Tallies
<1> QED
  BY <1>1, SpecTallies, PTL

=============================================================================
