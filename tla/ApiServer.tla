------------------------------ MODULE ApiServer ------------------------------
(***************************************************************************)
(* The API process: its requests, each a goroutine of its own, and the     *)
(* shutdown in main of cmd/payload-tracker-api, which waits for them, but  *)
(* not longer than fifteen seconds.  An archive link may take storage-     *)
(* broker thirty-five, and a query has no limit at all.                    *)
(***************************************************************************)
EXTENDS ApiRequest, Naturals, Sequences, FiniteSets

CONSTANT MaxCalls   \* bound: requests that arrive

ASSUME CallsAssumption == MaxCalls \in Nat

VARIABLES
    server,         \* what main does
    stop,           \* whether a signal waits in its channel
    expired,        \* whether the context of Shutdown has
    lifecycle,      \* the outcome of the SHUTDOWN event in the security log
    requestor,      \* REQUESTOR_IMPL
    logLevel,       \* LOGLEVEL; DEBUG logs no less than INFO
    calls,          \* the requests in the order of their arrival
    responseCodes,  \* the counters of metrics.go that the API moves
    requests,
    invalidIDs

config   == <<requestor, logLevel>>
main     == <<server, stop, expired, lifecycle, config>>
counters == <<responseCodes, requests, invalidIDs>>
vars     == <<main, calls, counters>>

Codes   == {200, 400, 401, 403, 404, 429, 500}
NoCode  == 0
Pending == {"check", "query", "broker", "link"}
Call    == [request : RequestSet,
            pc      : Pending \cup {"done", "aborted"},
            code    : Codes \cup {NoCode},
            event   : {"none", "AUTH_FAILURE", "AUTHZ_FAILURE", "READ"}]

TypeOK ==
    /\ server \in {"serving", "draining", "down"}
    /\ stop \in BOOLEAN /\ expired \in BOOLEAN
    /\ lifecycle \in {"none", "success", "failure"}
    /\ requestor \in {"storage-broker", "mock", "unsupported"}
    /\ logLevel \in {"INFO", "ERROR"}
    /\ calls \in Seq(Call)
    /\ \A i \in DOMAIN calls : (calls[i].code = NoCode) <=> calls[i].pc # "done"
    /\ responseCodes \in [Codes -> Nat] /\ requests \in Nat /\ invalidIDs \in Nat

Init ==
    /\ server = "serving" /\ stop = FALSE /\ expired = FALSE /\ lifecycle = "none"
    /\ requestor \in {"storage-broker", "mock", "unsupported"}
    /\ logLevel \in {"INFO", "ERROR"}
    /\ calls = <<>>
    /\ responseCodes = [c \in Codes |-> 0] /\ requests = 0 /\ invalidIDs = 0

At(i, pc, endpoints) ==
    /\ i \in DOMAIN calls /\ calls[i].pc = pc
    /\ calls[i].request.endpoint \in endpoints

\* Every route of the API goes through ResponseMetricsMiddleware but these.
Metered(call) == call.request.endpoint \notin {"root", "health", "archive"}

WriteHeader(i, code) ==
    responseCodes' = IF Metered(calls[i]) THEN [responseCodes EXCEPT ![code] = @ + 1]
                     ELSE responseCodes

\* Security events are logged as information or as warnings.
Logged(event) == IF logLevel = "ERROR" THEN "none" ELSE event

\* writeResponse, and the end of the handler.
Answer(i, code, event) ==
    /\ calls' = [calls EXCEPT ![i].pc = "done", ![i].code = code, ![i].event = Logged(event)]
    /\ WriteHeader(i, code)

\* The handler goes on to wait for somebody else.
Await(i, pc) == calls' = [calls EXCEPT ![i].pc = pc] /\ UNCHANGED responseCodes

-----------------------------------------------------------------------------
(***************************************************************************)
(* A request arrives; httprate answers those that come too fast.  One that *)
(* comes on a connection taken up before Shutdown is served as well.       *)
(***************************************************************************)
Arrive(r) ==
    /\ server # "down" /\ Len(calls) < MaxCalls
    /\ \E start \in {[pc |-> "check", code |-> NoCode], [pc |-> "done", code |-> 429]} :
          calls' = Append(calls, [request |-> r, pc |-> start.pc, code |-> start.code,
                                  event |-> "none"])
    /\ UNCHANGED <<main, counters>>

\* Mutant: no return after the error response.
Refuse_GoesOn(i) ==
    /\ calls' = [calls EXCEPT ![i].pc = "query", ![i].code = 400]
    /\ responseCodes' = [responseCodes EXCEPT ![400] = @ + 1]

Refuse(i) == Answer(i, 400, "none")

\* The parameters are checked, and then the database is asked.
Ask(i) == IF Refused(calls[i].request) THEN Refuse(i) ELSE Await(i, "query")

Payloads(i) ==
    /\ At(i, "check", {"payloads"})
    /\ requests' = requests + 1
    /\ Ask(i)
    /\ UNCHANGED <<main, invalidIDs>>

RequestIdPayloads(i) ==
    At(i, "check", {"details"}) /\ Ask(i) /\ UNCHANGED <<main, requests, invalidIDs>>

Statuses(i) ==
    At(i, "check", {"statuses"}) /\ Ask(i) /\ UNCHANGED <<main, requests, invalidIDs>>

RefuseRole(i) ==
    LET role == checkForRole(calls[i].request)
    IN  Answer(i, role.code, role.event) /\ UNCHANGED invalidIDs

RefuseID(i) == Answer(i, 400, "none") /\ invalidIDs' = invalidIDs + 1

PayloadArchiveLink(i) ==
    /\ At(i, "check", {"archiveLink"}) /\ requestor = "storage-broker"
    /\ IF checkForRole(calls[i].request).code # 200 THEN RefuseRole(i)
       ELSE IF ~calls[i].request.uuid THEN RefuseID(i)
       ELSE Await(i, "broker") /\ UNCHANGED invalidIDs
    /\ UNCHANGED <<main, requests>>

MockArchiveLink(i) ==
    /\ At(i, "check", {"archiveLink"}) /\ requestor = "mock"
    /\ Answer(i, 200, "none")
    /\ UNCHANGED <<main, requests, invalidIDs>>

\* CreatePayloadArchiveLinkHandler knows no other, and returns nil: a panic.
NoArchiveLink(i) ==
    /\ At(i, "check", {"archiveLink"}) /\ requestor = "unsupported"
    /\ Await(i, "aborted")
    /\ UNCHANGED <<main, requests, invalidIDs>>

PayloadKibanaLink(i) ==
    /\ At(i, "check", {"kibanaLink"})
    /\ IF calls[i].request.uuid THEN Answer(i, 200, "none") /\ UNCHANGED invalidIDs
       ELSE RefuseID(i)
    /\ UNCHANGED <<main, requests>>

RolesArchiveLink(i) ==
    /\ At(i, "check", {"roles"})
    /\ IF checkForRole(calls[i].request).code = 200
       THEN Answer(i, 200, "none") /\ UNCHANGED invalidIDs
       ELSE RefuseRole(i)
    /\ UNCHANGED <<main, requests>>

\* The archive route is there for the mock only.
Plain(i) ==
    /\ At(i, "check", {"lubdub", "root", "archive"})
    /\ Answer(i, IF calls[i].request.endpoint = "archive" /\ requestor # "mock"
                 THEN 404 ELSE 200, "none")
    /\ UNCHANGED <<main, requests, invalidIDs>>

HealthCheck(i) ==
    /\ At(i, "check", {"health"})
    /\ Await(i, "query")
    /\ UNCHANGED <<main, requests, invalidIDs>>

(***************************************************************************)
(* The rows come, or none; an error of a read query looks like none.  A    *)
(* stored date outside the years 0 to 9999 has no form in JSON.            *)
(***************************************************************************)
QueryReturns(i) ==
    /\ At(i, "query", Listings)
    /\ \/ Answer(i, 200, "none") \/ Answer(i, 500, "none")
       \/ calls[i].request.endpoint = "details" /\ Answer(i, 404, "none")
    /\ UNCHANGED <<main, requests, invalidIDs>>

PingReturns(i) ==
    /\ At(i, "query", {"health"})
    /\ Answer(i, 200, "none") \/ Answer(i, 500, "none")
    /\ UNCHANGED <<main, requests, invalidIDs>>

(***************************************************************************)
(* RequestArchiveLink: storage-broker answers with a link, without one or  *)
(* with no JSON (its status code is not looked at), or not in time.  A     *)
(* link is entered in the security log before it is sent.                  *)
(***************************************************************************)
\* Mutant: the link is sent and then entered.
LinkFound_SendsFirst(i) == Answer(i, 200, "none")

LinkFound(i) == /\ calls' = [calls EXCEPT ![i].pc = "link", ![i].event = Logged("READ")]
                /\ UNCHANGED responseCodes

BrokerAnswers(i) ==
    /\ At(i, "broker", Endpoints)
    /\ LinkFound(i) \/ Answer(i, 404, "none") \/ Answer(i, 500, "none")
    /\ UNCHANGED <<main, requests, invalidIDs>>

\* Mutant: a client without a timeout.
BrokerTimesOut_Never(i) == FALSE /\ UNCHANGED vars

BrokerTimesOut(i) ==
    /\ At(i, "broker", Endpoints)
    /\ Answer(i, 500, "none")
    /\ UNCHANGED <<main, requests, invalidIDs>>

SendLink(i) ==
    /\ At(i, "link", Endpoints)
    /\ Answer(i, 200, calls[i].event)
    /\ UNCHANGED <<main, requests, invalidIDs>>

Handle(i) == \/ Payloads(i) \/ RequestIdPayloads(i) \/ Statuses(i)
             \/ PayloadArchiveLink(i) \/ MockArchiveLink(i) \/ NoArchiveLink(i)
             \/ PayloadKibanaLink(i) \/ RolesArchiveLink(i) \/ Plain(i)
             \/ HealthCheck(i) \/ SendLink(i)

-----------------------------------------------------------------------------
\* A request that panicked ("aborted") is none of them: the server recovers
\* and closes its connection.
InFlight == {i \in DOMAIN calls : calls[i].pc \in Pending}

\* SIGTERM or SIGINT; only the first is read from the channel.
Signal ==
    /\ server = "serving" /\ ~stop
    /\ stop' = TRUE
    /\ UNCHANGED <<server, expired, lifecycle, config, calls, counters>>

\* Shutdown closes the listener and waits.
Shutdown ==
    /\ server = "serving" /\ stop
    /\ server' = "draining" /\ stop' = FALSE
    /\ UNCHANGED <<expired, lifecycle, config, calls, counters>>

DeadlinePasses ==
    /\ server = "draining" /\ ~expired
    /\ expired' = TRUE
    /\ UNCHANGED <<server, stop, lifecycle, config, calls, counters>>

\* The process ends; what is in flight stays as it was.
Exit(outcome) ==
    /\ server' = "down"
    /\ lifecycle' = Logged(outcome)
    /\ UNCHANGED <<stop, expired, config, calls, counters>>

\* Mutant: Shutdown without a deadline.
Leave_NoDeadline == server = "draining" /\ InFlight = {} /\ Exit("success")

\* Shutdown returns: nothing is in flight, or its context has expired.
Leave ==
    /\ server = "draining"
    /\ \/ InFlight = {} /\ Exit("success")
       \/ expired /\ Exit("failure")

\* ListenAndServe fails and Fatal exits at once, or the process is killed.
ServeFails == server = "serving" /\ Exit("failure")
Killed     == server # "down" /\ Exit("none")

Next ==
    \/ \E r \in RequestSet : Arrive(r)
    \/ \E i \in 1..MaxCalls : /\ server # "down"
                              /\ \/ Handle(i) \/ QueryReturns(i) \/ PingReturns(i)
                                 \/ BrokerAnswers(i) \/ BrokerTimesOut(i)
    \/ Signal \/ Shutdown \/ DeadlinePasses \/ Leave
    \/ ServeFails \/ Killed

Spec == Init /\ [][Next]_vars

(***************************************************************************)
(* Goroutines run, the HTTP client gives up in the end and the clock goes  *)
(* on.  Nothing makes the database answer: no query has a time limit.      *)
(***************************************************************************)
FairSpec ==
    /\ Spec
    /\ WF_vars(Shutdown) /\ WF_vars(DeadlinePasses) /\ WF_vars(Leave)
    /\ \A i \in 1..MaxCalls : /\ WF_vars(server # "down" /\ Handle(i))
                              /\ WF_vars(server # "down" /\ BrokerTimesOut(i))

-----------------------------------------------------------------------------
(***************************************************************************)
(* Every archive link that is handed out is in the security log as read,   *)
(* by somebody with the role and for a well-formed id; the log has no read *)
(* that was not handed out, unless the process ended in between.  Whoever  *)
(* is turned away for the identity is in the log too, and nobody else is.  *)
(* (Not so with LOGLEVEL=ERROR, which mutes the security log, nor with     *)
(* the mock for development, which neither asks nor tells.)                *)
(***************************************************************************)
LinksAreLogged ==
    config = <<"storage-broker", "INFO">> => \A i \in DOMAIN calls : LET c == calls[i] IN
        /\ c.request.endpoint = "archiveLink" /\ c.code = 200 => c.event = "READ"
        /\ c.event = "READ" => /\ c.request.endpoint = "archiveLink"
                               /\ c.request.identity = "role" /\ c.request.uuid
                               /\ c.code = 200 \/ c.pc = "link"
        /\ c.event \in {"AUTH_FAILURE", "AUTHZ_FAILURE"} <=> c.code \in {401, 403}

(***************************************************************************)
(* The counters say what clients were told: each response of a metered     *)
(* route once, by its code, and each 400 of a link route as an invalid id, *)
(* for the archive link and for the Kibana link alike.                     *)
(***************************************************************************)
CallsWith(P(_)) == Cardinality({i \in DOMAIN calls : P(calls[i])})

CountersTellAnswers ==
    /\ \A code \in Codes : responseCodes[code] =
          CallsWith(LAMBDA c : c.pc = "done" /\ c.code = code /\ code # 429 /\ Metered(c))
    /\ invalidIDs =
          CallsWith(LAMBDA c : c.code = 400 /\ c.request.endpoint \in {"archiveLink", "kibanaLink"})

(***************************************************************************)
(* A listing is refused only for a parameter that is malformed or not on   *)
(* offer, and gets as far as its query only when the sort column, the      *)
(* direction and the page size are good, and the timestamps it reads       *)
(* (details reads none).  The page has a property of its own.              *)
(***************************************************************************)
BadSort(r) == \/ r.sort_by  \notin {""} \cup SortColumns(r.endpoint)
              \/ r.sort_dir \notin {""} \cup validSortDir
BadTime(r) == \/ r.created_at = "malformed" /\ r.endpoint \in {"payloads", "statuses"}
              \/ r.date = "malformed" /\ r.endpoint = "statuses"
BadPage(r) == "malformed" \in {r.page, r.page_size}

RefusalsJustified ==
    \A i \in DOMAIN calls : LET c == calls[i] IN c.request.endpoint \in Listings =>
        /\ c.code = 400 => BadSort(c.request) \/ BadTime(c.request) \/ BadPage(c.request)
        /\ c.code \in {200, 404, 500} => /\ ~BadSort(c.request) /\ ~BadTime(c.request)
                                         /\ c.request.page_size # "malformed"

(***************************************************************************)
(* A listing whose page or page_size does not parse is answered with 400,  *)
(* as docs/data-validation-guidelines.md:33 has it ("the parse error is    *)
(* propagated to the caller as a 400 response"), unless it came too fast.  *)
(***************************************************************************)
MalformedPageRefused ==
    \A i \in DOMAIN calls : LET c == calls[i] IN
        c.request.endpoint \in Listings /\ BadPage(c.request) /\ c.pc = "done" =>
            c.code \in {400, 429}

(***************************************************************************)
(* A signal ends the process, whatever its requests wait for.              *)
(***************************************************************************)
SignalEndsProcess == stop ~> server = "down"

(***************************************************************************)
(* A request for an archive link comes to an end even if storage-broker    *)
(* never answers.                                                          *)
(***************************************************************************)
LinkRequestsEnd ==
    \A i \in 1..MaxCalls :
        At(i, "check", {"archiveLink"}) ~> i \notin InFlight \/ server = "down"

=============================================================================
