------------------------------- MODULE Server --------------------------------
(***************************************************************************)
(* One process of the service from its start to its end: Run of            *)
(* internal/app/app.go with the graceful shutdown it waits in, the cleanup *)
(* that closes the database after it, and the HTTP requests in between,    *)
(* with the timing header of internal/infra/performance and                *)
(* internal/handler/middleware/performance.go.                             *)
(*                                                                         *)
(* A request either uses the ticket endpoints, which keep their state in   *)
(* memory (Sessions), or runs queries.  A connection that was upgraded has *)
(* left the HTTP server, which no longer waits for it.  When the process   *)
(* ends, in order or not, everything in its memory is gone and a new one   *)
(* is started.                                                             *)
(***************************************************************************)
EXTENDS Sessions

CONSTANTS
    Untimed,     \* no trace, no header
    MaxQueries   \* bound on the queries of one request

Trace == [count : Nat, closed : BOOLEAN]

ASSUME ServerAssumption == Untimed \notin Nat \cup Trace /\ MaxQueries \in Nat

VARIABLES
    run,        \* where Run is: serving, draining, returned
    listener,   \* starting, open, failed, closed
    late,       \* whether the 30 seconds of the drain are over
    dbOpen,     \* until the cleanup
    stage,      \* per request that runs queries: none, handler, sent
    trace,      \* per request: queries recorded, and whether it is closed
    header,     \* per request: the count in its timing header, or Untimed
    done,       \* history, per request: queries completed before its header
    broken      \* history: whether a query of this process met a closed database

requests == <<stage, trace, header, done>>
process  == <<run, listener, late, dbOpen, broken>>
server   == <<process, requests>>

FreshServer ==
    /\ run = "serving" /\ listener = "starting"
    /\ late = FALSE /\ dbOpen = TRUE /\ broken = FALSE
    /\ stage = [c \in Caller |-> "none"]
    /\ trace = [c \in Caller |-> Untimed]
    /\ header = [c \in Caller |-> Untimed]
    /\ done = [c \in Caller |-> 0]

ServerInit == Init /\ FreshServer

\* Requests the HTTP server waits for.
InHandler == {c \in Caller : at[c] # "idle" \/ stage[c] # "none"}

-----------------------------------------------------------------------------
(* Run *)

\* A listener that cannot listen is logged, and Run waits on.  One that starts
\* after the shutdown began returns at once.
Listen ==
    /\ listener = "starting"
    /\ listener' \in IF run = "serving" THEN {"open", "failed"} ELSE {"closed"}
    /\ UNCHANGED <<run, late, dbOpen, broken, requests, vars>>

\* SIGINT or SIGTERM: Shutdown closes the listener before it waits.
Signal ==
    /\ run = "serving"
    /\ run' = "draining"
    /\ listener' = IF listener = "open" THEN "closed" ELSE listener
    /\ UNCHANGED <<late, dbOpen, broken, requests, vars>>

\* Mutant: the server is closed instead of shut down.
DrainedAtOnce ==
    /\ run = "draining"
    /\ run' = "returned"
    /\ UNCHANGED <<listener, late, dbOpen, broken, requests, vars>>
Drained ==
    /\ run = "draining" /\ InHandler = {}
    /\ run' = "returned"
    /\ UNCHANGED <<listener, late, dbOpen, broken, requests, vars>>

\* Mutant: the drain has no deadline.
NoDeadline == FALSE /\ UNCHANGED <<server, vars>>
\* Shutdown gives up with an error.
Deadline ==
    /\ run = "draining"
    /\ run' = "returned"
    /\ late' = TRUE
    /\ UNCHANGED <<listener, dbOpen, broken, requests, vars>>

\* The deferred cleanup; handlers that are still running run on.
Cleanup ==
    /\ run = "returned" /\ dbOpen
    /\ dbOpen' = FALSE
    /\ UNCHANGED <<run, listener, late, broken, requests, vars>>

NewProcess ==
    /\ Restart
    /\ run' = "serving" /\ listener' = "starting"
    /\ late' = FALSE /\ dbOpen' = TRUE /\ broken' = FALSE
    /\ stage' = [c \in Caller |-> "none"]
    /\ trace' = [c \in Caller |-> Untimed]
    /\ header' = [c \in Caller |-> Untimed]
    /\ done' = [c \in Caller |-> 0]

Exit == run = "returned" /\ ~dbOpen /\ NewProcess

\* Killed, also by a second signal, which is no longer caught.
Crash == NewProcess

-----------------------------------------------------------------------------
(* Requests *)

\* A request that carries one well-formed correlation id is timed.
Accept(c) ==
    /\ listener = "open" /\ c \notin InHandler
    /\ stage' = [stage EXCEPT ![c] = "handler"]
    /\ \E timed \in BOOLEAN :
          trace' = [trace EXCEPT ![c] = IF timed THEN [count |-> 0, closed |-> FALSE] ELSE Untimed]
    /\ UNCHANGED <<header, done, process, vars>>

\* AfterQuery, whether the query failed or not.
RecordQuery(t) == IF t = Untimed \/ t.closed THEN t ELSE [t EXCEPT !.count = @ + 1]

Query(c) ==
    /\ stage[c] \in {"handler", "sent"}
    /\ done[c] < MaxQueries
    /\ trace' = [trace EXCEPT ![c] = RecordQuery(@)]
    /\ done' = IF stage[c] = "handler" THEN [done EXCEPT ![c] = @ + 1] ELSE done
    /\ broken' = (broken \/ ~dbOpen)
    /\ UNCHANGED <<run, listener, late, dbOpen, stage, header, vars>>

\* Mutant: the header is set when the handler has returned.
FinishLate(c) == UNCHANGED <<trace, header>>
\* finish of the middleware's writer: before the first byte, or after a handler
\* that wrote none, and once.
Finish(c) ==
    IF trace[c] = Untimed
    THEN UNCHANGED <<trace, header>>
    ELSE /\ trace' = [trace EXCEPT ![c].closed = TRUE]
         /\ header' = [header EXCEPT ![c] = trace[c].count]

Respond(c) ==
    /\ stage[c] = "handler"
    /\ stage' = [stage EXCEPT ![c] = "sent"]
    /\ Finish(c)
    /\ UNCHANGED <<done, process, vars>>

End(c) ==
    /\ stage[c] = "sent"
    /\ stage' = [stage EXCEPT ![c] = "none"]
    /\ trace' = [trace EXCEPT ![c] = Untimed]
    /\ header' = [header EXCEPT ![c] = Untimed]
    /\ done' = [done EXCEPT ![c] = 0]
    /\ UNCHANGED <<process, vars>>

\* A request of the ticket endpoints is accepted, or goes on.
TicketRequest(c) ==
    /\ stage[c] = "none"
    /\ at[c] = "idle" => listener = "open"
    /\ CallerNext(c)
    /\ UNCHANGED server

ServerNext ==
    \/ Listen \/ Signal \/ Drained \/ Deadline \/ Cleanup \/ Exit \/ Crash
    \/ \E c \in Caller : Accept(c) \/ Query(c) \/ Respond(c) \/ End(c) \/ TicketRequest(c)
    \/ Tick /\ UNCHANGED server

\* Run, the drain's timer and main move on; a handler may hang forever.
ServerSpec ==
    /\ ServerInit /\ [][ServerNext]_<<vars, server>>
    /\ WF_<<vars, server>>(Drained \/ Deadline)
    /\ WF_<<vars, server>>(Cleanup)
    /\ WF_<<vars, server>>(Exit)

-----------------------------------------------------------------------------
(* Correctness *)

(***************************************************************************)
(* The database is closed under a request, and the request fails for it,   *)
(* only when the drain ran out of time: Run returns, and the cleanup that  *)
(* runHTTPServer deferred begins, after every handler has ended            *)
(* (internal/app/app.go:40, cmd/serve.go:33).                              *)
(***************************************************************************)
DatabaseOutlivesHandlers ==
    late \/ (~broken /\ (dbOpen \/ InHandler = {}))

(***************************************************************************)
(* The timing header of a response counts the queries its own request had  *)
(* completed when the header was sent, and stays what it was ("Work        *)
(* completing after headers have been sent cannot be represented in this   *)
(* header", internal/infra/performance/trace.go).                          *)
(***************************************************************************)
TimingMatchesRequest ==
    \A c \in Caller :
        stage[c] = "sent" /\ trace[c] # Untimed => header[c] = done[c]

(***************************************************************************)
(* A process that was told to stop ends, although a handler may hang and   *)
(* upgraded connections stay open, and whether or not it ever listened.    *)
(***************************************************************************)
RunReturns == run = "draining" ~> run = "serving"
=============================================================================
