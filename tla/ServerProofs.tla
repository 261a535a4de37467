---------------------------- MODULE ServerProofs -----------------------------
(***************************************************************************)
(* Proofs about Server: the process keeps the promises of Sessions, closes *)
(* the database after the handlers, and times each request by itself, for  *)
(* any number of requests, tickets and queries.                            *)
(***************************************************************************)
EXTENDS Server, TLAPS

-----------------------------------------------------------------------------
(* Tickets: proofs about Sessions, for any number of requests and tickets, *)
(* any time to live and any bound on the clock.                            *)

\* A request that presents a ticket was given it; one that may upgrade took
\* it out of the map, as did whoever opened a connection with it.
Presented ==
    /\ \A c \in Caller : at[c] \in {"consume", "upgrade"} => ticket[c] \in issued
    /\ \A c \in Caller : at[c] = "upgrade" => ticket[c] \in used
    /\ \A t \in Ticket : opened[t] # 0 => t \in used

\* A ticket leaves the map only for a reason.
MissingForCause ==
    \A t \in issued : t \in sessions \cup used \cup lost \/ time >= expires[t]

SessionsInv == TypeOK /\ Presented /\ OpenedOnce /\ MissingForCause /\ RefusedForCause

\* A fresh process satisfies the invariant.
LEMMA SessionsInitially == Init => SessionsInv
  BY SessionsAssumption
     DEF Init, SessionsInv, TypeOK, Presented, OpenedOnce, Upgrading, MissingForCause,
         RefusedForCause

\* What pruning removes has expired at the instant it is given, and the ticket
\* that is skipped stays.
LEMMA PruneRemoves ==
  ASSUME NEW S, NEW instant, NEW skip
  PROVE  /\ Prune(S, instant, skip) \subseteq S
         /\ \A t \in S \ Prune(S, instant, skip) : t # skip /\ instant >= expires[t]
  BY DEF Prune, Expired

\* Every step of Sessions preserves the invariant.
LEMMA SessionsStep == SessionsInv /\ [Next]_vars => SessionsInv'
<1> SUFFICES ASSUME SessionsInv, [Next]_vars PROVE SessionsInv'
  OBVIOUS
<1> USE SessionsAssumption
<1>1. CASE UNCHANGED vars
  BY <1>1 DEF SessionsInv, TypeOK, Presented, OpenedOnce, Upgrading, MissingForCause,
              RefusedForCause, vars, calls, history
<1>2. ASSUME NEW c \in Caller, CallerNext(c) PROVE SessionsInv'
  <2>1. ASSUME NEW t \in Ticket \cup {Null}, NEW label \in {"issue", "consume"},
               Call(c, t, label), label = "consume" => t \in issued
        PROVE  SessionsInv'
    BY <2>1 DEF SessionsInv, TypeOK, Presented, OpenedOnce, Upgrading, MissingForCause,
                RefusedForCause, Call, history
  <2>2. CASE IssueCall(c)
    BY <2>1, <2>2 DEF IssueCall
  <2>3. CASE ConsumeCall(c)
    BY <2>1, <2>3 DEF ConsumeCall, SessionsInv, TypeOK
  <2>4. CASE Issue(c)
    <3> DEFINE kept == Prune(sessions, now[c], Null)
    <3>1. PICK t \in Ticket \ issued :
              /\ sessions' = kept \cup {t}
              /\ expires' = [expires EXCEPT ![t] = now[c] + TTL]
              /\ issued' = issued \cup {t}
      BY <2>4 DEF Issue
    <3>2. kept \subseteq sessions /\ \A u \in sessions \ kept : time >= expires[u]
      BY PruneRemoves DEF SessionsInv, TypeOK
    <3> HIDE DEF kept
    <3>3. TypeOK'
      BY <2>4, <3>1, <3>2 DEF SessionsInv, TypeOK, Issue, Return, history
    <3>4. Presented' /\ OpenedOnce'
      BY <2>4, <3>1 DEF SessionsInv, TypeOK, Presented, OpenedOnce, Upgrading, Issue, Return, history
    <3>5. MissingForCause' /\ RefusedForCause'
      BY <2>4, <3>1, <3>2 DEF SessionsInv, TypeOK, MissingForCause, RefusedForCause, Issue, history
    <3> QED
      BY <3>3, <3>4, <3>5 DEF SessionsInv
  <2>5. CASE Consume(c)
    <3> DEFINE kept == Prune(sessions, now[c], ticket[c])
    <3>1. kept \subseteq sessions /\ \A u \in sessions \ kept : time >= expires[u]
      BY PruneRemoves DEF SessionsInv, TypeOK
    <3>2. /\ ticket[c] \in kept /\ at[c] = "consume"
          /\ sessions' = kept \ {ticket[c]}
          /\ used' = used \cup {ticket[c]}
          /\ UNCHANGED <<time, expires, issued, opened, lost, refused>>
          /\ \A d \in Caller \ {c} : at'[d] = at[d] /\ ticket'[d] = ticket[d]
      BY <2>5 DEF Consume, Taken, Return, SessionsInv, TypeOK
    <3>3. /\ at' \in [Caller -> {"idle", "issue", "consume", "upgrade"}]
          /\ now' \in [Caller -> 0..time]
          /\ ticket' \in [Caller -> Ticket \cup {Null}]
          /\ at'[c] \in {"idle", "upgrade"}
          /\ at'[c] = "upgrade" => ticket'[c] = ticket[c]
      BY <2>5 DEF Consume, Return, SessionsInv, TypeOK
    <3> HIDE DEF kept
    <3>4. TypeOK'
      BY <3>1, <3>2, <3>3 DEF SessionsInv, TypeOK
    <3>5. Presented'
      BY <3>1, <3>2, <3>3 DEF SessionsInv, TypeOK, Presented
    <3>6. \A d \in Caller : at[d] = "upgrade" => ticket[d] # ticket[c]
      BY <3>1, <3>2 DEF SessionsInv, TypeOK, Presented
    <3>7. opened[ticket[c]] = 0
      BY <3>1, <3>2 DEF SessionsInv, TypeOK, Presented
    <3>8. OpenedOnce'
      BY <3>2, <3>3, <3>6, <3>7 DEF SessionsInv, OpenedOnce, Upgrading
    <3>9. MissingForCause' /\ RefusedForCause'
      BY <3>1, <3>2 DEF SessionsInv, MissingForCause, RefusedForCause
    <3> QED
      BY <3>4, <3>5, <3>8, <3>9 DEF SessionsInv
  <2>6. CASE ConsumeInvalid(c)
    <3> DEFINE kept == Prune(sessions, now[c], ticket[c])
    <3>1. kept \subseteq sessions /\ \A u \in sessions \ kept : u # ticket[c] /\ time >= expires[u]
      BY PruneRemoves DEF SessionsInv, TypeOK
    <3>2. /\ ticket[c] \notin kept /\ at[c] = "consume"
          /\ sessions' = kept
          /\ refused' = refused \cup {ticket[c]}
          /\ Return(c)
          /\ UNCHANGED <<time, expires, issued, opened, used, lost>>
      BY <2>6 DEF ConsumeInvalid
    <3> HIDE DEF kept
    <3>3. ticket[c] \in issued /\ ticket[c] \notin sessions
      BY <3>1, <3>2 DEF SessionsInv, Presented
    <3>4. TypeOK'
      BY <3>1, <3>2, <3>3 DEF SessionsInv, TypeOK, Return
    <3>5. Presented' /\ OpenedOnce'
      BY <3>2 DEF SessionsInv, TypeOK, Presented, OpenedOnce, Upgrading, Return
    <3>6. MissingForCause' /\ RefusedForCause'
      BY <3>1, <3>2, <3>3 DEF SessionsInv, MissingForCause, RefusedForCause
    <3> QED
      BY <3>4, <3>5, <3>6 DEF SessionsInv
  <2>7. CASE Admit(c)
    <3>1. ticket[c] \in used /\ ticket[c] \in Ticket /\ opened[ticket[c]] = 0
      BY <2>7 DEF Admit, SessionsInv, TypeOK, Presented, OpenedOnce, Upgrading
    <3>2. TypeOK'
      BY <2>7, <3>1 DEF SessionsInv, TypeOK, Admit, Return
    <3>3. Presented'
      BY <2>7, <3>1 DEF SessionsInv, TypeOK, Presented, Admit, Return
    <3>4. OpenedOnce'
      BY <2>7, <3>1 DEF SessionsInv, TypeOK, OpenedOnce, Upgrading, Admit, Return
    <3>5. MissingForCause' /\ RefusedForCause'
      BY <2>7 DEF SessionsInv, MissingForCause, RefusedForCause, Admit
    <3> QED
      BY <3>2, <3>3, <3>4, <3>5 DEF SessionsInv
  <2>8. CASE UpgradeFails(c)
    BY <2>8 DEF SessionsInv, TypeOK, Presented, OpenedOnce, Upgrading, MissingForCause,
                RefusedForCause, UpgradeFails, Return, history
  <2> QED
    BY <1>2, <2>2, <2>3, <2>4, <2>5, <2>6, <2>7, <2>8 DEF CallerNext
<1>3. CASE Restart
  BY <1>3 DEF SessionsInv, TypeOK, Presented, OpenedOnce, Upgrading, MissingForCause,
              RefusedForCause, Restart
<1>4. CASE Tick
  BY <1>4 DEF SessionsInv, TypeOK, Presented, OpenedOnce, Upgrading, MissingForCause,
              RefusedForCause, Tick, calls, history
<1> QED
  BY <1>1, <1>2, <1>3, <1>4 DEF Next

\* The invariant of all of the below.
LEMMA SessionsAlways == Spec => []SessionsInv
  BY SessionsInitially, SessionsStep, PTL DEF Spec

(***************************************************************************)
(* What is in the map was issued and never consumed, and all else has its  *)
(* type, whatever calls overlap.                                           *)
(***************************************************************************)
THEOREM TicketTypesHold == Spec => []TypeOK
<1>1. SessionsInv => TypeOK
  BY DEF SessionsInv
<1> QED
  BY <1>1, SessionsAlways, PTL

(***************************************************************************)
(* A ticket opens at most one connection: the Consume that finds it in the *)
(* map takes it out under the mutex, and no ticket is put back.            *)
(***************************************************************************)
THEOREM TicketsOpenOnce == Spec => []OpenedOnce
<1>1. SessionsInv => OpenedOnce
  BY DEF SessionsInv
<1> QED
  BY <1>1, SessionsAlways, PTL

(***************************************************************************)
(* No call refuses a ticket that is still good: an instant read before the *)
(* mutex is never later than the clock.                                    *)
(***************************************************************************)
THEOREM TicketsRefusedForCause == Spec => []RefusedForCause
<1>1. SessionsInv => RefusedForCause
  BY DEF SessionsInv
<1> QED
  BY <1>1, SessionsAlways, PTL

-----------------------------------------------------------------------------
(* The process *)

(***************************************************************************)
(* A process of the service, with its start, drain and end, uses tickets   *)
(* only as Sessions says: a new process is its Restart.                    *)
(***************************************************************************)
THEOREM ServerUsesTicketsAsSpecified == ServerSpec => Spec
<1>1. ServerInit => Init
  BY DEF ServerInit
<1>2. [ServerNext]_<<vars, server>> => [Next]_vars
  <2> SUFFICES ASSUME [ServerNext]_<<vars, server>> PROVE [Next]_vars
    OBVIOUS
  <2>1. CASE Exit \/ Crash
    BY <2>1 DEF Exit, Crash, NewProcess, Next
  <2>2. CASE \E c \in Caller : TicketRequest(c)
    BY <2>2 DEF TicketRequest, Next
  <2>3. CASE Tick
    BY <2>3 DEF Next
  <2>4. CASE UNCHANGED vars
    BY <2>4
  <2> QED
    BY <2>1, <2>2, <2>3, <2>4
       DEF ServerNext, Listen, Signal, Drained, Deadline, Cleanup, Accept, Query, Respond, End
<1> QED
  BY <1>1, <1>2, PTL DEF ServerSpec, Spec

-----------------------------------------------------------------------------
(* The invariant *)

\* No request is accepted once the process was told to stop, Run returns when
\* there is none left or the time is up, and only then the database is closed.
StopsInOrder ==
    /\ run # "serving" => listener # "open"
    /\ run = "returned" => late \/ InHandler = {}
    /\ ~dbOpen => run = "returned"

\* An open trace counts what its request has done so far.
TraceInStep ==
    /\ stage \in [Caller -> {"none", "handler", "sent"}]
    /\ trace \in [Caller -> Trace \cup {Untimed}]
    /\ header \in [Caller -> Nat \cup {Untimed}]
    /\ done \in [Caller -> Nat]
    /\ \A c \in Caller :
          /\ stage[c] = "none" => trace[c] = Untimed /\ done[c] = 0
          /\ stage[c] = "handler" /\ trace[c] # Untimed =>
                ~trace[c].closed /\ trace[c].count = done[c]
          /\ stage[c] = "sent" /\ trace[c] # Untimed => trace[c].closed

OneStepPerCall == at \in [Caller -> {"idle", "issue", "consume", "upgrade"}]

ServerInv == StopsInOrder /\ DatabaseOutlivesHandlers /\ TraceInStep /\ TimingMatchesRequest

LEMMA ServerInitially == ServerInit => ServerInv
  BY ServerAssumption
     DEF ServerInit, FreshServer, ServerInv, StopsInOrder, DatabaseOutlivesHandlers, TraceInStep,
         TimingMatchesRequest

\* A call of the ticket endpoints moves its own request only.
LEMMA CallsMoveAlone ==
  ASSUME OneStepPerCall, NEW c \in Caller, CallerNext(c)
  PROVE  \A d \in Caller \ {c} : at'[d] = at[d]
<1>1. CASE IssueCall(c) \/ ConsumeCall(c)
  BY <1>1 DEF IssueCall, ConsumeCall, Call, OneStepPerCall
<1>2. CASE Issue(c) \/ ConsumeInvalid(c) \/ Admit(c) \/ UpgradeFails(c)
  BY <1>2 DEF Issue, ConsumeInvalid, Admit, UpgradeFails, Return, OneStepPerCall
<1>3. CASE Consume(c)
  BY <1>3 DEF Consume, Return, OneStepPerCall
<1> QED
  BY <1>1, <1>2, <1>3 DEF CallerNext

\* The shutdown: every step keeps the order of its stages.
LEMMA ShutdownStep ==
  ASSUME OneStepPerCall, StopsInOrder, DatabaseOutlivesHandlers, TraceInStep,
         [ServerNext]_<<vars, server>>
  PROVE  StopsInOrder' /\ DatabaseOutlivesHandlers'
<1> USE DEF StopsInOrder, DatabaseOutlivesHandlers
<1>1. CASE Listen \/ Signal
  BY <1>1 DEF Listen, Signal, requests, vars, calls, InHandler
<1>2. CASE Drained \/ Deadline \/ Cleanup
  BY <1>2 DEF Drained, Deadline, Cleanup, requests, vars, calls, InHandler
<1>3. CASE Exit \/ Crash
  BY <1>3 DEF Exit, Crash, NewProcess
<1>4. ASSUME NEW c \in Caller, Accept(c)
      PROVE  StopsInOrder' /\ DatabaseOutlivesHandlers'
  BY <1>4 DEF Accept, process
<1>5. ASSUME NEW c \in Caller, Query(c)
      PROVE  StopsInOrder' /\ DatabaseOutlivesHandlers'
  <2>1. c \in InHandler
    BY <1>5 DEF Query, InHandler
  <2> QED
    BY <1>5, <2>1 DEF Query, InHandler, vars, calls
<1>6. ASSUME NEW c \in Caller, Respond(c) \/ End(c)
      PROVE  StopsInOrder' /\ DatabaseOutlivesHandlers'
  <2>1. InHandler' \subseteq InHandler
    BY <1>6 DEF Respond, End, InHandler, vars, calls, TraceInStep
  <2> QED
    BY <1>6, <2>1 DEF Respond, End, process
<1>7. ASSUME NEW c \in Caller, TicketRequest(c)
      PROVE  StopsInOrder' /\ DatabaseOutlivesHandlers'
  <2>1. c \in InHandler \/ listener = "open"
    BY <1>7 DEF TicketRequest, InHandler
  <2>2. InHandler' \subseteq InHandler \cup {c}
    BY <1>7, CallsMoveAlone DEF TicketRequest, InHandler, server, requests
  <2> QED
    BY <1>7, <2>1, <2>2 DEF TicketRequest, server, process
<1>8. CASE Tick /\ UNCHANGED server
  BY <1>8 DEF Tick, calls, server, process, requests, InHandler
<1>9. CASE UNCHANGED <<vars, server>>
  BY <1>9 DEF vars, calls, server, process, requests, InHandler
<1> QED
  BY <1>1, <1>2, <1>3, <1>4, <1>5, <1>6, <1>7, <1>8, <1>9 DEF ServerNext

\* The timing: a trace is one request's, and is closed when its header is set.
LEMMA TimingStep ==
  ASSUME TraceInStep, TimingMatchesRequest, [ServerNext]_<<vars, server>>
  PROVE  TraceInStep' /\ TimingMatchesRequest'
<1> USE ServerAssumption DEF TraceInStep, TimingMatchesRequest, Trace
<1>1. CASE UNCHANGED requests
  BY <1>1 DEF requests
<1>2. CASE Exit \/ Crash
  BY <1>2 DEF Exit, Crash, NewProcess
<1>3. ASSUME NEW c \in Caller, Accept(c)
      PROVE  TraceInStep' /\ TimingMatchesRequest'
  <2>1. stage[c] = "none"
    BY <1>3 DEF Accept, InHandler
  <2> QED
    BY <1>3, <2>1 DEF Accept
<1>4. ASSUME NEW c \in Caller, Query(c)
      PROVE  TraceInStep' /\ TimingMatchesRequest'
  BY <1>4 DEF Query, RecordQuery
<1>5. ASSUME NEW c \in Caller, Respond(c)
      PROVE  TraceInStep' /\ TimingMatchesRequest'
  <2>1. CASE trace[c] = Untimed
    BY <1>5, <2>1 DEF Respond, Finish
  <2>2. CASE trace[c] # Untimed
    <3>1. /\ stage[c] = "handler" /\ stage' = [stage EXCEPT ![c] = "sent"]
          /\ trace' = [trace EXCEPT ![c].closed = TRUE]
          /\ header' = [header EXCEPT ![c] = trace[c].count]
          /\ done' = done
      BY <1>5, <2>2 DEF Respond, Finish
    <3>2. trace[c] \in Trace /\ trace[c].count = done[c]
      BY <2>2, <3>1
    <3>3. trace'[c] \in Trace /\ trace'[c].closed /\ \A d \in Caller \ {c} : trace'[d] = trace[d]
      BY <3>1, <3>2
    <3>4. trace' \in [Caller -> Trace \cup {Untimed}]
      BY <3>1, <3>3
    <3> QED
      BY <3>1, <3>2, <3>3, <3>4
  <2> QED
    BY <2>1, <2>2
<1>6. ASSUME NEW c \in Caller, End(c)
      PROVE  TraceInStep' /\ TimingMatchesRequest'
  BY <1>6 DEF End
<1> QED
  BY <1>1, <1>2, <1>3, <1>4, <1>5, <1>6
     DEF ServerNext, Listen, Signal, Drained, Deadline, Cleanup, TicketRequest, server

LEMMA ServerAlways == ServerSpec => []ServerInv
<1>1. OneStepPerCall /\ ServerInv /\ [ServerNext]_<<vars, server>> => ServerInv'
  BY ShutdownStep, TimingStep DEF ServerInv
<1>2. TypeOK => OneStepPerCall
  BY DEF TypeOK, OneStepPerCall
<1> QED
  BY <1>1, <1>2, ServerInitially, TicketTypesHold, ServerUsesTicketsAsSpecified, PTL DEF ServerSpec

-----------------------------------------------------------------------------

(***************************************************************************)
(* Tickets open one connection each also across the ends of processes and  *)
(* through their shutdown.                                                 *)
(***************************************************************************)
THEOREM ServerTicketsOpenOnce == ServerSpec => []OpenedOnce
  BY ServerUsesTicketsAsSpecified, TicketsOpenOnce, PTL

(***************************************************************************)
(* The database is closed under a running handler only when the drain ran  *)
(* out of time (internal/app/app.go:40, cmd/serve.go:33).                  *)
(***************************************************************************)
THEOREM DatabaseClosedLast == ServerSpec => []DatabaseOutlivesHandlers
<1>1. ServerInv => DatabaseOutlivesHandlers
  BY DEF ServerInv
<1> QED
  BY <1>1, ServerAlways, PTL

(***************************************************************************)
(* The timing header of a response counts exactly the queries its request  *)
(* completed before it, whatever runs beside it or after it                *)
(* (internal/infra/performance/trace.go).                                  *)
(***************************************************************************)
THEOREM TimingIsOwn == ServerSpec => []TimingMatchesRequest
<1>1. ServerInv => TimingMatchesRequest
  BY DEF ServerInv
<1> QED
  BY <1>1, ServerAlways, PTL
=============================================================================
