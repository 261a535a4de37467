------------------------------ MODULE Sessions -------------------------------
(***************************************************************************)
(* The one-time tickets of the realtime endpoint: SessionManager of        *)
(* internal/infra/realtime/session.go, called by CreateSession and by the  *)
(* head of ServeWS in internal/handler/v1/realtime.go.                     *)
(*                                                                         *)
(* Issue and Consume read the clock first and lock the mutex afterwards,   *)
(* so that a call may work with an instant that lies before the one of a   *)
(* call that took the mutex earlier.  What happens under the mutex waits   *)
(* for nothing and is one step.                                            *)
(***************************************************************************)
EXTENDS Naturals

CONSTANTS
    Caller,    \* requests, each in a goroutine of its own
    Ticket,    \* uuid.NewString: every ticket is fresh
    Null,      \* no ticket
    TTL,       \* time to live of a ticket
    MaxTime    \* bound on the clock

ASSUME SessionsAssumption ==
    /\ Null \notin Ticket
    /\ TTL \in Nat \ {0}
    /\ MaxTime \in Nat

VARIABLES
    time,      \* m.now()
    sessions,  \* m.sessions: the tickets that can be consumed
    expires,   \* ExpiresAt of every ticket issued (history for those deleted)
    issued,    \* tickets issued so far
    at,        \* per caller: where it stands
    now,       \* per caller: the instant it read
    ticket,    \* per caller: the ticket it presents
    opened,    \* history: number of connections opened with each ticket
    used,      \* history: tickets a Consume took out of the map
    lost,      \* history: tickets that were in memory when the process stopped
    refused    \* history: tickets a Consume did not find

calls   == <<at, now, ticket>>
history == <<opened, used, lost, refused>>
vars    == <<time, sessions, expires, issued, calls, history>>

Init ==
    /\ time = 0
    /\ sessions = {}
    /\ expires = [t \in Ticket |-> 0]
    /\ issued = {}
    /\ at = [c \in Caller |-> "idle"]
    /\ now = [c \in Caller |-> 0]
    /\ ticket = [c \in Caller |-> Null]
    /\ opened = [t \in Ticket |-> 0]
    /\ used = {}
    /\ lost = {}
    /\ refused = {}

\* !now.Before(record.ExpiresAt)
Expired(t, instant) == instant >= expires[t]

\* Mutant: tickets are pruned a little early, when they are about to expire.
PruneEarly(S, instant, skip) == {t \in S : t = skip \/ ~Expired(t, instant + 1)}
\* pruneLocked: expired tickets are deleted, except the one being consumed.
Prune(S, instant, skip) == {t \in S : t = skip \/ ~Expired(t, instant)}

\* The call starts: its arguments are fixed and the clock is read.
Call(c, t, label) ==
    /\ at[c] = "idle"
    /\ at' = [at EXCEPT ![c] = label]
    /\ now' = [now EXCEPT ![c] = time]
    /\ ticket' = [ticket EXCEPT ![c] = t]
    /\ UNCHANGED <<time, sessions, expires, issued, history>>

Return(c) ==
    /\ at' = [at EXCEPT ![c] = "idle"]
    /\ now' = [now EXCEPT ![c] = 0]
    /\ ticket' = [ticket EXCEPT ![c] = Null]

IssueCall(c) == Call(c, Null, "issue")

\* Issue under the mutex: prune, then store the new ticket.
Issue(c) ==
    /\ at[c] = "issue"
    /\ \E t \in Ticket \ issued :
          /\ sessions' = Prune(sessions, now[c], Null) \cup {t}
          /\ expires' = [expires EXCEPT ![t] = now[c] + TTL]
          /\ issued' = issued \cup {t}
    /\ Return(c)
    /\ UNCHANGED <<time, history>>

\* A client presents a ticket it was given, possibly more than once.
ConsumeCall(c) == \E t \in issued : Call(c, t, "consume")

\* Mutant: the ticket stays in the map when it is used.
TakenButKept(S, t) == S
Taken(S, t) == S \ {t}

\* Consume under the mutex, when the ticket is there: it is deleted whether it
\* has expired or not, and the request goes on to the upgrade if it has not.
Consume(c) ==
    LET kept == Prune(sessions, now[c], ticket[c]) IN
    /\ at[c] = "consume"
    /\ ticket[c] \in kept
    /\ sessions' = Taken(kept, ticket[c])
    /\ IF Expired(ticket[c], now[c])
       THEN Return(c)
       ELSE /\ at' = [at EXCEPT ![c] = "upgrade"]
            /\ UNCHANGED <<now, ticket>>
    /\ used' = used \cup {ticket[c]}
    /\ UNCHANGED <<time, expires, issued, opened, lost, refused>>

\* Consume under the mutex, when the ticket is gone: realtime_session_invalid.
ConsumeInvalid(c) ==
    LET kept == Prune(sessions, now[c], ticket[c]) IN
    /\ at[c] = "consume"
    /\ ticket[c] \notin kept
    /\ sessions' = kept
    /\ refused' = refused \cup {ticket[c]}
    /\ Return(c)
    /\ UNCHANGED <<time, expires, issued, opened, used, lost>>

\* The upgrade succeeds and the connection subscribes.
Admit(c) ==
    /\ at[c] = "upgrade"
    /\ opened' = [opened EXCEPT ![ticket[c]] = @ + 1]
    /\ Return(c)
    /\ UNCHANGED <<time, sessions, expires, issued, used, lost, refused>>

\* The upgrade fails: the ticket is used up all the same.
UpgradeFails(c) ==
    /\ at[c] = "upgrade"
    /\ Return(c)
    /\ UNCHANGED <<time, sessions, expires, issued, history>>

\* The process stops and starts again: tickets and requests are gone.
Restart ==
    /\ sessions' = {}
    /\ lost' = lost \cup sessions
    /\ at' = [c \in Caller |-> "idle"]
    /\ now' = [c \in Caller |-> 0]
    /\ ticket' = [c \in Caller |-> Null]
    /\ UNCHANGED <<time, expires, issued, opened, used, refused>>

Tick ==
    /\ time < MaxTime
    /\ time' = time + 1
    /\ UNCHANGED <<sessions, expires, issued, calls, history>>

CallerNext(c) ==
    \/ IssueCall(c) \/ Issue(c)
    \/ ConsumeCall(c) \/ Consume(c) \/ ConsumeInvalid(c)
    \/ Admit(c) \/ UpgradeFails(c)

Next == (\E c \in Caller : CallerNext(c)) \/ Restart \/ Tick

Spec == Init /\ [][Next]_vars

-----------------------------------------------------------------------------
(* Correctness *)

(***************************************************************************)
(* Type correctness; what can be consumed was issued and not yet used.     *)
(***************************************************************************)
TypeOK ==
    /\ time \in 0..MaxTime
    /\ issued \subseteq Ticket
    /\ sessions \subseteq issued \ (used \cup lost)
    /\ expires \in [Ticket -> 0..(MaxTime + TTL)]
    /\ at \in [Caller -> {"idle", "issue", "consume", "upgrade"}]
    /\ now \in [Caller -> 0..time]
    /\ ticket \in [Caller -> Ticket \cup {Null}]
    /\ opened \in [Ticket -> Nat]
    /\ used \subseteq issued /\ lost \subseteq issued /\ refused \subseteq issued

Upgrading(c, t) == at[c] = "upgrade" /\ ticket[c] = t

(***************************************************************************)
(* A ticket opens at most one connection, however many requests present    *)
(* it at the same time ("short-lived one-time ticket",                     *)
(* docs/agents/project.md).                                                *)
(***************************************************************************)
OpenedOnce ==
    \A t \in Ticket :
        /\ opened[t] <= 1
        /\ \A c \in Caller : Upgrading(c, t) =>
              /\ opened[t] = 0
              /\ \A d \in Caller : Upgrading(d, t) => c = d

(***************************************************************************)
(* A ticket is refused as unknown only if it was used, if the process was  *)
(* restarted since, or if its time is over by now: no other call, with     *)
(* whatever instant it read before it got the mutex, prunes a ticket that  *)
(* is still good.                                                          *)
(***************************************************************************)
RefusedForCause ==
    \A t \in refused : t \in used \cup lost \/ time >= expires[t]
=============================================================================
