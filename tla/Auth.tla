-------------------------------- MODULE Auth ---------------------------------
(***************************************************************************)
(* The authentication service, internal/service/v1/auth.go, over the       *)
(* tables users, workspaces, workspace_members and refresh_tokens: Login,  *)
(* Refresh and Bootstrap.  Every request runs in a goroutine of its own;   *)
(* each SQL statement is a step.  The users come from create-user (Users), *)
(* which commits while logins are under way.                               *)
(*                                                                         *)
(* A pair of tokens is one element of Token: its refresh half is a row of  *)
(* refresh_tokens, its access half only has an expiry.  The token's text   *)
(* is its identity (its hash is unique).                                   *)
(***************************************************************************)
EXTENDS Users

CONSTANTS
    Req,         \* requests
    Token,       \* token pairs; uuid.New makes each one fresh
    Inactive,    \* users whose is_active was turned off in the database
    AccessTTL,   \* lifetime of the access half
    RefreshTTL,  \* lifetime of the refresh half
    MaxClock,    \* bound on the clock
    MaxLogins    \* bound on the calls of Login

\* What a token's text says, a row of refresh_tokens, and a request's arguments.
Claims == [user : Cmd, space : Space, createdAt : 0..MaxClock]
Row == [createdAt : 0..MaxClock, rotated : BOOLEAN, next : Token \cup {Null}, version : 1..2]
Call ==
    [op : {"login", "refresh", "bootstrap"}, phone : Phone \cup {Null}, user : Cmd \cup {Null},
     space : Space \cup {Null}, token : Token \cup {Null}, now : 0..MaxClock \cup {Null}]

ASSUME AuthAssumption ==
    /\ Null \notin Token \cup Claims \cup Row \cup Call
    /\ Inactive \subseteq Cmd
    /\ AccessTTL \in Nat /\ RefreshTTL \in Nat
    /\ MaxClock \in Nat /\ MaxLogins \in Nat

VARIABLES
    clock,   \* time.Now()
    tokens,  \* table refresh_tokens: the committed row of each token, or Null
    claims,  \* the claims in the text of each token generated, else Null
    logins,  \* calls of Login so far
    pc,      \* per request: the statement it executes next
    call,    \* per request: operation, user or phone, workspace, token, instant
    cur,     \* per request: the row read FOR UPDATE, which it has locked
    made,    \* per request: the pair it issued
    rows,    \* per request: its uncommitted rows of refresh_tokens
    known,   \* tokens that clients were given
    shown,   \* history: tokens that a Refresh was called with
    line     \* history: the first token of each token's line

requests == <<pc, call, cur, made, rows>>
auth     == <<clock, tokens, claims, logins, requests, known, shown, line>>
vars     == <<creation, auth>>

NoTokens == [t \in Token |-> Null]

Init ==
    /\ UsersInit
    /\ clock = 0
    /\ tokens = NoTokens
    /\ claims = NoTokens
    /\ logins = 0
    /\ pc = [r \in Req |-> "idle"]
    /\ call = [r \in Req |-> Null]
    /\ cur = [r \in Req |-> Null]
    /\ made = [r \in Req |-> Null]
    /\ rows = [r \in Req |-> NoTokens]
    /\ known = {}
    /\ shown = {}
    /\ line = NoTokens

Goto(r, label) == pc' = [pc EXCEPT ![r] = label]

\* The request is answered or fails; a transaction under way is rolled back.
Done(r) ==
    /\ Goto(r, "idle")
    /\ call' = [call EXCEPT ![r] = Null]
    /\ cur' = [cur EXCEPT ![r] = Null]
    /\ made' = [made EXCEPT ![r] = Null]
    /\ rows' = [rows EXCEPT ![r] = NoTokens]

Refuse(r) == Done(r) /\ UNCHANGED <<clock, tokens, claims, logins, known, shown, line>>

Begin(r, c, label) ==
    /\ pc[r] = "idle"
    /\ call' = [call EXCEPT ![r] = c]
    /\ Goto(r, label)
    /\ UNCHANGED <<clock, tokens, claims, cur, made, rows, known, line>>

-----------------------------------------------------------------------------
(* Calls.  Blank arguments and tokens that do not parse are refused before *)
(* anything is read.                                                       *)

Login(r) ==
    \E p \in Phone :
        /\ logins < MaxLogins
        /\ Begin(r, [op |-> "login", phone |-> p, user |-> Null, space |-> Null,
                     token |-> Null, now |-> Null], "user")
        /\ logins' = logins + 1
        /\ UNCHANGED shown

\* parseToken of the refresh half; time.Now() is read before the transaction.
\* A client may present a token more than once.
Refresh(r) ==
    \E t \in known :
        /\ clock <= claims[t].createdAt + RefreshTTL
        /\ Begin(r, [op |-> "refresh", phone |-> Null, user |-> claims[t].user,
                     space |-> claims[t].space, token |-> t, now |-> clock], "lock")
        /\ shown' = shown \cup {t}
        /\ UNCHANGED logins

\* RequireAccessToken of the middleware, then the user by its id.
Bootstrap(r) ==
    \E t \in known :
        /\ clock <= claims[t].createdAt + AccessTTL
        /\ Begin(r, [op |-> "bootstrap", phone |-> Null, user |-> claims[t].user,
                     space |-> claims[t].space, token |-> t, now |-> Null], "user")
        /\ UNCHANGED <<logins, shown>>

-----------------------------------------------------------------------------
(* Statements *)

\* GetByPhone or GetByID, an active user and, at login, the right password.
MatchesUser(r, u) ==
    /\ users[u] # Null
    /\ u \notin Inactive
    /\ IF call[r].op = "login" THEN users[u] = call[r].phone ELSE u = call[r].user

ReadUser(r) ==
    /\ pc[r] = "user"
    /\ \E u \in Cmd :
          /\ MatchesUser(r, u)
          /\ call' = [call EXCEPT ![r].user = u]
    /\ Goto(r, "access")
    /\ UNCHANGED <<clock, tokens, claims, logins, cur, made, rows, known, shown, line>>

\* Also a wrong password.
UserRejected(r) ==
    /\ pc[r] = "user"
    /\ call[r].op = "login" \/ ~\E u \in Cmd : MatchesUser(r, u)
    /\ Refuse(r)

\* Mutant: the row is read without FOR UPDATE.
LockedByNobody(r, t) == FALSE
LockedByOther(r, t) ==
    \E s \in Req \ {r} : cur[s] # Null /\ call[s].token = t

\* Mutant: a token that was rotated is still accepted.
UsableUnlessExpired(row, now) == row # Null /\ now <= row.createdAt + RefreshTTL

\* Not revoked, rotated or replaced, and not expired.  Nothing revokes.
Usable(row, now) ==
    /\ row # Null
    /\ ~row.rotated /\ row.next = Null
    /\ now <= row.createdAt + RefreshTTL

\* GetByHash FOR UPDATE waits for the row lock and then reads the row as it is.
ReadForUpdate(r) ==
    LET row == tokens[call[r].token] IN
    /\ pc[r] = "lock"
    /\ ~LockedByOther(r, call[r].token)
    /\ Usable(row, call[r].now)
    /\ cur' = [cur EXCEPT ![r] = row]
    /\ Goto(r, "access")
    /\ UNCHANGED <<clock, tokens, claims, logins, call, made, rows, known, shown, line>>

\* refresh_token_reused or refresh_token_expired.
TokenRejected(r) ==
    /\ pc[r] = "lock"
    /\ ~LockedByOther(r, call[r].token)
    /\ ~Usable(tokens[call[r].token], call[r].now)
    /\ Refuse(r)

\* The workspaces the statement can return: GetPrimaryAccess at login,
\* GetAccess for the workspace of the token otherwise.
Accesses(r) ==
    {w \in workspaces :
        /\ <<w, call[r].user>> \in members
        /\ call[r].op = "login" \/ w = call[r].space}

\* The role is valid: the table admits no other.  ListActive, which login and
\* bootstrap call next, reads the board and writes nothing.
ReadAccess(r) ==
    /\ pc[r] = "access"
    /\ \E w \in Accesses(r) : call' = [call EXCEPT ![r].space = w]
    /\ Goto(r, IF call[r].op = "bootstrap" THEN "answer" ELSE "insert")
    /\ UNCHANGED <<clock, tokens, claims, logins, cur, made, rows, known, shown, line>>

\* issueTokenPair: a refresh counts from the instant it began with.
IssuedClaims(r) ==
    [user |-> call[r].user, space |-> call[r].space,
     createdAt |-> IF call[r].op = "login" THEN clock ELSE call[r].now]

\* The record of issueTokenPair that is stored.
IssuedRow(r) ==
    [createdAt |-> IssuedClaims(r).createdAt, rotated |-> FALSE, next |-> Null, version |-> 1]

Insert(r) ==
    /\ pc[r] = "insert"
    /\ \E t \in {u \in Token : claims[u] = Null} :
          /\ made' = [made EXCEPT ![r] = t]
          /\ rows' = [rows EXCEPT ![r][t] = IssuedRow(r)]
          /\ claims' = [claims EXCEPT ![t] = IssuedClaims(r)]
          /\ line' = [line EXCEPT ![t] =
                        IF call[r].op = "login" THEN t ELSE line[call[r].token]]
    /\ Goto(r, IF call[r].op = "login" THEN "commit" ELSE "rotate")
    /\ UNCHANGED <<clock, tokens, logins, call, cur, known, shown>>

\* Mutant: the two ids of Rotate are swapped.
RotationSwapped(r) ==
    [rows[r] EXCEPT ![made[r]] = [@ EXCEPT !.rotated = TRUE, !.next = call[r].token, !.version = @ + 1]]

\* UPDATE .. SET rotated_at, replaced_by_id, version = version + 1.
Rotation(r) ==
    [rows[r] EXCEPT ![call[r].token] =
        [tokens[call[r].token] EXCEPT !.rotated = TRUE, !.next = made[r], !.version = @ + 1]]

Rotate(r) ==
    /\ pc[r] = "rotate"
    /\ rows' = [rows EXCEPT ![r] = Rotation(r)]
    /\ Goto(r, "commit")
    /\ UNCHANGED <<clock, tokens, claims, logins, call, cur, made, known, shown, line>>

Installed(r) == [t \in Token |-> IF rows[r][t] = Null THEN tokens[t] ELSE rows[r][t]]

Commit(r) ==
    /\ pc[r] = "commit"
    /\ tokens' = Installed(r)
    /\ rows' = [rows EXCEPT ![r] = NoTokens]
    /\ cur' = [cur EXCEPT ![r] = Null]
    /\ Goto(r, "answer")
    /\ UNCHANGED <<clock, claims, logins, call, made, known, shown, line>>

\* The transaction commits, but the service sees an error.
CommitUnacknowledged(r) ==
    /\ pc[r] = "commit"
    /\ tokens' = Installed(r)
    /\ Done(r)
    /\ UNCHANGED <<clock, claims, logins, known, shown, line>>

\* The answer reaches the client, with the new pair if there is one.
Answer(r) ==
    /\ pc[r] = "answer"
    /\ known' = known \cup ({made[r]} \ {Null})
    /\ Done(r)
    /\ UNCHANGED <<clock, tokens, claims, logins, shown, line>>

\* A statement fails, the client goes away, or the answer is lost.  This is
\* also how a request ends that finds no workspace (workspace_not_found).
Fail(r) == pc[r] # "idle" /\ Refuse(r)

\* The server stops: every request in flight is lost.
Crash ==
    /\ \E r \in Req : pc[r] # "idle"
    /\ pc' = [r \in Req |-> "idle"]
    /\ call' = [r \in Req |-> Null]
    /\ cur' = [r \in Req |-> Null]
    /\ made' = [r \in Req |-> Null]
    /\ rows' = [r \in Req |-> NoTokens]
    /\ UNCHANGED <<clock, tokens, claims, logins, known, shown, line>>

Tick ==
    /\ clock < MaxClock
    /\ clock' = clock + 1
    /\ UNCHANGED <<tokens, claims, logins, requests, known, shown, line>>

ReqNext(r) ==
    \/ Login(r) \/ Refresh(r) \/ Bootstrap(r)
    \/ ReadUser(r) \/ UserRejected(r)
    \/ ReadForUpdate(r) \/ TokenRejected(r)
    \/ ReadAccess(r)
    \/ Insert(r) \/ Rotate(r)
    \/ Commit(r) \/ CommitUnacknowledged(r) \/ Answer(r) \/ Fail(r)

Next ==
    \/ \E c \in Cmd : CreateNext(c) /\ UNCHANGED auth
    \/ \E r \in Req : ReqNext(r) /\ UNCHANGED creation
    \/ (Crash \/ Tick) /\ UNCHANGED creation

Spec == Init /\ [][Next]_vars

-----------------------------------------------------------------------------
(* Correctness *)

(***************************************************************************)
(* Type correctness of the tables and the requests.  A row is written      *)
(* twice at most: when it is made and when it is rotated.                  *)
(***************************************************************************)
TypeOK ==
    /\ UsersTypeOK
    /\ clock \in 0..MaxClock
    /\ tokens \in [Token -> Row \cup {Null}]
    /\ claims \in [Token -> Claims \cup {Null}]
    /\ logins \in 0..MaxLogins
    /\ pc \in [Req -> {"idle", "user", "lock", "access", "insert", "rotate", "commit", "answer"}]
    /\ call \in [Req -> Call \cup {Null}]
    /\ cur \in [Req -> Row \cup {Null}]
    /\ made \in [Req -> Token \cup {Null}]
    /\ rows \in [Req -> [Token -> Row \cup {Null}]]
    /\ known \subseteq Token /\ shown \subseteq known
    /\ line \in [Token -> Token \cup {Null}]

Stored == {t \in Token : tokens[t] # Null}

(***************************************************************************)
(* The committed refresh tokens change as TokenLines allows: each login's  *)
(* line has exactly one token that is good, whatever refreshes race for it *)
(* or fail half way, and a token that was used never works again ("rotates *)
(* it", service/v1/auth.go:143; the row is read FOR UPDATE).               *)
(***************************************************************************)
Rotations == INSTANCE TokenLines WITH
    good <- [l \in Token |-> {t \in Stored : line[t] = l /\ ~tokens[t].rotated}],
    spent <- {t \in Stored : tokens[t].rotated}

ImplementsTokenLines == Rotations!LinesSpec

(***************************************************************************)
(* A refresh token that a client was given and has not sent back yet is    *)
(* stored and good: it is handed out only after its commit, and nobody     *)
(* else can have used it.                                                  *)
(***************************************************************************)
HeldTokenIsGood ==
    \A t \in known \ shown : tokens[t] # Null /\ ~tokens[t].rotated

(***************************************************************************)
(* A user that login found has a workspace by the next statement: the two  *)
(* are read separately, but create-user commits them together.  The        *)
(* membership of a refreshed or bootstrapped token is still there too.     *)
(***************************************************************************)
UserHasAccess == \A r \in Req : pc[r] = "access" => Accesses(r) # {}
=============================================================================
