-------------------------------- MODULE Users --------------------------------
(***************************************************************************)
(* The create-user command: CreateUser of internal/service/v1/user.go with *)
(* the repositories and tables it writes.  Every run of the command is a   *)
(* process of its own (cmd/create_user.go); several may run while the      *)
(* server serves logins.                                                   *)
(*                                                                         *)
(* The ids a command generates (uuid.New) are named after the command.     *)
(***************************************************************************)
EXTENDS Naturals

CONSTANTS
    Cmd,        \* runs of create-user; also the users and workspaces they make
    Phone,      \* normalized phone numbers
    Legero,     \* a workspace that exists already
    Null        \* no value

ASSUME UsersAssumption == Legero \notin Cmd /\ Null \notin Cmd \cup Phone \cup {Legero}

VARIABLES
    users,      \* table users: the phone of each user, Null if there is none
    workspaces, \* table workspaces
    members,    \* table workspace_members: pairs <<workspace, user>>
    step,       \* per command: the statement it executes next
    input,      \* per command: phone and workspace asked for
    written     \* per command: its uncommitted rows

tables   == <<users, workspaces, members>>
creation == <<tables, step, input, written>>

Space == Cmd \cup {Legero}

NoRows == [phone |-> Null, workspaces |-> {}, members |-> {}]

UsersInit ==
    /\ users = [u \in Cmd |-> Null]
    /\ workspaces = {Legero}
    /\ members = {}
    /\ step = [c \in Cmd |-> "start"]
    /\ input = [c \in Cmd |-> Null]
    /\ written = [c \in Cmd |-> NoRows]

StepTo(c, label) == step' = [step EXCEPT ![c] = label]

\* A workspace id that is given may be one of another command, or unknown;
\* without one a workspace is created.  A blank phone or password and an
\* unknown role end the command before it reads anything.
CreateUser(c) ==
    /\ step[c] = "start"
    /\ \E p \in Phone, w \in (Space \ {c}) \cup {Null} :
          input' = [input EXCEPT ![c] = [phone |-> p, space |-> w]]
    /\ StepTo(c, "check")
    /\ UNCHANGED <<tables, written>>

HasPhone(p) == \E u \in Cmd : users[u] = p

\* GetByPhone, outside the transaction.
CheckPhone(c) ==
    /\ step[c] = "check"
    /\ StepTo(c, IF HasPhone(input[c].phone) THEN "failed" ELSE "workspace")
    /\ UNCHANGED <<tables, input, written>>

\* The users there are.
Created == {u \in Cmd : users[u] # Null}

SpaceOf(c) == IF input[c].space = Null THEN c ELSE input[c].space

\* Mutant: the workspace is inserted through the database, not the transaction.
InsertWorkspaceAtOnce(c) ==
    /\ step[c] = "workspace"
    /\ input[c].space = Null
    /\ workspaces' = workspaces \cup {c}
    /\ StepTo(c, "user")
    /\ UNCHANGED <<users, members, input, written>>

InsertWorkspace(c) ==
    /\ step[c] = "workspace"
    /\ input[c].space = Null
    /\ written' = [written EXCEPT ![c].workspaces = {c}]
    /\ StepTo(c, "user")
    /\ UNCHANGED <<tables, input>>

\* The workspace asked for has to be there; it is read, not locked.
LoadWorkspace(c) ==
    /\ step[c] = "workspace"
    /\ input[c].space # Null
    /\ StepTo(c, IF input[c].space \in workspaces THEN "user" ELSE "failed")
    /\ UNCHANGED <<tables, input, written>>

InsertingPhone(c, p) == \E d \in Cmd \ {c} : written[d].phone = p

\* Mutant: the user is inserted through the database, not the transaction.
InsertUserAtOnce(c) ==
    /\ step[c] = "user"
    /\ ~InsertingPhone(c, input[c].phone)
    /\ ~HasPhone(input[c].phone)
    /\ users' = [users EXCEPT ![c] = input[c].phone]
    /\ StepTo(c, "member")
    /\ UNCHANGED <<workspaces, members, input, written>>

\* The unique index on phone makes the INSERT wait for a transaction that
\* inserts the same phone, and fail if the phone is taken.
InsertUser(c) ==
    /\ step[c] = "user"
    /\ ~InsertingPhone(c, input[c].phone)
    /\ ~HasPhone(input[c].phone)
    /\ written' = [written EXCEPT ![c].phone = input[c].phone]
    /\ StepTo(c, "member")
    /\ UNCHANGED <<tables, input>>

\* The transaction rolls back and the command reports an error.
Abort(c) ==
    /\ StepTo(c, "failed")
    /\ written' = [written EXCEPT ![c] = NoRows]
    /\ UNCHANGED <<tables, input>>

InsertUserConflict(c) ==
    /\ step[c] = "user"
    /\ ~InsertingPhone(c, input[c].phone)
    /\ HasPhone(input[c].phone)
    /\ Abort(c)

InsertMember(c) ==
    /\ step[c] = "member"
    /\ written' = [written EXCEPT ![c].members = {<<SpaceOf(c), c>>}]
    /\ StepTo(c, "commit")
    /\ UNCHANGED <<tables, input>>

Install(c) ==
    /\ users' = [users EXCEPT ![c] = written[c].phone]
    /\ workspaces' = workspaces \cup written[c].workspaces
    /\ members' = members \cup written[c].members
    /\ written' = [written EXCEPT ![c] = NoRows]
    /\ UNCHANGED input

CommitUser(c) == step[c] = "commit" /\ Install(c) /\ StepTo(c, "created")

\* The commit happens, the command does not learn of it and reports failure.
CommitUserUnacknowledged(c) ==
    step[c] = "commit" /\ Install(c) /\ StepTo(c, "failed")

\* Any statement can fail, and the process can be stopped.
CreateFails(c) ==
    /\ step[c] \in {"check", "workspace", "user", "member", "commit"}
    /\ Abort(c)

CreateNext(c) ==
    \/ CreateUser(c) \/ CheckPhone(c)
    \/ InsertWorkspace(c) \/ LoadWorkspace(c)
    \/ InsertUser(c) \/ InsertUserConflict(c) \/ InsertMember(c)
    \/ CommitUser(c) \/ CommitUserUnacknowledged(c) \/ CreateFails(c)

-----------------------------------------------------------------------------
(* Correctness *)

UsersTypeOK ==
    /\ users \in [Cmd -> Phone \cup {Null}]
    /\ workspaces \subseteq Space
    /\ members \subseteq Space \X Cmd
    /\ step \in [Cmd -> {"start", "check", "workspace", "user", "member", "commit",
                         "created", "failed"}]
    /\ input \in [Cmd -> [phone : Phone, space : Space \cup {Null}] \cup {Null}]
    /\ written \in [Cmd -> [phone : Phone \cup {Null}, workspaces : SUBSET Space,
                            members : SUBSET (Space \X Cmd)]]

(***************************************************************************)
(* User creation is atomic ("all within a single transaction",             *)
(* service/v1/user.go:32): a committed user is a member of exactly one     *)
(* workspace, the one the command asked for, which exists; a workspace     *)
(* made by a command has its user; and a command that reports success left *)
(* both behind.  Phones stay unique whatever commands overlap.             *)
(***************************************************************************)
CreationIsWhole ==
    /\ \A u \in Created : {m \in members : m[2] = u} = {<<SpaceOf(u), u>>}
    /\ \A m \in members : m[1] \in workspaces /\ m[2] \in Created
    /\ \A w \in workspaces \ {Legero} : <<w, w>> \in members
    /\ \A c \in Cmd : step[c] = "created" => users[c] = input[c].phone
    /\ \A u, v \in Created : users[u] = users[v] => u = v
=============================================================================
