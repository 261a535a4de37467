------------------------------ MODULE AuthProofs ------------------------------
(***************************************************************************)
(* Proofs about Users and Auth: users are created whole, tokens follow     *)
(* TokenLines, and what a client holds is good, for any number of commands,*)
(* users, requests and tokens, any lifetimes and any bound on the clock.   *)
(***************************************************************************)
EXTENDS Auth, TLAPS

-----------------------------------------------------------------------------
(* The create-user command *)

\* What a command has written so far follows from where it is; its user is
\* there only once it has ended.
CreationSteps(c) ==
    /\ step[c] # "start" => input[c] \in [phone : Phone, space : Space \cup {Null}]
    /\ step[c] \notin {"user", "member", "commit"} => written[c] = NoRows
    /\ step[c] \in {"user", "member", "commit"} =>
          /\ written[c] =
                [phone |-> IF step[c] = "user" THEN Null ELSE input[c].phone,
                 workspaces |-> IF input[c].space = Null THEN {c} ELSE {},
                 members |-> IF step[c] = "commit" THEN {<<SpaceOf(c), c>>} ELSE {}]
          /\ input[c].space # Null => input[c].space \in workspaces
    /\ users[c] # Null => step[c] \in {"created", "failed"} /\ users[c] = input[c].phone
    /\ step[c] = "created" => users[c] = input[c].phone

\* A phone that is being inserted is nobody else's, committed or not.
PhonesApart ==
    \A c, d \in Cmd : written[c].phone # Null =>
        users[d] # written[c].phone /\ (c # d => written[d].phone # written[c].phone)

UsersInv ==
    /\ UsersTypeOK
    /\ \A c \in Cmd : CreationSteps(c)
    /\ PhonesApart
    /\ CreationIsWhole

\* The initial tables satisfy the invariant.
LEMMA UsersInitially == UsersInit => UsersInv
<1> SUFFICES ASSUME UsersInit PROVE UsersInv
  OBVIOUS
<1> USE UsersAssumption DEF UsersInit
<1>1. UsersTypeOK
  BY DEF UsersTypeOK, Space, NoRows
<1>2. (\A c \in Cmd : CreationSteps(c)) /\ PhonesApart
  BY DEF CreationSteps, PhonesApart, NoRows
<1>3. CreationIsWhole
  BY DEF CreationIsWhole, Created
<1> QED
  BY <1>1, <1>2, <1>3 DEF UsersInv

\* A step of one command keeps what holds of another.
LEMMA OtherCommands ==
  ASSUME UsersInv, NEW d \in Cmd, workspaces \subseteq workspaces',
         step'[d] = step[d], input'[d] = input[d], written'[d] = written[d], users'[d] = users[d]
  PROVE  CreationSteps(d)'
<1>1. CreationSteps(d)
  BY DEF UsersInv
<1>2. SpaceOf(d)' = SpaceOf(d)
  BY DEF SpaceOf
<1> QED
  BY <1>1, <1>2 DEF CreationSteps

\* A step that writes no table keeps creations whole, if it does not report
\* success and leaves the inputs of created users alone.
LEMMA TablesKept ==
  ASSUME UsersInv, UNCHANGED tables, NEW c \in Cmd, users[c] = Null,
         \A d \in Cmd \ {c} : step'[d] = step[d] /\ input'[d] = input[d],
         step'[c] # "created"
  PROVE  CreationIsWhole'
<1>1. \A d \in Cmd \ {c} : SpaceOf(d)' = SpaceOf(d)
  BY DEF SpaceOf
<1>2. Created' = Created /\ c \notin Created
  BY DEF Created, tables
<1> QED
  BY <1>1, <1>2 DEF UsersInv, CreationIsWhole, tables, Created

\* Phones stay apart when nobody inserts a new one.
LEMMA PhonesKept ==
  ASSUME PhonesApart, NEW c \in Cmd, UNCHANGED users,
         \A d \in Cmd \ {c} : written'[d] = written[d],
         written'[c].phone \in {Null, written[c].phone}
  PROVE  PhonesApart'
  BY DEF PhonesApart

\* A commit of the command's user, whether or not the command learns of it.
LEMMA InstallStep ==
  ASSUME UsersInv, NEW c \in Cmd, step[c] = "commit", Install(c),
         NEW label \in {"created", "failed"}, StepTo(c, label)
  PROVE  UsersInv'
<1> USE UsersAssumption
<1>1. /\ input[c] \in [phone : Phone, space : Space \cup {Null}]
      /\ written[c] = [phone |-> input[c].phone,
                       workspaces |-> IF input[c].space = Null THEN {c} ELSE {},
                       members |-> {<<SpaceOf(c), c>>}]
      /\ input[c].space # Null => input[c].space \in workspaces
      /\ users[c] = Null
  BY DEF UsersInv, CreationSteps
<1>2. /\ users' = [users EXCEPT ![c] = input[c].phone]
      /\ workspaces' = workspaces \cup (IF input[c].space = Null THEN {c} ELSE {})
      /\ members' = members \cup {<<SpaceOf(c), c>>}
      /\ written' = [written EXCEPT ![c] = NoRows]
      /\ step' = [step EXCEPT ![c] = label]
      /\ input' = input
  BY <1>1 DEF Install, StepTo
<1>3. SpaceOf(c) \in Space /\ SpaceOf(c) \in workspaces' /\ c \in Space
  BY <1>1, <1>2 DEF SpaceOf, Space
<1>4. UsersTypeOK'
  <2>1. /\ users' \in [Cmd -> Phone \cup {Null}]
        /\ step' \in [Cmd -> {"start", "check", "workspace", "user", "member", "commit",
                              "created", "failed"}]
        /\ input' \in [Cmd -> [phone : Phone, space : Space \cup {Null}] \cup {Null}]
    BY <1>1, <1>2 DEF UsersInv, UsersTypeOK
  <2>2. workspaces' \subseteq Space /\ members' \subseteq Space \X Cmd
    BY <1>2, <1>3 DEF UsersInv, UsersTypeOK
  <2>3. NoRows \in [phone : Phone \cup {Null}, workspaces : SUBSET Space,
                    members : SUBSET (Space \X Cmd)]
    BY DEF NoRows
  <2>4. written' \in [Cmd -> [phone : Phone \cup {Null}, workspaces : SUBSET Space,
                             members : SUBSET (Space \X Cmd)]]
    BY <1>2, <2>3 DEF UsersInv, UsersTypeOK
  <2> QED
    BY <2>1, <2>2, <2>4 DEF UsersTypeOK
<1>5. \A d \in Cmd \ {c} : users'[d] = users[d] /\ written'[d] = written[d]
                            /\ step'[d] = step[d] /\ input'[d] = input[d]
  BY <1>2 DEF UsersInv, UsersTypeOK
<1>6. /\ users'[c] = input[c].phone /\ written'[c] = NoRows
      /\ step'[c] = label /\ input'[c] = input[c]
  BY <1>2 DEF UsersInv, UsersTypeOK
<1>7. \A d \in Cmd : CreationSteps(d)'
  <2>1. CreationSteps(c)'
    BY <1>1, <1>6 DEF CreationSteps
  <2>2. \A d \in Cmd \ {c} : CreationSteps(d)'
    BY <1>2, <1>5, OtherCommands
  <2> QED
    BY <2>1, <2>2
<1>8. PhonesApart'
  BY <1>1, <1>5, <1>6 DEF UsersInv, PhonesApart, NoRows
<1>9. CreationIsWhole'
  <2>1. Created' = Created \cup {c} /\ c \notin Created
    BY <1>1, <1>5, <1>6 DEF Created
  <2>2. \A d \in Cmd : SpaceOf(d)' = SpaceOf(d)
    BY <1>2 DEF SpaceOf
  <2>3. \A m \in members : m[2] # c
    BY <2>1 DEF UsersInv, CreationIsWhole
  <2>4. \A u \in Created' : {m \in members' : m[2] = u} = {<<SpaceOf(u)', u>>}
    <3>1. \A u \in Created : {m \in members' : m[2] = u} = {m \in members : m[2] = u}
      BY <1>2, <2>1
    <3>2. {m \in members' : m[2] = c} = {<<SpaceOf(c), c>>}
      BY <1>2, <2>3
    <3>3. \A u \in Created : {m \in members : m[2] = u} = {<<SpaceOf(u), u>>}
      BY DEF UsersInv, CreationIsWhole
    <3>4. \A u \in Created' : SpaceOf(u)' = SpaceOf(u)
      BY <2>1, <2>2 DEF Created
    <3> QED
      BY <2>1, <3>1, <3>2, <3>3, <3>4
  <2>5. \A m \in members' : m[1] \in workspaces' /\ m[2] \in Created'
    BY <1>2, <1>3, <2>1 DEF UsersInv, CreationIsWhole
  <2>6. \A w \in workspaces' \ {Legero} : <<w, w>> \in members'
    BY <1>2, <2>2 DEF UsersInv, CreationIsWhole, SpaceOf
  <2>7. \A d \in Cmd : step'[d] = "created" => users'[d] = input'[d].phone
    BY <1>2, <1>5, <1>6 DEF UsersInv, CreationIsWhole
  <2>8. \A u, v \in Created' : users'[u] = users'[v] => u = v
    <3>1. \A u \in Created : u # c /\ users'[u] = users[u] /\ users[u] # input[c].phone
      <4>1. \A u \in Cmd : users[u] # input[c].phone
        BY <1>1 DEF UsersInv, PhonesApart
      <4> QED
        BY <1>5, <2>1, <4>1 DEF Created
    <3> QED
      BY <1>6, <2>1, <3>1 DEF UsersInv, CreationIsWhole
  <2> QED
    BY <2>4, <2>5, <2>6, <2>7, <2>8 DEF CreationIsWhole
<1> QED
  BY <1>4, <1>7, <1>8, <1>9 DEF UsersInv

\* A statement before the commit: the command writes rows of its own only.
LEMMA StatementStep ==
  ASSUME UsersInv, NEW c \in Cmd, UNCHANGED tables, users[c] = Null,
         \A d \in Cmd \ {c} : step'[d] = step[d] /\ input'[d] = input[d]
                              /\ written'[d] = written[d],
         UsersTypeOK', CreationSteps(c)', PhonesApart', step'[c] # "created"
  PROVE  UsersInv'
<1>1. \A d \in Cmd \ {c} : CreationSteps(d)'
  BY OtherCommands DEF tables
<1>2. CreationIsWhole'
  BY TablesKept
<1> QED
  BY <1>1, <1>2 DEF UsersInv

\* Every step of a command preserves the invariant.
LEMMA UsersStep ==
  ASSUME UsersInv, NEW c \in Cmd, CreateNext(c)
  PROVE  UsersInv'
<1> USE UsersAssumption
<1> DEFINE Ended == {"created", "failed"}
           Label == {"start", "check", "workspace", "user", "member", "commit"} \cup Ended
           Written == [phone : Phone \cup {Null}, workspaces : SUBSET Space,
                       members : SUBSET (Space \X Cmd)]
<1>1. /\ users \in [Cmd -> Phone \cup {Null}] /\ step \in [Cmd -> Label]
      /\ input \in [Cmd -> [phone : Phone, space : Space \cup {Null}] \cup {Null}]
      /\ written \in [Cmd -> Written]
      /\ CreationSteps(c) /\ PhonesApart
  BY DEF UsersInv, UsersTypeOK
<1>2. step[c] \notin Ended => users[c] = Null
  BY <1>1 DEF CreationSteps
<1>3. NoRows \in Written /\ NoRows.phone = Null
  BY DEF NoRows
<1>4. CASE CreateUser(c)
  <2>1. PICK p \in Phone, w \in Space \cup {Null} :
            input' = [input EXCEPT ![c] = [phone |-> p, space |-> w]]
    BY <1>4 DEF CreateUser
  <2>2. UsersTypeOK'
    BY <1>1, <1>4, <2>1 DEF CreateUser, StepTo, tables, UsersInv, UsersTypeOK
  <2>3. CreationSteps(c)' /\ PhonesApart'
    BY <1>1, <1>4, <2>1 DEF CreateUser, StepTo, tables, CreationSteps, PhonesApart, NoRows
  <2>4. \A d \in Cmd \ {c} : step'[d] = step[d] /\ input'[d] = input[d] /\ written'[d] = written[d]
    BY <1>1, <1>4, <2>1 DEF CreateUser, StepTo
  <2>5. step'[c] # "created" /\ users[c] = Null /\ UNCHANGED tables
    BY <1>1, <1>2, <1>4 DEF CreateUser, StepTo
  <2> QED
    BY <2>2, <2>3, <2>4, <2>5, StatementStep
<1>5. ASSUME NEW label \in Label \ {"created"}, StepTo(c, label), step[c] \notin Ended,
             UNCHANGED <<tables, input>>,
             NEW row \in Written, written' = [written EXCEPT ![c] = row],
             CreationSteps(c)', PhonesApart'
      PROVE  UsersInv'
  <2>1. UsersTypeOK'
    BY <1>1, <1>5 DEF StepTo, tables, UsersInv, UsersTypeOK
  <2>2. \A d \in Cmd \ {c} : step'[d] = step[d] /\ input'[d] = input[d] /\ written'[d] = written[d]
    BY <1>1, <1>5 DEF StepTo
  <2>3. step'[c] # "created" /\ users[c] = Null
    BY <1>1, <1>2, <1>5 DEF StepTo
  <2> QED
    BY <1>5, <2>1, <2>2, <2>3, StatementStep
<1>6. CASE CheckPhone(c) \/ LoadWorkspace(c)
  <2>1. PICK label \in {"failed", "workspace", "user"} : StepTo(c, label)
    BY <1>6 DEF CheckPhone, LoadWorkspace
  <2>2. written' = [written EXCEPT ![c] = written[c]]
    BY <1>1, <1>6 DEF CheckPhone, LoadWorkspace
  <2>3. /\ UNCHANGED <<users, workspaces, input, written>>
        /\ step[c] \in {"check", "workspace"} /\ step'[c] \in {"failed", "workspace", "user"}
        /\ step'[c] = "user" => /\ step[c] = "workspace"
                                /\ input[c].space # Null /\ input[c].space \in workspaces
    BY <1>1, <1>6 DEF CheckPhone, LoadWorkspace, StepTo, tables
  <2>4. CreationSteps(c)' /\ PhonesApart'
    BY <1>1, <2>3 DEF CreationSteps, PhonesApart, NoRows
  <2> QED
    BY <1>1, <1>5, <1>6, <2>1, <2>2, <2>3, <2>4 DEF CheckPhone, LoadWorkspace
<1>7. CASE InsertWorkspace(c)
  <2> DEFINE row == [written[c] EXCEPT !.workspaces = {c}]
  <2>1. row \in Written
    BY <1>1 DEF Space
  <2>2. /\ written[c] = NoRows /\ written'[c] = row /\ step'[c] = "user"
        /\ input[c].space = Null /\ UNCHANGED <<users, workspaces, input>>
    BY <1>1, <1>7 DEF InsertWorkspace, StepTo, tables, CreationSteps
  <2>3. row = [phone |-> Null, workspaces |-> {c}, members |-> {}]
    BY <2>2 DEF NoRows
  <2>4. CreationSteps(c)'
    BY <1>1, <1>7, <2>2, <2>3 DEF CreationSteps, InsertWorkspace
  <2>5. PhonesApart'
    BY <1>1, <1>7, <2>2, <2>3, PhonesKept DEF InsertWorkspace
  <2> QED
    BY <1>5, <1>7, <2>1, <2>4, <2>5 DEF InsertWorkspace
<1>8. CASE InsertUser(c)
  <2> DEFINE row == [written[c] EXCEPT !.phone = input[c].phone]
  <2>1. row \in Written
    BY <1>1, <1>8 DEF InsertUser, CreationSteps
  <2>2. CreationSteps(c)'
    <3>1. /\ written'[c] = row /\ step[c] = "user" /\ step'[c] = "member"
          /\ UNCHANGED <<users, workspaces, input>>
      BY <1>1, <1>8 DEF InsertUser, StepTo, tables
    <3>2. row = [phone |-> input[c].phone,
                 workspaces |-> IF input[c].space = Null THEN {c} ELSE {}, members |-> {}]
      <4>1. written[c] = [phone |-> Null,
                          workspaces |-> IF input[c].space = Null THEN {c} ELSE {},
                          members |-> {}]
        BY <1>1, <3>1 DEF CreationSteps
      <4> QED
        BY <4>1
    <3> HIDE DEF row
    <3> QED
      BY <1>1, <3>1, <3>2 DEF CreationSteps
  <2>3. PhonesApart'
    <3>1. \A d \in Cmd : users'[d] # input[c].phone /\ (d # c => written'[d].phone # input[c].phone)
      BY <1>1, <1>8 DEF InsertUser, InsertingPhone, HasPhone, tables
    <3>2. written'[c].phone = input[c].phone /\ users' = users
      BY <1>1, <1>8 DEF InsertUser, tables
    <3>3. \A d \in Cmd \ {c} : written'[d] = written[d]
      BY <1>1, <1>8 DEF InsertUser
    <3> QED
      BY <1>1, <3>1, <3>2, <3>3 DEF PhonesApart
  <2> QED
    BY <1>5, <1>8, <2>1, <2>2, <2>3 DEF InsertUser
<1>9. CASE InsertMember(c)
  <2> DEFINE row == [written[c] EXCEPT !.members = {<<SpaceOf(c), c>>}]
  <2>1. SpaceOf(c) \in Space /\ SpaceOf(c)' = SpaceOf(c)
    BY <1>1, <1>9 DEF InsertMember, CreationSteps, SpaceOf, Space
  <2>2. row \in Written
    BY <1>1, <2>1
  <2>3. CreationSteps(c)'
    <3>1. /\ written'[c] = row /\ step[c] = "member" /\ step'[c] = "commit"
          /\ UNCHANGED <<users, workspaces, input>>
      BY <1>1, <1>9 DEF InsertMember, StepTo, tables
    <3>2. row = [phone |-> input[c].phone,
                 workspaces |-> IF input[c].space = Null THEN {c} ELSE {},
                 members |-> {<<SpaceOf(c), c>>}]
      <4>1. written[c] = [phone |-> input[c].phone,
                          workspaces |-> IF input[c].space = Null THEN {c} ELSE {},
                          members |-> {}]
        BY <1>1, <3>1 DEF CreationSteps
      <4> QED
        BY <4>1
    <3> HIDE DEF row
    <3> QED
      BY <1>1, <2>1, <3>1, <3>2 DEF CreationSteps
  <2>4. PhonesApart'
    BY <1>1, <1>9, PhonesKept DEF InsertMember, tables
  <2> QED
    BY <1>5, <1>9, <2>2, <2>3, <2>4 DEF InsertMember
<1>10. CASE InsertUserConflict(c) \/ CreateFails(c)
  <2>1. Abort(c) /\ step[c] \in Label \ (Ended \cup {"start"})
    BY <1>10 DEF InsertUserConflict, CreateFails
  <2>2. CreationSteps(c)'
    BY <1>1, <1>2, <2>1 DEF Abort, StepTo, tables, CreationSteps
  <2>3. PhonesApart'
    BY <1>1, <1>3, <2>1, PhonesKept DEF Abort, tables
  <2> QED
    BY <1>3, <1>5, <2>1, <2>2, <2>3 DEF Abort
<1>11. CASE CommitUser(c) \/ CommitUserUnacknowledged(c)
  BY <1>11, InstallStep DEF CommitUser, CommitUserUnacknowledged
<1> QED
  BY <1>4, <1>6, <1>7, <1>8, <1>9, <1>10, <1>11 DEF CreateNext

-----------------------------------------------------------------------------
(* Requests and tokens *)

\* Steps of a refresh between its SELECT ... FOR UPDATE and its end.
Locking == {"access", "insert", "rotate", "commit"}

\* A token's text names a user and a workspace that belong together.
Belongs(space, user) == <<space, user>> \in members

\* The arguments of a request, with what it has read so far.
CallOK(r) ==
    pc[r] # "idle" =>
        /\ call[r] \in Call
        /\ call[r].op = "login" => pc[r] \notin {"lock", "rotate"}
        /\ call[r].op = "bootstrap" => pc[r] \in {"user", "access", "answer"}
        /\ call[r].op = "refresh" => /\ pc[r] \in {"lock", "answer"} \cup Locking
                                    /\ call[r].token \in shown /\ call[r].now \in 0..MaxClock
        /\ call[r].op # "login" => /\ call[r].token \in known
                                   /\ call[r].user = claims[call[r].token].user
                                   /\ call[r].space = claims[call[r].token].space
        /\ call[r].op = "login" /\ pc[r] = "access" =>
              call[r].user \in Cmd /\ users[call[r].user] # Null
        /\ pc[r] = "insert" =>
              call[r].user \in Cmd /\ call[r].space \in Space
              /\ Belongs(call[r].space, call[r].user)

\* The row a refresh has locked is good and stays as it was read.
LockOK(r) ==
    /\ cur[r] # Null <=> pc[r] \in Locking /\ call[r].op = "refresh"
    /\ cur[r] # Null => /\ tokens[call[r].token] = cur[r] /\ ~cur[r].rotated
                        /\ \A s \in Req \ {r} :
                              cur[s] # Null => call[s].token # call[r].token

\* The pair a request makes has no row before its commit, and belongs to the
\* line of the token that it replaces.
MadeOK(r) ==
    /\ pc[r] \notin {"rotate", "commit", "answer"} => made[r] = Null
    /\ made[r] # Null => \A s \in Req \ {r} : made[s] # made[r]
    /\ pc[r] = "answer" /\ made[r] # Null => tokens[made[r]] # Null
    /\ pc[r] \in {"rotate", "commit"} =>
          /\ made[r] \in Token
          /\ tokens[made[r]] = Null /\ claims[made[r]] # Null
          /\ line[made[r]] = IF call[r].op = "login" THEN made[r] ELSE line[call[r].token]

NewRow(row) == row \in Row /\ ~row.rotated /\ row.next = Null /\ row.version = 1

\* What a request is about to commit: its new row, and the rotated one.
RowsOK(r) ==
    /\ pc[r] \notin {"rotate", "commit"} => rows[r] = NoTokens
    /\ pc[r] \in {"rotate", "commit"} => NewRow(rows[r][made[r]])
    /\ pc[r] = "rotate" => \A t \in Token \ {made[r]} : rows[r][t] = Null
    /\ pc[r] = "commit" /\ call[r].op = "login" =>
          \A t \in Token \ {made[r]} : rows[r][t] = Null
    /\ pc[r] = "commit" /\ call[r].op = "refresh" =>
          /\ rows[r][call[r].token] \in Row /\ rows[r][call[r].token].rotated
          /\ \A t \in Token \ {made[r], call[r].token} : rows[r][t] = Null

RequestOK(r) == CallOK(r) /\ LockOK(r) /\ MadeOK(r) /\ RowsOK(r)

\* A stored token is a new row, or was presented and rotated; its line began
\* with a stored token, and has one good token at most.
TokensOK ==
    /\ known \subseteq Stored
    /\ \A t \in Token : claims[t] # Null => Belongs(claims[t].space, claims[t].user)
    /\ \A t \in Stored : /\ claims[t] # Null
                         /\ line[t] \in Stored
                         /\ IF tokens[t].rotated THEN t \in shown ELSE NewRow(tokens[t])
    /\ \A s, t \in Stored :
          line[s] = line[t] /\ ~tokens[s].rotated /\ ~tokens[t].rotated => s = t

AuthInv == TypeOK /\ UsersInv /\ TokensOK /\ \A r \in Req : RequestOK(r)

\* The initial state satisfies the invariant.
LEMMA AuthInitially == Init => AuthInv
<1> SUFFICES ASSUME Init PROVE AuthInv
  OBVIOUS
<1> USE AuthAssumption, UsersAssumption
<1>1. UsersInv
  BY UsersInitially DEF Init
<1>2. TypeOK
  BY <1>1 DEF Init, TypeOK, UsersInv, NoTokens
<1>3. TokensOK
  BY DEF Init, TokensOK, Stored, NoTokens
<1>4. \A r \in Req : RequestOK(r)
  BY DEF Init, RequestOK, CallOK, LockOK, MadeOK, RowsOK, NoTokens, Locking
<1> QED
  BY <1>1, <1>2, <1>3, <1>4 DEF AuthInv

\* What a step leaves alone of a request.
Waits(s) ==
    /\ pc'[s] = pc[s] /\ call'[s] = call[s] /\ cur'[s] = cur[s]
    /\ made'[s] = made[s] /\ rows'[s] = rows[s]

\* What steps do to the rest: nothing that was given, named or made is lost.
Grows ==
    /\ known \subseteq known' /\ shown \subseteq shown' /\ members \subseteq members'
    /\ \A u \in Cmd : users[u] # Null => users'[u] # Null
    /\ \A t \in Token : claims[t] # Null => claims'[t] = claims[t] /\ line'[t] = line[t]
    /\ \A t \in Token : tokens[t] # Null => tokens'[t] # Null

\* A request waits while others take neither its lock nor its new token.
LEMMA WaitingRequest ==
  ASSUME AuthInv, NEW s \in Req, Waits(s), Grows,
         cur[s] # Null => tokens'[call[s].token] = tokens[call[s].token],
         pc[s] \in {"rotate", "commit"} => tokens'[made[s]] = Null,
         \A q \in Req \ {s} : cur[s] # Null /\ cur'[q] # Null => call'[q].token # call[s].token,
         \A q \in Req \ {s} : made[s] # Null => made'[q] # made[s]
  PROVE  RequestOK(s)'
<1> USE DEF Waits
<1>1. CallOK(s) /\ LockOK(s) /\ MadeOK(s) /\ RowsOK(s) /\ known \subseteq Stored
  BY DEF AuthInv, RequestOK, TokensOK
<1>2. \A t \in known : t \in Token /\ claims[t] # Null /\ claims'[t] = claims[t]
                        /\ line'[t] = line[t]
  BY <1>1 DEF Grows, AuthInv, TokensOK, Stored
<1>3. CallOK(s)'
  BY <1>1, <1>2 DEF CallOK, Grows, Belongs
<1>4. LockOK(s)'
  BY <1>1 DEF LockOK
<1>5. MadeOK(s)'
  <2>1. made[s] # Null => made[s] \in Token
    BY DEF AuthInv, TypeOK
  <2>2. pc[s] \in {"rotate", "commit"} /\ call[s].op # "login" => call[s].token \in known
    BY <1>1 DEF CallOK
  <2> QED
    BY <1>1, <1>2, <2>1, <2>2 DEF MadeOK, Grows
<1>6. RowsOK(s)'
  BY <1>1 DEF RowsOK
<1> QED
  BY <1>3, <1>4, <1>5, <1>6 DEF RequestOK

\* A step of one request that writes no row and names no token.
LEMMA LocalStep ==
  ASSUME AuthInv, NEW r \in Req, UNCHANGED creation, UNCHANGED <<tokens, claims, line>>,
         \A s \in Req \ {r} : Waits(s),
         known \subseteq known', known' \subseteq Stored, shown \subseteq shown',
         TypeOK', RequestOK(r)'
  PROVE  AuthInv'
<1>1. Grows
  BY DEF Grows, creation, tables
<1>2. UsersInv'
  BY DEF AuthInv, UsersInv, UsersTypeOK, CreationSteps, PhonesApart, CreationIsWhole,
         creation, tables, Created, SpaceOf
<1>3. TokensOK'
  BY DEF AuthInv, TokensOK, Stored, Belongs, creation, tables
<1>4. ASSUME NEW s \in Req \ {r} PROVE RequestOK(s)'
  <2>1. Waits(s) /\ LockOK(s) /\ MadeOK(s) /\ LockOK(r)' /\ MadeOK(r)'
    BY <1>4 DEF AuthInv, RequestOK
  <2>2. \A q \in Req \ {s} : cur[s] # Null /\ cur'[q] # Null => call'[q].token # call[s].token
    BY <1>4, <2>1 DEF LockOK, Waits
  <2>3. \A q \in Req \ {s} : made[s] # Null => made'[q] # made[s]
    BY <1>4, <2>1 DEF MadeOK, Waits
  <2>4. pc[s] \in {"rotate", "commit"} => tokens'[made[s]] = Null
    BY <2>1 DEF MadeOK
  <2> QED
    BY <1>1, <1>4, <2>1, <2>2, <2>3, <2>4, WaitingRequest
<1> QED
  BY <1>2, <1>3, <1>4 DEF AuthInv

\* A request that ends leaves nothing behind.
LEMMA EndedRequest ==
  ASSUME AuthInv, NEW r \in Req, Done(r)
  PROVE  /\ RequestOK(r)'
         /\ \A s \in Req \ {r} : Waits(s)
         /\ pc' \in [Req -> {"idle", "user", "lock", "access", "insert", "rotate", "commit", "answer"}]
         /\ call' \in [Req -> Call \cup {Null}]
         /\ cur' \in [Req -> Row \cup {Null}]
         /\ made' \in [Req -> Token \cup {Null}]
         /\ rows' \in [Req -> [Token -> Row \cup {Null}]]
<1> USE DEF Done, Goto
<1>1. /\ pc'[r] = "idle" /\ call'[r] = Null /\ cur'[r] = Null /\ made'[r] = Null
      /\ rows'[r] = NoTokens
  BY DEF AuthInv, TypeOK
<1>2. RequestOK(r)'
  BY <1>1 DEF RequestOK, CallOK, LockOK, MadeOK, RowsOK, Locking, NoTokens
<1>3. NoTokens \in [Token -> Row \cup {Null}]
  BY DEF NoTokens
<1> QED
  BY <1>2, <1>3 DEF AuthInv, TypeOK, Waits

\* A refused or failed request rolls back.
LEMMA RefuseStep ==
  ASSUME AuthInv, NEW r \in Req, Refuse(r), UNCHANGED creation
  PROVE  AuthInv'
<1>1. TypeOK'
  BY EndedRequest DEF Refuse, AuthInv, TypeOK, UsersTypeOK, creation, tables
<1>2. known \subseteq Stored
  BY DEF AuthInv, TokensOK
<1> QED
  BY <1>1, <1>2, EndedRequest, LocalStep DEF Refuse

\* The types of what a statement changes.
LEMMA StatementTypes ==
  ASSUME AuthInv, NEW r \in Req, NEW c \in Call,
         NEW label \in {"user", "lock", "access", "insert", "rotate", "commit", "answer"},
         Goto(r, label), call' = [call EXCEPT ![r] = c]
  PROVE  /\ pc' \in [Req -> {"idle", "user", "lock", "access", "insert", "rotate", "commit", "answer"}]
         /\ call' \in [Req -> Call \cup {Null}]
         /\ pc'[r] = label /\ call'[r] = c
         /\ \A s \in Req \ {r} : pc'[s] = pc[s] /\ call'[s] = call[s]
  BY DEF AuthInv, TypeOK, Goto

\* A call begins: its arguments are named, nothing is read yet.
LEMMA BeginStep ==
  ASSUME AuthInv, NEW r \in Req, NEW c \in Call, NEW label \in {"user", "lock"},
         Begin(r, c, label), UNCHANGED creation,
         logins' \in 0..MaxLogins, shown \subseteq shown', shown' \subseteq known,
         c.op = "login" => label = "user",
         c.op = "bootstrap" => label = "user",
         c.op = "refresh" => label = "lock" /\ c.token \in shown' /\ c.now \in 0..MaxClock,
         c.op # "login" => c.token \in known /\ c.user = claims[c.token].user
                                             /\ c.space = claims[c.token].space
  PROVE  AuthInv'
<1> USE DEF Begin
<1>1. pc[r] = "idle" /\ RequestOK(r)
  BY DEF AuthInv
<1>2. /\ pc' \in [Req -> {"idle", "user", "lock", "access", "insert", "rotate", "commit", "answer"}]
      /\ call' \in [Req -> Call \cup {Null}]
      /\ pc'[r] = label /\ call'[r] = c
      /\ \A s \in Req \ {r} : Waits(s)
  BY StatementTypes DEF Waits
<1>3. TypeOK'
  BY <1>2 DEF AuthInv, TypeOK, UsersTypeOK, creation, tables
<1>4. RequestOK(r)'
  BY <1>1, <1>2 DEF RequestOK, CallOK, LockOK, MadeOK, RowsOK, Locking
<1>5. known' \subseteq Stored
  BY DEF AuthInv, TokensOK
<1> QED
  BY <1>2, <1>3, <1>4, <1>5, LocalStep

\* What a token that a client knows says.
LEMMA KnownToken ==
  ASSUME AuthInv, NEW t \in known
  PROVE  /\ t \in Token /\ t # Null
         /\ claims[t].user \in Cmd /\ claims[t].space \in Space
         /\ <<claims[t].space, claims[t].user>> \in members
  BY AuthAssumption DEF AuthInv, TypeOK, TokensOK, Stored, Claims, Belongs

\* A call of a client begins.
LEMMA CallSteps ==
  ASSUME AuthInv, NEW r \in Req, Login(r) \/ Refresh(r) \/ Bootstrap(r), UNCHANGED creation
  PROVE  AuthInv'
<1>1. CASE Login(r)
  <2>1. PICK p \in Phone :
            /\ logins < MaxLogins
            /\ Begin(r, [op |-> "login", phone |-> p, user |-> Null, space |-> Null,
                         token |-> Null, now |-> Null], "user")
            /\ logins' = logins + 1
            /\ UNCHANGED shown
    BY <1>1 DEF Login
  <2>2. [op |-> "login", phone |-> p, user |-> Null, space |-> Null,
         token |-> Null, now |-> Null] \in Call
    BY DEF Call
  <2>3. logins' \in 0..MaxLogins /\ shown \subseteq known
    BY <2>1, AuthAssumption DEF AuthInv, TypeOK
  <2> QED
    BY <2>1, <2>2, <2>3, BeginStep
<1>2. CASE Refresh(r)
  <2>1. PICK t \in known :
            /\ Begin(r, [op |-> "refresh", phone |-> Null, user |-> claims[t].user,
                         space |-> claims[t].space, token |-> t, now |-> clock], "lock")
            /\ shown' = shown \cup {t}
            /\ UNCHANGED logins
    BY <1>2 DEF Refresh
  <2>2. clock \in 0..MaxClock /\ logins \in 0..MaxLogins /\ shown \subseteq known
    BY DEF AuthInv, TypeOK
  <2>3. [op |-> "refresh", phone |-> Null, user |-> claims[t].user,
         space |-> claims[t].space, token |-> t, now |-> clock] \in Call
    BY <2>2, KnownToken DEF Call
  <2> QED
    BY <2>1, <2>2, <2>3, BeginStep
<1>3. CASE Bootstrap(r)
  <2>1. PICK t \in known :
            /\ Begin(r, [op |-> "bootstrap", phone |-> Null, user |-> claims[t].user,
                         space |-> claims[t].space, token |-> t, now |-> Null], "user")
            /\ UNCHANGED <<logins, shown>>
    BY <1>3 DEF Bootstrap
  <2>2. logins \in 0..MaxLogins /\ shown \subseteq known
    BY DEF AuthInv, TypeOK
  <2>3. [op |-> "bootstrap", phone |-> Null, user |-> claims[t].user,
         space |-> claims[t].space, token |-> t, now |-> Null] \in Call
    BY KnownToken DEF Call
  <2> QED
    BY <2>1, <2>2, <2>3, BeginStep
<1> QED
  BY <1>1, <1>2, <1>3

\* A request reads: the user, its token for update, and the workspace.
LEMMA ReadSteps ==
  ASSUME AuthInv, NEW r \in Req, ReadUser(r) \/ ReadForUpdate(r) \/ ReadAccess(r),
         UNCHANGED creation
  PROVE  AuthInv'
<1>1. /\ RequestOK(r) /\ CallOK(r) /\ known \subseteq Stored /\ shown \subseteq known
      /\ cur \in [Req -> Row \cup {Null}] /\ call \in [Req -> Call \cup {Null}]
  BY DEF AuthInv, RequestOK, TokensOK, TypeOK
<1>2. CASE ReadUser(r)
  <2>1. PICK u \in Cmd : MatchesUser(r, u) /\ call' = [call EXCEPT ![r].user = u]
    BY <1>2 DEF ReadUser
  <2> DEFINE c == [call[r] EXCEPT !.user = u]
  <2>2. call[r] \in Call /\ pc[r] = "user"
    BY <1>1, <1>2 DEF ReadUser, CallOK
  <2>3. c \in Call /\ call' = [call EXCEPT ![r] = c]
    BY <1>1, <2>1, <2>2 DEF Call
  <2>4. /\ c.op = call[r].op /\ c.user = u /\ c.space = call[r].space /\ c.token = call[r].token
        /\ c.now = call[r].now
    BY <2>2 DEF Call
  <2> HIDE DEF c
  <2>5. /\ pc' \in [Req -> {"idle", "user", "lock", "access", "insert", "rotate", "commit", "answer"}]
        /\ call' \in [Req -> Call \cup {Null}]
        /\ pc'[r] = "access" /\ call'[r] = c
        /\ \A s \in Req \ {r} : Waits(s)
    BY <1>2, <2>3, StatementTypes DEF ReadUser, Waits
  <2>6. TypeOK'
    BY <1>2, <2>5 DEF AuthInv, TypeOK, UsersTypeOK, ReadUser, creation, tables
  <2>7. RequestOK(r)'
    BY <1>1, <1>2, <2>1, <2>2, <2>3, <2>4, <2>5
       DEF ReadUser, MatchesUser, RequestOK, CallOK, LockOK, MadeOK, RowsOK, Locking, creation, tables
  <2> QED
    BY <1>1, <1>2, <2>5, <2>6, <2>7, LocalStep DEF ReadUser
<1>3. CASE ReadForUpdate(r)
  <2> DEFINE t == call[r].token
  <2>1. /\ pc[r] = "lock" /\ call[r] \in Call /\ call[r].op = "refresh"
        /\ t \in Token /\ tokens[t] # Null /\ tokens[t] \in Row /\ ~tokens[t].rotated
    <3>1. pc[r] = "lock" /\ Usable(tokens[t], call[r].now)
      BY <1>3 DEF ReadForUpdate
    <3>2. call[r] \in Call /\ call[r].op = "refresh" /\ t \in shown
      BY <1>1, <3>1 DEF CallOK, Call, Locking
    <3>3. t \in Token /\ tokens \in [Token -> Row \cup {Null}]
      BY <1>1, <3>2 DEF AuthInv, TypeOK
    <3> QED
      BY <3>1, <3>2, <3>3 DEF Usable
  <2>2. /\ cur' = [cur EXCEPT ![r] = tokens[t]]
        /\ pc' = [pc EXCEPT ![r] = "access"]
        /\ UNCHANGED <<clock, tokens, claims, logins, call, made, rows, known, shown, line>>
        /\ \A s \in Req \ {r} : cur[s] # Null => call[s].token # t
    BY <1>3 DEF ReadForUpdate, Goto, LockedByOther
  <2>3. TypeOK'
    BY <2>1, <2>2 DEF AuthInv, TypeOK, UsersTypeOK, creation, tables
  <2>4. /\ \A s \in Req \ {r} : Waits(s)
        /\ pc'[r] = "access" /\ cur'[r] = tokens[t]
    BY <2>2 DEF Waits, AuthInv, TypeOK
  <2>5. RequestOK(r)'
    BY <1>1, <2>1, <2>2, <2>4
       DEF RequestOK, CallOK, LockOK, MadeOK, RowsOK, Locking, Waits, Belongs, creation, tables
  <2> QED
    BY <1>1, <2>2, <2>3, <2>4, <2>5, LocalStep
<1>4. CASE ReadAccess(r)
  <2>1. PICK w \in Accesses(r) : call' = [call EXCEPT ![r].space = w]
    BY <1>4 DEF ReadAccess
  <2> DEFINE c == [call[r] EXCEPT !.space = w]
             label == IF call[r].op = "bootstrap" THEN "answer" ELSE "insert"
  <2>2. call[r] \in Call /\ pc[r] = "access" /\ w \in Space /\ Belongs(w, call[r].user)
    BY <1>1, <1>4, <2>1 DEF ReadAccess, CallOK, Accesses, Belongs, AuthInv, TypeOK, UsersTypeOK
  <2>3. c \in Call /\ call' = [call EXCEPT ![r] = c]
    BY <1>1, <2>1, <2>2 DEF Call
  <2>4. /\ c.op = call[r].op /\ c.user = call[r].user /\ c.space = w /\ c.token = call[r].token
        /\ c.now = call[r].now
    BY <2>2 DEF Call
  <2>5. c.user \in Cmd
    BY <2>2, <2>4 DEF Belongs, AuthInv, TypeOK, UsersTypeOK
  <2>6. call[r].op # "login" => w = call[r].space
    BY <2>1 DEF Accesses
  <2>7. Goto(r, label) /\ label \in {"answer", "insert"} /\ (label = "answer" <=> call[r].op = "bootstrap")
    BY <1>4 DEF ReadAccess
  <2> HIDE DEF c, label
  <2>8. /\ pc' \in [Req -> {"idle", "user", "lock", "access", "insert", "rotate", "commit", "answer"}]
        /\ call' \in [Req -> Call \cup {Null}]
        /\ pc'[r] = label /\ call'[r] = c
        /\ \A s \in Req \ {r} : Waits(s)
    BY <1>4, <2>3, <2>7, StatementTypes DEF ReadAccess, Waits
  <2>9. TypeOK'
    BY <1>4, <2>8 DEF AuthInv, TypeOK, UsersTypeOK, ReadAccess, creation, tables
  <2>10. RequestOK(r)'
    <3>1. /\ UNCHANGED <<tokens, claims, cur, made, rows, known, shown, line, members>>
          /\ LockOK(r) /\ MadeOK(r) /\ RowsOK(r)
      BY <1>1, <1>4 DEF ReadAccess, creation, tables, RequestOK
    <3>2. CallOK(r)'
      BY <1>1, <2>2, <2>3, <2>4, <2>5, <2>6, <2>7, <2>8, <3>1 DEF CallOK, Locking, Belongs, Call
    <3>3. LockOK(r)'
      BY <2>2, <2>4, <2>7, <2>8, <3>1 DEF LockOK, Locking, Waits, Call
    <3>4. MadeOK(r)' /\ RowsOK(r)'
      BY <2>2, <2>4, <2>7, <2>8, <3>1 DEF MadeOK, RowsOK
    <3> QED
      BY <3>2, <3>3, <3>4 DEF RequestOK
  <2> QED
    BY <1>1, <1>4, <2>8, <2>9, <2>10, LocalStep DEF ReadAccess
<1> QED
  BY <1>2, <1>3, <1>4

\* The pair is made: its token never existed before.
LEMMA InsertStep ==
  ASSUME AuthInv, NEW r \in Req, Insert(r), UNCHANGED creation
  PROVE  AuthInv'
<1> USE AuthAssumption
<1>1. /\ RequestOK(r) /\ CallOK(r) /\ LockOK(r) /\ MadeOK(r) /\ RowsOK(r)
      /\ TokensOK /\ TypeOK /\ pc[r] = "insert"
  BY DEF AuthInv, RequestOK, Insert
<1>2. PICK t \in Token :
        /\ claims[t] = Null
        /\ made' = [made EXCEPT ![r] = t]
        /\ rows' = [rows EXCEPT ![r][t] = IssuedRow(r)]
        /\ claims' = [claims EXCEPT ![t] = IssuedClaims(r)]
        /\ line' = [line EXCEPT ![t] = IF call[r].op = "login" THEN t ELSE line[call[r].token]]
  BY DEF Insert
<1> DEFINE label == IF call[r].op = "login" THEN "commit" ELSE "rotate"
<1>3. /\ Goto(r, label) /\ label \in {"commit", "rotate"}
      /\ UNCHANGED <<clock, tokens, logins, call, cur, known, shown>>
  BY DEF Insert
<1>4. /\ call[r] \in Call /\ call[r].op \in {"login", "refresh"}
      /\ call[r].user \in Cmd /\ call[r].space \in Space
      /\ Belongs(call[r].space, call[r].user)
      /\ call[r].op = "refresh" => call[r].token \in shown /\ call[r].now \in 0..MaxClock
  BY <1>1 DEF CallOK, Call
<1>5. IssuedClaims(r) \in Claims /\ NewRow(IssuedRow(r))
  <2>1. (IF call[r].op = "login" THEN clock ELSE call[r].now) \in 0..MaxClock
    BY <1>1, <1>4 DEF TypeOK
  <2> QED
    BY <1>4, <2>1 DEF IssuedClaims, IssuedRow, NewRow, Claims, Row
<1>6. \A u \in Token : tokens[u] # Null \/ u \in known => claims[u] # Null
  BY <1>1 DEF TokensOK, Stored
<1>7. t # Null /\ tokens[t] = Null /\ t \notin known
  BY <1>2, <1>6
<1>8. call[r].op = "refresh" => call[r].token \in Token /\ call[r].token # t
  BY <1>1, <1>4, <1>7 DEF TypeOK
<1>9. /\ claims' \in [Token -> Claims \cup {Null}] /\ claims'[t] = IssuedClaims(r)
      /\ line' \in [Token -> Token \cup {Null}]
      /\ line'[t] = IF call[r].op = "login" THEN t ELSE line[call[r].token]
      /\ \A u \in Token \ {t} : claims'[u] = claims[u] /\ line'[u] = line[u]
  BY <1>1, <1>2, <1>4, <1>5, <1>8 DEF TypeOK
<1>10. /\ rows' \in [Req -> [Token -> Row \cup {Null}]] /\ rows'[r][t] = IssuedRow(r)
       /\ \A u \in Token \ {t} : rows'[r][u] = Null
       /\ made' \in [Req -> Token \cup {Null}] /\ made'[r] = t
  BY <1>1, <1>2, <1>5 DEF TypeOK, RowsOK, NoTokens, NewRow
<1> HIDE DEF label
<1>11. /\ pc' \in [Req -> {"idle", "user", "lock", "access", "insert", "rotate", "commit", "answer"}]
       /\ pc'[r] = label
       /\ \A s \in Req \ {r} : Waits(s)
  BY <1>1, <1>2, <1>3 DEF Goto, TypeOK, Waits
<1>12. TypeOK'
  BY <1>1, <1>3, <1>9, <1>10, <1>11 DEF TypeOK, UsersTypeOK, creation, tables
<1>13. UsersInv'
  BY DEF AuthInv, UsersInv, UsersTypeOK, CreationSteps, PhonesApart, CreationIsWhole,
         creation, tables, Created, SpaceOf
<1>14. TokensOK'
  BY <1>1, <1>3, <1>4, <1>5, <1>6, <1>7, <1>9
     DEF TokensOK, Stored, Belongs, IssuedClaims, Claims, creation, tables
<1>15. \A s \in Req \ {r} : made[s] # t
  <2>1. ASSUME NEW s \in Req \ {r}, made[s] = t PROVE FALSE
    <3>1. MadeOK(s) /\ made[s] # Null
      BY <1>7, <2>1 DEF AuthInv, RequestOK
    <3> QED
      BY <1>2, <1>7, <2>1, <3>1 DEF MadeOK
  <2> QED
    BY <2>1
<1>16. Grows
  BY <1>2, <1>3, <1>9 DEF Grows, creation, tables
<1>17. RequestOK(r)'
  <2>1. CallOK(r)'
    BY <1>1, <1>3, <1>4, <1>8, <1>9, <1>11
       DEF CallOK, Locking, label, TypeOK
  <2>2. LockOK(r)'
    BY <1>1, <1>3, <1>4, <1>11 DEF LockOK, Locking
  <2>3. MadeOK(r)'
    BY <1>3, <1>4, <1>5, <1>7, <1>8, <1>9, <1>10, <1>11, <1>15 DEF MadeOK, Waits, label
  <2>4. RowsOK(r)'
    BY <1>3, <1>4, <1>5, <1>10, <1>11 DEF RowsOK, label
  <2> QED
    BY <2>1, <2>2, <2>3, <2>4 DEF RequestOK
<1>18. ASSUME NEW s \in Req \ {r} PROVE RequestOK(s)'
  <2>1. Waits(s) /\ LockOK(s) /\ MadeOK(s)
    BY <1>11, <1>18 DEF AuthInv, RequestOK
  <2>2. \A q \in Req \ {s} : cur[s] # Null /\ cur'[q] # Null => call'[q].token # call[s].token
    BY <1>3, <2>1 DEF LockOK
  <2>3. \A q \in Req \ {s} : made[s] # Null => made'[q] # made[s]
    BY <1>10, <1>11, <1>15, <1>18, <2>1 DEF MadeOK, Waits
  <2>4. tokens' = tokens /\ (pc[s] \in {"rotate", "commit"} => tokens'[made[s]] = Null)
    BY <1>3, <2>1 DEF MadeOK
  <2> QED
    BY <1>16, <1>18, <2>1, <2>2, <2>3, <2>4, WaitingRequest
<1> QED
  BY <1>12, <1>13, <1>14, <1>17, <1>18 DEF AuthInv

\* What Rotate makes of a new row is a row that was rotated.
LEMMA RotatedRow ==
  ASSUME NEW row, NewRow(row), NEW n \in Token
  PROVE  /\ [row EXCEPT !.rotated = TRUE, !.next = n, !.version = @ + 1] \in Row
         /\ [row EXCEPT !.rotated = TRUE, !.next = n, !.version = @ + 1].rotated
<1> DEFINE used == [row EXCEPT !.rotated = TRUE, !.next = n]
<1>1. row \in Row /\ row.version = 1
  BY DEF NewRow
<1>2. used \in Row /\ used.version = 1 /\ used.rotated
  BY <1>1 DEF Row
<1>3. [row EXCEPT !.rotated = TRUE, !.next = n, !.version = @ + 1] = [used EXCEPT !.version = @ + 1]
  BY <1>1 DEF Row
<1> HIDE DEF used
<1>4. [used EXCEPT !.version = @ + 1] \in Row /\ [used EXCEPT !.version = @ + 1].rotated
  BY <1>2 DEF Row
<1> QED
  BY <1>3, <1>4

\* The old row is replaced in the transaction: it is still as it was locked.
LEMMA RotateStep ==
  ASSUME AuthInv, NEW r \in Req, Rotate(r), UNCHANGED creation
  PROVE  AuthInv'
<1> USE AuthAssumption
<1> DEFINE t == call[r].token
           old == tokens[t]
           new == [old EXCEPT !.rotated = TRUE, !.next = made[r], !.version = @ + 1]
<1>1. /\ CallOK(r) /\ LockOK(r) /\ MadeOK(r) /\ RowsOK(r)
      /\ TokensOK /\ TypeOK /\ pc[r] = "rotate"
  BY DEF AuthInv, RequestOK, Rotate
<1>2. /\ call[r] \in Call /\ call[r].op = "refresh" /\ t \in shown /\ t \in Token /\ made[r] \in Token
      /\ cur[r] # Null /\ old = cur[r] /\ ~old.rotated /\ tokens[made[r]] = Null /\ t # made[r]
  <2>1. call[r] \in Call /\ call[r].op = "refresh" /\ t \in shown /\ t \in Token
    BY <1>1 DEF CallOK, Call, TypeOK
  <2> QED
    BY <1>1, <2>1 DEF LockOK, MadeOK, Locking
<1>3. NewRow(old)
  BY <1>1, <1>2 DEF TokensOK, Stored
<1>4. new \in Row /\ new.rotated
  BY <1>2, <1>3, RotatedRow
<1>5. rows' = [rows EXCEPT ![r] = [rows[r] EXCEPT ![t] = new]]
  BY DEF Rotate, Rotation
<1> HIDE DEF new
<1>6. /\ rows' \in [Req -> [Token -> Row \cup {Null}]]
      /\ rows'[r][t] = new /\ \A u \in Token \ {t} : rows'[r][u] = rows[r][u]
  BY <1>1, <1>2, <1>4, <1>5 DEF TypeOK
<1>7. /\ pc' \in [Req -> {"idle", "user", "lock", "access", "insert", "rotate", "commit", "answer"}]
      /\ pc'[r] = "commit"
      /\ \A s \in Req \ {r} : Waits(s)
      /\ UNCHANGED <<clock, tokens, claims, logins, call, cur, made, known, shown, line>>
  BY <1>1, <1>5 DEF Rotate, Goto, TypeOK, Waits
<1>8. TypeOK'
  BY <1>1, <1>6, <1>7 DEF TypeOK, UsersTypeOK, creation, tables
<1>9. CallOK(r)' /\ LockOK(r)' /\ MadeOK(r)'
  BY <1>1, <1>2, <1>7 DEF CallOK, LockOK, MadeOK, Locking
<1>10. RowsOK(r)'
  BY <1>1, <1>2, <1>4, <1>6, <1>7 DEF RowsOK
<1>11. known' \subseteq Stored
  BY <1>1, <1>7 DEF TokensOK
<1> QED
  BY <1>7, <1>8, <1>9, <1>10, <1>11, LocalStep DEF RequestOK

\* What a commit installs: a new row at login, and at a refresh a new row of
\* the line of the token that is rotated.
LEMMA CommitRows ==
  ASSUME AuthInv, NEW r \in Req, pc[r] = "commit"
  PROVE  /\ made[r] \in Token /\ made[r] \notin Stored /\ claims[made[r]] # Null
         /\ NewRow(Installed(r)[made[r]])
         /\ Installed(r) \in [Token -> Row \cup {Null}]
         /\ call[r].op \in {"login", "refresh"}
         /\ call[r].op = "login" =>
               /\ line[made[r]] = made[r]
               /\ \A t \in Token \ {made[r]} : Installed(r)[t] = tokens[t]
         /\ call[r].op = "refresh" =>
               /\ call[r].token \in Stored \cap shown
               /\ line[made[r]] = line[call[r].token] /\ cur[r] # Null
               /\ ~tokens[call[r].token].rotated
               /\ Installed(r)[call[r].token] \in Row /\ Installed(r)[call[r].token].rotated
               /\ \A t \in Token \ {made[r], call[r].token} : Installed(r)[t] = tokens[t]
<1> USE AuthAssumption
<1>1. CallOK(r) /\ LockOK(r) /\ MadeOK(r) /\ RowsOK(r) /\ TokensOK /\ TypeOK
  BY DEF AuthInv, RequestOK
<1>2. call[r] \in Call /\ call[r].op \in {"login", "refresh"}
  BY <1>1 DEF CallOK, Call
<1>3. /\ made[r] \in Token /\ tokens[made[r]] = Null /\ claims[made[r]] # Null
      /\ line[made[r]] = IF call[r].op = "login" THEN made[r] ELSE line[call[r].token]
  BY <1>1 DEF MadeOK
<1>4. /\ Installed(r) \in [Token -> Row \cup {Null}]
      /\ \A t \in Token : Installed(r)[t] = IF rows[r][t] = Null THEN tokens[t] ELSE rows[r][t]
  BY <1>1 DEF Installed, TypeOK
<1>5. NewRow(rows[r][made[r]]) /\ rows[r][made[r]] # Null
  BY <1>1 DEF RowsOK, NewRow
<1>6. CASE call[r].op = "login"
  BY <1>1, <1>3, <1>4, <1>5, <1>6 DEF RowsOK, Stored
<1>7. CASE call[r].op = "refresh"
  <2>1. /\ call[r].token \in shown /\ call[r].token \in Token
        /\ cur[r] # Null /\ tokens[call[r].token] = cur[r] /\ ~cur[r].rotated
    BY <1>1, <1>7 DEF CallOK, LockOK, Locking, TypeOK
  <2>2. /\ rows[r][call[r].token] \in Row /\ rows[r][call[r].token].rotated
        /\ \A t \in Token \ {made[r], call[r].token} : rows[r][t] = Null
    BY <1>1, <1>7 DEF RowsOK
  <2> QED
    BY <1>2, <1>3, <1>4, <1>5, <1>7, <2>1, <2>2 DEF Stored
<1> QED
  BY <1>2, <1>6, <1>7

\* A commit is the only step that changes what others read.
LEMMA CommitStep ==
  ASSUME AuthInv, NEW r \in Req, pc[r] = "commit", tokens' = Installed(r), UNCHANGED creation,
         UNCHANGED <<claims, known, shown, line>>, \A s \in Req \ {r} : Waits(s),
         cur'[r] = Null, made'[r] \in {made[r], Null}, TypeOK', RequestOK(r)'
  PROVE  AuthInv'
<1> USE AuthAssumption
<1> DEFINE m == made[r]
           t == call[r].token
<1>1. TokensOK /\ TypeOK /\ LockOK(r) /\ MadeOK(r)
  BY DEF AuthInv, RequestOK
<1>2. /\ m \in Token /\ m \notin Stored /\ claims[m] # Null /\ NewRow(tokens'[m]) /\ tokens'[m] # Null
      /\ tokens' \in [Token -> Row \cup {Null}]
      /\ call[r].op \in {"login", "refresh"}
  BY CommitRows DEF NewRow
<1>3. call[r].op = "login" =>
        /\ line[m] = m
        /\ \A u \in Token \ {m} : tokens'[u] = tokens[u]
  BY CommitRows
<1>4. call[r].op = "refresh" =>
        /\ t \in Stored /\ t \in shown /\ line[m] = line[t] /\ cur[r] # Null
        /\ ~tokens[t].rotated /\ tokens'[t].rotated /\ tokens'[t] # Null
        /\ \A u \in Token \ {m, t} : tokens'[u] = tokens[u]
  BY CommitRows
<1> HIDE DEF m, t
<1>5. Stored' = Stored \cup {m}
  BY <1>2, <1>3, <1>4 DEF Stored
<1>6. Grows
  BY <1>2, <1>3, <1>4 DEF Grows, creation, tables
<1>7. UsersInv'
  BY DEF AuthInv, UsersInv, UsersTypeOK, CreationSteps, PhonesApart, CreationIsWhole,
         creation, tables, Created, SpaceOf
<1>8. TokensOK'
  <2>1. \A u \in Token : claims'[u] # Null => <<claims'[u].space, claims'[u].user>> \in members'
    BY <1>1 DEF TokensOK, Belongs, creation, tables
  <2>2. CASE call[r].op = "login"
    <3>1. \A u \in Stored : u # m /\ line[u] # m /\ tokens'[u] = tokens[u] /\ u \in Token
      BY <1>1, <1>2, <1>3, <2>2 DEF TokensOK, Stored
    <3>2. \A u \in Stored' : /\ claims'[u] # Null /\ line'[u] \in Stored'
                            /\ IF tokens'[u].rotated THEN u \in shown' ELSE NewRow(tokens'[u])
      BY <1>1, <1>2, <1>3, <1>5, <2>2, <3>1 DEF TokensOK, NewRow
    <3>3. \A s, u \in Stored' :
            line'[s] = line'[u] /\ ~tokens'[s].rotated /\ ~tokens'[u].rotated => s = u
      BY <1>1, <1>3, <1>5, <2>2, <3>1 DEF TokensOK
    <3>4. known' \subseteq Stored'
      BY <1>1, <1>5 DEF TokensOK
    <3> QED
      BY <2>1, <3>2, <3>3, <3>4 DEF TokensOK, NewRow, Belongs
  <2>3. CASE call[r].op = "refresh"
    <3>1. /\ t \in Stored /\ t \in shown /\ line[m] = line[t] /\ ~tokens[t].rotated
          /\ tokens'[t].rotated /\ ~tokens'[m].rotated /\ NewRow(tokens'[m])
      BY <1>2, <1>4, <2>3 DEF NewRow
    <3>5. ASSUME NEW u \in Stored, u # t
          PROVE  u # m /\ tokens'[u] = tokens[u] /\ (line[u] = line[t] => tokens[u].rotated)
      BY <1>1, <1>2, <1>4, <2>3, <3>5 DEF TokensOK, Stored
    <3>2. \A u \in Stored' : /\ claims'[u] # Null /\ line'[u] \in Stored'
                            /\ IF tokens'[u].rotated THEN u \in shown' ELSE NewRow(tokens'[u])
      <4>1. \A u \in Stored : /\ claims[u] # Null /\ line[u] \in Stored
                             /\ IF tokens[u].rotated THEN u \in shown ELSE NewRow(tokens[u])
        BY <1>1 DEF TokensOK
      <4>2. \A u \in Stored' : claims'[u] # Null /\ line'[u] \in Stored'
        BY <1>2, <1>4, <1>5, <2>3, <4>1
      <4>3. \A u \in Stored \ {t} : IF tokens'[u].rotated THEN u \in shown' ELSE NewRow(tokens'[u])
        BY <3>5, <4>1
      <4>4. \A u \in {m, t} : IF tokens'[u].rotated THEN u \in shown' ELSE NewRow(tokens'[u])
        BY <3>1
      <4> QED
        BY <1>5, <4>2, <4>3, <4>4
    <3>3. \A s, u \in Stored' :
            line'[s] = line'[u] /\ ~tokens'[s].rotated /\ ~tokens'[u].rotated => s = u
      <4>1. \A s, u \in Stored :
              line[s] = line[u] /\ ~tokens[s].rotated /\ ~tokens[u].rotated => s = u
        BY <1>1 DEF TokensOK
      <4>2. \A u \in Stored : line[u] = line[t] => tokens'[u].rotated
        BY <3>1, <3>5
      <4>3. \A u \in Stored : ~tokens'[u].rotated => ~tokens[u].rotated
        BY <3>1, <3>5
      <4> QED
        BY <3>1, <1>5, <4>1, <4>2, <4>3
    <3>4. known' \subseteq Stored'
      BY <1>1, <1>5 DEF TokensOK
    <3> QED
      BY <2>1, <3>2, <3>3, <3>4 DEF TokensOK, NewRow, Belongs
  <2> QED
    BY <1>2, <2>2, <2>3
<1>9. ASSUME NEW s \in Req \ {r} PROVE RequestOK(s)'
  <2>1. Waits(s) /\ LockOK(s) /\ MadeOK(s) /\ (made[s] # Null => made[s] # m)
    BY <1>1, <1>2, <1>9 DEF AuthInv, RequestOK, MadeOK, m
  <2>2. \A q \in Req \ {s} : cur[s] # Null /\ cur'[q] # Null => call'[q].token # call[s].token
    BY <1>9, <2>1 DEF LockOK, Waits
  <2>3. \A q \in Req \ {s} : made[s] # Null => made'[q] # made[s]
    BY <1>9, <2>1 DEF MadeOK, Waits, m
  <2>4. cur[s] # Null => tokens'[call[s].token] = tokens[call[s].token]
    <3>1. SUFFICES ASSUME cur[s] # Null PROVE tokens'[call[s].token] = tokens[call[s].token]
      OBVIOUS
    <3>2. call[s].token \in Stored
      <4>1. CallOK(s) /\ known \subseteq Stored /\ shown \subseteq known
        BY <1>1, <1>9 DEF AuthInv, RequestOK, TokensOK, TypeOK
      <4> QED
        BY <2>1, <3>1, <4>1 DEF LockOK, CallOK, Locking
    <3>3. call[r].op = "refresh" => call[s].token # t
      BY <1>1, <1>4, <1>9, <3>1 DEF LockOK, t
    <3>4. call[s].token \in Token /\ call[s].token # m
      BY <1>2, <3>2 DEF Stored
    <3> QED
      BY <1>2, <1>3, <1>4, <3>3, <3>4
  <2>5. pc[s] \in {"rotate", "commit"} => tokens'[made[s]] = Null
    BY <1>2, <1>3, <1>4, <2>1, AuthAssumption DEF MadeOK, Stored
  <2> QED
    BY <1>6, <1>9, <2>1, <2>2, <2>3, <2>4, <2>5, WaitingRequest
<1> QED
  BY <1>7, <1>8, <1>9 DEF AuthInv

\* A commit, whether or not the service learns of it.
LEMMA CommitSteps ==
  ASSUME AuthInv, NEW r \in Req, Commit(r) \/ CommitUnacknowledged(r), UNCHANGED creation
  PROVE  AuthInv'
<1> USE AuthAssumption
<1>1. /\ pc[r] = "commit" /\ tokens' = Installed(r)
      /\ UNCHANGED <<clock, claims, logins, known, shown, line>>
  BY DEF Commit, CommitUnacknowledged
<1>2. TypeOK /\ RequestOK(r) /\ CallOK(r) /\ MadeOK(r)
  BY DEF AuthInv, RequestOK, TypeOK
<1>3. /\ tokens' \in [Token -> Row \cup {Null}]
      /\ tokens'[made[r]] # Null
      /\ call[r].op \in {"login", "refresh"}
  BY <1>1, CommitRows DEF NewRow
<1>4. CASE Commit(r)
  <2>1. /\ pc' = [pc EXCEPT ![r] = "answer"] /\ cur' = [cur EXCEPT ![r] = Null]
        /\ rows' = [rows EXCEPT ![r] = NoTokens] /\ UNCHANGED <<call, made>>
        /\ NoTokens \in [Token -> Row \cup {Null}]
    BY <1>4 DEF Commit, Goto, NoTokens
  <2>2. /\ pc'[r] = "answer" /\ cur'[r] = Null /\ rows'[r] = NoTokens
        /\ \A s \in Req \ {r} : Waits(s)
    BY <1>2, <2>1 DEF TypeOK, Waits
  <2>3. TypeOK'
    BY <1>1, <1>2, <1>3, <2>1 DEF TypeOK, UsersTypeOK, creation, tables
  <2>4. RequestOK(r)'
    BY <1>1, <1>2, <1>3, <2>1, <2>2 DEF RequestOK, CallOK, LockOK, MadeOK, RowsOK, Locking
  <2> QED
    BY <1>1, <2>1, <2>2, <2>3, <2>4, CommitStep
<1>5. CASE CommitUnacknowledged(r)
  <2>1. Done(r)
    BY <1>5 DEF CommitUnacknowledged
  <2>2. TypeOK'
    BY <1>1, <1>2, <1>3, <2>1, EndedRequest DEF TypeOK, UsersTypeOK, creation, tables
  <2>3. cur'[r] = Null /\ made'[r] = Null
    BY <1>2, <2>1 DEF Done, TypeOK
  <2> QED
    BY <1>1, <2>1, <2>2, <2>3, EndedRequest, CommitStep
<1> QED
  BY <1>4, <1>5

\* What the client is given has been committed.
LEMMA AnswerStep ==
  ASSUME AuthInv, NEW r \in Req, Answer(r), UNCHANGED creation
  PROVE  AuthInv'
<1>1. /\ Done(r) /\ pc[r] = "answer" /\ known' = known \cup ({made[r]} \ {Null})
      /\ UNCHANGED <<clock, tokens, claims, logins, shown, line>>
  BY DEF Answer
<1>2. known \subseteq Stored /\ made[r] \in Token \cup {Null} /\ MadeOK(r) /\ TypeOK
  BY DEF AuthInv, RequestOK, TokensOK, TypeOK
<1>3. known' \subseteq Stored
  BY <1>1, <1>2 DEF MadeOK, Stored
<1>4. TypeOK'
  BY <1>1, <1>2, <1>3, EndedRequest DEF TypeOK, UsersTypeOK, creation, tables, Stored
<1> QED
  BY <1>1, <1>3, <1>4, EndedRequest, LocalStep

\* A crash ends every request.
LEMMA CrashStep ==
  ASSUME AuthInv, Crash, UNCHANGED creation
  PROVE  AuthInv'
<1>1. \A r \in Req : /\ pc'[r] = "idle" /\ call'[r] = Null /\ cur'[r] = Null
                     /\ made'[r] = Null /\ rows'[r] = NoTokens
  BY DEF Crash
<1>2. UNCHANGED <<clock, tokens, claims, logins, known, shown, line>>
  BY DEF Crash
<1>3. TypeOK'
  BY DEF Crash, AuthInv, TypeOK, UsersTypeOK, creation, tables, NoTokens
<1>4. UsersInv'
  BY DEF AuthInv, UsersInv, UsersTypeOK, CreationSteps, PhonesApart, CreationIsWhole,
         creation, tables, Created, SpaceOf
<1>5. TokensOK'
  BY <1>2 DEF AuthInv, TokensOK, Stored, Belongs, creation, tables
<1>6. \A r \in Req : RequestOK(r)'
  BY <1>1 DEF RequestOK, CallOK, LockOK, MadeOK, RowsOK, Locking, NoTokens
<1> QED
  BY <1>3, <1>4, <1>5, <1>6 DEF AuthInv

\* A step that concerns no request.
LEMMA NoRequestStep ==
  ASSUME AuthInv, UNCHANGED <<tokens, claims, requests, known, shown, line>>, TypeOK', UsersInv',
         members \subseteq members', \A u \in Cmd : users[u] # Null => users'[u] # Null
  PROVE  AuthInv'
<1>1. Grows
  BY DEF Grows
<1>2. TokensOK'
  BY DEF AuthInv, TokensOK, Stored, Belongs
<1>3. ASSUME NEW s \in Req PROVE RequestOK(s)'
  <2>1. Waits(s) /\ LockOK(s) /\ MadeOK(s)
    BY DEF AuthInv, RequestOK, Waits, requests
  <2>2. \A q \in Req \ {s} : cur[s] # Null /\ cur'[q] # Null => call'[q].token # call[s].token
    BY <2>1 DEF LockOK, requests
  <2>3. \A q \in Req \ {s} : made[s] # Null => made'[q] # made[s]
    BY <2>1 DEF MadeOK, requests
  <2>4. pc[s] \in {"rotate", "commit"} => tokens'[made[s]] = Null
    BY <2>1 DEF MadeOK
  <2> QED
    BY <1>1, <2>1, <2>2, <2>3, <2>4, WaitingRequest
<1> QED
  BY <1>1, <1>2, <1>3 DEF AuthInv

\* A creation step only ever adds users and members.
LEMMA CreationStep ==
  ASSUME AuthInv, NEW c \in Cmd, CreateNext(c), UNCHANGED auth
  PROVE  AuthInv'
<1>1. UsersInv'
  BY UsersStep DEF AuthInv
<1>2. TypeOK'
  BY <1>1 DEF AuthInv, TypeOK, UsersInv, auth, requests
<1>3. members \subseteq members' /\ \A u \in Cmd : users[u] # Null => users'[u] # Null
  <2>1. CASE UNCHANGED tables
    BY <2>1 DEF tables
  <2>2. CASE CommitUser(c) \/ CommitUserUnacknowledged(c)
    <3>1. CreationSteps(c) /\ step[c] = "commit" /\ users \in [Cmd -> Phone \cup {Null}]
      BY <2>2 DEF AuthInv, UsersInv, UsersTypeOK, CommitUser, CommitUserUnacknowledged
    <3>2. /\ users' = [users EXCEPT ![c] = written[c].phone] /\ users[c] = Null
          /\ members' = members \cup written[c].members
      BY <2>2, <3>1 DEF CommitUser, CommitUserUnacknowledged, Install, CreationSteps
    <3> QED
      BY <3>1, <3>2
  <2> QED
    BY <2>1, <2>2 DEF CreateNext, CreateUser, CheckPhone, InsertWorkspace, LoadWorkspace, InsertUser,
                      InsertUserConflict, InsertMember, CreateFails, Abort
<1> QED
  BY <1>1, <1>2, <1>3, NoRequestStep DEF auth

\* Every step preserves the invariant.
LEMMA AuthStep ==
  ASSUME AuthInv, [Next]_vars
  PROVE  AuthInv'
<1>1. CASE UNCHANGED vars
  <2>1. UsersInv'
    BY <1>1 DEF AuthInv, UsersInv, UsersTypeOK, CreationSteps, PhonesApart, CreationIsWhole,
                vars, creation, tables, Created, SpaceOf
  <2>2. TypeOK'
    BY <1>1, <2>1 DEF AuthInv, TypeOK, UsersInv, vars, auth, requests
  <2> QED
    BY <1>1, <2>1, <2>2, NoRequestStep DEF vars, creation, tables, auth
<1>2. CASE \E c \in Cmd : CreateNext(c) /\ UNCHANGED auth
  BY <1>2, CreationStep
<1>3. ASSUME NEW r \in Req, ReqNext(r), UNCHANGED creation PROVE AuthInv'
  BY <1>3, CallSteps, ReadSteps, RefuseStep, InsertStep, RotateStep, CommitSteps, AnswerStep
     DEF ReqNext, UserRejected, TokenRejected, Fail
<1>4. CASE Tick /\ UNCHANGED creation
  <2>1. UsersInv'
    BY <1>4 DEF AuthInv, UsersInv, UsersTypeOK, CreationSteps, PhonesApart, CreationIsWhole,
                creation, tables, Created, SpaceOf
  <2>2. TypeOK'
    BY <1>4, <2>1, AuthAssumption DEF Tick, AuthInv, TypeOK, UsersInv, requests
  <2> QED
    BY <1>4, <2>1, <2>2, NoRequestStep DEF Tick, creation, tables
<1>5. CASE Crash /\ UNCHANGED creation
  BY <1>5, CrashStep
<1> QED
  BY <1>1, <1>2, <1>3, <1>4, <1>5 DEF Next

\* The invariant holds in every reachable state.
LEMMA AuthAlways == Spec => []AuthInv
<1>1. AuthInv /\ [Next]_vars => AuthInv'
  BY AuthStep
<1> QED
  BY AuthInitially, <1>1, PTL DEF Spec

-----------------------------------------------------------------------------
(* What follows *)

\* Type correctness: every table, request and command keeps its type, and a
\* row of refresh_tokens has version 1 or 2 (issueTokenPair, Rotate).
THEOREM AuthTypesHold == Spec => []TypeOK
<1>1. AuthInv => TypeOK
  BY DEF AuthInv
<1> QED
  BY AuthAlways, <1>1, PTL

\* User creation is atomic (CreateUser of service/v1/user.go: "all within a
\* single transaction"), whatever commands overlap and wherever one fails.
THEOREM UsersAreWhole == Spec => []CreationIsWhole
<1>1. AuthInv => CreationIsWhole
  BY DEF AuthInv, UsersInv
<1> QED
  BY AuthAlways, <1>1, PTL

\* A token that a client was given and has not sent back is stored and not
\* rotated (Login and Refresh of service/v1/auth.go answer after the commit).
THEOREM HeldTokensAreGood == Spec => []HeldTokenIsGood
<1>1. AuthInv => HeldTokenIsGood
  BY DEF AuthInv, TypeOK, TokensOK, Stored, HeldTokenIsGood
<1> QED
  BY AuthAlways, <1>1, PTL

\* Whoever was found or named by a token has a workspace when GetPrimaryAccess
\* or GetAccess looks (service/v1/auth.go), because CreateUser commits both.
THEOREM UsersHaveAccess == Spec => []UserHasAccess
<1>1. ASSUME AuthInv, NEW r \in Req, pc[r] = "access"
      PROVE  Accesses(r) # {}
  <2>1. CallOK(r) /\ CreationIsWhole /\ call[r].op \in {"login", "refresh", "bootstrap"}
    BY <1>1 DEF AuthInv, RequestOK, UsersInv, CallOK, Call
  <2>2. CASE call[r].op = "login"
    <3>1. call[r].user \in Created
      BY <1>1, <2>1, <2>2 DEF CallOK, Created
    <3>2. <<SpaceOf(call[r].user), call[r].user>> \in members
      BY <2>1, <3>1 DEF CreationIsWhole
    <3>3. SpaceOf(call[r].user) \in workspaces
      BY <2>1, <3>2 DEF CreationIsWhole
    <3> QED
      BY <2>2, <3>2, <3>3 DEF Accesses
  <2>3. CASE call[r].op # "login"
    <3>1. /\ call[r].token \in known /\ call[r].user = claims[call[r].token].user
          /\ call[r].space = claims[call[r].token].space
      BY <1>1, <2>1, <2>3 DEF CallOK
    <3>2. <<call[r].space, call[r].user>> \in members
      BY <1>1, <3>1, KnownToken
    <3> QED
      BY <2>1, <2>3, <3>2 DEF Accesses, CreationIsWhole
  <2> QED
    BY <2>2, <2>3
<1>2. AuthInv => UserHasAccess
  BY <1>1 DEF UserHasAccess
<1> QED
  BY AuthAlways, <1>2, PTL

-----------------------------------------------------------------------------
(* Auth implements TokenLines *)

\* The good tokens of every line, and the tokens used up, as Auth keeps them.
Good  == [l \in Token |-> {t \in Stored : line[t] = l /\ ~tokens[t].rotated}]
Spent == {t \in Stored : tokens[t].rotated}

\* The good tokens change for one line only.
LEMMA GoodExcept ==
  ASSUME NEW l \in Token, NEW S,
         {u \in Stored' : line'[u] = l /\ ~tokens'[u].rotated} = S,
         \A k \in Token : k # l =>
            {u \in Stored' : line'[u] = k /\ ~tokens'[u].rotated}
              = {u \in Stored : line[u] = k /\ ~tokens[u].rotated}
  PROVE  Good' = [Good EXCEPT ![l] = S]
<1>1. Good' = [k \in Token |-> {u \in Stored' : line'[u] = k /\ ~tokens'[u].rotated}]
  BY DEF Good
<1>2. \A k \in Token : Good'[k] = IF k = l THEN S ELSE Good[k]
  BY <1>1 DEF Good
<1>3. [Good EXCEPT ![l] = S] = [k \in Token |-> IF k = l THEN S ELSE Good[k]]
  BY DEF Good
<1> QED
  BY <1>1, <1>2, <1>3

\* A commit of a login begins a line; one of a refresh replaces the good token.
LEMMA CommitRefines ==
  ASSUME AuthInv, NEW r \in Req, Commit(r) \/ CommitUnacknowledged(r)
  PROVE  Rotations!LinesNext
<1> USE AuthAssumption
<1> DEFINE m == made[r]
           t == call[r].token
<1>1. /\ pc[r] = "commit" /\ tokens' = Installed(r) /\ UNCHANGED line
      /\ TokensOK /\ Stored \subseteq Token
  BY DEF Commit, CommitUnacknowledged, AuthInv, Stored
<1>2. /\ m \in Token /\ m \notin Stored /\ tokens'[m] # Null /\ ~tokens'[m].rotated
      /\ call[r].op \in {"login", "refresh"}
  BY <1>1, CommitRows DEF NewRow
<1>3. \A u \in Stored : line[u] # m
  BY <1>1, <1>2 DEF TokensOK
<1>4. Spent \subseteq Stored /\ \A l \in Token : Good[l] \subseteq Stored
  BY DEF Good, Spent
<1>5. m \in Token \ (Spent \cup UNION {Good[l] : l \in Token})
  BY <1>2, <1>4
<1>6. CASE call[r].op = "login"
  <2>1. PICK l \in Token : l = m
    BY <1>2
  <2> HIDE DEF m
  <2>2. /\ line[l] = l /\ Stored' = Stored \cup {l}
        /\ \A u \in Stored : u # l /\ tokens'[u] = tokens[u]
    BY <1>1, <1>2, <1>6, <2>1, CommitRows DEF Stored, m
  <2>3. Good[l] = {}
    BY <1>3, <2>1 DEF Good
  <2>4. Spent' = Spent
    BY <1>2, <2>1, <2>2 DEF Spent
  <2>5. Good' = [Good EXCEPT ![l] = {l}]
    <3>1. \A u \in Stored' : ~tokens'[u].rotated <=> u = l \/ (u \in Stored /\ ~tokens[u].rotated)
      BY <1>2, <2>1, <2>2
    <3>2. {u \in Stored' : line'[u] = l /\ ~tokens'[u].rotated} = {l}
      BY <1>1, <1>2, <1>3, <2>1, <2>2
    <3>3. ASSUME NEW k \in Token, k # l
          PROVE  {u \in Stored' : line'[u] = k /\ ~tokens'[u].rotated}
                   = {u \in Stored : line[u] = k /\ ~tokens[u].rotated}
      BY <1>1, <2>2, <3>1, <3>3
    <3> QED
      BY <3>2, <3>3, GoodExcept
  <2>6. Rotations!BeginLine(l)
    BY <1>5, <2>1, <2>3, <2>4, <2>5 DEF Rotations!BeginLine, Rotations!Fresh, Good, Spent
  <2> QED
    BY <2>6 DEF Rotations!LinesNext
<1>7. CASE call[r].op = "refresh"
  <2>1. /\ t \in Stored /\ line[m] = line[t] /\ Stored' = Stored \cup {m}
        /\ ~tokens[t].rotated /\ tokens'[t].rotated
        /\ \A u \in Stored \ {t} : u # m /\ tokens'[u] = tokens[u]
    BY <1>1, <1>2, <1>7, CommitRows DEF Stored
  <2>2. PICK k \in Token : k = line[t]
    BY <1>1, <2>1 DEF TokensOK
  <2>3. \A u \in Stored : line[u] = k /\ ~tokens[u].rotated => u = t
    BY <1>1, <2>1, <2>2 DEF TokensOK
  <2> HIDE DEF m, t
  <2>4. Good[k] = {t}
    BY <2>1, <2>2, <2>3 DEF Good
  <2>5. \A u \in Stored' : ~tokens'[u].rotated <=> u = m \/ (u \in Stored \ {t} /\ ~tokens[u].rotated)
    BY <1>2, <2>1
  <2>6. Spent' = Spent \cup {t}
    BY <1>2, <2>1, <2>5 DEF Spent
  <2>7. Good' = [Good EXCEPT ![k] = {m}]
    <3>1. {u \in Stored' : line'[u] = k /\ ~tokens'[u].rotated} = {m}
      BY <1>1, <1>2, <2>1, <2>2, <2>3, <2>5
    <3>2. ASSUME NEW l \in Token, l # k
          PROVE  {u \in Stored' : line'[u] = l /\ ~tokens'[u].rotated}
                   = {u \in Stored : line[u] = l /\ ~tokens[u].rotated}
      <4>1. line[t] # l /\ line[m] # l
        BY <2>1, <2>2, <3>2
      <4> QED
        BY <1>1, <2>1, <2>5, <4>1
    <3> QED
      BY <3>1, <3>2, GoodExcept
  <2>8. Rotations!Replace(k)
    BY <1>5, <2>4, <2>6, <2>7 DEF Rotations!Replace, Rotations!Fresh, Good, Spent
  <2> QED
    BY <2>8 DEF Rotations!LinesNext
<1> QED
  BY <1>2, <1>6, <1>7

\* No other step is seen: a new pair is not stored before its commit.
LEMMA OthersStutter ==
  ASSUME AuthInv, UNCHANGED tokens, \A t \in Stored : line'[t] = line[t]
  PROVE  UNCHANGED Rotations!lines
<1>1. Stored' = Stored
  BY DEF Stored
<1>2. Spent' = Spent
  BY <1>1 DEF Spent
<1>3. ASSUME NEW l \in Token
      PROVE  {t \in Stored' : line'[t] = l /\ ~tokens'[t].rotated}
               = {t \in Stored : line[t] = l /\ ~tokens[t].rotated}
  BY <1>1
<1>4. Good' = Good
  BY <1>3 DEF Good
<1> QED
  BY <1>2, <1>4 DEF Rotations!lines, Good, Spent

\* A step of any request, of any command or of the clock is a step of the lines.
LEMMA TokenStep ==
  AuthInv /\ [Next]_vars => [Rotations!LinesNext]_(Rotations!lines)
<1> SUFFICES ASSUME AuthInv, [Next]_vars
             PROVE  Rotations!LinesNext \/ UNCHANGED Rotations!lines
  OBVIOUS
<1>1. ASSUME NEW r \in Req, Commit(r) \/ CommitUnacknowledged(r)
      PROVE  Rotations!LinesNext
  BY <1>1, CommitRefines
<1>2. ASSUME NEW r \in Req, Insert(r)
      PROVE  UNCHANGED tokens /\ \A t \in Stored : line'[t] = line[t]
  <2>1. PICK t \in Token :
          /\ claims[t] = Null
          /\ line' = [line EXCEPT ![t] = IF call[r].op = "login" THEN t ELSE line[call[r].token]]
    BY <1>2 DEF Insert
  <2>2. t \notin Stored /\ line \in [Token -> Token \cup {Null}] /\ Stored \subseteq Token
    BY <2>1 DEF AuthInv, TokensOK, TypeOK, Stored
  <2> QED
    BY <1>2, <2>1, <2>2 DEF Insert
<1>3. CASE \E r \in Req : /\ ReqNext(r)
                          /\ ~(Commit(r) \/ CommitUnacknowledged(r) \/ Insert(r))
  <2>1. UNCHANGED <<tokens, line>>
    BY <1>3 DEF ReqNext, Login, Refresh, Bootstrap, Begin, ReadUser, UserRejected, ReadForUpdate,
                TokenRejected, ReadAccess, Rotate, Answer, Fail, Refuse
  <2> QED
    BY <2>1, OthersStutter
<1>4. CASE UNCHANGED vars \/ (\E c \in Cmd : CreateNext(c) /\ UNCHANGED auth) \/ Crash \/ Tick
  <2>1. UNCHANGED <<tokens, line>>
    BY <1>4 DEF vars, auth, Crash, Tick
  <2> QED
    BY <2>1, OthersStutter
<1> QED
  BY <1>1, <1>2, <1>3, <1>4, OthersStutter DEF Next, ReqNext

\* No token is stored at first.
LEMMA TokensInitially == Init => Rotations!LinesInit
<1> SUFFICES ASSUME Init PROVE Rotations!LinesInit
  OBVIOUS
<1>1. Stored = {}
  BY DEF Init, Stored, NoTokens
<1> QED
  BY <1>1 DEF Rotations!LinesInit

(***************************************************************************)
(* Rotation of refresh tokens (Refresh and issueTokenPair of               *)
(* service/v1/auth.go, Rotate of the repository) is that of TokenLines in  *)
(* every instance: however many refreshes race for one token, and wherever *)
(* they fail, a line has one good token and a used one never works again.  *)
(***************************************************************************)
THEOREM TokensRotateAsSpecified == Spec => ImplementsTokenLines
<1>1. Spec => [][Rotations!LinesNext]_(Rotations!lines)
  BY TokenStep, AuthAlways, PTL DEF Spec
<1> QED
  BY <1>1, TokensInitially, PTL DEF Spec, ImplementsTokenLines, Rotations!LinesSpec
=============================================================================
