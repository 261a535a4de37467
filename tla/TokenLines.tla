----------------------------- MODULE TokenLines ------------------------------
(***************************************************************************)
(* What token rotation promises: every login begins a line of refresh      *)
(* tokens, of which exactly one is good at any time.  A refresh replaces   *)
(* the good token of one line by one that never existed before; nothing    *)
(* brings a token back.  Auth implements it.                               *)
(***************************************************************************)
CONSTANT Token   \* refresh tokens; a line is named after its first one

VARIABLES
    good,   \* the good tokens of each line, none before the login
    spent   \* tokens that were good once

lines == <<good, spent>>

Fresh == Token \ (spent \cup UNION {good[l] : l \in Token})

LinesInit == good = [l \in Token |-> {}] /\ spent = {}

BeginLine(l) ==
    /\ l \in Fresh
    /\ good[l] = {}
    /\ good' = [good EXCEPT ![l] = {l}]
    /\ UNCHANGED spent

Replace(l) ==
    \E t \in good[l], u \in Fresh :
        /\ good[l] = {t}
        /\ good' = [good EXCEPT ![l] = {u}]
        /\ spent' = spent \cup {t}

LinesNext == \E l \in Token : BeginLine(l) \/ Replace(l)

LinesSpec == LinesInit /\ [][LinesNext]_lines
=============================================================================
