-------------------------- MODULE SessionLifecycle --------------------------
(***************************************************************************)
(* What auth-service promises its clients about refresh tokens, without    *)
(* saying how.  A token is opened once, by a login or as the successor of  *)
(* a token that is already closed; once closed it never opens again.       *)
(* RefreshSessions implements this specification.                          *)
(***************************************************************************)
CONSTANTS
    Tokens,   \* raw refresh tokens
    NoToken   \* the predecessor of a token that came from a login

VARIABLES
    status,       \* status[t]: has t been opened, has it been closed
    predecessor   \* predecessor[t]: the token t was exchanged for

lifecycleVars == <<status, predecessor>>

Statuses == {"unissued", "open", "closed"}

LifecycleInit ==
    /\ status = [t \in Tokens |-> "unissued"]
    /\ predecessor = [t \in Tokens |-> NoToken]

\* A login hands out a token nobody has seen before.
Open(t) ==
    /\ status[t] = "unissued"
    /\ status' = [status EXCEPT ![t] = "open"]
    /\ UNCHANGED predecessor

\* A rotation hands out t in exchange for p, which is closed by then.
Succeed(p, t) ==
    /\ status[p] = "closed"
    /\ status[t] = "unissued"
    /\ status' = [status EXCEPT ![t] = "open"]
    /\ predecessor' = [predecessor EXCEPT ![t] = p]

\* Logout, rotation, logout everywhere, expiry and pruning close tokens.
Close(S) ==
    /\ S # {}
    /\ \A t \in S : status[t] = "open"
    /\ status' = [t \in Tokens |-> IF t \in S THEN "closed" ELSE status[t]]
    /\ UNCHANGED predecessor

LifecycleNext ==
    \/ \E t \in Tokens : Open(t)
    \/ \E p, t \in Tokens : Succeed(p, t)
    \/ \E S \in SUBSET Tokens : Close(S)

LifecycleSpec == LifecycleInit /\ [][LifecycleNext]_lifecycleVars
=============================================================================
