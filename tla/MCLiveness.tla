------------------------------ MODULE MCLiveness ------------------------------
(***************************************************************************)
(* What must happen in the end, on small instances for TLC: the access     *)
(* tokens and the sessions of auth-service and the erasure of accounts     *)
(* share no state in the models, so a behaviour is one of one of them.     *)
(*                                                                         *)
(* The fairness of the parts that rest asks nothing: at first none of their*)
(* fair actions is enabled (a cleanup changes nothing where no row is      *)
(* expired), but for the clock of the access tokens, which says so.        *)
(***************************************************************************)
EXTENDS AccessTokens, AccountErasure

CONSTANTS u1,
          Users, Tokens, NoUser, NoToken    \* of RefreshSessions

VARIABLES focus,
          row, userOf, expired, request, parent, root, refused, cutOff

RoleOf == [u \in Users |-> "owner"]
TenantOf == [u \in Users |-> u1]

sessionVars == <<row, userOf, expired, request, parent, root, refused, cutOff>>

Sessions == INSTANCE RefreshSessions WITH worker <- request

MCInit ==
    /\ focus \in {"tokens", "sessions", "erasure"}
    /\ Init /\ Sessions!Init /\ ErasureInit

TokenStep ==
    focus = "tokens" /\ Next /\ UNCHANGED <<focus, sessionVars, erasureVars>>

SessionStep ==
    focus = "sessions" /\ Sessions!Next /\ UNCHANGED <<focus, vars, erasureVars>>

ErasureStep ==
    focus = "erasure" /\ ErasureNext /\ UNCHANGED <<focus, vars, sessionVars>>

MCLiveSpec ==
    /\ MCInit
    /\ [][TokenStep \/ SessionStep \/ ErasureStep]_<<focus, vars, sessionVars, erasureVars>>
    /\ WF_vars(focus = "tokens" /\ Tick) /\ WF_vars(Cleanup)
    /\ Sessions!SessionFairness
    /\ ErasureFairness

\* Sessions end: their expired rows are deleted, and each request is answered
\* or dies, whatever other requests do to its rows.
SessionsSettle == Sessions!SessionsSettle
=============================================================================
