-------------------------- MODULE MCRefreshSessions --------------------------
(* RefreshSessions on a small instance for TLC. *)
EXTENDS RefreshSessions, TLC

CONSTANTS u1, u2

\* An owner and one of the owner's employees.
MCRoleOf == [u \in Users |-> IF u = u1 THEN "owner" ELSE "employee"]
MCTenantOf == [u \in Users |-> u1]

MCSymmetry == Permutations(Tokens) \union Permutations(Workers)
=============================================================================
