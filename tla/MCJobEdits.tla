----------------------------- MODULE MCJobEdits -----------------------------
(* JobEdits on a small instance for TLC. *)
EXTENDS JobEdits

Slots == {[start |-> s, end |-> t] : s \in Times \union {None}, t \in Times \union {None}}

\* A new slot (also a cleared or an improper one), a new end, and a new
\* status, alone or with a start.
MCEdits ==
    Slots
    \union {[end |-> t] : t \in Times}
    \union {[status |-> s] : s \in {pending, completed}}
    \union {[start |-> t, status |-> pending] : t \in Times}
=============================================================================
