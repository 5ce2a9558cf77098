------------------------- MODULE MCReminderScheduler -------------------------
(* ReminderScheduler on a small instance for TLC. *)
EXTENDS ReminderScheduler

CONSTANTS k1, k2

\* One reminder in each round.
MCRoundOf == [k \in Reminders |-> IF k = k1 THEN 1 ELSE 2]
=============================================================================
