--------------------------- MODULE MCReminderWindows ---------------------------
(* ReminderWindows on a small instance for TLC: ticks stand for ten minutes *)
(* or for hours, whichever the window is made of.                           *)
EXTENDS ReminderWindows

MCOpens == [k \in Kinds |-> IF k = "reminder_24h" THEN 3 ELSE 1]
MCCloses == [k \in Kinds |-> IF k = "reminder_24h" THEN 5 ELSE 3]
MCPostpone == [t \in Tasks |-> IF t = "anonymize" THEN 1 ELSE 3]
=============================================================================
