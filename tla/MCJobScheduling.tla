---------------------------- MODULE MCJobScheduling ----------------------------
(* JobScheduling on a small instance for TLC. *)
EXTENDS JobScheduling, TLC

CONSTANTS j1, j2, e1

Ask(kind, job, who, s) == [kind |-> kind, job |-> job, who |-> who, slot |-> s]

\* A day has 3 points in time: two slots that overlap, and one across midnight.
MCSlots == {<<0, 2>>, <<1, 3>>, <<2, 4>>}

MCTimedAssigns == {Ask("assign", j1, e1, <<0, 2>>), Ask("assign", j2, e1, <<1, 3>>)}

\* Each handler and each of its branches, for one of the jobs.
MCRequests ==
    {Ask("assign", j1, e1, None), Ask("assign", j2, e1, <<1, 3>>),
     Ask("schedule", j1, None, <<0, 2>>), Ask("schedule", j2, e1, <<1, 3>>),
     Ask("put", j1, None, <<2, 4>>), Ask("delete", j2, None, None)}

MCSymmetry == Permutations(Clerks)
================================================================================
