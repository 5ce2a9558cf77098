------------------------------- MODULE JobEdits -------------------------------
(***************************************************************************)
(* How job-db-access-service edits a job (crud/job.py): update_job works   *)
(* on an object in memory and commits once for each changed field, because *)
(* create_job_history commits the session it is given.  A commit flushes   *)
(* the columns set so far, so each history row is committed one commit     *)
(* before the change it tells of, and concurrent requests, a crash or the  *)
(* CHECK constraint of the table can come between the two.                 *)
(*                                                                         *)
(* One job is enough: requests about different jobs do not meet.  Of the   *)
(* columns of JobUpdate the model has start, end and status, in the order  *)
(* of the schema; the others behave as status does without its automatism. *)
(* null for status, which NOT NULL refuses, is not among the values.       *)
(***************************************************************************)
EXTENDS Naturals, FiniteSets

CONSTANTS
    Editors,                        \* requests, each made once
    Times,                          \* points in time
    None,                           \* SQL NULL
    pending, scheduled, completed,  \* completed: all other statuses
    Edits                           \* the bodies of update requests

Fields == {"start", "end", "status"}

Statuses == {pending, scheduled, completed}

Of(f) == IF f = "status" THEN Statuses ELSE Times \union {None}

Values == Times \union {None} \union Statuses

\* A body has some of the fields; model_dump(exclude_unset=True) keeps those.
ASSUME EditsConstant ==
    /\ Times \subseteq Nat
    /\ None \notin Times
    /\ \A w \in Edits : /\ DOMAIN w \subseteq Fields
                        /\ \A f \in DOMAIN w : w[f] \in Of(f)

VARIABLES
    row,      \* the committed columns of the job
    active,   \* its column is_active
    history,  \* the rows of job_history: the field and its new value
    req,      \* req[e]: the request of e
    created,  \* history variable: the job as it was created
    touched   \* history variable: touched[e] has the fields others changed since e read

vars == <<row, active, history, req, created, touched>>

Jobs == {j \in [Fields -> Values] : \A f \in Fields : j[f] \in Of(f)}

Before(f, g) == <<f, g>> \in {<<"start", "end">>, <<"start", "status">>, <<"end", "status">>}

\* CHECK (start_time IS NULL AND end_time IS NULL) OR (end_time > start_time):
\* a comparison with NULL is NULL, and a CHECK that yields NULL passes.
ValidTimeRange(j) == None \notin {j["start"], j["end"]} => j["end"] > j["start"]

\* The status update_job gives a job that gets a start time.
Scheduled(j, w) ==
    IF "start" \in DOMAIN w /\ w["start"] # None /\ j["status"] = pending
    THEN [j EXCEPT !["status"] = scheduled]
    ELSE j

\* What a request may want of the fields: nothing, a new status, an edit.
NoEdit == [f \in {} |-> None]

Wants == {NoEdit} \union [{"status"} -> Statuses] \union Edits

\* loaded: the job as the request read it; mem: the object in memory; base:
\* the same when it was last read or flushed; left: the fields still to visit.
Idle == [pc |-> "idle", want |-> NoEdit, loaded |-> created, mem |-> created,
         base |-> created, left |-> {}]

TypeOK ==
    /\ row \in Jobs /\ active \in BOOLEAN
    /\ history \subseteq [field : Fields, new : Values]
    /\ req \in [Editors -> [pc : {"idle", "edit", "patch", "delete", "done", "failed", "lost"},
                           want : Wants, loaded : Jobs, mem : Jobs, base : Jobs,
                           left : SUBSET Fields]]
    /\ \A e \in Editors : req[e].left \subseteq DOMAIN req[e].want
    /\ created \in Jobs
    /\ touched \in [Editors -> SUBSET Fields]

\* create_job: a pending job with a start time is scheduled.
Init ==
    /\ created \in {j \in Jobs : /\ ValidTimeRange(j)
                                 /\ j["start"] # None => j["status"] # pending}
    /\ row = created
    /\ active = TRUE
    /\ history = {}
    /\ req = [e \in Editors |-> Idle]
    /\ touched = [e \in Editors |-> {}]

-----------------------------------------------------------------------------
\* What a commit of request e makes of the row when its object is mem: UPDATE
\* names the columns that differ from the last flush, and no others.
Flushed(e, mem) == [f \in Fields |-> IF mem[f] # req[e].base[f] THEN mem[f] ELSE row[f]]

Commit(e, r) ==
    /\ row' = r
    /\ touched' = [d \in Editors |-> IF d = e THEN touched[d]
                                     ELSE touched[d] \union {f \in Fields : r[f] # row[f]}]

Record(f, new) == history' = history \union {[field |-> f, new |-> new]}

\* Mutant of Load: model_dump without exclude_unset visits every field.
LoadAll(e, pc, w) ==
    /\ req[e].pc = "idle"
    /\ active
    /\ req' = [req EXCEPT ![e] = [pc |-> pc, want |-> w, loaded |-> row, mem |-> row,
                                  base |-> row, left |-> Fields]]
    /\ touched' = [touched EXCEPT ![e] = {}]
    /\ UNCHANGED <<row, active, history, created>>

Load(e, pc, w) ==
    /\ req[e].pc = "idle"
    /\ active
    /\ req' = [req EXCEPT ![e] = [pc |-> pc, want |-> w, loaded |-> row, mem |-> row,
                                  base |-> row, left |-> DOMAIN w]]
    /\ touched' = [touched EXCEPT ![e] = {}]
    /\ UNCHANGED <<row, active, history, created>>

Answer(e, pc) == req' = [req EXCEPT ![e].pc = pc]

-----------------------------------------------------------------------------
(* update_job *)

StartEdit(e, w) == Load(e, "edit", w)

\* Mutant of NextField: in any order.
NextFieldAny(e, f) ==
    /\ req[e].pc = "edit"
    /\ f \in req[e].left

\* The loop visits the fields in the order of the schema.
NextField(e, f) ==
    /\ req[e].pc = "edit"
    /\ f \in req[e].left
    /\ \A g \in req[e].left : ~Before(g, f)

KeepField(e, f) ==
    /\ NextField(e, f)
    /\ req[e].mem[f] = req[e].want[f]
    /\ req' = [req EXCEPT ![e].left = @ \ {f}]
    /\ UNCHANGED <<row, active, history, created, touched>>

\* Mutant of EditField: no history row for a value that is cleared.
EditFieldUnlessCleared(e, f) ==
    LET r == Flushed(e, req[e].mem) IN
    /\ NextField(e, f)
    /\ req[e].mem[f] # req[e].want[f]
    /\ ValidTimeRange(r)
    /\ Commit(e, r)
    /\ IF req[e].want[f] = None THEN UNCHANGED history
       ELSE Record(f, req[e].want[f])
    /\ req' = [req EXCEPT ![e].mem[f] = req[e].want[f], ![e].base = req[e].mem,
                          ![e].left = @ \ {f}]
    /\ UNCHANGED <<active, created>>

\* create_job_history commits the fields set before this one together with
\* the history row of this one; then the loop sets this one in memory.
EditField(e, f) ==
    LET r == Flushed(e, req[e].mem) IN
    /\ NextField(e, f)
    /\ req[e].mem[f] # req[e].want[f]
    /\ ValidTimeRange(r)
    /\ Commit(e, r)
    /\ Record(f, req[e].want[f])
    /\ req' = [req EXCEPT ![e].mem[f] = req[e].want[f], ![e].base = req[e].mem,
                          ![e].left = @ \ {f}]
    /\ UNCHANGED <<active, created>>

EditFieldFails(e, f) ==
    /\ NextField(e, f)
    /\ req[e].mem[f] # req[e].want[f]
    /\ ~ValidTimeRange(Flushed(e, req[e].mem))
    /\ Answer(e, "failed")
    /\ UNCHANGED <<row, active, history, created, touched>>

\* The object with its automatic status.
Finishing(e) == Scheduled(req[e].mem, req[e].want)

\* Mutant of FinishEdit: every column of the object is written back.
FinishEditWhole(e) ==
    /\ req[e].pc = "edit"
    /\ req[e].left = {}
    /\ ValidTimeRange(Finishing(e))
    /\ Commit(e, Finishing(e))
    /\ Answer(e, "done")
    /\ UNCHANGED <<active, history, created>>

\* Mutant of FinishEdit: no commit after the loop.
FinishEditNoCommit(e) ==
    /\ req[e].pc = "edit"
    /\ req[e].left = {}
    /\ ValidTimeRange(Flushed(e, Finishing(e)))
    /\ Answer(e, "done")
    /\ UNCHANGED <<row, active, history, created, touched>>

FinishEdit(e) ==
    LET r == Flushed(e, Finishing(e)) IN
    /\ req[e].pc = "edit"
    /\ req[e].left = {}
    /\ ValidTimeRange(r)
    /\ Commit(e, r)
    /\ Answer(e, "done")
    /\ UNCHANGED <<active, history, created>>

FinishEditFails(e) ==
    /\ req[e].pc = "edit"
    /\ req[e].left = {}
    /\ ~ValidTimeRange(Flushed(e, Finishing(e)))
    /\ Answer(e, "failed")
    /\ UNCHANGED <<row, active, history, created, touched>>

-----------------------------------------------------------------------------
(* update_job_status and delete_job: one commit each *)

StartPatch(e, s) == Load(e, "patch", [f \in {"status"} |-> s])

\* SQLAlchemy writes the column only if it differs from the one it read.
PatchStatus(e) ==
    LET s == req[e].want["status"] IN
    /\ req[e].pc = "patch"
    /\ Commit(e, IF s # req[e].mem["status"] THEN [row EXCEPT !["status"] = s] ELSE row)
    /\ Record("status", s)
    /\ Answer(e, "done")
    /\ UNCHANGED <<active, created>>

StartDelete(e) == Load(e, "delete", NoEdit)

DeleteJob(e) ==
    /\ req[e].pc = "delete"
    /\ active' = FALSE
    /\ Answer(e, "done")
    /\ UNCHANGED <<row, history, created, touched>>

\* The process or the connection dies on the way.
Crash(e) ==
    /\ req[e].pc \in {"edit", "patch", "delete"}
    /\ Answer(e, "lost")
    /\ UNCHANGED <<row, active, history, created, touched>>

Next == \E e \in Editors :
    \/ \E w \in Edits : StartEdit(e, w)
    \/ \E f \in Fields : KeepField(e, f) \/ EditField(e, f) \/ EditFieldFails(e, f)
    \/ FinishEdit(e) \/ FinishEditFails(e)
    \/ \E s \in Statuses : StartPatch(e, s)
    \/ PatchStatus(e)
    \/ StartDelete(e) \/ DeleteJob(e)
    \/ Crash(e)

Spec == Init /\ [][Next]_vars

-----------------------------------------------------------------------------
(* Properties *)

Recorded(f, v) == \E h \in history : h.field = f /\ h.new = v

\* In spite of the many commits no value gets into the job without a history
\* row, the automatic status excepted, whoever edits at the same time and
\* whatever crashes.
ValuesRecorded ==
    \A f \in Fields : \/ row[f] = created[f]
                      \/ Recorded(f, row[f])
                      \/ f = "status" /\ row[f] = scheduled

Result(j, w) == Scheduled([f \in Fields |-> IF f \in DOMAIN w THEN w[f] ELSE j[f]], w)

\* A request that is answered with success has made of every field, that
\* nobody else changed since it read the job, exactly what it asked for: a
\* field of the body is set, another one is left alone.
EditApplied ==
    \A e \in Editors : req[e].pc = "done" =>
        \A f \in Fields \ touched[e] :
            row[f] = Result(req[e].loaded, req[e].want)[f]

\* Whatever of a commit changes the job is what a request at work asks for:
\* an object that was read long ago brings no old value back over the change
\* that another request made since.
OnlyRequested ==
    [][\A f \in Fields : row'[f] # row[f] =>
          \E e \in Editors :
             /\ req[e].pc \in {"edit", "patch"}
             /\ \/ f \in DOMAIN req[e].want /\ row'[f] = req[e].want[f]
                \/ f = "status" /\ "start" \in DOMAIN req[e].want /\ row'[f] = scheduled]_vars

\* An edit that nobody disturbs is refused by the table only for a new slot
\* that is no slot, or that starts when the old one is over or later.
RefusalHasCause ==
    \A e \in Editors :
        LET j == req[e].loaded  w == req[e].want IN
        req[e].pc = "failed" /\ touched[e] \intersect {"start", "end"} = {} =>
            \/ ~ValidTimeRange(Result(j, w))
            \/ "start" \in DOMAIN w /\ ~ValidTimeRange([j EXCEPT !["start"] = w["start"]])

\* "Schedule a job to a specific time slot.": nobody is refused a proper slot.
SlotAccepted ==
    \A e \in Editors :
        LET w == req[e].want IN
        /\ req[e].pc = "failed"
        /\ {"start", "end"} \subseteq DOMAIN w
        /\ None \notin {w["start"], w["end"]}
        => w["end"] <= w["start"]
=============================================================================
