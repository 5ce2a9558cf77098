--------------------------- MODULE CustomerRecords ---------------------------
(***************************************************************************)
(* The customers of a tenant and their notes: customer-bl-service checks   *)
(* the tenant against a cached copy, lets maps-access-service look the     *)
(* address up, calls customer-db-access-service, and after its commit      *)
(* deletes what the write has made old in Redis, one key or pattern at a   *)
(* time.  Redis errors are swallowed and a request may be cut off.  The    *)
(* erasure of a customer reads the row, then the notes, and commits once.  *)
(*                                                                         *)
(* A customer has one note here, and of its row the model has the columns  *)
(* that an erasure or a lookup is about; is_active only filters lists.     *)
(***************************************************************************)
EXTENDS Naturals, Sequences

CONSTANTS
    Customers,
    Places,      \* what an address or a pair of coordinates stands for
    Staff,       \* requests to customer-bl-service in flight
    Nowhere,     \* NULL in address, latitude and longitude
    Unset        \* a field that a request does not name

ASSUME CustomerConstants ==
    /\ Customers # {}
    /\ Nowhere \notin Places /\ Unset \notin Places /\ Nowhere # Unset

VARIABLES
    profile,     \* profile[c]: the row of customer c
    note,        \* note[c]: "none", "written", or "removed" by an erasure
    copies,      \* copies[k]: the entry of Redis: "none", "current" or "old"
    errand,      \* errand[s]: a request and where it is
    lapses,      \* history: keys with a cause for an old entry
    misplaced,   \* history: customers with a cause for coordinates elsewhere
    revived      \* history: customers written to since an erasure read them

customerVars ==
    <<profile, note, copies, errand, lapses, misplaced, revived>>

\* name stands for the columns that an erasure always replaces.
Profiles == [name : {"absent", "real", "deleted"},
             address : Places \union {Nowhere}, at : Places \union {Nowhere}]

NoProfile == [name |-> "absent", address |-> Nowhere, at |-> Nowhere]

\* What a request asks to have written.
Payloads == [address : Places \union {Nowhere, Unset},
             at : Places \union {Nowhere, Unset}]

\* cust:bl:customer:{id}, cust:bl:notes:{id}, cust:bl:customers:*
ProfileKey(c) == <<"customer", c>>
NotesKey(c) == <<"notes", c>>
ListKey == <<"customers">>

CopyKeys == {ProfileKey(c) : c \in Customers} \union {NotesKey(c) : c \in Customers}
               \union {ListKey}

Errands == {"notes", "export", "update", "delete",
            "addNote", "editNote", "dropNote", "anonymize"}

\* seen, seenNote: the objects the database session loaded; old: what was
\* read for the cache has changed since; forget: the deletions to be made.
AtRest == [at |-> "idle", kind |-> "notes", customer |-> CHOOSE c \in Customers : TRUE,
           seen |-> NoProfile, seenNote |-> "none", old |-> FALSE, forget |-> << >>]

ErrandPlaces == {"idle", "keepProfile", "keepList", "notes", "keepNotes",
                 "arrive", "readNotes", "commit", "forget"}

CustomerTypeOK ==
    /\ profile \in [Customers -> Profiles]
    /\ note \in [Customers -> {"none", "written", "removed"}]
    /\ copies \in [CopyKeys -> {"none", "current", "old"}]
    /\ \A s \in Staff :
          /\ errand[s].at \in ErrandPlaces /\ errand[s].kind \in Errands
          /\ errand[s].customer \in Customers /\ errand[s].seen \in Profiles
          /\ errand[s].seenNote \in {"none", "written", "removed"}
          /\ errand[s].forget \in Seq(SUBSET CopyKeys)
    /\ lapses \subseteq CopyKeys
    /\ misplaced \subseteq Customers
    /\ revived \subseteq Customers

CustomerInit ==
    /\ profile = [c \in Customers |-> NoProfile]
    /\ note = [c \in Customers |-> "none"]
    /\ copies = [k \in CopyKeys |-> "none"]
    /\ errand = [s \in Staff |-> AtRest]
    /\ lapses = {}
    /\ misplaced = {}
    /\ revived = {}

customerRows == <<profile, note, misplaced, revived>>

-----------------------------------------------------------------------------
(* Helpers *)

\* The key a reader fills, by where it is.
KeyRead(s) ==
    CASE errand[s].at = "keepList" -> ListKey
      [] errand[s].at = "keepNotes" -> NotesKey(errand[s].customer)
      [] OTHER -> ProfileKey(errand[s].customer)

\* Where a request goes when get_customer and the tenant check are behind it.
AfterCheck(kind) ==
    CASE kind = "export" -> "idle"
      [] kind = "notes" -> "notes"
      [] OTHER -> "arrive"

Turn(s, where) ==
    errand' = [errand EXCEPT ![s] = IF where = "idle" THEN AtRest
                                    ELSE [@ EXCEPT !.at = where, !.old = FALSE]]

\* A commit of s: entries and reads of the keys are old from now on, and s
\* goes on to delete the entries in the order given.
CommitThenForget(s, keys, forget) ==
    /\ copies' = [k \in CopyKeys |-> IF k \in keys /\ copies[k] # "none"
                                     THEN "old" ELSE copies[k]]
    /\ errand' = [q \in Staff |->
                    IF q = s THEN [AtRest EXCEPT !.at = "forget", !.forget = forget]
                    ELSE IF errand[q].at \in {"keepProfile", "keepList", "keepNotes"}
                            /\ KeyRead(q) \in keys
                    THEN [errand[q] EXCEPT !.old = TRUE]
                    ELSE errand[q]]

\* An erasure of c stands between its SELECT and its commit.
ErasureReads(c) ==
    \E s \in Staff : /\ errand[s].at \in {"readNotes", "commit"}
                     /\ errand[s].kind = "anonymize" /\ errand[s].customer = c

WritesPerson(c) ==
    revived' = IF profile[c].name = "deleted" \/ ErasureReads(c)
               THEN revived \union {c} ELSE revived

-----------------------------------------------------------------------------
(* The lookup of an address in customer-bl-service *)

\* Mutant of Geocoded: no lookup when the request names coordinates.
GeocodedNot(payload, found) == payload

\* _maybe_geocode: coordinates of its own win; an address or eircode is looked
\* up, and when nothing is found the payload stays as it is.
Geocoded(payload, found) ==
    IF payload.at \notin Places /\ payload.address \in Places /\ found
    THEN [payload EXCEPT !.at = payload.address] ELSE payload

\* Coordinates that were sent for somewhere else, an address that was not
\* found, one that was removed while its coordinates stay.
Blurs(payload, found) ==
    \/ payload.at \in Places /\ payload.at # payload.address
    \/ payload.address \in Places /\ payload.at \notin Places /\ ~found
    \/ payload.address = Nowhere /\ payload.at = Unset

-----------------------------------------------------------------------------
(* Requests to customer-bl-service: all but lists begin with get_customer *)

\* GET /customers and /customers/search
ListCustomers(s) ==
    /\ errand[s].at = "idle"
    /\ copies[ListKey] = "none"
    /\ errand' = [errand EXCEPT ![s].at = "keepList"]
    /\ UNCHANGED <<customerRows, copies, lapses>>

\* get_customer of the client: the copy, else the row, else 404 and the end.
CheckTenantFor(s, kind, c) ==
    LET cached == copies[ProfileKey(c)] # "none" IN
    /\ errand[s].at = "idle"
    /\ cached \/ profile[c].name # "absent"
    /\ cached => AfterCheck(kind) # "idle"
    /\ errand' = [errand EXCEPT ![s] =
                    [AtRest EXCEPT !.at = IF cached THEN AfterCheck(kind)
                                          ELSE "keepProfile",
                                   !.kind = kind, !.customer = c]]
    /\ UNCHANGED <<customerRows, copies, lapses>>

\* GET /customers/{id}: the customer, then the jobs, then the notes.
ShowCustomer(s, c) == CheckTenantFor(s, "notes", c)

ListNotes(s, c) == CheckTenantFor(s, "notes", c)

ExportCustomer(s, c) == CheckTenantFor(s, "export", c)

UpdateCustomer(s, c) == CheckTenantFor(s, "update", c)

DeleteCustomer(s, c) == CheckTenantFor(s, "delete", c)

\* Bound: one note at a time.
CreateNote(s, c) == note[c] = "none" /\ CheckTenantFor(s, "addNote", c)

\* get_customer_note, which is not cached, tells whose note it is.
UpdateNote(s, c) == note[c] # "none" /\ CheckTenantFor(s, "editNote", c)

DeleteNote(s, c) == note[c] # "none" /\ CheckTenantFor(s, "dropNote", c)

AnonymizeCustomer(s, c) == CheckTenantFor(s, "anonymize", c)

\* create_customer looks the address up in vain: the INSERT names no
\* coordinates.
CreateCustomer(s, c) ==
    /\ errand[s].at = "idle"
    /\ profile[c].name = "absent"
    /\ \E place \in Places \union {Nowhere} :
          profile' = [profile EXCEPT ![c] = [name |-> "real", address |-> place,
                                             at |-> Nowhere]]
    /\ CommitThenForget(s, {ListKey}, <<{ListKey}>>)
    /\ UNCHANGED <<note, lapses, misplaced, revived>>

\* get_customer_notes of the client
FetchNotes(s) ==
    /\ errand[s].at = "notes"
    /\ IF copies[NotesKey(errand[s].customer)] # "none" THEN Turn(s, "idle")
       ELSE Turn(s, "keepNotes")
    /\ UNCHANGED <<customerRows, copies, lapses>>

\* cache_set with what was read; it may fail.
Keep(s) ==
    /\ errand[s].at \in {"keepProfile", "keepList", "keepNotes"}
    /\ \/ /\ copies' = [copies EXCEPT ![KeyRead(s)] =
                           IF errand[s].old THEN "old" ELSE "current"]
          /\ lapses' = IF errand[s].old THEN lapses \union {KeyRead(s)}
                       ELSE lapses \ {KeyRead(s)}
       \/ UNCHANGED <<copies, lapses>>
    /\ Turn(s, IF errand[s].at = "keepProfile" THEN AfterCheck(errand[s].kind)
               ELSE "idle")
    /\ UNCHANGED customerRows

-----------------------------------------------------------------------------
(* customer-db-access-service: a SELECT, then a commit *)

\* The route finds the row (and the note) or answers 404.
Arrive(s) ==
    LET c == errand[s].customer
        found == IF errand[s].kind \in {"editNote", "dropNote"} THEN note[c] # "none"
                 ELSE profile[c].name # "absent"
    IN
    /\ errand[s].at = "arrive"
    /\ errand' = [errand EXCEPT ![s] =
                    IF ~found THEN AtRest
                    ELSE [@ EXCEPT !.at = IF errand[s].kind = "anonymize"
                                          THEN "readNotes" ELSE "commit",
                                   !.seen = IF errand[s].kind \in {"update", "anonymize"}
                                            THEN profile[c] ELSE NoProfile]]
    /\ UNCHANGED <<customerRows, copies, lapses>>

\* anonymize_customer loads the notes after the customer.
ReadNotes(s) ==
    /\ errand[s].at = "readNotes"
    /\ errand' = [errand EXCEPT ![s].at = "commit",
                                ![s].seenNote = note[errand[s].customer]]
    /\ UNCHANGED <<customerRows, copies, lapses>>

AtCommit(s, kind) == errand[s].at = "commit" /\ errand[s].kind = kind

\* The UPDATE of a flush: the columns that differ from those loaded.
FlushedProfile(seen, new, row) ==
    [name    |-> IF new.name # seen.name THEN new.name ELSE row.name,
     address |-> IF new.address # seen.address THEN new.address ELSE row.address,
     at      |-> IF new.at # seen.at THEN new.at ELSE row.at]

\* The columns of an update; the names of a customer may be among them.
Merged(row, payload, named) ==
    [name    |-> IF named THEN "real" ELSE row.name,
     address |-> IF payload.address = Unset THEN row.address ELSE payload.address,
     at      |-> IF payload.at = Unset THEN row.at ELSE payload.at]

\* update_customer.  What the request asks for, and what the lookup before the
\* SELECT has found, is chosen here: nothing looks at it in between.
CommitUpdate(s) ==
    LET c == errand[s].customer  row == profile[c] IN
    /\ AtCommit(s, "update")
    /\ \E named, found \in BOOLEAN, payload \in Payloads :
          /\ profile' = [profile EXCEPT ![c] =
                FlushedProfile(errand[s].seen,
                    Merged(errand[s].seen, Geocoded(payload, found), named), @)]
          /\ misplaced' = IF Blurs(payload, found) \/ errand[s].seen # row
                          THEN misplaced \union {c}
                          ELSE IF payload.address # Unset
                          THEN misplaced \ {c} ELSE misplaced
    /\ WritesPerson(c)
    /\ CommitThenForget(s, {ProfileKey(c), ListKey}, <<{ProfileKey(c)}, {ListKey}>>)
    /\ UNCHANGED <<note, lapses>>

\* delete_customer: is_active only.
CommitDelete(s) ==
    LET c == errand[s].customer IN
    /\ AtCommit(s, "delete")
    /\ CommitThenForget(s, {ProfileKey(c), ListKey}, <<{ProfileKey(c)}, {ListKey}>>)
    /\ UNCHANGED <<customerRows, lapses>>

\* create_note
CommitNote(s) ==
    LET c == errand[s].customer IN
    /\ AtCommit(s, "addNote")
    /\ note[c] = "none"
    /\ note' = [note EXCEPT ![c] = "written"]
    /\ WritesPerson(c)
    /\ CommitThenForget(s, {NotesKey(c)}, <<{NotesKey(c)}>>)
    /\ UNCHANGED <<profile, lapses, misplaced>>

AllNotes == {NotesKey(c) : c \in Customers}

\* update_note: nothing is written if the text is the one that was loaded; a
\* note that has gone since makes the UPDATE, or the refresh, fail.
CommitNoteChange(s) ==
    LET c == errand[s].customer IN
    /\ AtCommit(s, "editNote")
    /\ \/ /\ note[c] = "none"
          /\ Turn(s, "idle")
          /\ UNCHANGED <<note, revived, copies>>
       \/ /\ note[c] # "none"
          /\ note' = [note EXCEPT ![c] = "written"]
          /\ WritesPerson(c)
          /\ CommitThenForget(s, {NotesKey(c)}, <<AllNotes>>)
       \/ /\ note[c] # "none"
          /\ CommitThenForget(s, {}, <<AllNotes>>)
          /\ UNCHANGED <<note, revived>>
    /\ UNCHANGED <<profile, lapses, misplaced>>

\* delete_note
CommitNoteDrop(s) ==
    LET c == errand[s].customer IN
    /\ AtCommit(s, "dropNote")
    /\ note' = [note EXCEPT ![c] = "none"]
    /\ CommitThenForget(s, {NotesKey(c)}, <<AllNotes>>)
    /\ UNCHANGED <<profile, lapses, misplaced, revived>>

\* The deletions of the client's anonymize_customer.  The pattern with which
\* it means to drop the notes, notes:{id}:*, matches no key.
ErasureForgets(c) == <<{ProfileKey(c)}, {ListKey}, {}>>

\* Mutant of ErasedProfile: the coordinates are overlooked.
ErasedButPin(seen) == [seen EXCEPT !.name = "deleted", !.address = Nowhere]

\* The assignments of anonymize_customer.
ErasedProfile(seen) == [name |-> "deleted", address |-> Nowhere, at |-> Nowhere]

\* The commit of anonymize_customer: the row and the notes it has loaded.
CommitErasure(s) ==
    LET c == errand[s].customer  seen == errand[s].seen IN
    /\ AtCommit(s, "anonymize")
    /\ \/ /\ errand[s].seenNote = "written" /\ note[c] = "none"
          /\ Turn(s, "idle")
          /\ UNCHANGED <<profile, note, copies, lapses, misplaced>>
       \/ /\ ~(errand[s].seenNote = "written" /\ note[c] = "none")
          /\ profile' = [profile EXCEPT ![c] =
                            FlushedProfile(seen, ErasedProfile(seen), @)]
          /\ note' = [note EXCEPT ![c] =
                         IF errand[s].seenNote = "written" THEN "removed" ELSE @]
          /\ misplaced' = IF seen # profile[c] THEN misplaced \union {c}
                          ELSE misplaced \ {c}
          /\ CommitThenForget(s, {ProfileKey(c), NotesKey(c), ListKey},
                              ErasureForgets(c))
          /\ lapses' = lapses \union ({NotesKey(c)} \intersect
                                      {k \in CopyKeys : copies[k] # "none"})
    /\ UNCHANGED revived

-----------------------------------------------------------------------------
(* Redis *)

Old == {k \in CopyKeys : copies[k] = "old"}

\* Mutant of Forget: only the first deletion is made.
ForgetFirst(s) ==
    /\ errand[s].at = "forget"
    /\ copies' = [k \in CopyKeys |-> IF k \in Head(errand[s].forget)
                                     THEN "none" ELSE copies[k]]
    /\ lapses' = lapses \ Head(errand[s].forget)
    /\ Turn(s, "idle")
    /\ UNCHANGED customerRows

\* cache_delete and cache_delete_pattern, in the order of the client.
Forget(s) ==
    /\ errand[s].at = "forget"
    /\ copies' = [k \in CopyKeys |-> IF k \in Head(errand[s].forget)
                                     THEN "none" ELSE copies[k]]
    /\ lapses' = lapses \ Head(errand[s].forget)
    /\ errand' = [errand EXCEPT ![s] =
                    IF Len(errand[s].forget) = 1 THEN AtRest
                    ELSE [errand[s] EXCEPT !.forget = Tail(errand[s].forget)]]
    /\ UNCHANGED customerRows

\* Redis refuses: the error is swallowed, the next deletion is tried.
ForgetFails(s) ==
    /\ errand[s].at = "forget"
    /\ lapses' = lapses \union (Head(errand[s].forget) \intersect Old)
    /\ errand' = [errand EXCEPT ![s] =
                    IF Len(errand[s].forget) = 1 THEN AtRest
                    ELSE [errand[s] EXCEPT !.forget = Tail(errand[s].forget)]]
    /\ UNCHANGED <<customerRows, copies>>

\* The service dies, or the answer of customer-db-access-service is lost.
CutOff(s) ==
    /\ errand[s].at # "idle"
    /\ lapses' = lapses \union
          (Old \intersect UNION {errand[s].forget[i] : i \in DOMAIN errand[s].forget})
    /\ Turn(s, "idle")
    /\ UNCHANGED <<customerRows, copies>>

\* The time to live of an entry is over.
CopyExpires(k) ==
    /\ copies[k] # "none"
    /\ copies' = [copies EXCEPT ![k] = "none"]
    /\ lapses' = lapses \ {k}
    /\ UNCHANGED <<customerRows, errand>>

-----------------------------------------------------------------------------
CustomerNext ==
    \/ \E s \in Staff, c \in Customers :
          \/ ShowCustomer(s, c) \/ ListNotes(s, c) \/ ExportCustomer(s, c)
          \/ CreateCustomer(s, c) \/ UpdateCustomer(s, c) \/ DeleteCustomer(s, c)
          \/ CreateNote(s, c) \/ UpdateNote(s, c) \/ DeleteNote(s, c)
          \/ AnonymizeCustomer(s, c)
    \/ \E s \in Staff :
          \/ ListCustomers(s) \/ FetchNotes(s)
          \/ Keep(s) \/ Arrive(s) \/ ReadNotes(s)
          \/ CommitUpdate(s) \/ CommitDelete(s) \/ CommitNote(s)
          \/ CommitNoteChange(s) \/ CommitNoteDrop(s) \/ CommitErasure(s)
          \/ Forget(s) \/ ForgetFails(s) \/ CutOff(s)
    \/ \E k \in CopyKeys : CopyExpires(k)

CustomerSpec == CustomerInit /\ [][CustomerNext]_customerVars

-----------------------------------------------------------------------------
(* Properties *)

\* Whoever reads Redis reads what the tables say, but for named causes: an
\* entry is out of date only while its writer is on the way to delete it, or
\* because a reader stored what it had read before a commit, a deletion
\* failed or was cut off, or an erasure left the notes where they were.
OldCopyHasCause ==
    \A k \in CopyKeys :
        copies[k] = "old" =>
            \/ k \in lapses
            \/ \E s \in Staff : \E i \in DOMAIN errand[s].forget :
                  k \in errand[s].forget[i]

\* The right to erasure: of an erased customer neither the address nor the
\* place nor the text of a note is left, although the erasure writes only what
\* it has loaded and only where it differs, unless somebody wrote to the
\* customer after an erasure had begun to read.
ErasedCustomerIsBlank ==
    \A c \in Customers :
        profile[c].name = "deleted" /\ c \notin revived =>
            /\ profile[c].address = Nowhere /\ profile[c].at = Nowhere
            /\ note[c] # "written"

\* The pin on the map is at the address: coordinates of another place come
\* only from a request that sent them or whose address was not found, or from
\* two writers of whom one had loaded the row before the other's commit.
PinIsAtAddress ==
    \A c \in Customers :
        profile[c].at \notin {Nowhere, profile[c].address} => c \in misplaced
=============================================================================
