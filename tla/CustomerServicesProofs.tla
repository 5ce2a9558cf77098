----------------------- MODULE CustomerServicesProofs -----------------------
(***************************************************************************)
(* Theorems about the customers: their records and the copies of them, the *)
(* messages sent to them and the log of these, the times of reminders, and *)
(* the edits of their jobs with the history of these; for any number of    *)
(* customers, requests, messages and jobs, any windows and any time the    *)
(* work goes on.                                                           *)
(***************************************************************************)
EXTENDS CustomerRecords, MessageDelivery, ReminderWindows, JobEdits, Integers, TLAPS

-----------------------------------------------------------------------------
(***************************************************************************)
(* CustomerRecords.  A request holds what it has loaded and the entries it *)
(* has still to delete.                                                    *)
(***************************************************************************)

\* What a request holds, with the deletions it has still to make.
ErrandStates ==
    [at : ErrandPlaces, kind : Errands, customer : Customers, seen : Profiles,
     seenNote : {"none", "written", "removed"}, old : BOOLEAN, forget : Seq(SUBSET CopyKeys)]

\* The row of a customer that was erased.
Blank == [name |-> "deleted", address |-> Nowhere, at |-> Nowhere]

\* Deletions are still to be made exactly where a request has come to them.
ErrandsFit ==
    /\ errand \in [Staff -> ErrandStates]
    /\ \A s \in Staff : errand[s].at = "forget" <=> errand[s].forget # << >>

\* Rows, notes, copies and histories have their types.
TablesFit ==
    /\ profile \in [Customers -> Profiles]
    /\ note \in [Customers -> {"none", "written", "removed"}]
    /\ copies \in [CopyKeys -> {"none", "current", "old"}]
    /\ lapses \subseteq CopyKeys
    /\ misplaced \subseteq Customers
    /\ revived \subseteq Customers

\* A row that was found stays; and what an erasure has loaded is what it finds at
\* its commit, unless another erasure was first or somebody wrote meanwhile.
RowsAwait ==
    \A s \in Staff :
        LET c == errand[s].customer IN
        /\ errand[s].at \in {"readNotes", "commit"} /\ errand[s].kind \in {"update", "anonymize"} =>
              profile[c].name # "absent"
        /\ errand[s].at \in {"readNotes", "commit"} /\ errand[s].kind = "anonymize"
              /\ c \notin revived =>
              /\ profile[c] = errand[s].seen \/ profile[c] = Blank
              /\ errand[s].at = "commit" /\ note[c] = "written" => errand[s].seenNote = "written"

\* The invariant.
CustomerInv ==
    /\ ErrandsFit
    /\ TablesFit
    /\ OldCopyHasCause
    /\ RowsAwait
    /\ ErasedCustomerIsBlank
    /\ PinIsAtAddress

\* The invariant includes the type invariant.
LEMMA InvGivesCustomerType == CustomerInv => CustomerTypeOK
<1> SUFFICES ASSUME CustomerInv PROVE CustomerTypeOK
    OBVIOUS
<1>1. \A s \in Staff :
          /\ errand[s].at \in ErrandPlaces /\ errand[s].kind \in Errands
          /\ errand[s].customer \in Customers /\ errand[s].seen \in Profiles
          /\ errand[s].seenNote \in {"none", "written", "removed"}
          /\ errand[s].forget \in Seq(SUBSET CopyKeys)
    BY DEF CustomerInv, ErrandsFit, ErrandStates
<1>2. QED
    BY <1>1 DEF CustomerInv, TablesFit, CustomerTypeOK

\* The keys of profiles, notes and the list.
LEMMA KeysTyped ==
    /\ ListKey \in CopyKeys
    /\ \A c \in Customers : ProfileKey(c) \in CopyKeys /\ NotesKey(c) \in CopyKeys
    /\ AllNotes \subseteq CopyKeys
BY DEF CopyKeys, AllNotes

\* What stands for no request and for no customer.
LEMMA AtRestTyped ==
    /\ AtRest \in ErrandStates /\ AtRest.at = "idle" /\ AtRest.forget = << >>
    /\ NoProfile \in Profiles
BY CustomerConstants DEF AtRest, ErrandStates, ErrandPlaces, Errands, Profiles, NoProfile

\* A request names a customer, and reads one key.
LEMMA ReadersTyped ==
    ASSUME CustomerInv, NEW s \in Staff
    PROVE  /\ errand[s] \in ErrandStates /\ errand[s].customer \in Customers
           /\ KeyRead(s) \in CopyKeys
<1>1. errand[s] \in ErrandStates /\ errand[s].customer \in Customers
    BY DEF CustomerInv, ErrandsFit, ErrandStates
<1>2. KeyRead(s) \in CopyKeys
    BY <1>1, KeysTyped DEF KeyRead
<1>3. QED
    BY <1>1, <1>2

\* At first there is no customer, no copy and no request.
LEMMA InitCustomers == CustomerInit => CustomerInv
<1> SUFFICES ASSUME CustomerInit PROVE CustomerInv
    OBVIOUS
<1>1. ErrandsFit
    BY AtRestTyped DEF CustomerInit, ErrandsFit
<1>2. TablesFit
    BY AtRestTyped DEF CustomerInit, TablesFit
<1>3. OldCopyHasCause /\ RowsAwait
    BY AtRestTyped DEF CustomerInit, OldCopyHasCause, RowsAwait
<1>4. ErasedCustomerIsBlank /\ PinIsAtAddress
    BY DEF CustomerInit, ErasedCustomerIsBlank, PinIsAtAddress, NoProfile
<1>5. QED
    BY <1>1, <1>2, <1>3, <1>4 DEF CustomerInv

-----------------------------------------------------------------------------
(* Steps that change no row *)

\* A request that has not come to its commit is nothing to the rows.
LEMMA RowsRest ==
    ASSUME CustomerInv, UNCHANGED customerRows,
           \A q \in Staff : errand'[q].at \in {"readNotes", "commit"} =>
               /\ errand'[q].at = errand[q].at /\ errand'[q].kind = errand[q].kind
               /\ errand'[q].customer = errand[q].customer
               /\ errand'[q].seen = errand[q].seen /\ errand'[q].seenNote = errand[q].seenNote
    PROVE  RowsAwait' /\ ErasedCustomerIsBlank' /\ PinIsAtAddress'
<1>1. profile' = profile /\ note' = note /\ misplaced' = misplaced /\ revived' = revived
    BY DEF customerRows
<1>2. RowsAwait'
    <2> SUFFICES ASSUME NEW s \in Staff, errand'[s].at \in {"readNotes", "commit"}
                 PROVE  LET c == errand'[s].customer IN
                        /\ errand'[s].kind \in {"update", "anonymize"} => profile[c].name # "absent"
                        /\ errand'[s].kind = "anonymize" /\ c \notin revived =>
                              /\ profile[c] = errand'[s].seen \/ profile[c] = Blank
                              /\ errand'[s].at = "commit" /\ note[c] = "written" =>
                                    errand'[s].seenNote = "written"
        BY <1>1 DEF RowsAwait
    <2>1. QED
        BY DEF CustomerInv, RowsAwait
<1>3. ErasedCustomerIsBlank' /\ PinIsAtAddress'
    BY <1>1 DEF CustomerInv, ErasedCustomerIsBlank, PinIsAtAddress
<1>4. QED
    BY <1>2, <1>3

\* One request goes on, with the deletions it has to make, if any.
LEMMA ErrandMoves ==
    ASSUME CustomerInv, NEW s \in Staff, NEW next \in ErrandStates,
           errand' = [errand EXCEPT ![s] = next],
           next.at = "forget" <=> next.forget # << >>
    PROVE  /\ ErrandsFit'
           /\ errand'[s] = next /\ \A q \in Staff : q # s => errand'[q] = errand[q]
BY DEF CustomerInv, ErrandsFit

\* Entries that nobody touches stay explained, as long as nobody's deletions go.
LEMMA CopiesRest ==
    ASSUME CustomerInv, copies' = copies, lapses \subseteq lapses',
           \A q \in Staff : errand[q].forget = << >> \/ errand'[q].forget = errand[q].forget
    PROVE  OldCopyHasCause'
BY DEF CustomerInv, OldCopyHasCause

\* A request begins, ends or waits; nothing else changes.
LEMMA ErrandOnly ==
    ASSUME CustomerInv, NEW s \in Staff, NEW next \in ErrandStates,
           errand' = [errand EXCEPT ![s] = next],
           errand[s].at # "forget", next.at # "forget", next.forget = << >>,
           next.at \notin {"readNotes", "commit"},
           UNCHANGED <<customerRows, copies, lapses>>
    PROVE  CustomerInv'
<1>1. /\ ErrandsFit'
      /\ errand'[s] = next /\ \A q \in Staff : q # s => errand'[q] = errand[q]
    BY ErrandMoves
<1>2. TablesFit'
    BY DEF CustomerInv, TablesFit, customerRows
<1>3. errand[s].forget = << >>
    BY DEF CustomerInv, ErrandsFit
<1>4. OldCopyHasCause'
    BY <1>1, <1>3, CopiesRest
<1>5. RowsAwait' /\ ErasedCustomerIsBlank' /\ PinIsAtAddress'
    BY <1>1, RowsRest
<1>6. QED
    BY <1>1, <1>2, <1>4, <1>5 DEF CustomerInv

\* Where a turn leads, if not to deletions or to a commit.
LEMMA TurnTyped ==
    ASSUME CustomerInv, NEW s \in Staff, NEW where \in ErrandPlaces, Turn(s, where),
           errand[s].at # "forget" \/ where = "idle", where # "forget"
    PROVE  \E next \in ErrandStates :
               /\ errand' = [errand EXCEPT ![s] = next]
               /\ next.at = where /\ next.forget = << >>
<1>1. errand[s] \in ErrandStates
    BY ReadersTyped
<1> DEFINE next == IF where = "idle" THEN AtRest
                   ELSE [errand[s] EXCEPT !.at = where, !.old = FALSE]
<1>2. errand' = [errand EXCEPT ![s] = next]
    BY DEF Turn, CustomerInv, ErrandsFit
<1>3. next \in ErrandStates /\ next.at = where /\ next.forget = << >>
    <2>1. CASE where = "idle"
        BY <2>1, AtRestTyped
    <2>2. CASE where # "idle"
        <3>1. errand[s].forget = << >>
            BY <2>2 DEF CustomerInv, ErrandsFit
        <3>2. QED
            BY <1>1, <2>2, <3>1 DEF ErrandStates
    <2>3. QED
        BY <2>1, <2>2
<1>4. QED
    BY <1>2, <1>3

\* A request reads the row of its customer, or is refused.
LEMMA CheckStep ==
    ASSUME CustomerInv, NEW s \in Staff, NEW c \in Customers, NEW kind \in Errands,
           CheckTenantFor(s, kind, c)
    PROVE  CustomerInv'
<1> DEFINE where == IF copies[ProfileKey(c)] # "none" THEN AfterCheck(kind) ELSE "keepProfile"
           next == [AtRest EXCEPT !.at = where, !.kind = kind, !.customer = c]
<1>1. where \in {"idle", "notes", "arrive", "keepProfile"}
    BY DEF AfterCheck
<1>2. /\ next \in ErrandStates /\ next.at = where /\ next.forget = << >>
    BY <1>1, AtRestTyped DEF ErrandStates, ErrandPlaces
<1>3. /\ errand[s].at = "idle" /\ errand' = [errand EXCEPT ![s] = next]
      /\ UNCHANGED <<customerRows, copies, lapses>>
    BY DEF CheckTenantFor
<1> HIDE DEF where, next
<1>4. QED
    BY <1>1, <1>2, <1>3, ErrandOnly

\* A request reads the list, or the notes, from the tables.
LEMMA ReadStep ==
    ASSUME CustomerInv, NEW s \in Staff, ListCustomers(s) \/ FetchNotes(s)
    PROVE  CustomerInv'
<1>1. UNCHANGED <<customerRows, copies, lapses>>
    BY DEF ListCustomers, FetchNotes
<1>2. CASE ListCustomers(s)
    <2> DEFINE next == [errand[s] EXCEPT !.at = "keepList"]
    <2>1. errand[s].at = "idle" /\ errand' = [errand EXCEPT ![s] = next]
        BY <1>2 DEF ListCustomers
    <2>2. errand[s] \in ErrandStates /\ errand[s].forget = << >>
        BY <2>1, ReadersTyped DEF CustomerInv, ErrandsFit
    <2>3. next \in ErrandStates /\ next.at = "keepList" /\ next.forget = << >>
        BY <2>2 DEF ErrandStates, ErrandPlaces
    <2> HIDE DEF next
    <2>4. QED
        BY <1>1, <2>1, <2>3, ErrandOnly
<1>3. CASE FetchNotes(s)
    <2>1. PICK where \in {"idle", "keepNotes"} : Turn(s, where)
        BY <1>3 DEF FetchNotes
    <2>2. errand[s].at = "notes" /\ where \in ErrandPlaces
        BY <1>3 DEF FetchNotes, ErrandPlaces
    <2>3. PICK next \in ErrandStates :
              errand' = [errand EXCEPT ![s] = next] /\ next.at = where /\ next.forget = << >>
        BY <2>1, <2>2, TurnTyped
    <2>4. QED
        BY <1>1, <2>1, <2>2, <2>3, ErrandOnly
<1>4. QED
    BY <1>2, <1>3

\* A reader that stores what it had read before a commit leaves the cause.
LEMMA KeepStep ==
    ASSUME CustomerInv, NEW s \in Staff, Keep(s)
    PROVE  CustomerInv'
<1> DEFINE key == KeyRead(s)
<1>1. PICK where \in {"idle", "notes", "arrive"} : Turn(s, where)
    BY DEF Keep, AfterCheck
<1>2. /\ errand[s].at \in {"keepProfile", "keepList", "keepNotes"} /\ where \in ErrandPlaces
      /\ UNCHANGED customerRows
      /\ \/ /\ copies' = [copies EXCEPT ![key] = IF errand[s].old THEN "old" ELSE "current"]
            /\ lapses' = IF errand[s].old THEN lapses \union {key} ELSE lapses \ {key}
         \/ UNCHANGED <<copies, lapses>>
    BY DEF Keep, ErrandPlaces
<1>3. PICK next \in ErrandStates :
          errand' = [errand EXCEPT ![s] = next] /\ next.at = where /\ next.forget = << >>
    BY <1>1, <1>2, TurnTyped
<1>4. /\ ErrandsFit' /\ errand'[s] = next /\ \A q \in Staff : q # s => errand'[q] = errand[q]
    BY <1>1, <1>3, ErrandMoves
<1>5. key \in CopyKeys
    BY ReadersTyped
<1> HIDE DEF key
<1>6. TablesFit'
    BY <1>2, <1>5 DEF CustomerInv, TablesFit, customerRows
<1>7. errand[s].forget = << >>
    BY <1>2 DEF CustomerInv, ErrandsFit
<1>8. OldCopyHasCause'
    <2> SUFFICES ASSUME NEW k \in CopyKeys, copies'[k] = "old"
                 PROVE  \/ k \in lapses'
                        \/ \E q \in Staff : \E i \in DOMAIN errand'[q].forget :
                              k \in errand'[q].forget[i]
        BY DEF OldCopyHasCause
    <2>1. CASE UNCHANGED <<copies, lapses>>
        <3>1. \/ k \in lapses
              \/ \E q \in Staff : \E i \in DOMAIN errand[q].forget : k \in errand[q].forget[i]
            BY <2>1 DEF CustomerInv, OldCopyHasCause
        <3>2. QED
            BY <1>4, <1>7, <2>1, <3>1
    <2>2. CASE ~UNCHANGED <<copies, lapses>>
        <3>1. CASE k = key
            BY <1>2, <1>5, <2>2, <3>1 DEF CustomerInv, TablesFit
        <3>2. CASE k # key
            <4>1. copies[k] = "old" /\ (k \in lapses => k \in lapses')
                BY <1>2, <1>5, <2>2, <3>2 DEF CustomerInv, TablesFit
            <4>2. \/ k \in lapses
                  \/ \E q \in Staff : \E i \in DOMAIN errand[q].forget : k \in errand[q].forget[i]
                BY <4>1 DEF CustomerInv, OldCopyHasCause
            <4>3. QED
                BY <1>4, <1>7, <4>1, <4>2
        <3>3. QED
            BY <3>1, <3>2
    <2>3. QED
        BY <2>1, <2>2
<1>9. RowsAwait' /\ ErasedCustomerIsBlank' /\ PinIsAtAddress'
    BY <1>1, <1>2, <1>3, <1>4, RowsRest
<1>10. QED
    BY <1>4, <1>6, <1>8, <1>9 DEF CustomerInv

\* The SELECT: what an erasure has loaded is what the row says.
LEMMA ArriveStep ==
    ASSUME CustomerInv, NEW s \in Staff, Arrive(s)
    PROVE  CustomerInv'
<1> DEFINE c == errand[s].customer
           found == IF errand[s].kind \in {"editNote", "dropNote"} THEN note[c] # "none"
                    ELSE profile[c].name # "absent"
           next == IF ~found THEN AtRest
                   ELSE [errand[s] EXCEPT !.at = IF errand[s].kind = "anonymize"
                                                 THEN "readNotes" ELSE "commit",
                                          !.seen = IF errand[s].kind \in {"update", "anonymize"}
                                                   THEN profile[c] ELSE NoProfile]
<1>1. /\ errand[s].at = "arrive" /\ errand' = [errand EXCEPT ![s] = next]
      /\ UNCHANGED <<customerRows, copies, lapses>>
    BY DEF Arrive
<1>2. /\ errand[s] \in ErrandStates /\ c \in Customers /\ errand[s].forget = << >>
      /\ profile[c] \in Profiles
    BY <1>1, ReadersTyped DEF CustomerInv, ErrandsFit, TablesFit
<1>3. CASE ~found
    BY <1>1, <1>3, AtRestTyped, ErrandOnly
<1>4. CASE found
    <2>1. /\ next \in ErrandStates /\ next.forget = << >> /\ next.at \in {"readNotes", "commit"}
          /\ next.customer = c /\ next.kind = errand[s].kind
          /\ next.kind = "anonymize" => next.at = "readNotes" /\ next.seen = profile[c]
        BY <1>2, <1>4, AtRestTyped DEF ErrandStates, ErrandPlaces
    <2>2. next.kind \in {"update", "anonymize"} => profile[c].name # "absent"
        BY <1>4, <2>1
    <2> HIDE DEF next, found, c
    <2>3. /\ ErrandsFit' /\ errand'[s] = next
          /\ \A q \in Staff : q # s => errand'[q] = errand[q]
        BY <1>1, <2>1, ErrandMoves
    <2>4. TablesFit'
        BY <1>1 DEF CustomerInv, TablesFit, customerRows
    <2>5. OldCopyHasCause'
        BY <1>1, <1>2, <2>3, CopiesRest
    <2>6. RowsAwait'
        BY <1>1, <2>1, <2>2, <2>3 DEF CustomerInv, RowsAwait, customerRows
    <2>7. ErasedCustomerIsBlank' /\ PinIsAtAddress'
        BY <1>1 DEF CustomerInv, ErasedCustomerIsBlank, PinIsAtAddress, customerRows
    <2>8. QED
        BY <2>3, <2>4, <2>5, <2>6, <2>7 DEF CustomerInv
<1>5. QED
    BY <1>3, <1>4

\* An erasure reads the notes it is to remove.
LEMMA ReadNotesStep ==
    ASSUME CustomerInv, NEW s \in Staff, ReadNotes(s)
    PROVE  CustomerInv'
<1> DEFINE c == errand[s].customer
           next == [errand[s] EXCEPT !.at = "commit", !.seenNote = note[c]]
<1>1. /\ errand[s] \in ErrandStates /\ c \in Customers
      /\ note[c] \in {"none", "written", "removed"}
    BY ReadersTyped DEF CustomerInv, TablesFit
<1>2. /\ errand[s].at = "readNotes" /\ errand' = [errand EXCEPT ![s] = next]
      /\ UNCHANGED <<customerRows, copies, lapses>>
    BY <1>1 DEF ReadNotes, CustomerInv, ErrandsFit, ErrandStates
<1>3. errand[s].forget = << >>
    BY <1>2 DEF CustomerInv, ErrandsFit
<1>4. /\ next \in ErrandStates /\ next.forget = << >> /\ next.at = "commit"
      /\ next.customer = c /\ next.kind = errand[s].kind /\ next.seen = errand[s].seen
      /\ next.seenNote = note[c]
    BY <1>1, <1>3 DEF ErrandStates, ErrandPlaces
<1> HIDE DEF next, c
<1>5. /\ ErrandsFit' /\ errand'[s] = next
      /\ \A q \in Staff : q # s => errand'[q] = errand[q]
    BY <1>2, <1>4, ErrandMoves
<1>6. TablesFit'
    BY <1>2 DEF CustomerInv, TablesFit, customerRows
<1>7. OldCopyHasCause'
    BY <1>2, <1>3, <1>5, CopiesRest
<1>8. RowsAwait'
    BY <1>2, <1>4, <1>5 DEF CustomerInv, RowsAwait, customerRows, c
<1>9. ErasedCustomerIsBlank' /\ PinIsAtAddress'
    BY <1>2 DEF CustomerInv, ErasedCustomerIsBlank, PinIsAtAddress, customerRows
<1>10. QED
    BY <1>5, <1>6, <1>7, <1>8, <1>9 DEF CustomerInv

-----------------------------------------------------------------------------
(* Commits *)

\* What a commit makes old it goes on to delete, or has noted.
LEMMA CommitForgets ==
    ASSUME CustomerInv, NEW s \in Staff, NEW keys \in SUBSET CopyKeys,
           NEW forget \in Seq(SUBSET CopyKeys), forget # << >>,
           errand[s].at # "forget", CommitThenForget(s, keys, forget), lapses \subseteq lapses',
           \A k \in keys : copies[k] # "none" =>
               k \in lapses' \/ \E i \in DOMAIN forget : k \in forget[i]
    PROVE  /\ ErrandsFit' /\ OldCopyHasCause'
           /\ copies' \in [CopyKeys -> {"none", "current", "old"}]
           /\ errand'[s].at = "forget"
           /\ \A q \in Staff : q # s =>
                 /\ errand'[q].at = errand[q].at /\ errand'[q].kind = errand[q].kind
                 /\ errand'[q].customer = errand[q].customer
                 /\ errand'[q].seen = errand[q].seen /\ errand'[q].seenNote = errand[q].seenNote
<1> DEFINE next == [AtRest EXCEPT !.at = "forget", !.forget = forget]
<1>1. next \in ErrandStates /\ next.at = "forget" /\ next.forget = forget
    BY AtRestTyped DEF ErrandStates, ErrandPlaces
<1>2. /\ errand' = [q \in Staff |->
              IF q = s THEN next
              ELSE IF errand[q].at \in {"keepProfile", "keepList", "keepNotes"} /\ KeyRead(q) \in keys
              THEN [errand[q] EXCEPT !.old = TRUE] ELSE errand[q]]
      /\ copies' = [k \in CopyKeys |-> IF k \in keys /\ copies[k] # "none"
                                       THEN "old" ELSE copies[k]]
    BY DEF CommitThenForget
<1> HIDE DEF next
<1>3. ASSUME NEW q \in Staff, q # s
      PROVE  /\ errand'[q] \in ErrandStates
             /\ errand'[q].at = errand[q].at /\ errand'[q].kind = errand[q].kind
             /\ errand'[q].customer = errand[q].customer
             /\ errand'[q].seen = errand[q].seen /\ errand'[q].seenNote = errand[q].seenNote
             /\ errand'[q].forget = errand[q].forget
    <2>1. errand[q] \in ErrandStates
        BY ReadersTyped
    <2> DEFINE aged == [errand[q] EXCEPT !.old = TRUE]
    <2>2. /\ aged \in ErrandStates
          /\ aged.at = errand[q].at /\ aged.kind = errand[q].kind
          /\ aged.customer = errand[q].customer /\ aged.seen = errand[q].seen
          /\ aged.seenNote = errand[q].seenNote /\ aged.forget = errand[q].forget
        BY <2>1 DEF ErrandStates
    <2>3. errand'[q] \in {aged, errand[q]}
        BY <1>2, <1>3
    <2> HIDE DEF aged
    <2>4. QED
        BY <2>1, <2>2, <2>3
<1>4. ErrandsFit'
    <2>1. errand' \in [Staff -> ErrandStates]
        <3>1. \A q \in Staff : errand'[q] \in ErrandStates
            BY <1>1, <1>2, <1>3
        <3>2. QED
            BY <1>2, <3>1
    <2>2. QED
        BY <1>1, <1>2, <1>3, <2>1 DEF CustomerInv, ErrandsFit
<1>5. OldCopyHasCause'
    <2> SUFFICES ASSUME NEW k \in CopyKeys, copies'[k] = "old"
                 PROVE  \/ k \in lapses'
                        \/ \E q \in Staff : \E i \in DOMAIN errand'[q].forget :
                              k \in errand'[q].forget[i]
        BY DEF OldCopyHasCause
    <2>1. errand'[s].forget = forget
        BY <1>1, <1>2
    <2>2. CASE k \in keys /\ copies[k] # "none"
        BY <2>1, <2>2
    <2>3. CASE ~(k \in keys /\ copies[k] # "none")
        <3>1. copies[k] = "old"
            BY <1>2, <2>3
        <3>2. \/ k \in lapses
              \/ \E q \in Staff : \E i \in DOMAIN errand[q].forget : k \in errand[q].forget[i]
            BY <3>1 DEF CustomerInv, OldCopyHasCause
        <3>3. errand[s].forget = << >>
            BY DEF CustomerInv, ErrandsFit
        <3>4. QED
            BY <1>3, <3>2, <3>3
    <2>4. QED
        BY <2>2, <2>3
<1>6. copies' \in [CopyKeys -> {"none", "current", "old"}]
    BY <1>2 DEF CustomerInv, TablesFit
<1>7. QED
    BY <1>1, <1>2, <1>3, <1>4, <1>5, <1>6

\* The deletions of the commits.
LEMMA ForgetsTyped ==
    ASSUME NEW c \in Customers
    PROVE  /\ {ListKey} \in SUBSET CopyKeys /\ {ProfileKey(c), ListKey} \in SUBSET CopyKeys
           /\ {NotesKey(c)} \in SUBSET CopyKeys /\ AllNotes \in SUBSET CopyKeys
           /\ {ProfileKey(c), NotesKey(c), ListKey} \in SUBSET CopyKeys
           /\ <<{ListKey}>> \in Seq(SUBSET CopyKeys) /\ <<{ListKey}>> # << >>
           /\ <<{ProfileKey(c)}, {ListKey}>> \in Seq(SUBSET CopyKeys)
           /\ <<{ProfileKey(c)}, {ListKey}>> # << >>
           /\ <<{NotesKey(c)}>> \in Seq(SUBSET CopyKeys) /\ <<{NotesKey(c)}>> # << >>
           /\ <<AllNotes>> \in Seq(SUBSET CopyKeys) /\ <<AllNotes>> # << >>
           /\ ErasureForgets(c) \in Seq(SUBSET CopyKeys) /\ ErasureForgets(c) # << >>
<1>1. /\ ListKey \in CopyKeys /\ ProfileKey(c) \in CopyKeys /\ NotesKey(c) \in CopyKeys
      /\ AllNotes \subseteq CopyKeys
    BY KeysTyped
<1>2. ErasureForgets(c) = <<{ProfileKey(c)}, {ListKey}, {}>>
    BY DEF ErasureForgets
<1>3. QED
    BY <1>1, <1>2

\* A customer that was written goes out of its own copy, then out of the lists.
LEMMA ProfileForgotten ==
    ASSUME CustomerInv, NEW s \in Staff, NEW c \in Customers, errand[s].at # "forget",
           CommitThenForget(s, {ProfileKey(c), ListKey}, <<{ProfileKey(c)}, {ListKey}>>),
           lapses' = lapses
    PROVE  /\ ErrandsFit' /\ OldCopyHasCause'
           /\ copies' \in [CopyKeys -> {"none", "current", "old"}]
           /\ errand'[s].at = "forget"
           /\ \A q \in Staff : q # s =>
                 /\ errand'[q].at = errand[q].at /\ errand'[q].kind = errand[q].kind
                 /\ errand'[q].customer = errand[q].customer
                 /\ errand'[q].seen = errand[q].seen /\ errand'[q].seenNote = errand[q].seenNote
<1> DEFINE keys == {ProfileKey(c), ListKey}
           forget == <<{ProfileKey(c)}, {ListKey}>>
<1>1. /\ keys \in SUBSET CopyKeys /\ forget \in Seq(SUBSET CopyKeys) /\ forget # << >>
    BY ForgetsTyped
<1>2. \A k \in keys : copies[k] # "none" =>
          k \in lapses' \/ \E i \in DOMAIN forget : k \in forget[i]
    <2>1. 1 \in DOMAIN forget /\ 2 \in DOMAIN forget
        OBVIOUS
    <2>2. ProfileKey(c) \in forget[1] /\ ListKey \in forget[2]
        OBVIOUS
    <2>3. QED
        BY <2>1, <2>2
<1>3. CommitThenForget(s, keys, forget) /\ lapses \subseteq lapses' /\ errand[s].at # "forget"
    OBVIOUS
<1> HIDE DEF keys, forget
<1>4. QED
    BY <1>1, <1>2, <1>3, CommitForgets

\* A note that was written goes out of the copy of its customer's, or all do.
LEMMA NotesForgotten ==
    ASSUME CustomerInv, NEW s \in Staff, NEW c \in Customers, errand[s].at # "forget",
           NEW keys \in {{}, {NotesKey(c)}}, NEW going \in {{NotesKey(c)}, AllNotes},
           CommitThenForget(s, keys, <<going>>), lapses' = lapses
    PROVE  /\ ErrandsFit' /\ OldCopyHasCause'
           /\ copies' \in [CopyKeys -> {"none", "current", "old"}]
           /\ errand'[s].at = "forget"
           /\ \A q \in Staff : q # s =>
                 /\ errand'[q].at = errand[q].at /\ errand'[q].kind = errand[q].kind
                 /\ errand'[q].customer = errand[q].customer
                 /\ errand'[q].seen = errand[q].seen /\ errand'[q].seenNote = errand[q].seenNote
<1> DEFINE forget == <<going>>
<1>1. NotesKey(c) \in AllNotes
    BY DEF AllNotes
<1>2. keys \in SUBSET CopyKeys /\ going \in SUBSET CopyKeys
    BY ForgetsTyped
<1>3. /\ forget \in Seq(SUBSET CopyKeys) /\ forget # << >> /\ 1 \in DOMAIN forget /\ forget[1] = going
    BY <1>2
<1>4. \A k \in keys : copies[k] # "none" =>
          k \in lapses' \/ \E i \in DOMAIN forget : k \in forget[i]
    BY <1>1, <1>3
<1>5. CommitThenForget(s, keys, forget) /\ lapses \subseteq lapses'
    OBVIOUS
<1> HIDE DEF forget
<1>6. QED
    BY <1>2, <1>3, <1>4, <1>5, CommitForgets

\* A note is written by somebody who is noted, where an erasure could miss it.
LEMMA NoteMoves ==
    ASSUME CustomerInv, NEW s \in Staff, NEW c \in Customers, NEW word \in {"none", "written"},
           note' = [note EXCEPT ![c] = word], profile' = profile, misplaced' = misplaced,
           revived \subseteq revived',
           word = "written" /\ c \notin revived' => profile[c].name # "deleted" /\ ~ErasureReads(c),
           errand'[s].at = "forget",
           \A q \in Staff : q # s =>
               /\ errand'[q].at = errand[q].at /\ errand'[q].kind = errand[q].kind
               /\ errand'[q].customer = errand[q].customer
               /\ errand'[q].seen = errand[q].seen /\ errand'[q].seenNote = errand[q].seenNote
    PROVE  RowsAwait' /\ ErasedCustomerIsBlank' /\ PinIsAtAddress'
<1>1. /\ note'[c] = word /\ \A d \in Customers : d # c => note'[d] = note[d]
    BY DEF CustomerInv, TablesFit
<1>2. RowsAwait'
    <2> SUFFICES ASSUME NEW q \in Staff, errand'[q].at \in {"readNotes", "commit"}
                 PROVE  LET d == errand'[q].customer IN
                        /\ errand'[q].kind \in {"update", "anonymize"} => profile[d].name # "absent"
                        /\ errand'[q].kind = "anonymize" /\ d \notin revived' =>
                              /\ profile[d] = errand'[q].seen \/ profile[d] = Blank
                              /\ errand'[q].at = "commit" /\ note'[d] = "written" =>
                                    errand'[q].seenNote = "written"
        BY DEF RowsAwait
    <2>1. q # s /\ errand[q].customer \in Customers
        BY ReadersTyped
    <2>2. CASE errand[q].customer = c
        <3>1. errand[q].kind = "anonymize" /\ word = "written" => c \in revived'
            BY <2>1, <2>2 DEF ErasureReads
        <3>2. QED
            BY <1>1, <2>1, <2>2, <3>1 DEF CustomerInv, RowsAwait
    <2>3. CASE errand[q].customer # c
        BY <1>1, <2>1, <2>3 DEF CustomerInv, RowsAwait
    <2>4. QED
        BY <2>2, <2>3
<1>3. ErasedCustomerIsBlank' /\ PinIsAtAddress'
    BY <1>1 DEF CustomerInv, ErasedCustomerIsBlank, PinIsAtAddress
<1>4. QED
    BY <1>2, <1>3

\* The columns after the flush of an update.
LEMMA UpdateFlushed ==
    ASSUME NEW seen \in Profiles, NEW stored \in Profiles, NEW payload \in Payloads,
           NEW found \in BOOLEAN, NEW named \in BOOLEAN
    PROVE  LET new == FlushedProfile(seen, Merged(seen, Geocoded(payload, found), named), stored) IN
           /\ new \in Profiles
           /\ new.name # stored.name => new.name = "real"
           /\ seen = stored /\ ~Blurs(payload, found) =>
                 /\ payload.address # Unset => new.at \in {Nowhere, new.address}
                 /\ payload.address = Unset =>
                       new.at = Nowhere \/ (new.at = stored.at /\ new.address = stored.address)
<1> DEFINE geo == Geocoded(payload, found)
           merged == Merged(seen, geo, named)
           new == FlushedProfile(seen, merged, stored)
<1>1. /\ payload.address \in Places \union {Nowhere, Unset}
      /\ payload.at \in Places \union {Nowhere, Unset}
      /\ seen.address \in Places \union {Nowhere} /\ seen.at \in Places \union {Nowhere}
      /\ stored.address \in Places \union {Nowhere} /\ stored.at \in Places \union {Nowhere}
      /\ seen.name \in {"absent", "real", "deleted"}
      /\ stored.name \in {"absent", "real", "deleted"}
    BY DEF Payloads, Profiles
<1>2. /\ geo.address = payload.address
      /\ geo.at = IF payload.at \notin Places /\ payload.address \in Places /\ found
                  THEN payload.address ELSE payload.at
    BY DEF Geocoded, Payloads
<1> HIDE DEF geo
<1>3. /\ merged.name = IF named THEN "real" ELSE seen.name
      /\ merged.address = IF payload.address = Unset THEN seen.address ELSE payload.address
      /\ merged.at = IF geo.at = Unset THEN seen.at ELSE geo.at
    BY <1>2 DEF Merged
<1> HIDE DEF merged
<1>4. /\ new.name = IF merged.name # seen.name THEN merged.name ELSE stored.name
      /\ new.address = IF merged.address # seen.address THEN merged.address ELSE stored.address
      /\ new.at = IF merged.at # seen.at THEN merged.at ELSE stored.at
      /\ new = [name |-> new.name, address |-> new.address, at |-> new.at]
    BY DEF FlushedProfile
<1> HIDE DEF new
<1>5. /\ merged.address \in Places \union {Nowhere} /\ merged.at \in Places \union {Nowhere}
    BY <1>1, <1>2, <1>3
<1>6. /\ new.name \in {"absent", "real", "deleted"}
      /\ new.address \in Places \union {Nowhere} /\ new.at \in Places \union {Nowhere}
    BY <1>1, <1>3, <1>4, <1>5
<1>7. new \in Profiles
    BY <1>4, <1>6 DEF Profiles
<1>8. new.name # stored.name => new.name = "real"
    BY <1>3, <1>4
<1>9. ASSUME seen = stored, ~Blurs(payload, found)
      PROVE  /\ payload.address # Unset => new.at \in {Nowhere, new.address}
             /\ payload.address = Unset =>
                   new.at = Nowhere \/ (new.at = stored.at /\ new.address = stored.address)
    <2>1. new.address = merged.address /\ new.at = merged.at
        BY <1>4, <1>9
    <2>2. /\ ~(payload.at \in Places /\ payload.at # payload.address)
          /\ ~(payload.address \in Places /\ payload.at \notin Places /\ ~found)
          /\ ~(payload.address = Nowhere /\ payload.at = Unset)
        BY <1>9 DEF Blurs
    <2>3. QED
        BY <1>1, <1>2, <1>3, <1>9, <2>1, <2>2, CustomerConstants
<1>10. QED
    BY <1>7, <1>8, <1>9 DEF new, merged, geo

\* What an erasure flushes over a row: blank wherever it differs from what was loaded.
LEMMA ErasureFlushed ==
    ASSUME NEW seen \in Profiles, NEW stored \in Profiles
    PROVE  LET new == FlushedProfile(seen, ErasedProfile(seen), stored) IN
           /\ new \in Profiles
           /\ stored.name # "absent" => new.name # "absent"
           /\ seen = stored => new.at = Nowhere
           /\ stored = seen \/ stored = Blank => new = Blank
<1> DEFINE new == FlushedProfile(seen, ErasedProfile(seen), stored)
<1>1. /\ new.name = IF "deleted" # seen.name THEN "deleted" ELSE stored.name
      /\ new.address = IF Nowhere # seen.address THEN Nowhere ELSE stored.address
      /\ new.at = IF Nowhere # seen.at THEN Nowhere ELSE stored.at
      /\ new = [name |-> new.name, address |-> new.address, at |-> new.at]
    BY DEF FlushedProfile, ErasedProfile
<1> HIDE DEF new
<1>2. /\ stored.name \in {"absent", "real", "deleted"} /\ stored.address \in Places \union {Nowhere}
      /\ stored.at \in Places \union {Nowhere}
    BY DEF Profiles
<1>3. new \in Profiles
    BY <1>1, <1>2 DEF Profiles
<1>4. stored = seen \/ stored = Blank => new = Blank
    <2>1. Blank.name = "deleted" /\ Blank.address = Nowhere /\ Blank.at = Nowhere
        BY DEF Blank
    <2>2. stored = seen \/ stored = Blank
              => new.name = "deleted" /\ new.address = Nowhere /\ new.at = Nowhere
        BY <1>1, <2>1
    <2>3. QED
        BY <1>1, <2>2 DEF Blank
<1>5. QED
    BY <1>1, <1>3, <1>4 DEF new

\* Whoever writes to a person while an erasure reads, or after it, is noted.
LEMMA WritesNoted ==
    ASSUME CustomerInv, NEW c \in Customers, WritesPerson(c)
    PROVE  /\ revived \subseteq revived' /\ revived' \subseteq Customers
           /\ c \notin revived' => profile[c].name # "deleted" /\ ~ErasureReads(c)
BY DEF CustomerInv, TablesFit, WritesPerson

\* A customer is created, placed or not, and the list is to be deleted.
LEMMA CreateStep ==
    ASSUME CustomerInv, NEW s \in Staff, NEW c \in Customers, CreateCustomer(s, c)
    PROVE  CustomerInv'
<1>1. PICK place \in Places \union {Nowhere} :
          profile' = [profile EXCEPT ![c] = [name |-> "real", address |-> place, at |-> Nowhere]]
    BY DEF CreateCustomer
<1>2. /\ errand[s].at = "idle" /\ profile[c].name = "absent"
      /\ CommitThenForget(s, {ListKey}, <<{ListKey}>>)
      /\ UNCHANGED <<note, lapses, misplaced, revived>>
    BY DEF CreateCustomer
<1>3. /\ ErrandsFit' /\ OldCopyHasCause'
      /\ copies' \in [CopyKeys -> {"none", "current", "old"}]
      /\ errand'[s].at = "forget"
      /\ \A q \in Staff : q # s =>
            /\ errand'[q].at = errand[q].at /\ errand'[q].kind = errand[q].kind
            /\ errand'[q].customer = errand[q].customer
            /\ errand'[q].seen = errand[q].seen /\ errand'[q].seenNote = errand[q].seenNote
    <2> DEFINE keys == {ListKey}
               forget == <<{ListKey}>>
    <2>1. /\ keys \in SUBSET CopyKeys /\ forget \in Seq(SUBSET CopyKeys) /\ forget # << >>
        BY ForgetsTyped
    <2>2. \A k \in keys : copies[k] # "none" =>
              k \in lapses' \/ \E i \in DOMAIN forget : k \in forget[i]
        OBVIOUS
    <2>3. CommitThenForget(s, keys, forget) /\ lapses \subseteq lapses' /\ errand[s].at # "forget"
        BY <1>2
    <2> HIDE DEF keys, forget
    <2>4. QED
        BY <2>1, <2>2, <2>3, CommitForgets
<1>4. /\ profile'[c].name = "real" /\ profile'[c].at = Nowhere
      /\ \A d \in Customers : d # c => profile'[d] = profile[d]
      /\ profile' \in [Customers -> Profiles]
    BY <1>1 DEF CustomerInv, TablesFit, Profiles
<1>5. TablesFit'
    BY <1>2, <1>3, <1>4 DEF CustomerInv, TablesFit
<1>6. RowsAwait'
    <2> SUFFICES ASSUME NEW q \in Staff, errand'[q].at \in {"readNotes", "commit"}
                 PROVE  LET d == errand'[q].customer IN
                        /\ errand'[q].kind \in {"update", "anonymize"} => profile'[d].name # "absent"
                        /\ errand'[q].kind = "anonymize" /\ d \notin revived =>
                              /\ profile'[d] = errand'[q].seen \/ profile'[d] = Blank
                              /\ errand'[q].at = "commit" /\ note[d] = "written" =>
                                    errand'[q].seenNote = "written"
        BY <1>2 DEF RowsAwait
    <2>1. q # s
        BY <1>3
    <2>2. errand[q].customer \in Customers
        BY ReadersTyped
    <2>3. errand[q].kind \in {"update", "anonymize"} => errand[q].customer # c
        BY <1>2, <1>3, <2>1 DEF CustomerInv, RowsAwait
    <2>4. QED
        BY <1>3, <1>4, <2>1, <2>2, <2>3 DEF CustomerInv, RowsAwait
<1>7. ErasedCustomerIsBlank' /\ PinIsAtAddress'
    BY <1>2, <1>4 DEF CustomerInv, ErasedCustomerIsBlank, PinIsAtAddress
<1>8. QED
    BY <1>3, <1>5, <1>6, <1>7 DEF CustomerInv

\* An update writes the columns in which it differs from what it has loaded.
LEMMA UpdateStep ==
    ASSUME CustomerInv, NEW s \in Staff, CommitUpdate(s)
    PROVE  CustomerInv'
<1> DEFINE c == errand[s].customer
           seen == errand[s].seen
           stored == profile[c]
<1>1. PICK named \in BOOLEAN, found \in BOOLEAN, payload \in Payloads :
          /\ profile' = [profile EXCEPT ![c] =
                FlushedProfile(seen, Merged(seen, Geocoded(payload, found), named), stored)]
          /\ misplaced' = IF Blurs(payload, found) \/ seen # stored THEN misplaced \union {c}
                          ELSE IF payload.address # Unset THEN misplaced \ {c} ELSE misplaced
    BY DEF CommitUpdate
<1>2. /\ errand[s].at = "commit" /\ errand[s].kind = "update" /\ WritesPerson(c)
      /\ CommitThenForget(s, {ProfileKey(c), ListKey}, <<{ProfileKey(c)}, {ListKey}>>)
      /\ note' = note /\ lapses' = lapses
    BY DEF CommitUpdate, AtCommit
<1>3. /\ errand[s] \in ErrandStates /\ c \in Customers /\ seen \in Profiles /\ stored \in Profiles
    BY ReadersTyped DEF CustomerInv, TablesFit, ErrandStates
<1> HIDE DEF c, seen
<1>4. /\ ErrandsFit' /\ OldCopyHasCause'
      /\ copies' \in [CopyKeys -> {"none", "current", "old"}]
      /\ errand'[s].at = "forget"
      /\ \A q \in Staff : q # s =>
            /\ errand'[q].at = errand[q].at /\ errand'[q].kind = errand[q].kind
            /\ errand'[q].customer = errand[q].customer
            /\ errand'[q].seen = errand[q].seen /\ errand'[q].seenNote = errand[q].seenNote
    BY <1>2, <1>3, ProfileForgotten
<1> DEFINE new == FlushedProfile(seen, Merged(seen, Geocoded(payload, found), named), stored)
<1>5. /\ new \in Profiles
      /\ new.name # stored.name => new.name = "real"
      /\ seen = stored /\ ~Blurs(payload, found) =>
            /\ payload.address # Unset => new.at \in {Nowhere, new.address}
            /\ payload.address = Unset =>
                  new.at = Nowhere \/ (new.at = stored.at /\ new.address = stored.address)
    BY <1>3, UpdateFlushed
<1>6. profile' = [profile EXCEPT ![c] = new]
    BY <1>1
<1> HIDE DEF new, stored
<1>7. /\ profile'[c] = new /\ profile[c] = stored
      /\ \A d \in Customers : d # c => profile'[d] = profile[d]
      /\ profile' \in [Customers -> Profiles]
    BY <1>3, <1>5, <1>6 DEF CustomerInv, TablesFit, stored
<1>8. /\ revived \subseteq revived' /\ revived' \subseteq Customers
      /\ c \notin revived' => stored.name # "deleted" /\ ~ErasureReads(c)
    BY <1>2, <1>3, <1>7, WritesNoted
<1>9. TablesFit'
    <2>1. misplaced' \subseteq Customers
        BY <1>1, <1>3 DEF CustomerInv, TablesFit
    <2>2. QED
        BY <1>2, <1>4, <1>7, <1>8, <2>1 DEF CustomerInv, TablesFit
<1>10. RowsAwait'
    <2> SUFFICES ASSUME NEW q \in Staff, errand'[q].at \in {"readNotes", "commit"}
                 PROVE  LET d == errand'[q].customer IN
                        /\ errand'[q].kind \in {"update", "anonymize"} => profile'[d].name # "absent"
                        /\ errand'[q].kind = "anonymize" /\ d \notin revived' =>
                              /\ profile'[d] = errand'[q].seen \/ profile'[d] = Blank
                              /\ errand'[q].at = "commit" /\ note[d] = "written" =>
                                    errand'[q].seenNote = "written"
        BY <1>2 DEF RowsAwait
    <2>1. /\ q # s /\ errand[q].customer \in Customers
        BY <1>4, ReadersTyped
    <2>2. CASE errand[q].customer = c
        <3>1. errand[q].kind = "anonymize" => c \in revived'
            BY <1>4, <1>8, <2>1, <2>2 DEF ErasureReads
        <3>2. errand[q].kind \in {"update", "anonymize"} => stored.name # "absent"
            BY <1>4, <1>7, <2>1, <2>2 DEF CustomerInv, RowsAwait
        <3>3. QED
            BY <1>4, <1>5, <1>7, <2>1, <2>2, <3>1, <3>2
    <2>3. CASE errand[q].customer # c
        BY <1>4, <1>7, <1>8, <2>1, <2>3 DEF CustomerInv, RowsAwait
    <2>4. QED
        BY <2>2, <2>3
<1>11. ErasedCustomerIsBlank'
    BY <1>2, <1>5, <1>7, <1>8 DEF CustomerInv, ErasedCustomerIsBlank
<1>12. PinIsAtAddress'
    <2> SUFFICES ASSUME NEW d \in Customers, profile'[d].at \notin {Nowhere, profile'[d].address}
                 PROVE  d \in misplaced'
        BY DEF PinIsAtAddress
    <2>1. CASE d # c
        BY <1>1, <1>7, <2>1 DEF CustomerInv, PinIsAtAddress
    <2>2. CASE d = c
        <3>1. CASE Blurs(payload, found) \/ seen # stored
            BY <1>1, <1>7, <2>2, <3>1
        <3>2. CASE ~(Blurs(payload, found) \/ seen # stored)
            <4>1. payload.address = Unset /\ new.at = stored.at /\ new.address = stored.address
                BY <1>5, <1>7, <2>2, <3>2
            <4>2. misplaced' = misplaced
                BY <1>1, <1>7, <3>2, <4>1
            <4>3. QED
                BY <1>3, <1>7, <2>2, <4>1, <4>2 DEF CustomerInv, PinIsAtAddress
        <3>3. QED
            BY <3>1, <3>2
    <2>3. QED
        BY <2>1, <2>2
<1>13. QED
    BY <1>4, <1>9, <1>10, <1>11, <1>12 DEF CustomerInv

\* A customer is deleted, with the notes.
LEMMA DeleteStep ==
    ASSUME CustomerInv, NEW s \in Staff, CommitDelete(s)
    PROVE  CustomerInv'
<1> DEFINE c == errand[s].customer
<1>1. /\ errand[s].at = "commit" /\ UNCHANGED customerRows /\ lapses' = lapses
      /\ CommitThenForget(s, {ProfileKey(c), ListKey}, <<{ProfileKey(c)}, {ListKey}>>)
    BY DEF CommitDelete, AtCommit
<1>2. c \in Customers
    BY ReadersTyped
<1> HIDE DEF c
<1>3. /\ ErrandsFit' /\ OldCopyHasCause'
      /\ copies' \in [CopyKeys -> {"none", "current", "old"}]
      /\ errand'[s].at = "forget"
      /\ \A q \in Staff : q # s =>
            /\ errand'[q].at = errand[q].at /\ errand'[q].kind = errand[q].kind
            /\ errand'[q].customer = errand[q].customer
            /\ errand'[q].seen = errand[q].seen /\ errand'[q].seenNote = errand[q].seenNote
    BY <1>1, <1>2, ProfileForgotten
<1>4. TablesFit'
    BY <1>1, <1>3 DEF CustomerInv, TablesFit, customerRows
<1>5. RowsAwait' /\ ErasedCustomerIsBlank' /\ PinIsAtAddress'
    BY <1>1, <1>3, RowsRest
<1>6. QED
    BY <1>3, <1>4, <1>5 DEF CustomerInv

\* A note is written, changed or removed.
LEMMA NoteStep ==
    ASSUME CustomerInv, NEW s \in Staff,
           CommitNote(s) \/ CommitNoteChange(s) \/ CommitNoteDrop(s)
    PROVE  CustomerInv'
<1> DEFINE c == errand[s].customer
<1>1. errand[s].at = "commit" /\ UNCHANGED <<profile, lapses, misplaced>>
    BY DEF CommitNote, CommitNoteChange, CommitNoteDrop, AtCommit
<1>2. c \in Customers
    BY ReadersTyped
<1>3. CASE Turn(s, "idle") /\ UNCHANGED <<note, revived, copies>>
    <2>1. PICK next \in ErrandStates :
              errand' = [errand EXCEPT ![s] = next] /\ next.at = "idle" /\ next.forget = << >>
        BY <1>3, TurnTyped DEF ErrandPlaces
    <2>2. QED
        BY <1>1, <1>3, <2>1, ErrandOnly DEF customerRows
<1>4. ASSUME NEW word \in {"none", "written"}, NEW going \in {{NotesKey(c)}, AllNotes},
             note' = [note EXCEPT ![c] = word],
             \/ word = "written" /\ WritesPerson(c)
             \/ word = "none" /\ revived' = revived,
             CommitThenForget(s, {NotesKey(c)}, <<going>>)
      PROVE  CustomerInv'
    <2> HIDE DEF c
    <2>1. /\ ErrandsFit' /\ OldCopyHasCause'
          /\ copies' \in [CopyKeys -> {"none", "current", "old"}]
          /\ errand'[s].at = "forget"
          /\ \A q \in Staff : q # s =>
                /\ errand'[q].at = errand[q].at /\ errand'[q].kind = errand[q].kind
                /\ errand'[q].customer = errand[q].customer
                /\ errand'[q].seen = errand[q].seen /\ errand'[q].seenNote = errand[q].seenNote
        BY <1>1, <1>2, <1>4, NotesForgotten
    <2>2. /\ revived \subseteq revived' /\ revived' \subseteq Customers
          /\ word = "written" /\ c \notin revived' => profile[c].name # "deleted" /\ ~ErasureReads(c)
        BY <1>2, <1>4, WritesNoted DEF CustomerInv, TablesFit
    <2>3. TablesFit'
        BY <1>1, <1>4, <2>1, <2>2 DEF CustomerInv, TablesFit
    <2>4. RowsAwait' /\ ErasedCustomerIsBlank' /\ PinIsAtAddress'
        BY <1>1, <1>2, <1>4, <2>1, <2>2, NoteMoves
    <2>5. QED
        BY <2>1, <2>3, <2>4 DEF CustomerInv
<1>5. CASE CommitThenForget(s, {}, <<AllNotes>>) /\ UNCHANGED <<note, revived>>
    <2> HIDE DEF c
    <2>1. /\ ErrandsFit' /\ OldCopyHasCause'
          /\ copies' \in [CopyKeys -> {"none", "current", "old"}]
          /\ errand'[s].at = "forget"
          /\ \A q \in Staff : q # s =>
                /\ errand'[q].at = errand[q].at /\ errand'[q].kind = errand[q].kind
                /\ errand'[q].customer = errand[q].customer
                /\ errand'[q].seen = errand[q].seen /\ errand'[q].seenNote = errand[q].seenNote
        BY <1>1, <1>2, <1>5, NotesForgotten
    <2>2. TablesFit'
        BY <1>1, <1>5, <2>1 DEF CustomerInv, TablesFit
    <2>3. RowsAwait' /\ ErasedCustomerIsBlank' /\ PinIsAtAddress'
        BY <1>1, <1>5, <2>1, RowsRest DEF customerRows
    <2>4. QED
        BY <2>1, <2>2, <2>3 DEF CustomerInv
<1>6. QED
    BY <1>3, <1>4, <1>5 DEF CommitNote, CommitNoteChange, CommitNoteDrop

\* An erasure writes the fields it has loaded; what it may have missed is of
\* customers that somebody wrote to meanwhile.
LEMMA ErasureStep ==
    ASSUME CustomerInv, NEW s \in Staff, CommitErasure(s)
    PROVE  CustomerInv'
<1> DEFINE c == errand[s].customer
           seen == errand[s].seen
           stored == profile[c]
           new == FlushedProfile(seen, ErasedProfile(seen), stored)
           word == IF errand[s].seenNote = "written" THEN "removed" ELSE note[c]
<1>1. errand[s].at = "commit" /\ errand[s].kind = "anonymize" /\ revived' = revived
    BY DEF CommitErasure, AtCommit
<1>2. /\ errand[s] \in ErrandStates /\ c \in Customers /\ seen \in Profiles /\ stored \in Profiles
    BY ReadersTyped DEF CustomerInv, TablesFit, ErrandStates
<1>3. CASE Turn(s, "idle") /\ UNCHANGED <<profile, note, copies, lapses, misplaced>>
    <2>1. PICK next \in ErrandStates :
              errand' = [errand EXCEPT ![s] = next] /\ next.at = "idle" /\ next.forget = << >>
        BY <1>1, <1>3, TurnTyped DEF ErrandPlaces
    <2>2. QED
        BY <1>1, <1>3, <2>1, ErrandOnly DEF customerRows
<1>4. CASE ~(Turn(s, "idle") /\ UNCHANGED <<profile, note, copies, lapses, misplaced>>)
    <2>1. /\ profile' = [profile EXCEPT ![c] = new] /\ note' = [note EXCEPT ![c] = word]
          /\ misplaced' = IF seen # stored THEN misplaced \union {c} ELSE misplaced \ {c}
          /\ CommitThenForget(s, {ProfileKey(c), NotesKey(c), ListKey}, ErasureForgets(c))
          /\ lapses' = lapses \union ({NotesKey(c)} \intersect {k \in CopyKeys : copies[k] # "none"})
        BY <1>4 DEF CommitErasure
    <2>2. /\ new \in Profiles /\ (stored.name # "absent" => new.name # "absent")
          /\ (seen = stored => new.at = Nowhere) /\ (stored = seen \/ stored = Blank => new = Blank)
        BY <1>2, ErasureFlushed
    <2>3. /\ c \notin revived => (stored = seen \/ stored = Blank) /\ word # "written"
          /\ stored.name # "absent" /\ word \in {"none", "written", "removed"}
        BY <1>1, <1>2 DEF CustomerInv, RowsAwait, TablesFit
    <2> HIDE DEF new, word, c, seen, stored
    <2>4. /\ ErrandsFit' /\ OldCopyHasCause'
          /\ copies' \in [CopyKeys -> {"none", "current", "old"}]
          /\ errand'[s].at = "forget"
          /\ \A q \in Staff : q # s =>
                /\ errand'[q].at = errand[q].at /\ errand'[q].kind = errand[q].kind
                /\ errand'[q].customer = errand[q].customer
                /\ errand'[q].seen = errand[q].seen /\ errand'[q].seenNote = errand[q].seenNote
        <3> DEFINE keys == {ProfileKey(c), NotesKey(c), ListKey}
                   forget == ErasureForgets(c)
        <3>1. /\ keys \in SUBSET CopyKeys /\ forget \in Seq(SUBSET CopyKeys) /\ forget # << >>
            BY <1>2, ForgetsTyped
        <3>2. \A k \in keys : copies[k] # "none" =>
                  k \in lapses' \/ \E i \in DOMAIN forget : k \in forget[i]
            <4>1. 1 \in DOMAIN forget /\ 2 \in DOMAIN forget
                BY DEF ErasureForgets
            <4>2. ProfileKey(c) \in forget[1] /\ ListKey \in forget[2]
                BY DEF ErasureForgets
            <4>3. copies[NotesKey(c)] # "none" => NotesKey(c) \in lapses'
                BY <2>1, <3>1
            <4>4. QED
                BY <4>1, <4>2, <4>3
        <3>3. CommitThenForget(s, keys, forget) /\ lapses \subseteq lapses' /\ errand[s].at # "forget"
            BY <1>1, <2>1
        <3> HIDE DEF keys, forget
        <3>4. QED
            BY <3>1, <3>2, <3>3, CommitForgets
    <2>5. /\ profile'[c] = new /\ profile[c] = stored
          /\ \A d \in Customers : d # c => profile'[d] = profile[d]
          /\ profile' \in [Customers -> Profiles]
          /\ note'[c] = word /\ \A d \in Customers : d # c => note'[d] = note[d]
          /\ note' \in [Customers -> {"none", "written", "removed"}]
        BY <1>2, <2>1, <2>2, <2>3 DEF CustomerInv, TablesFit, stored
    <2>6. TablesFit'
        <3>1. misplaced' \subseteq Customers /\ lapses' \subseteq CopyKeys
            BY <1>2, <2>1 DEF CustomerInv, TablesFit
        <3>2. QED
            BY <1>1, <2>4, <2>5, <3>1 DEF CustomerInv, TablesFit
    <2>7. RowsAwait'
        <3> SUFFICES ASSUME NEW q \in Staff, errand'[q].at \in {"readNotes", "commit"}
                     PROVE  LET d == errand'[q].customer IN
                            /\ errand'[q].kind \in {"update", "anonymize"} => profile'[d].name # "absent"
                            /\ errand'[q].kind = "anonymize" /\ d \notin revived =>
                                  /\ profile'[d] = errand'[q].seen \/ profile'[d] = Blank
                                  /\ errand'[q].at = "commit" /\ note'[d] = "written" =>
                                        errand'[q].seenNote = "written"
            BY <1>1 DEF RowsAwait
        <3>1. q # s /\ errand[q].customer \in Customers
            BY <2>4, ReadersTyped
        <3>2. CASE errand[q].customer = c
            BY <2>2, <2>3, <2>4, <2>5, <3>1, <3>2
        <3>3. CASE errand[q].customer # c
            BY <2>4, <2>5, <3>1, <3>3 DEF CustomerInv, RowsAwait
        <3>4. QED
            BY <3>2, <3>3
    <2>8. ErasedCustomerIsBlank'
        <3>1. c \notin revived => new = Blank /\ word # "written"
            BY <2>2, <2>3
        <3>2. Blank.address = Nowhere /\ Blank.at = Nowhere
            BY DEF Blank
        <3>3. QED
            BY <1>1, <2>5, <3>1, <3>2 DEF CustomerInv, ErasedCustomerIsBlank
    <2>9. PinIsAtAddress'
        BY <1>2, <2>1, <2>2, <2>5 DEF CustomerInv, PinIsAtAddress
    <2>10. QED
        BY <2>4, <2>6, <2>7, <2>8, <2>9 DEF CustomerInv
<1>5. QED
    BY <1>3, <1>4

-----------------------------------------------------------------------------
(* Deletions *)

\* Past one deletion, only its keys are no longer awaited.
LEMMA PastDeletion ==
    ASSUME CustomerInv, NEW s \in Staff, errand[s].at = "forget",
           errand' = [errand EXCEPT ![s] =
               IF Len(errand[s].forget) = 1 THEN AtRest
               ELSE [errand[s] EXCEPT !.forget = Tail(errand[s].forget)]]
    PROVE  /\ ErrandsFit' /\ Head(errand[s].forget) \subseteq CopyKeys
           /\ \A q \in Staff : errand'[q].at \in {"readNotes", "commit"} => errand'[q] = errand[q]
           /\ \A k, q : q \in Staff /\ (\E i \in DOMAIN errand[q].forget : k \in errand[q].forget[i]) =>
                 \/ k \in Head(errand[s].forget)
                 \/ \E i \in DOMAIN errand'[q].forget : k \in errand'[q].forget[i]
<1> DEFINE left == errand[s].forget
           next == IF Len(left) = 1 THEN AtRest ELSE [errand[s] EXCEPT !.forget = Tail(left)]
<1>1. /\ errand[s] \in ErrandStates /\ left \in Seq(SUBSET CopyKeys) /\ left # << >>
      /\ Len(left) \in Nat \ {0} /\ DOMAIN left = 1..Len(left)
    <2>1. errand[s] \in ErrandStates /\ left \in Seq(SUBSET CopyKeys) /\ left # << >>
        BY ReadersTyped DEF CustomerInv, ErrandsFit, ErrandStates
    <2>2. QED
        BY <2>1
<1>2. Head(left) = left[1] /\ Head(left) \subseteq CopyKeys
    BY <1>1
<1>3. errand' = [errand EXCEPT ![s] = next]
    OBVIOUS
<1>4. /\ next \in ErrandStates /\ (next.at = "forget" <=> next.forget # << >>)
      /\ next.at \in {"idle", "forget"}
      /\ \A i \in DOMAIN left : i = 1 \/ \E j \in DOMAIN next.forget : next.forget[j] = left[i]
    <2>1. CASE Len(left) = 1
        BY <1>1, <2>1, AtRestTyped
    <2>2. CASE Len(left) # 1
        <3> DEFINE tail == Tail(left)
        <3>1. /\ tail \in Seq(SUBSET CopyKeys) /\ Len(tail) = Len(left) - 1
              /\ \A j \in 1..(Len(left) - 1) : tail[j] = left[j + 1]
            BY <1>1
        <3> HIDE DEF tail
        <3> DEFINE long == Len(left)
        <3> HIDE DEF long
        <3>2. Len(tail) > 0 /\ DOMAIN tail = 1..(Len(left) - 1)
            <4>1. long \in Nat \ {0} /\ long # 1 /\ Len(tail) = long - 1
                BY <1>1, <2>2, <3>1 DEF long
            <4>2. Len(tail) > 0
                BY <4>1
            <4>3. DOMAIN tail = 1..Len(tail)
                BY <3>1
            <4>4. QED
                BY <4>1, <4>2, <4>3 DEF long
        <3>3. tail # << >>
            BY <3>1, <3>2
        <3>4. next = [errand[s] EXCEPT !.forget = tail]
            BY <2>2 DEF tail
        <3>5. next \in ErrandStates /\ next.at = "forget" /\ next.forget = tail
            BY <1>1, <3>1, <3>4 DEF ErrandStates
        <3>6. ASSUME NEW i \in DOMAIN left, i # 1
              PROVE  \E j \in DOMAIN tail : tail[j] = left[i]
            <4>1. i - 1 \in 1..(Len(left) - 1) /\ (i - 1) + 1 = i
                BY <1>1, <3>6
            <4>2. tail[i - 1] = left[i] /\ i - 1 \in DOMAIN tail
                BY <3>1, <3>2, <4>1
            <4>3. QED
                BY <4>2
        <3>7. QED
            BY <3>3, <3>5, <3>6
    <2>3. QED
        BY <2>1, <2>2
<1> HIDE DEF next
<1>5. /\ ErrandsFit' /\ errand'[s] = next /\ \A q \in Staff : q # s => errand'[q] = errand[q]
    BY <1>3, <1>4, ErrandMoves
<1>6. \A k, q : q \in Staff /\ (\E i \in DOMAIN errand[q].forget : k \in errand[q].forget[i]) =>
          \/ k \in Head(left)
          \/ \E i \in DOMAIN errand'[q].forget : k \in errand'[q].forget[i]
    <2> SUFFICES ASSUME NEW k, NEW q \in Staff, NEW i \in DOMAIN errand[q].forget,
                        k \in errand[q].forget[i], k \notin Head(left)
                 PROVE  \E j \in DOMAIN errand'[q].forget : k \in errand'[q].forget[j]
        OBVIOUS
    <2>1. CASE q = s
        <3>1. i \in DOMAIN left /\ k \in left[i] /\ i # 1
            BY <1>2, <2>1
        <3>2. PICK j \in DOMAIN next.forget : next.forget[j] = left[i]
            BY <1>4, <3>1
        <3>3. QED
            BY <1>5, <2>1, <3>1, <3>2
    <2>2. CASE q # s
        BY <1>5, <2>2
    <2>3. QED
        BY <2>1, <2>2
<1>7. QED
    BY <1>2, <1>4, <1>5, <1>6

\* Redis deletes the first of the entries that are left, or refuses.
LEMMA ForgetStep ==
    ASSUME CustomerInv, NEW s \in Staff, Forget(s) \/ ForgetFails(s)
    PROVE  CustomerInv'
<1> DEFINE going == Head(errand[s].forget)
<1>1. /\ errand[s].at = "forget" /\ UNCHANGED customerRows
      /\ errand' = [errand EXCEPT ![s] =
            IF Len(errand[s].forget) = 1 THEN AtRest
            ELSE [errand[s] EXCEPT !.forget = Tail(errand[s].forget)]]
    BY DEF Forget, ForgetFails
<1>2. /\ ErrandsFit' /\ going \subseteq CopyKeys
      /\ \A q \in Staff : errand'[q].at \in {"readNotes", "commit"} => errand'[q] = errand[q]
      /\ \A k, q : q \in Staff /\ (\E i \in DOMAIN errand[q].forget : k \in errand[q].forget[i]) =>
            \/ k \in going
            \/ \E i \in DOMAIN errand'[q].forget : k \in errand'[q].forget[i]
    BY <1>1, PastDeletion
<1>3. \/ /\ copies' = [k \in CopyKeys |-> IF k \in going THEN "none" ELSE copies[k]]
         /\ lapses' = lapses \ going
      \/ copies' = copies /\ lapses' = lapses \union (going \intersect Old)
    BY DEF Forget, ForgetFails
<1> HIDE DEF going
<1>4. TablesFit'
    BY <1>1, <1>2, <1>3 DEF CustomerInv, TablesFit, customerRows
<1>5. OldCopyHasCause'
    <2> SUFFICES ASSUME NEW k \in CopyKeys, copies'[k] = "old"
                 PROVE  \/ k \in lapses'
                        \/ \E q \in Staff : \E i \in DOMAIN errand'[q].forget :
                              k \in errand'[q].forget[i]
        BY DEF OldCopyHasCause
    <2>1. copies[k] = "old" /\ (k \in going => k \in lapses') /\ (k \in lapses => k \in lapses')
        BY <1>3 DEF Old
    <2>2. \/ k \in lapses
          \/ \E q \in Staff : \E i \in DOMAIN errand[q].forget : k \in errand[q].forget[i]
        BY <2>1 DEF CustomerInv, OldCopyHasCause
    <2>3. QED
        BY <1>2, <2>1, <2>2
<1>6. RowsAwait' /\ ErasedCustomerIsBlank' /\ PinIsAtAddress'
    BY <1>1, <1>2, RowsRest
<1>7. QED
    BY <1>2, <1>4, <1>5, <1>6 DEF CustomerInv

\* What a request that is cut off had still to delete is noted.
LEMMA CutStep ==
    ASSUME CustomerInv, NEW s \in Staff, CutOff(s)
    PROVE  CustomerInv'
<1> DEFINE left == UNION {errand[s].forget[i] : i \in DOMAIN errand[s].forget}
<1>1. /\ Turn(s, "idle") /\ lapses' = lapses \union (Old \intersect left)
      /\ UNCHANGED customerRows /\ copies' = copies
    BY DEF CutOff
<1>2. PICK next \in ErrandStates :
          errand' = [errand EXCEPT ![s] = next] /\ next.at = "idle" /\ next.forget = << >>
    BY <1>1, TurnTyped DEF ErrandPlaces
<1>3. /\ ErrandsFit' /\ errand'[s] = next /\ \A q \in Staff : q # s => errand'[q] = errand[q]
    BY <1>2, ErrandMoves
<1>4. TablesFit'
    BY <1>1 DEF CustomerInv, TablesFit, customerRows, Old
<1>5. OldCopyHasCause'
    <2> SUFFICES ASSUME NEW k \in CopyKeys, copies'[k] = "old"
                 PROVE  \/ k \in lapses'
                        \/ \E q \in Staff : \E i \in DOMAIN errand'[q].forget :
                              k \in errand'[q].forget[i]
        BY DEF OldCopyHasCause
    <2>1. copies[k] = "old" /\ k \in Old
        BY <1>1 DEF Old
    <2>2. \/ k \in lapses
          \/ \E q \in Staff : \E i \in DOMAIN errand[q].forget : k \in errand[q].forget[i]
        BY <2>1 DEF CustomerInv, OldCopyHasCause
    <2>3. QED
        BY <1>1, <1>3, <2>1, <2>2
<1>6. RowsAwait' /\ ErasedCustomerIsBlank' /\ PinIsAtAddress'
    BY <1>1, <1>2, <1>3, RowsRest
<1>7. QED
    BY <1>3, <1>4, <1>5, <1>6 DEF CustomerInv

\* A copy runs out.
LEMMA ExpireStep ==
    ASSUME CustomerInv, NEW k \in CopyKeys, CopyExpires(k)
    PROVE  CustomerInv'
<1>1. /\ copies' = [copies EXCEPT ![k] = "none"] /\ lapses' = lapses \ {k}
      /\ errand' = errand /\ UNCHANGED customerRows
    BY DEF CopyExpires
<1>2. ErrandsFit' /\ TablesFit'
    BY <1>1 DEF CustomerInv, ErrandsFit, TablesFit, customerRows
<1>3. OldCopyHasCause'
    BY <1>1 DEF CustomerInv, TablesFit, OldCopyHasCause
<1>4. RowsAwait' /\ ErasedCustomerIsBlank' /\ PinIsAtAddress'
    BY <1>1, RowsRest
<1>5. QED
    BY <1>2, <1>3, <1>4 DEF CustomerInv

-----------------------------------------------------------------------------

\* Every step keeps the invariant.
LEMMA NextCustomers == CustomerInv /\ [CustomerNext]_customerVars => CustomerInv'
<1> SUFFICES ASSUME CustomerInv, [CustomerNext]_customerVars
             PROVE  CustomerInv'
    OBVIOUS
<1>1. ASSUME NEW s \in Staff, NEW c \in Customers,
             \/ ShowCustomer(s, c) \/ ListNotes(s, c) \/ ExportCustomer(s, c)
             \/ UpdateCustomer(s, c) \/ DeleteCustomer(s, c)
             \/ CreateNote(s, c) \/ UpdateNote(s, c) \/ DeleteNote(s, c)
             \/ AnonymizeCustomer(s, c)
      PROVE  CustomerInv'
    <2>1. PICK kind \in Errands : CheckTenantFor(s, kind, c)
        BY <1>1 DEF Errands, ShowCustomer, ListNotes, ExportCustomer, UpdateCustomer,
                    DeleteCustomer, CreateNote, UpdateNote, DeleteNote, AnonymizeCustomer
    <2>2. QED
        BY <2>1, CheckStep
<1>2. ASSUME NEW s \in Staff, NEW c \in Customers, CreateCustomer(s, c)
      PROVE  CustomerInv'
    BY <1>2, CreateStep
<1>3. ASSUME NEW s \in Staff,
             \/ ListCustomers(s) \/ FetchNotes(s) \/ Keep(s) \/ Arrive(s) \/ ReadNotes(s)
      PROVE  CustomerInv'
    BY <1>3, ReadStep, KeepStep, ArriveStep, ReadNotesStep
<1>4. ASSUME NEW s \in Staff,
             \/ CommitUpdate(s) \/ CommitDelete(s) \/ CommitNote(s)
             \/ CommitNoteChange(s) \/ CommitNoteDrop(s) \/ CommitErasure(s)
      PROVE  CustomerInv'
    BY <1>4, UpdateStep, DeleteStep, NoteStep, ErasureStep
<1>5. ASSUME NEW s \in Staff, Forget(s) \/ ForgetFails(s) \/ CutOff(s)
      PROVE  CustomerInv'
    BY <1>5, ForgetStep, CutStep
<1>6. ASSUME NEW k \in CopyKeys, CopyExpires(k)
      PROVE  CustomerInv'
    BY <1>6, ExpireStep
<1>7. ASSUME UNCHANGED customerVars
      PROVE  CustomerInv'
    BY <1>7 DEF customerVars, CustomerInv, ErrandsFit, TablesFit, OldCopyHasCause, RowsAwait,
                ErasedCustomerIsBlank, PinIsAtAddress
<1>8. QED
    BY <1>1, <1>2, <1>3, <1>4, <1>5, <1>6, <1>7 DEF CustomerNext

\* Every reachable state of CustomerRecords satisfies the invariant.
THEOREM CustomerInvariant == CustomerSpec => []CustomerInv
BY InitCustomers, NextCustomers, PTL DEF CustomerSpec

\* Rows, copies and requests keep their types.
THEOREM CustomerTypeCorrect == CustomerSpec => []CustomerTypeOK
BY CustomerInvariant, InvGivesCustomerType, PTL

\* A profile, list or notes that Redis holds for customer-bl-service is what the
\* tables say, unless the writer is still to delete it, a reader stored what it
\* had read before a commit, a deletion failed or was cut off, or an erasure
\* left the notes where they were.
THEOREM OldCopiesHaveCause == CustomerSpec => []OldCopyHasCause
<1>1. CustomerInv => OldCopyHasCause
    BY DEF CustomerInv
<1>2. QED
    BY <1>1, CustomerInvariant, PTL

\* Nothing is left of an erased customer, neither the address nor its place nor
\* a text, although the erasure flushes only what differs from what it loaded,
\* unless somebody wrote to the customer after the erasure had begun to read.
THEOREM ErasedCustomersAreBlank == CustomerSpec => []ErasedCustomerIsBlank
<1>1. CustomerInv => ErasedCustomerIsBlank
    BY DEF CustomerInv
<1>2. QED
    BY <1>1, CustomerInvariant, PTL

\* The coordinates of a customer are those of the address, unless a request sent
\* others or an address that was not found, or two requests wrote the row, one
\* from what it had loaded before the other's commit.
THEOREM PinsAreAtAddresses == CustomerSpec => []PinIsAtAddress
<1>1. CustomerInv => PinIsAtAddress
    BY DEF CustomerInv
<1>2. QED
    BY <1>1, CustomerInvariant, PTL

-----------------------------------------------------------------------------
(***************************************************************************)
(* MessageDelivery.  A row of the log says what Twilio has reported, and a *)
(* request on its way what is still to be logged.                          *)
(***************************************************************************)

\* What a message has been when it has come to a fate: Twilio reports no step back.
Passed(fate) ==
    CASE fate = "queued" -> {"queued"}
      [] fate = "sent" -> {"queued", "sent"}
      [] fate = "delivered" -> {"queued", "sent", "delivered"}
      [] fate = "read" -> {"queued", "sent", "delivered", "read"}
      [] fate = "failed" -> {"queued", "sent", "failed"}
      [] OTHER -> {}

\* Nothing is at Twilio, and nothing in the log, before a request comes to it.
Along(d) ==
    /\ delivery[d].at # "done" => entry[d]["chat"] = "none"
    /\ delivery[d].at \notin {"logChat", "done"} => transit[d] = "none"
    /\ delivery[d].at = "logChat" /\ ~delivery[d].ok => transit[d] = "none"
    /\ delivery[d].at = "new" => \A ch \in Channels : sender[d][ch] = "none"
    /\ known[d] # "none" => entry[d]["chat"] # "none"

\* A request under way for a customer without consent began with it.
ConsentAsked ==
    \A d \in Deliveries :
        delivery[d].at \notin {"new", "done"} /\ delivery[d].kind = "welcome" /\ ~consent =>
            d \in withdrew

\* What Twilio reports has come to pass, on the way or loaded.
ReceiptsAreTrue ==
    /\ \A d \in Deliveries, status \in Fates :
          <<d, status>> \in receipts => status \in Passed(transit[d])
    /\ \A h \in Hooks : hook[h].at = "commit" =>
          /\ hook[h].status \in Passed(transit[hook[h].of])
          /\ entry[hook[h].of]["chat"] # "none"

\* Where the log of a channel is written.
LogPlace == [mail |-> "logMail", chat |-> "logChat"]

\* The row of an attempt is the next thing that is written.
RowsAreNext ==
    \A d \in Deliveries, ch \in Channels :
        <<d, ch>> \in attempted /\ entry[d][ch] = "none" =>
            d \in unlogged \/ delivery[d].at = LogPlace[ch]

\* The invariant.
MessagesInv ==
    /\ DeliveryTypeOK
    /\ \A d \in Deliveries : Along(d)
    /\ ConsentAsked
    /\ ReceiptsAreTrue
    /\ RowsAreNext
    /\ LogIsTrue
    /\ StatusHoldsItsGround
    /\ PrunedIsSettled
    /\ FirstTierIsUsed
    /\ UnwantedHasCause

\* The order of statuses, by which a receipt never goes back.
LEMMA Ranks ==
    /\ Rank["none"] = 0 /\ Rank["pruned"] = 0 /\ Rank["queued"] = 1 /\ Rank["pending"] = 1
    /\ Rank["sent"] = 2 /\ Rank["delivered"] = 3 /\ Rank["failed"] = 3 /\ Rank["read"] = 4
BY DEF Rank

\* A status of Twilio becomes a status of the log with the same rank.
LEMMA StatusKeepsRank ==
    ASSUME NEW status \in Fates
    PROVE  /\ StatusOf(status) \in LogStatuses \ {"none", "pruned"}
           /\ Rank[StatusOf(status)] = Rank[status] /\ Rank[status] \in 1..4
           /\ StatusOf(status) \in {"delivered", "read", "failed"} => status = StatusOf(status)
BY Ranks DEF Fates, StatusOf, LogStatuses

\* A later fate has passed by all that the earlier one had.
LEMMA PassedGrows ==
    ASSUME NEW fate \in Fates, NEW later \in Follows[fate]
    PROVE  /\ later \in Fates /\ Passed(fate) \subseteq Passed(later)
           /\ later \in Passed(later)
           /\ fate \notin {"read", "failed"}
           /\ fate = "delivered" => later = "read"
BY DEF Fates, Follows, Passed

\* What stands for no call of the webhook.
LEMMA QuietTyped ==
    /\ Quiet \in [at : {"idle", "commit"}, of : Deliveries, status : Fates, seen : LogStatuses]
    /\ Quiet.at = "idle"
BY DeliveriesAssumption DEF Quiet, Fates, LogStatuses

\* A channel has one place where its log is written.
LEMMA LogPlaces ==
    /\ "mail" \in Channels /\ "chat" \in Channels
    /\ \A ch \in Channels :
          \/ ch = "mail" /\ LogPlace[ch] = "logMail"
          \/ ch = "chat" /\ LogPlace[ch] = "logChat"
BY DEF Channels, LogPlace

\* At first no message is sent and nothing is logged.
LEMMA InitMessages == MessagesInit => MessagesInv
<1> SUFFICES ASSUME MessagesInit PROVE MessagesInv
    OBVIOUS
<1>1. DeliveryTypeOK
    BY QuietTyped DEF MessagesInit, DeliveryTypeOK, Unasked, Channels, LogStatuses, Tiers, Fates
<1>2. \A d \in Deliveries : Along(d)
    BY DEF MessagesInit, Along, Unasked, Channels
<1>3. ConsentAsked /\ ReceiptsAreTrue /\ RowsAreNext
    BY QuietTyped DEF MessagesInit, ConsentAsked, ReceiptsAreTrue, RowsAreNext, Unasked
<1>4. LogIsTrue /\ StatusHoldsItsGround /\ PrunedIsSettled
    BY Ranks DEF MessagesInit, LogIsTrue, StatusHoldsItsGround, PrunedIsSettled, Channels
<1>5. FirstTierIsUsed /\ UnwantedHasCause
    BY DEF MessagesInit, FirstTierIsUsed, UnwantedHasCause
<1>6. QED
    BY <1>1, <1>2, <1>3, <1>4, <1>5 DEF MessagesInv

\* What a request holds.
DeliveryStates ==
    [at : {"new", "resolveMail", "sendMail", "logMail",
           "resolveChat", "sendChat", "logChat", "done"},
     kind : {"welcome", "test", "manual"}, wants : SUBSET Channels, ok : BOOLEAN,
     super : BOOLEAN]

\* Only one request moves, and only itself: it begins, ends or is set up.
LEMMA RequestMoves ==
    ASSUME MessagesInv, NEW d \in Deliveries, NEW next \in DeliveryStates,
           delivery' = [delivery EXCEPT ![d] = next],
           UNCHANGED <<deliverySettings, consent, deliveryRows, hook, deliveryHistory>>,
           delivery[d].at = "new", next.at # "logChat",
           next.kind = "welcome" => consent
    PROVE  MessagesInv'
<1>1. /\ delivery'[d] = next /\ \A e \in Deliveries : e # d => delivery'[e] = delivery[e]
      /\ UNCHANGED <<own, platform, fallback, consent, entry, sender, transit, receipts, hook,
                     known, disordered, attempted, unlogged, blind, withdrew, unwanted>>
    BY DEF MessagesInv, DeliveryTypeOK, deliverySettings, deliveryRows, deliveryHistory
<1>2. DeliveryTypeOK'
    BY <1>1 DEF MessagesInv, DeliveryTypeOK, DeliveryStates
<1>3. \A e \in Deliveries : Along(e)'
    BY <1>1 DEF MessagesInv, Along
<1>4. ConsentAsked'
    BY <1>1 DEF MessagesInv, ConsentAsked
<1>5. ReceiptsAreTrue'
    BY <1>1 DEF MessagesInv, ReceiptsAreTrue
<1>6. RowsAreNext'
    BY <1>1 DEF MessagesInv, RowsAreNext, LogPlace, Channels
<1>7. LogIsTrue' /\ StatusHoldsItsGround' /\ PrunedIsSettled' /\ UnwantedHasCause'
    BY <1>1 DEF MessagesInv, LogIsTrue, StatusHoldsItsGround, PrunedIsSettled, UnwantedHasCause
<1>8. FirstTierIsUsed'
    BY <1>1 DEF MessagesInv, FirstTierIsUsed, Along
<1>9. QED
    BY <1>2, <1>3, <1>4, <1>5, <1>6, <1>7, <1>8 DEF MessagesInv

\* A welcome or a test begins; neither asks for consent.
LEMMA WelcomeStep ==
    ASSUME MessagesInv, NEW d \in Deliveries, SendWelcome(d) \/ SendTest(d)
    PROVE  MessagesInv'
<1>1. /\ delivery[d].at = "new"
      /\ UNCHANGED <<deliverySettings, consent, deliveryRows, hook, deliveryHistory>>
    BY DEF SendWelcome, Welcome, SendTest
<1>2. PICK next \in DeliveryStates :
          /\ delivery' = [delivery EXCEPT ![d] = next] /\ next.at # "logChat"
          /\ next.kind = "welcome" => consent
    <2>1. CASE SendWelcome(d)
        <3>1. PICK wants \in SUBSET Channels, super \in BOOLEAN :
                  delivery' = [delivery EXCEPT ![d] =
                      [Unasked EXCEPT !.wants = wants, !.super = super,
                          !.at = IF "mail" \in wants THEN "resolveMail"
                                 ELSE IF "chat" \in wants THEN "resolveChat" ELSE "done"]]
            BY <2>1 DEF SendWelcome
        <3>2. consent
            BY <2>1 DEF SendWelcome, Welcome
        <3> DEFINE next == [Unasked EXCEPT !.wants = wants, !.super = super,
                          !.at = IF "mail" \in wants THEN "resolveMail"
                                 ELSE IF "chat" \in wants THEN "resolveChat" ELSE "done"]
        <3>3. next \in DeliveryStates /\ next.at # "logChat"
            BY DEF DeliveryStates, Unasked
        <3>4. QED
            BY <3>1, <3>2, <3>3
    <2>2. CASE SendTest(d)
        <3>1. PICK ch \in Channels, super \in BOOLEAN :
                  delivery' = [delivery EXCEPT ![d] =
                      [Unasked EXCEPT !.kind = "test", !.wants = {ch}, !.super = super,
                          !.at = IF ch = "mail" THEN "resolveMail" ELSE "resolveChat"]]
            BY <2>2 DEF SendTest
        <3> DEFINE next == [Unasked EXCEPT !.kind = "test", !.wants = {ch}, !.super = super,
                          !.at = IF ch = "mail" THEN "resolveMail" ELSE "resolveChat"]
        <3>2. next \in DeliveryStates /\ next.at # "logChat" /\ next.kind = "test"
            BY DEF DeliveryStates, Unasked
        <3>3. QED
            BY <3>1, <3>2
    <2>3. QED
        BY <2>1, <2>2
<1>3. QED
    BY <1>1, <1>2, RequestMoves

\* The rows as each step finds them.
LEMMA RowsTyped ==
    ASSUME MessagesInv, NEW d \in Deliveries
    PROVE  /\ entry \in [Deliveries -> [Channels -> LogStatuses]]
           /\ entry[d] \in [Channels -> LogStatuses]
           /\ sender \in [Deliveries -> [Channels -> Tiers]]
           /\ sender[d] \in [Channels -> Tiers]
           /\ transit \in [Deliveries -> Fates \union {"none"}]
           /\ delivery \in [Deliveries -> DeliveryStates] /\ delivery[d] \in DeliveryStates
           /\ known \in [Deliveries -> Fates \union {"none"}]
BY DEF MessagesInv, DeliveryTypeOK, DeliveryStates

\* A row is marked sent.
LEMMA MarkStep ==
    ASSUME MessagesInv, NEW d \in Deliveries, MarkSent(d)
    PROVE  MessagesInv'
<1>1. PICK ch \in Channels : entry' = [entry EXCEPT ![d][ch] = "sent"]
    BY DEF MarkSent
<1> DEFINE next == [Unasked EXCEPT !.kind = "manual", !.at = "done"]
<1>2. /\ delivery[d].at = "new" /\ delivery' = [delivery EXCEPT ![d] = next]
      /\ UNCHANGED <<own, platform, fallback, consent, sender, transit, receipts, hook,
                     known, disordered, attempted, unlogged, blind, withdrew, unwanted>>
    BY DEF MarkSent, deliverySettings, deliveryHistory
<1>3. next \in DeliveryStates /\ next.at = "done" /\ next.kind = "manual"
    BY DEF Unasked, DeliveryStates
<1> HIDE DEF next
<1>4. /\ delivery'[d] = next /\ \A e \in Deliveries : e # d => delivery'[e] = delivery[e]
      /\ \A e \in Deliveries : e # d => entry'[e] = entry[e]
      /\ \A c \in Channels : entry'[d][c] = IF c = ch THEN "sent" ELSE entry[d][c]
    BY <1>1, <1>2, RowsTyped
<1>5. DeliveryTypeOK'
    <2>1. entry' \in [Deliveries -> [Channels -> LogStatuses]]
        BY <1>1, RowsTyped DEF LogStatuses
    <2>2. delivery' \in [Deliveries -> DeliveryStates]
        BY <1>2, <1>3, RowsTyped
    <2>3. QED
        BY <1>2, <2>1, <2>2 DEF MessagesInv, DeliveryTypeOK, DeliveryStates
<1>6. "chat" \in Channels /\ entry[d]["chat"] = "none" /\ known[d] = "none" /\ transit[d] = "none"
    BY <1>2 DEF MessagesInv, Along, Channels
<1>7. \A e \in Deliveries : Along(e)'
    BY <1>2, <1>3, <1>4, <1>6 DEF MessagesInv, Along
<1>8. ConsentAsked'
    BY <1>2, <1>3, <1>4 DEF MessagesInv, ConsentAsked
<1>9. ReceiptsAreTrue'
    <2>1. \A h \in Hooks : hook[h].of \in Deliveries
        BY DEF MessagesInv, DeliveryTypeOK
    <2>2. QED
        BY <1>2, <1>4, <1>6, <2>1 DEF MessagesInv, ReceiptsAreTrue
<1>10. RowsAreNext'
    BY <1>2, <1>3, <1>4, LogPlaces DEF MessagesInv, RowsAreNext
<1>11. LogIsTrue' /\ PrunedIsSettled' /\ StatusHoldsItsGround'
    BY <1>2, <1>4, <1>6, Ranks
        DEF MessagesInv, LogIsTrue, PrunedIsSettled, StatusHoldsItsGround
<1>12. FirstTierIsUsed' /\ UnwantedHasCause'
    BY <1>2, <1>4 DEF MessagesInv, FirstTierIsUsed, UnwantedHasCause, Along
<1>13. QED
    BY <1>5, <1>7, <1>8, <1>9, <1>10, <1>11, <1>12 DEF MessagesInv

-----------------------------------------------------------------------------
(* A request is set up, sends and writes *)

\* Reaching a place changes the place only.
LEMMA ReachTyped ==
    ASSUME MessagesInv, NEW d \in Deliveries, NEW where, Reach(d, where),
           where \in {"resolveMail", "sendMail", "logMail", "resolveChat", "sendChat",
                      "logChat", "done"}
    PROVE  /\ delivery' \in [Deliveries -> DeliveryStates]
           /\ delivery'[d] \in DeliveryStates /\ delivery'[d].at = where
           /\ delivery'[d].kind = delivery[d].kind /\ delivery'[d].ok = delivery[d].ok
           /\ delivery'[d].super = delivery[d].super
           /\ \A e \in Deliveries : e # d => delivery'[e] = delivery[e]
BY RowsTyped DEF Reach, DeliveryStates

\* What the first tier is, from settings that have all been read.
LEMMA TiersInOrder ==
    ASSUME NEW ch \in Channels, NEW mine \in Setups, NEW common \in Setups,
           NEW tier \in {SmtpTier(mine, common), ChatTier(mine, common)}
    PROVE  /\ tier \in Tiers
           /\ mine = "full" => tier = "own"
           /\ tier \in {"env", "link"} => common # "full"
BY DEF SmtpTier, ChatTier, Tiers, Setups

\* One channel is set up, or the request ends there.
LEMMA SetUp ==
    ASSUME MessagesInv, NEW d \in Deliveries, NEW ch \in Channels,
           NEW found \in BOOLEAN, NEW read \in BOOLEAN, NEW refused \in BOOLEAN,
           NEW send \in {"sendMail", "sendChat"}, NEW skip \in {"resolveChat", "done"},
           NEW tier \in {SmtpTier(OwnSeen(d, ch, found), PlatformSeen(ch, read)),
                        ChatTier(OwnSeen(d, ch, found), PlatformSeen(ch, read))},
           delivery[d].at \in {"resolveMail", "resolveChat"},
           Resolve(d, ch, tier, refused, found /\ read, send, skip)
    PROVE  MessagesInv'
<1>1. delivery[d].at \in {"resolveMail", "resolveChat"}
    OBVIOUS
<1>2. PICK where \in {skip, send, "done"} :
          /\ Reach(d, where)
          /\ unlogged' \in {unlogged, unlogged \union {d}}
    BY DEF Resolve, Fails
<1> DEFINE out == IF refused THEN "none" ELSE tier
<1>3. /\ sender' = [sender EXCEPT ![d][ch] = out]
      /\ blind' = IF found /\ read THEN blind ELSE blind \union {<<d, ch>>}
      /\ UNCHANGED <<own, platform, fallback, consent, entry, transit, receipts, hook, known,
                     disordered, attempted, withdrew, unwanted>>
    BY DEF Resolve, deliverySettings
<1>4. /\ own[ch] \in Setups /\ platform[ch] \in Setups /\ "off" \in Setups
      /\ OwnSeen(d, ch, found) \in Setups /\ PlatformSeen(ch, read) \in Setups
    BY DEF MessagesInv, DeliveryTypeOK, OwnSeen, PlatformSeen, Setups
<1>5. /\ out \in Tiers
      /\ out # "none" /\ found /\ read =>
            /\ delivery[d].kind = "welcome" /\ own[ch] = "full" => out = "own"
            /\ out \in {"env", "link"} => platform[ch] # "full"
    <2>1. tier \in Tiers /\ "none" \in Tiers
        BY <1>1, <1>4, TiersInOrder DEF Tiers
    <2>2. ASSUME found, read
          PROVE  /\ delivery[d].kind = "welcome" /\ own[ch] = "full" => tier = "own"
                 /\ tier \in {"env", "link"} => platform[ch] # "full"
        <3>1. /\ PlatformSeen(ch, read) = platform[ch]
              /\ delivery[d].kind = "welcome" => OwnSeen(d, ch, found) = own[ch]
            BY <2>2 DEF PlatformSeen, OwnSeen
        <3>2. QED
            BY <1>1, <1>4, <3>1, TiersInOrder
    <2>3. QED
        BY <2>1, <2>2
<1> HIDE DEF out
<1>6. /\ delivery' \in [Deliveries -> DeliveryStates]
      /\ delivery'[d].at = where /\ where \in {"resolveChat", "sendMail", "sendChat", "done"}
      /\ delivery'[d].kind = delivery[d].kind /\ delivery'[d].super = delivery[d].super
      /\ \A e \in Deliveries : e # d => delivery'[e] = delivery[e]
    <2>1. where \in {"resolveChat", "sendMail", "sendChat", "done"}
        BY <1>1
    <2>2. QED
        BY <1>2, <2>1, ReachTyped
<1>7. /\ sender' \in [Deliveries -> [Channels -> Tiers]]
      /\ \A e \in Deliveries : e # d => sender'[e] = sender[e]
      /\ \A c \in Channels : sender'[d][c] = IF c = ch THEN out ELSE sender[d][c]
    BY <1>3, <1>5, RowsTyped
<1>8. DeliveryTypeOK'
    BY <1>2, <1>3, <1>6, <1>7 DEF MessagesInv, DeliveryTypeOK, DeliveryStates
<1>9. transit[d] = "none"
    BY <1>1 DEF MessagesInv, Along
<1>10. \A e \in Deliveries : Along(e)'
    BY <1>1, <1>3, <1>6, <1>7, <1>9 DEF MessagesInv, Along
<1>11. ConsentAsked'
    BY <1>1, <1>3, <1>6 DEF MessagesInv, ConsentAsked
<1>12. ReceiptsAreTrue'
    BY <1>3 DEF MessagesInv, ReceiptsAreTrue
<1>13. RowsAreNext'
    <2>1. delivery[d].at \notin {"logMail", "logChat"}
        BY <1>1
    <2>2. QED
        BY <1>2, <1>3, <1>6, <2>1 DEF MessagesInv, RowsAreNext, LogPlace, Channels
<1>14. LogIsTrue' /\ StatusHoldsItsGround' /\ PrunedIsSettled' /\ UnwantedHasCause'
    BY <1>3 DEF MessagesInv, LogIsTrue, StatusHoldsItsGround, PrunedIsSettled, UnwantedHasCause
<1>15. FirstTierIsUsed'
    <2> SUFFICES ASSUME NEW e \in Deliveries, NEW c \in Channels,
                        sender'[e][c] # "none", delivery'[e].super, <<e, c>> \notin blind'
                 PROVE  /\ (delivery'[e].kind = "welcome" /\ own[c] = "full")
                               => sender'[e][c] = "own"
                        /\ sender'[e][c] \in {"env", "link"} => platform[c] # "full"
        BY <1>3 DEF FirstTierIsUsed
    <2>1. CASE e = d /\ c = ch
        BY <1>3, <1>5, <1>6, <1>7, <2>1
    <2>2. CASE ~(e = d /\ c = ch)
        BY <1>3, <1>6, <1>7, <2>2 DEF MessagesInv, FirstTierIsUsed
    <2>3. QED
        BY <2>1, <2>2
<1>16. QED
    BY <1>8, <1>10, <1>11, <1>12, <1>13, <1>14, <1>15 DEF MessagesInv

\* A request finds out by which settings it sends.
LEMMA ResolveStep ==
    ASSUME MessagesInv, NEW d \in Deliveries, ResolveMail(d) \/ ResolveChat(d)
    PROVE  MessagesInv'
<1>1. CASE ResolveMail(d)
    <2>1. PICK found \in Answers(d), read \in Answers(d) :
              LET mine == OwnSeen(d, "mail", found)
                  common == PlatformSeen("mail", read)
                  tier == SmtpTier(mine, common) IN
              Resolve(d, "mail", tier, Refused(tier, mine, common), found /\ read,
                      "sendMail", AfterMail(d))
        BY <1>1 DEF ResolveMail
    <2> DEFINE mine == OwnSeen(d, "mail", found)
               common == PlatformSeen("mail", read)
               tier == SmtpTier(mine, common)
               refused == Refused(tier, mine, common)
    <2>2. /\ "mail" \in Channels /\ found \in BOOLEAN /\ read \in BOOLEAN
          /\ refused \in BOOLEAN
          /\ AfterMail(d) \in {"resolveChat", "done"}
        BY LogPlaces DEF Answers, Refused, AfterMail
    <2>3. delivery[d].at = "resolveMail"
        BY <1>1 DEF ResolveMail
    <2>4. Resolve(d, "mail", tier, refused, found /\ read, "sendMail", AfterMail(d))
        BY <2>1
    <2> HIDE DEF refused
    <2>5. QED
        BY <2>2, <2>3, <2>4, SetUp
<1>2. CASE ResolveChat(d)
    <2>1. PICK found \in Answers(d), read \in Answers(d) :
              LET mine == OwnSeen(d, "chat", found)
                  common == PlatformSeen("chat", read)
                  tier == ChatTier(mine, common) IN
              Resolve(d, "chat", tier, Refused(tier, mine, common), found /\ read,
                      "sendChat", "done")
        BY <1>2 DEF ResolveChat
    <2> DEFINE mine == OwnSeen(d, "chat", found)
               common == PlatformSeen("chat", read)
               tier == ChatTier(mine, common)
               refused == Refused(tier, mine, common)
    <2>2. /\ "chat" \in Channels /\ found \in BOOLEAN /\ read \in BOOLEAN
          /\ refused \in BOOLEAN
        BY LogPlaces DEF Answers, Refused, AfterMail
    <2>3. delivery[d].at = "resolveChat"
        BY <1>2 DEF ResolveChat
    <2>4. Resolve(d, "chat", tier, refused, found /\ read, "sendChat", "done")
        BY <2>1
    <2> HIDE DEF refused
    <2>5. QED
        BY <2>2, <2>3, <2>4, SetUp
<1>3. QED
    BY <1>1, <1>2

\* An adapter has answered: the row is what comes next, and a message that went
\* out unwanted is one whose consent was withdrawn on the way.
LEMMA SendMessageStep ==
    ASSUME MessagesInv, NEW d \in Deliveries, SendMail(d) \/ SendChat(d) \/ SendLink(d)
    PROVE  MessagesInv'
<1>1. PICK ch \in Channels, ok \in BOOLEAN :
          /\ delivery[d].at \in {"sendMail", "sendChat"}
          /\ delivery' = [delivery EXCEPT ![d].at = LogPlace[ch], ![d].ok = ok]
          /\ transit' \in {transit, [transit EXCEPT ![d] = "queued"]}
          /\ ch = "mail" \/ ~ok => transit' = transit
          /\ Sent(d, ch, ok)
    BY DEF SendMail, SendChat, SendLink, LogPlace, Channels
<1>2. /\ attempted' = attempted \union {<<d, ch>>}
      /\ unwanted' = IF ok /\ delivery[d].kind = "welcome" /\ ~consent
                     THEN unwanted \union {d} ELSE unwanted
      /\ UNCHANGED <<own, platform, fallback, consent, entry, sender, receipts, hook, known,
                     disordered, unlogged, blind, withdrew>>
    BY <1>1 DEF Sent, deliverySettings
<1>3. /\ ch = "mail" => LogPlace[ch] = "logMail"
      /\ ch = "chat" => LogPlace[ch] = "logChat"
      /\ ch \in {"mail", "chat"}
    BY LogPlaces
<1>4. /\ delivery' \in [Deliveries -> DeliveryStates]
      /\ delivery'[d].at = LogPlace[ch] /\ delivery'[d].ok = ok
      /\ delivery'[d].kind = delivery[d].kind /\ delivery'[d].super = delivery[d].super
      /\ \A e \in Deliveries : e # d => delivery'[e] = delivery[e]
    <2> DEFINE next == [delivery[d] EXCEPT !.at = LogPlace[ch], !.ok = ok]
    <2>1. /\ next \in DeliveryStates /\ next.at = LogPlace[ch] /\ next.ok = ok
          /\ next.kind = delivery[d].kind /\ next.super = delivery[d].super
        BY <1>3, RowsTyped DEF DeliveryStates
    <2>2. delivery' = [delivery EXCEPT ![d] = next]
        BY <1>1, RowsTyped DEF DeliveryStates
    <2> HIDE DEF next
    <2>3. QED
        BY <2>1, <2>2, RowsTyped
<1>5. transit[d] = "none" /\ entry[d]["chat"] = "none"
    BY <1>1 DEF MessagesInv, Along
<1>6. \A e \in Deliveries : e # d => transit'[e] = transit[e]
    BY <1>1, RowsTyped
<1>7. DeliveryTypeOK'
    <2>1. transit' \in [Deliveries -> Fates \union {"none"}]
        BY <1>1, RowsTyped DEF Fates
    <2>2. QED
        BY <1>2, <1>4, <2>1 DEF MessagesInv, DeliveryTypeOK, DeliveryStates
<1>8. \A e \in Deliveries : Along(e)'
    BY <1>1, <1>2, <1>3, <1>4, <1>5, <1>6 DEF MessagesInv, Along
<1>9. ConsentAsked'
    BY <1>1, <1>2, <1>4 DEF MessagesInv, ConsentAsked
<1>10. ReceiptsAreTrue'
    <2>1. Passed("none") = {}
        BY DEF Passed
    <2>2. \A status \in Fates : <<d, status>> \notin receipts
        BY <1>5, <2>1 DEF MessagesInv, ReceiptsAreTrue
    <2>3. \A h \in Hooks : hook[h].at = "commit" => hook[h].of # d
        BY <1>5, <2>1 DEF MessagesInv, ReceiptsAreTrue
    <2>4. \A h \in Hooks : hook[h].of \in Deliveries
        BY DEF MessagesInv, DeliveryTypeOK
    <2>5. QED
        BY <1>2, <1>6, <2>2, <2>3, <2>4 DEF MessagesInv, ReceiptsAreTrue
<1>11. RowsAreNext'
    <2> SUFFICES ASSUME NEW e \in Deliveries, NEW c \in Channels,
                        <<e, c>> \in attempted', entry[e][c] = "none"
                 PROVE  e \in unlogged \/ delivery'[e].at = LogPlace[c]
        BY <1>2 DEF RowsAreNext
    <2>1. CASE e = d /\ c = ch
        BY <1>4, <2>1
    <2>2. CASE ~(e = d /\ c = ch)
        <3>1. e \in unlogged \/ delivery[e].at = LogPlace[c]
            BY <1>2, <2>2 DEF MessagesInv, RowsAreNext
        <3>2. LogPlace[c] \in {"logMail", "logChat"}
            BY DEF LogPlace, Channels
        <3>3. QED
            BY <1>1, <1>4, <3>1, <3>2
    <2>3. QED
        BY <2>1, <2>2
<1>12. LogIsTrue' /\ PrunedIsSettled'
    BY <1>2, <1>5, <1>6 DEF MessagesInv, LogIsTrue, PrunedIsSettled
<1>13. StatusHoldsItsGround'
    BY <1>2 DEF MessagesInv, StatusHoldsItsGround
<1>14. FirstTierIsUsed'
    BY <1>2, <1>4 DEF MessagesInv, FirstTierIsUsed
<1>15. UnwantedHasCause'
    BY <1>1, <1>2 DEF MessagesInv, UnwantedHasCause, ConsentAsked
<1>16. QED
    BY <1>7, <1>8, <1>9, <1>10, <1>11, <1>12, <1>13, <1>14, <1>15 DEF MessagesInv

\* The row of an attempt: "failed" only of a message that Twilio has not taken.
LEMMA LogStep ==
    ASSUME MessagesInv, NEW d \in Deliveries, LogMail(d) \/ LogChat(d)
    PROVE  MessagesInv'
<1> DEFINE word == IF delivery[d].ok THEN "sent" ELSE "failed"
<1>1. PICK ch \in Channels, where \in {"resolveChat", "done"} :
          /\ delivery[d].at = LogPlace[ch]
          /\ entry' = [entry EXCEPT ![d][ch] = word]
          /\ Reach(d, where) /\ (ch = "chat" => where = "done")
    BY DEF LogMail, LogChat, LogPlace, Channels, AfterMail
<1>2. UNCHANGED <<own, platform, fallback, consent, sender, transit, receipts, hook, known,
                  disordered, attempted, unlogged, blind, withdrew, unwanted>>
    BY DEF LogMail, LogChat, deliverySettings, deliveryHistory
<1>3. /\ LogPlace[ch] \in {"logMail", "logChat"} /\ (ch = "chat" => LogPlace[ch] = "logChat")
      /\ (ch # "chat" => LogPlace[ch] = "logMail")
      /\ \A c \in Channels : c # ch => LogPlace[c] # LogPlace[ch]
    BY DEF LogPlace, Channels
<1>4. /\ delivery' \in [Deliveries -> DeliveryStates] /\ delivery'[d].at = where
      /\ delivery'[d].kind = delivery[d].kind /\ delivery'[d].super = delivery[d].super
      /\ \A e \in Deliveries : e # d => delivery'[e] = delivery[e]
    BY <1>1, ReachTyped
<1>5. /\ word \in {"sent", "failed"} /\ (word = "failed" => ~delivery[d].ok)
    OBVIOUS
<1> HIDE DEF word
<1>6. /\ entry' \in [Deliveries -> [Channels -> LogStatuses]]
      /\ \A e \in Deliveries : e # d => entry'[e] = entry[e]
      /\ \A c \in Channels : entry'[d][c] = IF c = ch THEN word ELSE entry[d][c]
    <2>1. word \in LogStatuses
        BY <1>5 DEF LogStatuses
    <2>2. QED
        BY <1>1, <2>1, RowsTyped
<1>7. /\ entry[d]["chat"] = "none" /\ known[d] = "none" /\ "chat" \in Channels
      /\ ch = "chat" /\ word = "failed" => transit[d] = "none"
      /\ ch # "chat" => transit[d] = "none"
    BY <1>1, <1>3, <1>5 DEF MessagesInv, Along, Channels
<1>8. DeliveryTypeOK'
    BY <1>2, <1>4, <1>6 DEF MessagesInv, DeliveryTypeOK, DeliveryStates
<1>9. \A e \in Deliveries : Along(e)'
    BY <1>1, <1>2, <1>3, <1>4, <1>6, <1>7 DEF MessagesInv, Along
<1>10. ConsentAsked'
    BY <1>1, <1>2, <1>3, <1>4 DEF MessagesInv, ConsentAsked
<1>11. ReceiptsAreTrue'
    <2>1. \A h \in Hooks : hook[h].of \in Deliveries
        BY DEF MessagesInv, DeliveryTypeOK
    <2>2. QED
        BY <1>2, <1>6, <1>7, <2>1 DEF MessagesInv, ReceiptsAreTrue
<1>12. RowsAreNext'
    BY <1>1, <1>2, <1>3, <1>4, <1>5, <1>6 DEF MessagesInv, RowsAreNext
<1>13. LogIsTrue' /\ PrunedIsSettled'
    BY <1>2, <1>5, <1>6, <1>7 DEF MessagesInv, LogIsTrue, PrunedIsSettled
<1>14. StatusHoldsItsGround'
    <2>1. Rank["none"] = 0 /\ Rank["sent"] = 2 /\ Rank["failed"] = 3
        BY Ranks
    <2>2. QED
        BY <1>2, <1>5, <1>6, <1>7, <2>1 DEF MessagesInv, StatusHoldsItsGround
<1>15. FirstTierIsUsed' /\ UnwantedHasCause'
    BY <1>2, <1>4 DEF MessagesInv, FirstTierIsUsed, UnwantedHasCause
<1>16. QED
    BY <1>8, <1>9, <1>10, <1>11, <1>12, <1>13, <1>14, <1>15 DEF MessagesInv

\* A request is cut off before it has logged.
LEMMA CutOffStep ==
    ASSUME MessagesInv, NEW d \in Deliveries, DeliveryCutOff(d)
    PROVE  MessagesInv'
<1>1. /\ Reach(d, "done") /\ unlogged' = unlogged \union {d}
      /\ delivery[d].at \notin {"new", "done"}
      /\ transit' # transit => /\ delivery[d].at = "sendChat"
                               /\ transit' = [transit EXCEPT ![d] = "queued"]
      /\ UNCHANGED <<own, platform, fallback, consent, entry, sender, receipts, hook, known,
                     disordered, attempted, blind, withdrew, unwanted>>
    BY DEF DeliveryCutOff, Fails, deliverySettings
<1>2. /\ delivery' \in [Deliveries -> DeliveryStates] /\ delivery'[d].at = "done"
      /\ delivery'[d].kind = delivery[d].kind /\ delivery'[d].super = delivery[d].super
      /\ \A e \in Deliveries : e # d => delivery'[e] = delivery[e]
    BY <1>1, ReachTyped
<1>3. entry[d]["chat"] = "none"
    BY <1>1 DEF MessagesInv, Along
<1>4. /\ transit' \in [Deliveries -> Fates \union {"none"}]
      /\ \A e \in Deliveries : e # d => transit'[e] = transit[e]
      /\ transit'[d] # transit[d] => transit[d] = "none"
    <2>1. CASE transit' = transit
        BY <2>1, RowsTyped
    <2>2. CASE transit' # transit
        BY <1>1, <2>2, RowsTyped DEF MessagesInv, Along, Fates
    <2>3. QED
        BY <2>1, <2>2
<1>5. DeliveryTypeOK'
    BY <1>1, <1>2, <1>4 DEF MessagesInv, DeliveryTypeOK, DeliveryStates
<1>6. \A e \in Deliveries : Along(e)'
    BY <1>1, <1>2, <1>4 DEF MessagesInv, Along
<1>7. ConsentAsked' /\ RowsAreNext'
    BY <1>1, <1>2 DEF MessagesInv, ConsentAsked, RowsAreNext
<1>8. ReceiptsAreTrue'
    <2>1. Passed("none") = {}
        BY DEF Passed
    <2>2. \A h \in Hooks : hook[h].of \in Deliveries
        BY DEF MessagesInv, DeliveryTypeOK
    <2>3. QED
        BY <1>1, <1>4, <2>1, <2>2 DEF MessagesInv, ReceiptsAreTrue
<1>9. LogIsTrue' /\ PrunedIsSettled' /\ StatusHoldsItsGround'
    BY <1>1, <1>3, <1>4 DEF MessagesInv, LogIsTrue, PrunedIsSettled, StatusHoldsItsGround
<1>10. FirstTierIsUsed' /\ UnwantedHasCause'
    BY <1>1, <1>2 DEF MessagesInv, FirstTierIsUsed, UnwantedHasCause
<1>11. QED
    BY <1>5, <1>6, <1>7, <1>8, <1>9, <1>10 DEF MessagesInv

\* Who withdraws the consent does so for every request under way.
LEMMA ConsentStep ==
    ASSUME MessagesInv, ChangeConsent
    PROVE  MessagesInv'
<1>1. /\ UNCHANGED <<own, platform, fallback, delivery, entry, sender, transit, receipts, hook,
                     known, disordered, attempted, unlogged, blind, unwanted>>
      /\ consent' = ~consent /\ withdrew \subseteq withdrew' /\ withdrew' \subseteq Deliveries
      /\ consent => \A d \in Deliveries :
            delivery[d].at \notin {"new", "done"} => d \in withdrew'
    BY DEF ChangeConsent, deliverySettings, deliveryRows, MessagesInv, DeliveryTypeOK
<1>2. DeliveryTypeOK'
    BY <1>1 DEF MessagesInv, DeliveryTypeOK
<1>3. ConsentAsked'
    BY <1>1 DEF MessagesInv, DeliveryTypeOK, ConsentAsked
<1>4. (\A d \in Deliveries : Along(d)') /\ ReceiptsAreTrue' /\ RowsAreNext'
    BY <1>1 DEF MessagesInv, Along, ReceiptsAreTrue, RowsAreNext
<1>5. LogIsTrue' /\ StatusHoldsItsGround' /\ PrunedIsSettled' /\ FirstTierIsUsed' /\ UnwantedHasCause'
    BY <1>1 DEF MessagesInv, LogIsTrue, StatusHoldsItsGround, PrunedIsSettled, FirstTierIsUsed,
                UnwantedHasCause
<1>6. QED
    BY <1>2, <1>3, <1>4, <1>5 DEF MessagesInv

-----------------------------------------------------------------------------
(* Twilio and its receipts *)

\* What only concerns the requests stays when only Twilio moves.
LEMMA TwilioMoves ==
    ASSUME MessagesInv,
           UNCHANGED <<own, platform, fallback, consent, delivery, sender,
                       attempted, unlogged, blind, withdrew, unwanted>>
    PROVE  ConsentAsked' /\ FirstTierIsUsed' /\ UnwantedHasCause'
BY DEF MessagesInv, ConsentAsked, FirstTierIsUsed, UnwantedHasCause

\* Twilio carries a message on.
LEMMA CarryStep ==
    ASSUME MessagesInv, NEW d \in Deliveries, Carry(d)
    PROVE  MessagesInv'
<1>1. PICK fate \in Follows[transit[d]] :
          /\ transit' = [transit EXCEPT ![d] = fate]
          /\ receipts' = receipts \union {<<d, fate>>}
    BY DEF Carry
<1>2. UNCHANGED <<own, platform, fallback, consent, delivery, entry, sender, hook, known,
                  disordered, attempted, unlogged, blind, withdrew, unwanted>>
    BY DEF Carry, deliverySettings, deliveryHistory
<1>3. transit[d] # "none" /\ transit[d] \in Fates
    BY RowsTyped DEF Carry
<1>4. /\ fate \in Fates /\ Passed(transit[d]) \subseteq Passed(fate) /\ fate \in Passed(fate)
      /\ transit[d] \notin {"read", "failed"} /\ (transit[d] = "delivered" => fate = "read")
    BY <1>3, PassedGrows
<1>5. transit'[d] = fate /\ \A e \in Deliveries : e # d => transit'[e] = transit[e]
    BY <1>1, RowsTyped
<1>6. DeliveryTypeOK'
    BY <1>1, <1>2, <1>4 DEF MessagesInv, DeliveryTypeOK
<1>7. \A e \in Deliveries : Along(e)'
    BY <1>2, <1>3, <1>5 DEF MessagesInv, Along
<1>8. ReceiptsAreTrue'
    <2>1. \A e \in Deliveries : Passed(transit[e]) \subseteq Passed(transit'[e])
        BY <1>4, <1>5
    <2>2. \A h \in Hooks : hook[h].of \in Deliveries
        BY DEF MessagesInv, DeliveryTypeOK
    <2>3. QED
        BY <1>1, <1>2, <1>4, <1>5, <2>1, <2>2 DEF MessagesInv, ReceiptsAreTrue
<1>9. RowsAreNext' /\ StatusHoldsItsGround'
    BY <1>2 DEF MessagesInv, RowsAreNext, StatusHoldsItsGround
<1>10. LogIsTrue' /\ PrunedIsSettled'
    BY <1>2, <1>3, <1>4, <1>5 DEF MessagesInv, LogIsTrue, PrunedIsSettled
<1>11. QED
    BY <1>2, <1>6, <1>7, <1>8, <1>9, <1>10, TwilioMoves DEF MessagesInv

\* A receipt is made, or lost.
LEMMA ReceiptsMove ==
    ASSUME MessagesInv, NEW d \in Deliveries, ReportQueued(d) \/ LoseReceipt
    PROVE  MessagesInv'
<1>1. UNCHANGED <<own, platform, fallback, consent, delivery, entry, sender, transit, hook, known,
                  disordered, attempted, unlogged, blind, withdrew, unwanted>>
    BY DEF ReportQueued, LoseReceipt, deliverySettings, deliveryHistory
<1>2. \/ receipts' \subseteq receipts
      \/ transit[d] = "queued" /\ receipts' = receipts \union {<<d, "queued">>}
    BY DEF ReportQueued, LoseReceipt
<1>3. DeliveryTypeOK'
    BY <1>1, <1>2 DEF MessagesInv, DeliveryTypeOK, Fates
<1>4. ReceiptsAreTrue'
    <2>1. "queued" \in Passed("queued")
        BY DEF Passed
    <2>2. QED
        BY <1>1, <1>2, <2>1 DEF MessagesInv, ReceiptsAreTrue
<1>5. (\A e \in Deliveries : Along(e)') /\ RowsAreNext' /\ LogIsTrue' /\ StatusHoldsItsGround'
          /\ PrunedIsSettled'
    BY <1>1 DEF MessagesInv, Along, RowsAreNext, LogIsTrue, StatusHoldsItsGround, PrunedIsSettled
<1>6. QED
    BY <1>1, <1>3, <1>4, <1>5, TwilioMoves DEF MessagesInv

\* A receipt that is loaded is of a row that is there, and true.
LEMMA LoadStep ==
    ASSUME MessagesInv, NEW h \in Hooks, NEW d \in Deliveries, NEW status \in Fates,
           LoadReceipt(h, d, status)
    PROVE  MessagesInv'
<1> DEFINE call == [at |-> "commit", of |-> d, status |-> status, seen |-> entry[d]["chat"]]
<1>1. /\ UNCHANGED <<own, platform, fallback, consent, delivery, entry, sender, transit, known,
                     disordered, attempted, unlogged, blind, withdrew, unwanted>>
      /\ <<d, status>> \in receipts /\ receipts' \subseteq receipts
    BY DEF LoadReceipt, deliverySettings, deliveryHistory
<1>2. \/ hook' = hook
      \/ hook' = [hook EXCEPT ![h] = call] /\ entry[d]["chat"] # "none"
    BY DEF LoadReceipt
<1>3. status \in Passed(transit[d])
    BY <1>1 DEF MessagesInv, ReceiptsAreTrue
<1>4. DeliveryTypeOK'
    <2> DEFINE Calls == [at : {"idle", "commit"}, of : Deliveries,
                         status : Fates, seen : LogStatuses]
    <2>1. call \in Calls
        BY RowsTyped, LogPlaces
    <2>2. hook' \in [Hooks -> Calls]
        <3>1. hook \in [Hooks -> Calls]
            BY DEF MessagesInv, DeliveryTypeOK
        <3> HIDE DEF Calls, call
        <3>2. QED
            BY <1>2, <2>1, <3>1
    <2>3. receipts' \subseteq Deliveries \X Fates
        BY <1>1 DEF MessagesInv, DeliveryTypeOK
    <2>4. QED
        BY <1>1, <2>2, <2>3 DEF MessagesInv, DeliveryTypeOK
<1>5. ReceiptsAreTrue'
    <2>1. hook \in [Hooks -> [at : {"idle", "commit"}, of : Deliveries,
                               status : Fates, seen : LogStatuses]]
        BY DEF MessagesInv, DeliveryTypeOK
    <2>2. QED
        BY <1>1, <1>2, <1>3, <2>1 DEF MessagesInv, ReceiptsAreTrue
<1>6. (\A e \in Deliveries : Along(e)') /\ RowsAreNext' /\ LogIsTrue' /\ StatusHoldsItsGround'
          /\ PrunedIsSettled'
    BY <1>1 DEF MessagesInv, Along, RowsAreNext, LogIsTrue, StatusHoldsItsGround, PrunedIsSettled
<1>7. QED
    BY <1>1, <1>4, <1>5, <1>6, TwilioMoves DEF MessagesInv

\* The row says what has come to pass; it says less than a receipt did before
\* only out of order, or when the row is not what was loaded.
LEMMA CommitStep ==
    ASSUME MessagesInv, NEW h \in Hooks, CommitReceipt(h)
    PROVE  MessagesInv'
<1> DEFINE d == hook[h].of
           new == StatusOf(hook[h].status)
           gone == entry[d]["chat"] = "pruned"
<1>1. /\ hook[h].at = "commit" /\ hook' = [hook EXCEPT ![h] = Quiet]
      /\ entry' = IF gone \/ new = hook[h].seen THEN entry
                  ELSE [entry EXCEPT ![d]["chat"] = new]
      /\ disordered' = IF \/ Rank[hook[h].status] < Rank[known[d]]
                          \/ entry[d]["chat"] # hook[h].seen
                       THEN disordered \union {d} ELSE disordered
      /\ known' = IF ~gone /\ Rank[hook[h].status] > Rank[known[d]]
                  THEN [known EXCEPT ![d] = hook[h].status] ELSE known
      /\ UNCHANGED <<own, platform, fallback, consent, delivery, sender, transit, receipts,
                     attempted, unlogged, blind, withdrew, unwanted>>
    BY DEF CommitReceipt, deliverySettings
<1>2. /\ d \in Deliveries /\ hook[h].status \in Fates
      /\ hook \in [Hooks -> [at : {"idle", "commit"}, of : Deliveries,
                              status : Fates, seen : LogStatuses]]
    BY DEF MessagesInv, DeliveryTypeOK
<1>3. /\ new \in LogStatuses \ {"none", "pruned"} /\ Rank[new] = Rank[hook[h].status]
      /\ Rank[hook[h].status] \in 1..4
      /\ new \in {"delivered", "read", "failed"} => hook[h].status = new
    BY <1>2, StatusKeepsRank
<1>4. hook[h].status \in Passed(transit[d]) /\ entry[d]["chat"] # "none" /\ delivery[d].at = "done"
    BY <1>1, <1>2 DEF MessagesInv, ReceiptsAreTrue, Along
<1>5. /\ entry[d] \in [Channels -> LogStatuses] /\ "chat" \in Channels
      /\ entry \in [Deliveries -> [Channels -> LogStatuses]]
      /\ known \in [Deliveries -> Fates \union {"none"}]
    BY <1>2, RowsTyped, LogPlaces
<1> HIDE DEF d, new
<1>6. /\ entry' \in [Deliveries -> [Channels -> LogStatuses]]
      /\ \A e \in Deliveries, ch \in Channels :
            e # d \/ ch # "chat" => entry'[e][ch] = entry[e][ch]
      /\ entry'[d]["chat"] = IF gone \/ new = hook[h].seen THEN entry[d]["chat"] ELSE new
      /\ entry'[d]["chat"] # "none"
    <2>1. CASE gone \/ new = hook[h].seen
        BY <1>1, <1>4, <1>5, <2>1
    <2>2. CASE ~(gone \/ new = hook[h].seen)
        BY <1>1, <1>2, <1>3, <1>5, <2>2
    <2>3. QED
        BY <2>1, <2>2
<1>7. /\ known' \in [Deliveries -> Fates \union {"none"}]
      /\ \A e \in Deliveries : e # d => known'[e] = known[e]
      /\ known'[d] = IF ~gone /\ Rank[hook[h].status] > Rank[known[d]]
                     THEN hook[h].status ELSE known[d]
    BY <1>1, <1>2, <1>5
<1>8. disordered \subseteq disordered' /\ disordered' \subseteq Deliveries
    BY <1>1, <1>2 DEF MessagesInv, DeliveryTypeOK
<1>9. DeliveryTypeOK'
    BY <1>1, <1>2, <1>6, <1>7, <1>8, QuietTyped DEF MessagesInv, DeliveryTypeOK
<1>10. \A e \in Deliveries : Along(e)'
    BY <1>1, <1>2, <1>4, <1>5, <1>6, <1>7 DEF MessagesInv, Along
<1>11. ReceiptsAreTrue'
    BY <1>1, <1>2, <1>5, <1>6, QuietTyped DEF MessagesInv, ReceiptsAreTrue
<1>12. RowsAreNext'
    BY <1>1, <1>4, <1>6 DEF MessagesInv, RowsAreNext
<1>13. LogIsTrue'
    <2> SUFFICES ASSUME NEW e \in Deliveries
                 PROVE  LET status == entry'[e]["chat"] IN
                        /\ status = "delivered" => transit[e] \in {"delivered", "read"}
                        /\ status = "read" => transit[e] = "read"
                        /\ status = "failed" /\ transit[e] # "none" => transit[e] = "failed"
        BY <1>1 DEF LogIsTrue
    <2>1. CASE entry'[e]["chat"] = entry[e]["chat"]
        BY <2>1 DEF MessagesInv, LogIsTrue
    <2>2. CASE entry'[e]["chat"] # entry[e]["chat"]
        <3>1. e = d /\ entry'[e]["chat"] = new
            BY <1>5, <1>6, <2>2
        <3>2. new \in {"delivered", "read", "failed"} => new \in Passed(transit[d])
            BY <1>3, <1>4
        <3>3. /\ "delivered" \in Passed(transit[d]) => transit[d] \in {"delivered", "read"}
              /\ "read" \in Passed(transit[d]) => transit[d] = "read"
              /\ "failed" \in Passed(transit[d]) => transit[d] = "failed"
            <4>1. transit[d] \in Fates \union {"none"}
                BY <1>2, RowsTyped
            <4>2. QED
                BY <4>1 DEF Passed, Fates
        <3>4. QED
            BY <3>1, <3>2, <3>3
    <2>3. QED
        BY <2>1, <2>2
<1>14. StatusHoldsItsGround'
    <2> SUFFICES ASSUME NEW e \in Deliveries, entry'[e]["chat"] # "pruned",
                        Rank[entry'[e]["chat"]] < Rank[known'[e]]
                 PROVE  e \in disordered'
        BY DEF StatusHoldsItsGround
    <2>1. CASE e # d
        BY <1>5, <1>6, <1>7, <1>8, <2>1 DEF MessagesInv, StatusHoldsItsGround
    <2>2. CASE e = d
        <3>1. ~gone
            BY <1>6, <2>2
        <3>2. CASE entry[d]["chat"] # hook[h].seen
            BY <1>1, <2>2, <3>2
        <3>3. CASE entry[d]["chat"] = hook[h].seen
            <4>1. entry'[d]["chat"] = new
                BY <1>6, <3>1, <3>3
            <4>2. Rank[hook[h].status] < Rank[known'[d]]
                BY <1>3, <2>2, <4>1
            <4>3. Rank[hook[h].status] < Rank[known[d]]
                BY <1>3, <1>7, <4>2
            <4>4. QED
                BY <1>1, <2>2, <4>3
        <3>4. QED
            BY <3>2, <3>3
    <2>3. QED
        BY <2>1, <2>2
<1>15. PrunedIsSettled'
    BY <1>1, <1>3, <1>5, <1>6 DEF MessagesInv, PrunedIsSettled
<1>16. QED
    BY <1>1, <1>9, <1>10, <1>11, <1>12, <1>13, <1>14, <1>15, TwilioMoves DEF MessagesInv

\* Retention: the rows it takes are of messages that have arrived or failed.
LEMMA PruneStep ==
    ASSUME MessagesInv, NEW d \in Deliveries, NEW ch \in Channels, PruneLog(d, ch)
    PROVE  MessagesInv'
<1>1. /\ entry[d][ch] \in {"delivered", "failed"}
      /\ entry' = [entry EXCEPT ![d][ch] = "pruned"]
      /\ UNCHANGED <<own, platform, fallback, consent, delivery, sender, transit, receipts, hook,
                     known, disordered, attempted, unlogged, blind, withdrew, unwanted>>
    BY DEF PruneLog, Prunable, deliverySettings, deliveryHistory
<1>2. "chat" \in Channels
    BY LogPlaces
<1>3. /\ entry' \in [Deliveries -> [Channels -> LogStatuses]]
      /\ \A e \in Deliveries, c \in Channels :
            entry'[e][c] = IF e = d /\ c = ch THEN "pruned" ELSE entry[e][c]
    BY <1>1, RowsTyped DEF LogStatuses
<1>4. DeliveryTypeOK'
    BY <1>1, <1>3 DEF MessagesInv, DeliveryTypeOK
<1>5. \A e \in Deliveries : Along(e)'
    BY <1>1, <1>2, <1>3 DEF MessagesInv, Along
<1>6. ReceiptsAreTrue'
    <2>1. \A h \in Hooks : hook[h].of \in Deliveries
        BY DEF MessagesInv, DeliveryTypeOK
    <2>2. QED
        BY <1>1, <1>2, <1>3, <2>1 DEF MessagesInv, ReceiptsAreTrue
<1>7. RowsAreNext'
    BY <1>1, <1>3 DEF MessagesInv, RowsAreNext
<1>8. LogIsTrue' /\ StatusHoldsItsGround'
    BY <1>1, <1>2, <1>3 DEF MessagesInv, LogIsTrue, StatusHoldsItsGround
<1>9. PrunedIsSettled'
    BY <1>1, <1>2, <1>3 DEF MessagesInv, PrunedIsSettled, LogIsTrue
<1>10. QED
    BY <1>1, <1>4, <1>5, <1>6, <1>7, <1>8, <1>9, TwilioMoves DEF MessagesInv

-----------------------------------------------------------------------------

\* Every step keeps the invariant.
LEMMA NextMessages == MessagesInv /\ [MessagesNext]_deliveryVars => MessagesInv'
<1> SUFFICES ASSUME MessagesInv, [MessagesNext]_deliveryVars
             PROVE  MessagesInv'
    OBVIOUS
<1>1. ASSUME NEW d \in Deliveries,
             \/ SendWelcome(d) \/ SendTest(d) \/ MarkSent(d)
             \/ ResolveMail(d) \/ ResolveChat(d)
      PROVE  MessagesInv'
    BY <1>1, WelcomeStep, MarkStep, ResolveStep
<1>2. ASSUME NEW d \in Deliveries,
             \/ SendMail(d) \/ SendChat(d) \/ SendLink(d) \/ LogMail(d) \/ LogChat(d)
             \/ DeliveryCutOff(d)
      PROVE  MessagesInv'
    BY <1>2, SendMessageStep, LogStep, CutOffStep
<1>3. ASSUME NEW d \in Deliveries, Carry(d) \/ ReportQueued(d) \/ LoseReceipt
      PROVE  MessagesInv'
    BY <1>3, CarryStep, ReceiptsMove
<1>4. ASSUME NEW d \in Deliveries, NEW h \in Hooks, NEW status \in Fates,
             LoadReceipt(h, d, status)
      PROVE  MessagesInv'
    BY <1>4, LoadStep
<1>5. ASSUME NEW d \in Deliveries, NEW ch \in Channels, PruneLog(d, ch)
      PROVE  MessagesInv'
    BY <1>5, PruneStep
<1>6. ASSUME NEW h \in Hooks, CommitReceipt(h)
      PROVE  MessagesInv'
    BY <1>6, CommitStep
<1>7. ASSUME ChangeConsent \/ LoseReceipt
      PROVE  MessagesInv'
    <2>1. PICK d : d \in Deliveries
        BY DeliveriesAssumption
    <2>2. QED
        BY <1>3, <1>7, <2>1, ConsentStep
<1>8. ASSUME UNCHANGED deliveryVars
      PROVE  MessagesInv'
    BY <1>8 DEF deliveryVars, deliverySettings, deliveryRows, deliveryHistory, MessagesInv,
                DeliveryTypeOK, Along, ConsentAsked, ReceiptsAreTrue, RowsAreNext, LogIsTrue,
                StatusHoldsItsGround, PrunedIsSettled, FirstTierIsUsed, UnwantedHasCause
<1>9. QED
    BY <1>1, <1>2, <1>3, <1>4, <1>5, <1>6, <1>7, <1>8 DEF MessagesNext

\* Every reachable state of MessageDelivery satisfies the invariant.
THEOREM MessagesInvariant == MessagesSpec => []MessagesInv
BY InitMessages, NextMessages, PTL DEF MessagesSpec

\* Settings, requests, rows and receipts keep their types.
THEOREM DeliveryTypeCorrect == MessagesSpec => []DeliveryTypeOK
<1>1. MessagesInv => DeliveryTypeOK
    BY DEF MessagesInv
<1>2. QED
    BY <1>1, MessagesInvariant, PTL

\* What is inductive about the log is enough to trust it.
LEMMA LogFollows == MessagesInv => LogCanBeTrusted
<1> SUFFICES ASSUME MessagesInv PROVE AttemptsAreLogged
    BY DEF MessagesInv, LogCanBeTrusted
<1>1. \A ch \in Channels : LogPlace[ch] \in {"logMail", "logChat"}
    BY LogPlaces
<1>2. QED
    BY <1>1 DEF MessagesInv, RowsAreNext, AttemptsAreLogged

\* The log of messages says what became of them, whatever receipts are lost,
\* repeated or overtaken; retention takes only what is settled; and every attempt
\* of a request that came to its end without an error has a row.
THEOREM LogIsTrusted == MessagesSpec => []LogCanBeTrusted
BY MessagesInvariant, LogFollows, PTL

\* A message of a superadmin goes out by the first tier whose settings were read
\* and complete, and to nobody against their will but a customer who withdrew the
\* consent while the welcome was on its way.
THEOREM MessagesSentAsAgreed == MessagesSpec => []SentAsAgreed
<1>1. MessagesInv => SentAsAgreed
    BY DEF MessagesInv, SentAsAgreed
<1>2. QED
    BY <1>1, MessagesInvariant, PTL

-----------------------------------------------------------------------------
(***************************************************************************)
(* ReminderWindows.  While the loop works on a round, its list holds what is *)
(* still to be sent; between rounds every reminder was dealt with that an  *)
(* earlier cycle could see.                                                *)
(***************************************************************************)

\* Where the loop is, with its `now` and the jobs it has fetched.
LoopStates ==
    [at : {"sleep", "fetch", "send"} \union Tasks, kind : Kinds, now : 0..LastTick,
     list : SUBSET Copies]

\* The slots a job may have.
Slots == [start : Moments, end : Moments, open : BOOLEAN]

\* What a row of the log tells: a job, a kind and the time that was told.
Notices == [job : Bookings, kind : Kinds, start : SlotTimes]

\* The times a run comes to.
Ticks == 0..LastTick

\* Times, rows and keys have their types.
WindowTyped ==
    /\ clock \in Ticks
    /\ booking \in [Bookings -> Slots]
    /\ loop \in LoopStates
    /\ notices \in SUBSET Notices
    /\ keyUntil \in [Tasks -> Nat]
    /\ settled \in [Bookings -> Ticks] /\ reslotted \in SUBSET Bookings
    /\ excused \in SUBSET (Bookings \X Kinds)
    /\ lastRound \in [Kinds -> Ticks] /\ lateAt \in [Kinds -> Ticks]
    /\ doneAt \in [Chores -> Ticks] /\ failing \in SUBSET Chores
    /\ passedAt \in [Tasks -> Ticks]

\* Nothing that was noted lies ahead of the clock.
NothingAhead ==
    /\ loop.now <= clock
    /\ \A k \in Kinds : lastRound[k] <= clock
    /\ \A t \in Tasks : passedAt[t] <= clock

\* What the loop has fetched, and what customers were told, is what the jobs
\* have, unless they were moved since; and each was told once.
CopiesAreRight ==
    /\ \A item \in loop.list : item.start = booking[item.job].start \/ item.job \in reslotted
    /\ ToldTheRightTime

\* The job stands in the window that is reckoned from now.
StandsIn(b, k, now) ==
    /\ booking[b].open /\ booking[b].start # NoTime /\ booking[b].end # NoTime
    /\ booking[b].start >= now + Opens[k] /\ booking[b].end <= now + Closes[k]

\* A reminder was sent, or there was a reason not to.
Dealt(b, k) == Told(b, k) \/ <<b, k>> \in excused

\* A round that was gone through has dealt with the jobs that stood in its
\* window when it began and have not been changed since ...
RoundIsComplete ==
    \A b \in Bookings, k \in Kinds :
        settled[b] < lastRound[k] /\ StandsIn(b, k, lastRound[k]) => Dealt(b, k)

\* ... and one that is under way has them in its list or has dealt with them.
ListIsComplete ==
    loop.at = "send" =>
        \A b \in Bookings :
            settled[b] < loop.now /\ StandsIn(b, loop.kind, loop.now) =>
                Dealt(b, loop.kind) \/ \E item \in loop.list : item.job = b

\* The key of a task does not outlast what it says of the chores.
KeysAreHonest ==
    \A c \in Chores \ failing :
        keyUntil[TaskOf[c]] <= doneAt[c] + Postpone[TaskOf[c]]

\* The invariant.
WindowInv ==
    /\ WindowTyped
    /\ NothingAhead
    /\ CopiesAreRight
    /\ RoundIsComplete
    /\ ListIsComplete
    /\ RemindersComeInTime
    /\ KeysAreHonest
    /\ ChoresAreDone

\* Times are numbers.
LEMMA TimesTyped ==
    /\ LastTick \in Nat /\ Gap \in Nat /\ SlotTimes \subseteq Nat
    /\ \A k \in Kinds : Opens[k] \in Nat /\ Closes[k] \in Nat
    /\ \A t \in Tasks : Postpone[t] \in Nat /\ Postpone[t] > 0
    /\ \A c \in Chores : TaskOf[c] \in Tasks
    /\ Ticks \subseteq Nat
BY WindowConstants DEF Tasks, Chores, TaskOf, Ticks

\* The parts of the loop have their types.
LEMMA LoopTyped ==
    ASSUME WindowInv
    PROVE  /\ loop \in LoopStates /\ loop.at \in {"sleep", "fetch", "send"} \union Tasks
           /\ loop.kind \in Kinds /\ loop.now \in Ticks /\ loop.list \in SUBSET Copies
           /\ clock \in Ticks /\ 0 <= clock /\ clock <= clock
           /\ \A item \in loop.list : item.job \in Bookings /\ item.start \in SlotTimes
<1>1. clock \in Ticks
    BY DEF WindowInv, WindowTyped
<1>2. 0 <= clock /\ clock <= clock
    BY <1>1 DEF Ticks
<1>3. QED
    BY <1>1, <1>2 DEF WindowInv, WindowTyped, LoopStates, Copies, Ticks

\* What the loop is between two cycles.
LEMMA AsleepTyped ==
    Asleep \in LoopStates /\ Asleep.at = "sleep" /\ Asleep.now = 0 /\ Asleep.list = {}
BY TimesTyped DEF Asleep, LoopStates, Kinds, Ticks

\* The loop goes on to a place where it holds no list, or holds what it held.
LEMMA LoopMoves ==
    ASSUME WindowInv, NEW next \in LoopStates, loop' = next, next.now <= clock,
           next.list = {}, next.at # "send",
           UNCHANGED <<clock, lateAt, bookingVars, notices, excused, lastRound, choreVars>>
    PROVE  WindowInv'
<1>1. UNCHANGED <<clock, booking, settled, reslotted, lateAt, notices, excused, lastRound,
                  keyUntil, doneAt, failing, passedAt>>
    BY DEF bookingVars, choreVars
<1>2. WindowTyped'
    BY <1>1 DEF WindowInv, WindowTyped
<1>3. NothingAhead'
    BY <1>1 DEF WindowInv, NothingAhead
<1>4. CopiesAreRight'
    BY <1>1 DEF WindowInv, CopiesAreRight, ToldTheRightTime
<1>5. RoundIsComplete' /\ ListIsComplete'
    BY <1>1 DEF WindowInv, RoundIsComplete, ListIsComplete, StandsIn, Dealt, Told
<1>6. RemindersComeInTime'
    BY <1>1 DEF WindowInv, RemindersComeInTime, HadItsChance, Told
<1>7. KeysAreHonest' /\ ChoresAreDone'
    BY <1>1 DEF WindowInv, KeysAreHonest, ChoresAreDone
<1>8. QED
    BY <1>2, <1>3, <1>4, <1>5, <1>6, <1>7 DEF WindowInv

\* The loop wakes up and takes the time.
LEMMA StartCycleStep == ASSUME WindowInv, StartCycle PROVE WindowInv'
<1> DEFINE next == [Asleep EXCEPT !.at = "fetch", !.now = clock]
<1>1. /\ next \in LoopStates /\ next.now = clock /\ next.list = {} /\ next.at = "fetch"
      /\ clock <= clock
    <2>1. next \in LoopStates /\ next.now = clock /\ next.list = {} /\ next.at = "fetch"
        BY AsleepTyped, LoopTyped DEF LoopStates, Ticks
    <2>2. QED
        BY <2>1, LoopTyped
<1>2. loop' = next /\ UNCHANGED <<clock, lateAt, bookingVars, notices, excused, lastRound, choreVars>>
    BY DEF StartCycle, roundVars
<1> HIDE DEF next
<1>3. QED
    BY <1>1, <1>2, LoopMoves

\* A cycle fails: the loop sleeps.
LEMMA CycleFailsStep == ASSUME WindowInv, CycleFails PROVE WindowInv'
<1>1. loop' = Asleep /\ UNCHANGED <<clock, lateAt, bookingVars, notices, excused, lastRound, choreVars>>
    BY DEF CycleFails, roundVars
<1>2. Asleep.now <= clock
    BY AsleepTyped, LoopTyped, TimesTyped
<1>3. QED
    BY <1>1, <1>2, AsleepTyped, LoopMoves

\* From one window to the next, or on to the chores.
LEMMA AfterTyped ==
    ASSUME WindowInv
    PROVE  /\ AfterRound \in LoopStates /\ AfterRound.now = loop.now /\ AfterRound.list = {}
           /\ AfterRound.at # "send" /\ AfterRound.now <= clock
<1>1. loop \in LoopStates /\ loop.now <= clock
    BY LoopTyped DEF WindowInv, NothingAhead
<1>2. QED
    BY <1>1 DEF AfterRound, LoopStates, Kinds, Tasks

\* The jobs of a round cannot be fetched: the round is skipped.
LEMMA FetchFailsStep == ASSUME WindowInv, FetchFails PROVE WindowInv'
<1>1. loop' = AfterRound
      /\ UNCHANGED <<clock, lateAt, bookingVars, notices, excused, lastRound, choreVars>>
    BY DEF FetchFails, roundVars
<1>2. QED
    BY <1>1, AfterTyped, LoopMoves

\* What the query answers is every job that stands in the window.
LEMMA FetchStep == ASSUME WindowInv, FetchWindow PROVE WindowInv'
<1> DEFINE found == {[job |-> b, start |-> booking[b].start] : b \in DueJobs(loop.kind, loop.now)}
           next == [loop EXCEPT !.at = "send", !.list = found]
<1>1. loop' = next /\ UNCHANGED <<clock, booking, settled, reslotted, lateAt, notices, excused,
                                  lastRound, keyUntil, doneAt, failing, passedAt>>
    BY DEF FetchWindow, bookingVars, roundVars, choreVars
<1>2. booking \in [Bookings -> Slots] /\ loop \in LoopStates
    BY DEF WindowInv, WindowTyped
<1>3. found \in SUBSET Copies
    BY <1>2 DEF DueJobs, Slots, Moments, Copies
<1>4. \A item \in found : item.start = booking[item.job].start
    OBVIOUS
<1>5. ASSUME NEW b \in Bookings, StandsIn(b, loop.kind, loop.now)
      PROVE  \E item \in found : item.job = b
    <2>1. b \in DueJobs(loop.kind, loop.now)
        BY <1>5 DEF StandsIn, DueJobs
    <2>2. [job |-> b, start |-> booking[b].start] \in found
        BY <2>1
    <2>3. QED
        BY <2>2
<1> HIDE DEF found
<1>6. /\ next \in LoopStates /\ next.at = "send" /\ next.kind = loop.kind /\ next.now = loop.now
      /\ next.list = found
    BY <1>2, <1>3 DEF LoopStates
<1> HIDE DEF next
<1>7. WindowTyped'
    BY <1>1, <1>6 DEF WindowInv, WindowTyped
<1>8. NothingAhead'
    BY <1>1, <1>6 DEF WindowInv, NothingAhead
<1>9. CopiesAreRight'
    BY <1>1, <1>4, <1>6 DEF WindowInv, CopiesAreRight, ToldTheRightTime
<1>10. RoundIsComplete'
    BY <1>1 DEF WindowInv, RoundIsComplete, StandsIn, Dealt, Told
<1>11. ListIsComplete'
    BY <1>1, <1>5, <1>6 DEF ListIsComplete, StandsIn
<1>12. RemindersComeInTime'
    BY <1>1 DEF WindowInv, RemindersComeInTime, HadItsChance, Told
<1>13. KeysAreHonest' /\ ChoresAreDone'
    BY <1>1 DEF WindowInv, KeysAreHonest, ChoresAreDone
<1>14. QED
    BY <1>7, <1>8, <1>9, <1>10, <1>11, <1>12, <1>13 DEF WindowInv

\* One item of the list is dealt with: by a notice, now or before, or with cause
\* by none.
LEMMA ItemLeaves ==
    ASSUME WindowInv, NEW item \in loop.list, Drop(item), loop.at = "send",
           UNCHANGED <<clock, lateAt, bookingVars, lastRound, choreVars>>,
           notices \subseteq notices', notices' \in SUBSET Notices,
           excused \subseteq excused', excused' \in SUBSET (Bookings \X Kinds),
           ToldTheRightTime',
           \/ \E n \in notices' : n.job = item.job /\ n.kind = loop.kind
           \/ <<item.job, loop.kind>> \in excused'
    PROVE  WindowInv'
<1> DEFINE next == [loop EXCEPT !.list = loop.list \ {item}]
<1>1. loop' = next /\ UNCHANGED <<clock, booking, settled, reslotted, lateAt,
                                  lastRound, keyUntil, doneAt, failing, passedAt>>
    BY DEF Drop, bookingVars, choreVars
<1>2. /\ next \in LoopStates /\ next.at = "send" /\ next.kind = loop.kind /\ next.now = loop.now
      /\ next.list = loop.list \ {item}
    BY LoopTyped DEF LoopStates
<1> HIDE DEF next
<1>3. WindowTyped'
    BY <1>1, <1>2 DEF WindowInv, WindowTyped
<1>4. NothingAhead'
    BY <1>1, <1>2 DEF WindowInv, NothingAhead
<1>5. CopiesAreRight'
    BY <1>1, <1>2 DEF WindowInv, CopiesAreRight
<1>6. \A b \in Bookings, k \in Kinds :
         Dealt(b, k) => (\E n \in notices' : n.job = b /\ n.kind = k) \/ <<b, k>> \in excused'
    BY DEF Dealt, Told
<1>7. RoundIsComplete'
    BY <1>1, <1>6 DEF WindowInv, RoundIsComplete, StandsIn, Dealt, Told
<1>8. ListIsComplete'
    <2> SUFFICES ASSUME NEW b \in Bookings, settled[b] < loop.now,
                        StandsIn(b, loop.kind, loop.now)
                 PROVE  \/ \E n \in notices' : n.job = b /\ n.kind = loop.kind
                        \/ <<b, loop.kind>> \in excused'
                        \/ \E other \in next.list : other.job = b
        BY <1>1, <1>2 DEF ListIsComplete, StandsIn, Dealt, Told
    <2>1. Dealt(b, loop.kind) \/ \E other \in loop.list : other.job = b
        BY DEF WindowInv, ListIsComplete
    <2>2. QED
        BY <2>1, <1>2, <1>6, LoopTyped
<1>9. RemindersComeInTime'
    BY <1>1 DEF WindowInv, RemindersComeInTime, HadItsChance, Told
<1>10. KeysAreHonest' /\ ChoresAreDone'
    BY <1>1 DEF WindowInv, KeysAreHonest, ChoresAreDone
<1>11. QED
    BY <1>3, <1>4, <1>5, <1>7, <1>8, <1>9, <1>10 DEF WindowInv

\* A reminder that was sent before is not sent again.
LEMMA SkipStep == ASSUME WindowInv, NEW item \in loop.list, SkipTold(item) PROVE WindowInv'
<1>1. /\ Drop(item) /\ loop.at = "send" /\ Told(item.job, loop.kind)
      /\ UNCHANGED <<clock, lateAt, bookingVars, lastRound, choreVars, notices, excused>>
    BY DEF SkipTold, roundVars
<1>2. ToldTheRightTime'
    BY <1>1 DEF WindowInv, CopiesAreRight, ToldTheRightTime, bookingVars
<1>3. notices \in SUBSET Notices /\ excused \in SUBSET (Bookings \X Kinds)
    BY DEF WindowInv, WindowTyped
<1>4. \E n \in notices' : n.job = item.job /\ n.kind = loop.kind
    BY <1>1 DEF Told
<1>5. QED
    BY <1>1, <1>2, <1>3, <1>4, ItemLeaves

\* A reminder is sent, and logged with the time it tells.
LEMMA SendReminderStep == ASSUME WindowInv, NEW item \in loop.list, SendNotice(item) PROVE WindowInv'
<1> DEFINE notice == [job |-> item.job, kind |-> loop.kind, start |-> item.start]
<1>1. /\ Drop(item) /\ loop.at = "send" /\ ~Told(item.job, loop.kind)
      /\ notices' = notices \union {notice}
      /\ UNCHANGED <<clock, lateAt, bookingVars, lastRound, choreVars, excused>>
    BY DEF SendNotice
<1>2. notices \in SUBSET Notices /\ excused \in SUBSET (Bookings \X Kinds)
    BY DEF WindowInv, WindowTyped
<1>3. /\ notice \in Notices /\ notice.job = item.job /\ notice.kind = loop.kind
      /\ notice.start = item.start
    BY LoopTyped DEF Notices
<1> HIDE DEF notice
<1>4. ToldTheRightTime'
    <2>1. notice.start = booking[notice.job].start \/ notice.job \in reslotted
        BY <1>3 DEF WindowInv, CopiesAreRight
    <2>2. \A n \in notices : ~(n.job = notice.job /\ n.kind = notice.kind)
        BY <1>1, <1>3 DEF Told
    <2>3. booking' = booking /\ reslotted' = reslotted
        BY <1>1 DEF bookingVars
    <2>4. QED
        BY <1>1, <2>1, <2>2, <2>3 DEF WindowInv, CopiesAreRight, ToldTheRightTime
<1>5. \E n \in notices' : n.job = item.job /\ n.kind = loop.kind
    BY <1>1, <1>3
<1>6. notices \subseteq notices' /\ notices' \in SUBSET Notices
    BY <1>1, <1>2, <1>3
<1>7. QED
    BY <1>1, <1>2, <1>4, <1>5, <1>6, ItemLeaves

\* A reminder is not sent, for a reason that is noted.
LEMMA NothingStep == ASSUME WindowInv, NEW item \in loop.list, SendNothing(item) PROVE WindowInv'
<1>1. /\ Drop(item) /\ loop.at = "send" /\ excused' = excused \union {<<item.job, loop.kind>>}
      /\ UNCHANGED <<clock, lateAt, bookingVars, lastRound, choreVars, notices>>
    BY DEF SendNothing
<1>2. ToldTheRightTime'
    BY <1>1 DEF WindowInv, CopiesAreRight, ToldTheRightTime, bookingVars
<1>3. /\ notices \in SUBSET Notices /\ excused \subseteq excused'
      /\ excused' \in SUBSET (Bookings \X Kinds) /\ <<item.job, loop.kind>> \in excused'
    BY <1>1, LoopTyped DEF WindowInv, WindowTyped
<1>4. QED
    BY <1>1, <1>2, <1>3, ItemLeaves

\* A round ends when its list is empty: the jobs that stood in its window have
\* been dealt with.
LEMMA EndRoundStep == ASSUME WindowInv, EndRound PROVE WindowInv'
<1>1. /\ loop.at = "send" /\ loop.list = {} /\ loop' = AfterRound
      /\ lastRound' = [lastRound EXCEPT ![loop.kind] = loop.now]
      /\ UNCHANGED <<clock, booking, settled, reslotted, lateAt, notices, excused,
                     keyUntil, doneAt, failing, passedAt>>
    BY DEF EndRound, bookingVars, choreVars
<1>2. /\ AfterRound \in LoopStates /\ AfterRound.now = loop.now /\ AfterRound.list = {}
      /\ AfterRound.at # "send" /\ AfterRound.now <= clock
    BY AfterTyped
<1>3. /\ lastRound' \in [Kinds -> Ticks] /\ lastRound'[loop.kind] = loop.now
      /\ \A k \in Kinds : k # loop.kind => lastRound'[k] = lastRound[k]
    BY <1>1, LoopTyped DEF WindowInv, WindowTyped
<1>4. WindowTyped'
    BY <1>1, <1>2, <1>3 DEF WindowInv, WindowTyped
<1>5. NothingAhead'
    BY <1>1, <1>2, <1>3 DEF WindowInv, NothingAhead
<1>6. CopiesAreRight'
    BY <1>1, <1>2 DEF WindowInv, CopiesAreRight, ToldTheRightTime
<1>7. RoundIsComplete'
    <2> SUFFICES ASSUME NEW b \in Bookings, NEW k \in Kinds, settled[b] < lastRound'[k],
                        StandsIn(b, k, lastRound'[k])
                 PROVE  Dealt(b, k)
        BY <1>1 DEF RoundIsComplete, StandsIn, Dealt, Told
    <2>1. CASE k = loop.kind
        BY <2>1, <1>1, <1>3 DEF WindowInv, ListIsComplete
    <2>2. CASE k # loop.kind
        BY <2>2, <1>3 DEF WindowInv, RoundIsComplete
    <2>3. QED
        BY <2>1, <2>2
<1>8. ListIsComplete'
    BY <1>1, <1>2 DEF ListIsComplete
<1>9. RemindersComeInTime'
    BY <1>1 DEF WindowInv, RemindersComeInTime, HadItsChance, Told
<1>10. KeysAreHonest' /\ ChoresAreDone'
    BY <1>1 DEF WindowInv, KeysAreHonest, ChoresAreDone
<1>11. QED
    BY <1>4, <1>5, <1>6, <1>7, <1>8, <1>9, <1>10 DEF WindowInv

-----------------------------------------------------------------------------
(* Jobs, the clock and the chores *)

\* Somebody sets a job.
JobIsSet == \E b \in Bookings, start, end \in Moments, open \in BOOLEAN : SetJob(b, start, end, open)

\* A job that is changed now has not stood still for any round there was.
LEMMA SetJobStep == ASSUME WindowInv, JobIsSet PROVE WindowInv'
<1>1. PICK b \in Bookings, slot \in Slots :
         /\ booking' = [booking EXCEPT ![b] = slot]
         /\ settled' = [settled EXCEPT ![b] = clock]
         /\ reslotted' = IF /\ slot.start # booking[b].start
                            /\ \E n \in notices \union loop.list : n.job = b
                         THEN reslotted \union {b} ELSE reslotted
         /\ UNCHANGED <<clock, loop, lateAt, roundVars, choreVars>>
    <2>1. PICK b \in Bookings, start \in Moments, end \in Moments, open \in BOOLEAN :
             /\ booking' = [booking EXCEPT ![b] = [start |-> start, end |-> end, open |-> open]]
             /\ settled' = [settled EXCEPT ![b] = clock]
             /\ reslotted' = IF /\ start # booking[b].start
                                /\ \E n \in notices \union loop.list : n.job = b
                             THEN reslotted \union {b} ELSE reslotted
             /\ UNCHANGED <<clock, loop, lateAt, roundVars, choreVars>>
        BY DEF JobIsSet, SetJob
    <2> DEFINE slot == [start |-> start, end |-> end, open |-> open]
    <2>2. slot \in Slots /\ slot.start = start
        BY DEF Slots
    <2>3. booking' = [booking EXCEPT ![b] = slot]
        BY <2>1
    <2> HIDE DEF slot
    <2>4. QED
        BY <2>1, <2>2, <2>3
<1>2. UNCHANGED <<clock, loop, lateAt, notices, excused, lastRound, keyUntil, doneAt, failing, passedAt>>
    BY <1>1 DEF roundVars, choreVars
<1>3. /\ booking \in [Bookings -> Slots] /\ settled \in [Bookings -> Ticks]
      /\ reslotted \in SUBSET Bookings /\ clock \in Ticks
      /\ notices \in SUBSET Notices /\ loop.list \in SUBSET Copies
    BY LoopTyped DEF WindowInv, WindowTyped
<1>4. /\ booking' \in [Bookings -> Slots] /\ settled' \in [Bookings -> Ticks]
      /\ booking'[b] = slot /\ settled'[b] = clock
      /\ \A c \in Bookings : c # b => booking'[c] = booking[c] /\ settled'[c] = settled[c]
      /\ reslotted' \in SUBSET Bookings /\ reslotted \subseteq reslotted'
    BY <1>1, <1>3
<1>5. WindowTyped'
    BY <1>2, <1>4 DEF WindowInv, WindowTyped
<1>6. NothingAhead'
    BY <1>2 DEF WindowInv, NothingAhead
<1>7. /\ \A n \in notices : n.job \in Bookings /\ n.start \in SlotTimes
      /\ \A n \in loop.list : n.job \in Bookings /\ n.start \in SlotTimes
    BY <1>3 DEF Notices, Copies
<1>8. CopiesAreRight'
    <2>1. \A n \in notices \union loop.list :
             n.start = booking[n.job].start \/ n.job \in reslotted =>
             n.start = booking'[n.job].start \/ n.job \in reslotted'
        <3> SUFFICES ASSUME NEW n \in notices \union loop.list,
                            n.start = booking[n.job].start \/ n.job \in reslotted
                     PROVE  n.start = booking'[n.job].start \/ n.job \in reslotted'
            OBVIOUS
        <3>1. CASE n.job = b
            <4>1. CASE slot.start = booking[b].start
                BY <4>1, <3>1, <1>4
            <4>2. CASE slot.start # booking[b].start
                BY <4>2, <3>1, <1>1
            <4>3. QED
                BY <4>1, <4>2
        <3>2. CASE n.job # b
            BY <3>2, <1>4, <1>7
        <3>3. QED
            BY <3>1, <3>2
    <2>2. QED
        BY <2>1, <1>2 DEF WindowInv, CopiesAreRight, ToldTheRightTime
<1>9. clock \in Nat /\ loop.now <= clock /\ (\A k \in Kinds : lastRound[k] <= clock)
      /\ loop.now \in Nat /\ (\A k \in Kinds : lastRound[k] \in Nat)
    BY LoopTyped, TimesTyped DEF WindowInv, WindowTyped, NothingAhead, Ticks
<1>10. RoundIsComplete'
    <2> SUFFICES ASSUME NEW c \in Bookings, NEW k \in Kinds, settled'[c] < lastRound[k],
                        StandsIn(c, k, lastRound[k])'
                 PROVE  Dealt(c, k)
        BY <1>2 DEF RoundIsComplete, StandsIn, Dealt, Told
    <2>1. c # b
        BY <1>4, <1>9
    <2>2. settled[c] < lastRound[k] /\ StandsIn(c, k, lastRound[k])
        BY <2>1, <1>2, <1>4 DEF StandsIn
    <2>3. QED
        BY <2>2 DEF WindowInv, RoundIsComplete
<1>11. ListIsComplete'
    <2> SUFFICES ASSUME loop.at = "send", NEW c \in Bookings, settled'[c] < loop.now,
                        StandsIn(c, loop.kind, loop.now)'
                 PROVE  Dealt(c, loop.kind) \/ \E item \in loop.list : item.job = c
        BY <1>2 DEF ListIsComplete, StandsIn, Dealt, Told
    <2>1. c # b
        BY <1>4, <1>9
    <2>2. settled[c] < loop.now /\ StandsIn(c, loop.kind, loop.now)
        BY <2>1, <1>2, <1>4 DEF StandsIn
    <2>3. QED
        BY <2>2 DEF WindowInv, ListIsComplete
<1>12. RemindersComeInTime'
    <2> SUFFICES ASSUME NEW c \in Bookings, NEW k \in Kinds,
                        booking'[c].start # NoTime, booking'[c].end # NoTime,
                        Closes[k] <= booking'[c].end, Opens[k] <= booking'[c].start,
                        HadItsChance(c, k, booking[c].end - Closes[k], booking[c].start - Opens[k])'
                 PROVE  Told(c, k)
        BY <1>2 DEF RemindersComeInTime, Told
    <2>1. /\ booking'[c].start \in Nat /\ booking'[c].end \in Nat
          /\ Opens[k] \in Nat /\ Closes[k] \in Nat /\ Gap \in Nat
        BY <1>4, TimesTyped DEF Slots, Moments
    <2>2. /\ settled'[c] < booking'[c].end - Closes[k]
          /\ (booking'[c].end - Closes[k]) + Gap <= booking'[c].start - Opens[k]
          /\ booking'[c].start - Opens[k] < clock
        BY <1>2 DEF HadItsChance
    <2>3. c # b
        <3>1. CASE c = b
            <4>1. clock < booking'[c].end - Closes[k]
                BY <3>1, <2>2, <1>4
            <4>2. QED
                BY <4>1, <2>1, <2>2, <1>9
        <3>2. QED
            BY <3>1
    <2>4. booking'[c] = booking[c] /\ settled'[c] = settled[c]
        BY <2>3, <1>4
    <2>5. QED
        BY <2>4, <1>2 DEF WindowInv, RemindersComeInTime, HadItsChance
<1>13. KeysAreHonest' /\ ChoresAreDone'
    BY <1>2 DEF WindowInv, KeysAreHonest, ChoresAreDone
<1>14. QED
    BY <1>5, <1>6, <1>8, <1>10, <1>11, <1>12, <1>13 DEF WindowInv

\* When the clock leaves the last moment at which a job may be reminded of, the
\* last round is young enough to have met the job in its window.
LEMMA TickStep == ASSUME WindowInv, ClockTick PROVE WindowInv'
<1>1. /\ clock < LastTick /\ clock' = clock + 1
      /\ lateAt' = [k \in Kinds |-> IF lastRound[k] + Gap < clock THEN clock ELSE lateAt[k]]
      /\ UNCHANGED <<loop, booking, settled, reslotted, notices, excused, lastRound,
                     keyUntil, doneAt, failing, passedAt>>
    BY DEF ClockTick, bookingVars, roundVars, choreVars
<1>2. /\ clock \in Ticks /\ clock \in Nat /\ LastTick \in Nat
      /\ lastRound \in [Kinds -> Ticks] /\ lateAt \in [Kinds -> Ticks]
      /\ passedAt \in [Tasks -> Ticks] /\ loop.now \in Ticks
    BY LoopTyped, TimesTyped DEF WindowInv, WindowTyped
<1>3. clock' \in Ticks /\ lateAt' \in [Kinds -> Ticks]
    BY <1>1, <1>2 DEF Ticks
<1>4. WindowTyped'
    BY <1>1, <1>3 DEF WindowInv, WindowTyped
<1>5. NothingAhead'
    BY <1>1, <1>2 DEF WindowInv, NothingAhead, Ticks
<1>6. CopiesAreRight'
    BY <1>1 DEF WindowInv, CopiesAreRight, ToldTheRightTime
<1>7. RoundIsComplete' /\ ListIsComplete'
    BY <1>1 DEF WindowInv, RoundIsComplete, ListIsComplete, StandsIn, Dealt, Told
<1>8. RemindersComeInTime'
    <2> SUFFICES ASSUME NEW b \in Bookings, NEW k \in Kinds,
                        booking[b].start # NoTime, booking[b].end # NoTime,
                        Closes[k] <= booking[b].end, Opens[k] <= booking[b].start,
                        HadItsChance(b, k, booking[b].end - Closes[k], booking[b].start - Opens[k])'
                 PROVE  Told(b, k)
        BY <1>1 DEF RemindersComeInTime, Told
    <2> DEFINE first == booking[b].end - Closes[k]
               last == booking[b].start - Opens[k]
    <2>1. /\ booking[b].start \in Nat /\ booking[b].end \in Nat
          /\ Opens[k] \in Nat /\ Closes[k] \in Nat /\ Gap \in Nat
          /\ settled[b] \in Nat /\ lastRound[k] \in Nat /\ lateAt[k] \in Nat
          /\ lastRound[k] <= clock
        BY <1>2, TimesTyped DEF WindowInv, WindowTyped, NothingAhead, Slots, Moments, Ticks
    <2>2. /\ booking[b].open /\ settled[b] < first /\ first + Gap <= last /\ last < clock + 1
          /\ lateAt'[k] < last /\ <<b, k>> \notin excused
        BY <1>1 DEF HadItsChance
    <2>3. lateAt'[k] = IF lastRound[k] + Gap < clock THEN clock ELSE lateAt[k]
        BY <1>1
    <2>4. last \in Int /\ first \in Int /\ last <= clock
        BY <2>1, <2>2, <1>2
    <2>5. lastRound[k] + Gap >= clock /\ lateAt'[k] = lateAt[k]
        BY <2>1, <2>2, <2>3, <2>4, <1>2
    <2>6. CASE last < clock
        <3>1. HadItsChance(b, k, first, last)
            BY <2>2, <2>5, <2>6 DEF HadItsChance
        <3>2. QED
            BY <3>1 DEF WindowInv, RemindersComeInTime
    <2>7. CASE last = clock
        <3> HIDE DEF first, last
        <3>1. settled[b] < lastRound[k] /\ first <= lastRound[k] /\ lastRound[k] <= last
            BY <2>1, <2>2, <2>4, <2>5, <2>7, <1>2
        <3>2. StandsIn(b, k, lastRound[k])
            BY <3>1, <2>1, <2>2 DEF StandsIn, first, last
        <3>3. Dealt(b, k)
            BY <3>1, <3>2 DEF WindowInv, RoundIsComplete
        <3>4. QED
            BY <3>3, <2>2 DEF Dealt
    <2>8. QED
        BY <2>4, <2>6, <2>7, <1>2
<1>9. KeysAreHonest' /\ ChoresAreDone'
    BY <1>1 DEF WindowInv, KeysAreHonest, ChoresAreDone
<1>10. QED
    BY <1>4, <1>5, <1>6, <1>7, <1>8, <1>9 DEF WindowInv

\* A step of the chores is nothing to the reminders.
LEMMA ChoresMove ==
    ASSUME WindowInv, NEW next \in LoopStates, loop' = next, next.now <= clock,
           next.list \subseteq loop.list, next.at # "send",
           UNCHANGED <<clock, lateAt, bookingVars, roundVars>>,
           keyUntil' \in [Tasks -> Nat], doneAt' \in [Chores -> Ticks],
           failing' \in SUBSET Chores, passedAt' \in [Tasks -> Ticks],
           \A t \in Tasks : passedAt'[t] <= clock,
           KeysAreHonest', ChoresAreDone'
    PROVE  WindowInv'
<1>1. UNCHANGED <<clock, booking, settled, reslotted, lateAt, notices, excused, lastRound>>
    BY DEF bookingVars, roundVars
<1>2. WindowTyped'
    BY <1>1 DEF WindowInv, WindowTyped
<1>3. NothingAhead'
    BY <1>1 DEF WindowInv, NothingAhead
<1>4. CopiesAreRight'
    BY <1>1 DEF WindowInv, CopiesAreRight, ToldTheRightTime
<1>5. RoundIsComplete' /\ ListIsComplete'
    BY <1>1 DEF WindowInv, RoundIsComplete, ListIsComplete, StandsIn, Dealt, Told
<1>6. RemindersComeInTime'
    BY <1>1 DEF WindowInv, RemindersComeInTime, HadItsChance, Told
<1>7. QED
    BY <1>2, <1>3, <1>4, <1>5, <1>6 DEF WindowInv

\* Where the loop is after a task.
LEMMA PastTyped ==
    ASSUME WindowInv, NEW t \in Tasks, PastTask(t)
    PROVE  /\ loop' \in LoopStates /\ loop'.now <= clock /\ loop'.list \subseteq loop.list /\ loop'.at # "send"
           /\ passedAt' \in [Tasks -> Ticks] /\ passedAt'[t] = clock
           /\ \A u \in Tasks : u # t => passedAt'[u] = passedAt[u]
           /\ \A u \in Tasks : passedAt'[u] <= clock
<1>1. /\ loop \in LoopStates /\ loop.now <= clock /\ clock \in Ticks /\ clock <= clock /\ 0 <= clock
      /\ passedAt \in [Tasks -> Ticks] /\ \A u \in Tasks : passedAt[u] <= clock
    BY LoopTyped DEF WindowInv, WindowTyped, NothingAhead
<1>2. passedAt' = [passedAt EXCEPT ![t] = clock]
    BY DEF PastTask
<1>3. /\ passedAt' \in [Tasks -> Ticks] /\ passedAt'[t] = clock
      /\ \A u \in Tasks : u # t => passedAt'[u] = passedAt[u]
      /\ \A u \in Tasks : passedAt'[u] <= clock
    BY <1>1, <1>2
<1>4. loop' = [loop EXCEPT !.at = "tokens"] \/ loop' = [loop EXCEPT !.at = "retention"]
      \/ loop' = Asleep
    BY DEF PastTask, Tasks
<1>5. loop' \in LoopStates /\ loop'.now <= clock /\ loop'.list \subseteq loop.list /\ loop'.at # "send"
    BY <1>1, <1>4, AsleepTyped DEF LoopStates, Tasks
<1>6. QED
    BY <1>3, <1>5

\* A chore of the task is done now, or it is failing; the others are as they were.
LEMMA WorkDone ==
    ASSUME WindowInv, NEW t \in Tasks, NEW done \in SUBSET Chores, Work(t, done)
    PROVE  /\ doneAt' \in [Chores -> Ticks] /\ failing' \in SUBSET Chores
           /\ \A c \in Chores \ failing' :
                 \/ TaskOf[c] = t /\ doneAt'[c] = clock
                 \/ TaskOf[c] # t /\ c \notin failing /\ doneAt'[c] = doneAt[c]
<1> DEFINE duties == {c \in Chores : TaskOf[c] = t}
<1>1. /\ done \subseteq duties
      /\ doneAt' = [c \in Chores |-> IF c \in done THEN clock ELSE doneAt[c]]
      /\ failing' = (failing \ done) \union (duties \ done)
    BY DEF Work
<1>2. clock \in Ticks /\ doneAt \in [Chores -> Ticks] /\ failing \in SUBSET Chores
    BY DEF WindowInv, WindowTyped
<1>3. QED
    BY <1>1, <1>2

\* A cycle that breaks off leaves the key as it was, and that was honest.
LEMMA BreakOffStep ==
    ASSUME WindowInv, NEW t \in Tasks, NEW done \in SUBSET Chores, BreakOff(t, done)
    PROVE  WindowInv'
<1>1. /\ Work(t, done) /\ keyUntil[t] <= clock
      /\ loop' = Asleep /\ UNCHANGED <<clock, lateAt, bookingVars, roundVars, keyUntil, passedAt>>
    BY DEF BreakOff, Work
<1>2. /\ doneAt' \in [Chores -> Ticks] /\ failing' \in SUBSET Chores
      /\ \A c \in Chores \ failing' :
            \/ TaskOf[c] = t /\ doneAt'[c] = clock
            \/ TaskOf[c] # t /\ c \notin failing /\ doneAt'[c] = doneAt[c]
    BY <1>1, WorkDone
<1>3. /\ clock \in Nat /\ 0 <= clock
      /\ \A u \in Tasks : keyUntil[u] \in Nat /\ passedAt[u] \in Nat /\ passedAt[u] <= clock
      /\ keyUntil \in [Tasks -> Nat] /\ passedAt \in [Tasks -> Ticks]
    BY LoopTyped, TimesTyped DEF WindowInv, WindowTyped, NothingAhead
<1>4. KeysAreHonest'
    BY <1>1, <1>2, <1>3, TimesTyped DEF WindowInv, KeysAreHonest
<1>5. ChoresAreDone'
    BY <1>1, <1>2, <1>3, TimesTyped DEF WindowInv, ChoresAreDone
<1>6. QED
    BY <1>1, <1>2, <1>3, <1>4, <1>5, AsleepTyped, ChoresMove

\* The key is set to the interval from now, and the chores that are not failing
\* were done now.
LEMMA PerformStep ==
    ASSUME WindowInv, NEW t \in Tasks, NEW done \in SUBSET Chores, PerformTask(t, done)
    PROVE  WindowInv'
<1>1. /\ Work(t, done) /\ PastTask(t) /\ keyUntil' = [keyUntil EXCEPT ![t] = clock + Postpone[t]]
      /\ UNCHANGED <<clock, lateAt, bookingVars, roundVars>>
    BY DEF PerformTask, KeyExpiry, PastTask
<1>2. /\ doneAt' \in [Chores -> Ticks] /\ failing' \in SUBSET Chores
      /\ \A c \in Chores \ failing' :
            \/ TaskOf[c] = t /\ doneAt'[c] = clock
            \/ TaskOf[c] # t /\ c \notin failing /\ doneAt'[c] = doneAt[c]
    BY <1>1, WorkDone
<1>3. /\ loop' \in LoopStates /\ loop'.now <= clock /\ loop'.list \subseteq loop.list
      /\ loop'.at # "send"
      /\ passedAt' \in [Tasks -> Ticks] /\ passedAt'[t] = clock
      /\ \A u \in Tasks : u # t => passedAt'[u] = passedAt[u]
      /\ \A u \in Tasks : passedAt'[u] <= clock
    BY <1>1, PastTyped
<1>4. clock \in Nat /\ Postpone[t] \in Nat /\ Postpone[t] > 0 /\ keyUntil \in [Tasks -> Nat]
    BY LoopTyped, TimesTyped DEF WindowInv, WindowTyped
<1>5. /\ keyUntil' \in [Tasks -> Nat] /\ keyUntil'[t] = clock + Postpone[t]
      /\ \A u \in Tasks : u # t => keyUntil'[u] = keyUntil[u]
    BY <1>1, <1>4
<1>6. KeysAreHonest'
    <2>1. \A c \in Chores \ failing' : keyUntil'[TaskOf[c]] <= doneAt'[c] + Postpone[TaskOf[c]]
        BY <1>2, <1>4, <1>5, TimesTyped DEF WindowInv, KeysAreHonest
    <2>2. QED
        BY <2>1 DEF KeysAreHonest
<1>7. ChoresAreDone'
    <2>1. \A c \in Chores \ failing' : doneAt'[c] + Postpone[TaskOf[c]] > passedAt'[TaskOf[c]]
        BY <1>2, <1>3, <1>4, TimesTyped DEF WindowInv, ChoresAreDone
    <2>2. QED
        BY <2>1 DEF ChoresAreDone
<1>8. QED
    BY <1>1, <1>2, <1>3, <1>5, <1>6, <1>7, ChoresMove

\* A task is put off only while its key lives, and that is honest.
LEMMA PostponedStep ==
    ASSUME WindowInv, NEW t \in Tasks, Postponed(t) PROVE WindowInv'
<1>1. /\ clock < keyUntil[t] /\ PastTask(t) /\ UNCHANGED <<keyUntil, doneAt, failing>>
      /\ UNCHANGED <<clock, lateAt, bookingVars, roundVars>>
    BY DEF Postponed, PastTask
<1>2. /\ loop' \in LoopStates /\ loop'.now <= clock /\ loop'.list \subseteq loop.list
      /\ loop'.at # "send"
      /\ passedAt' \in [Tasks -> Ticks] /\ passedAt'[t] = clock
      /\ \A u \in Tasks : u # t => passedAt'[u] = passedAt[u]
      /\ \A u \in Tasks : passedAt'[u] <= clock
    BY <1>1, PastTyped
<1>3. /\ clock \in Nat /\ keyUntil \in [Tasks -> Nat] /\ doneAt \in [Chores -> Ticks]
      /\ failing \in SUBSET Chores /\ \A c \in Chores : doneAt[c] \in Nat
    BY LoopTyped, TimesTyped DEF WindowInv, WindowTyped
<1>4. KeysAreHonest'
    BY <1>1 DEF WindowInv, KeysAreHonest
<1>5. ChoresAreDone'
    <2>1. \A c \in Chores \ failing : doneAt[c] + Postpone[TaskOf[c]] > passedAt'[TaskOf[c]]
        <3> SUFFICES ASSUME NEW c \in Chores \ failing
                     PROVE  doneAt[c] + Postpone[TaskOf[c]] > passedAt'[TaskOf[c]]
            OBVIOUS
        <3>1. TaskOf[c] \in Tasks /\ Postpone[TaskOf[c]] \in Nat /\ keyUntil[TaskOf[c]] \in Nat
            BY <1>3, TimesTyped
        <3>2. keyUntil[TaskOf[c]] <= doneAt[c] + Postpone[TaskOf[c]]
              /\ doneAt[c] + Postpone[TaskOf[c]] > passedAt[TaskOf[c]]
            BY DEF WindowInv, KeysAreHonest, ChoresAreDone
        <3>3. QED
            BY <3>1, <3>2, <1>1, <1>2, <1>3
    <2>2. QED
        BY <2>1, <1>1 DEF ChoresAreDone
<1>6. QED
    BY <1>1, <1>2, <1>3, <1>4, <1>5, ChoresMove

-----------------------------------------------------------------------------

\* At first nothing is sent and the loop sleeps.
LEMMA InitWindows == WindowInit => WindowInv
<1> SUFFICES ASSUME WindowInit PROVE WindowInv
    OBVIOUS
<1>1. 0 \in Ticks /\ 0 \in Nat
    BY TimesTyped DEF Ticks
<1>2. WindowTyped
    BY <1>1, AsleepTyped DEF WindowInit, WindowTyped, Slots, Moments
<1>3. NothingAhead /\ CopiesAreRight
    BY AsleepTyped DEF WindowInit, NothingAhead, CopiesAreRight, ToldTheRightTime
<1>4. RoundIsComplete /\ ListIsComplete
    BY AsleepTyped DEF WindowInit, RoundIsComplete, ListIsComplete, StandsIn
<1>5. RemindersComeInTime
    BY DEF WindowInit, RemindersComeInTime
<1>6. KeysAreHonest /\ ChoresAreDone
    BY TimesTyped DEF WindowInit, KeysAreHonest, ChoresAreDone
<1>7. QED
    BY <1>2, <1>3, <1>4, <1>5, <1>6 DEF WindowInv

\* A step of somebody else.
LEMMA WindowsRest == WindowInv /\ UNCHANGED windowVars => WindowInv'
<1> SUFFICES ASSUME WindowInv, UNCHANGED windowVars PROVE WindowInv'
    OBVIOUS
<1>1. UNCHANGED <<clock, booking, loop, notices, keyUntil, settled, reslotted,
                  excused, lastRound, lateAt, doneAt, failing, passedAt>>
    BY DEF windowVars
<1>2. WindowTyped' /\ NothingAhead'
    BY <1>1 DEF WindowInv, WindowTyped, NothingAhead
<1>3. CopiesAreRight'
    BY <1>1 DEF WindowInv, CopiesAreRight, ToldTheRightTime
<1>4. RoundIsComplete' /\ ListIsComplete'
    BY <1>1 DEF WindowInv, RoundIsComplete, ListIsComplete, StandsIn, Dealt, Told
<1>5. RemindersComeInTime'
    BY <1>1 DEF WindowInv, RemindersComeInTime, HadItsChance, Told
<1>6. KeysAreHonest' /\ ChoresAreDone'
    BY <1>1 DEF WindowInv, KeysAreHonest, ChoresAreDone
<1>7. QED
    BY <1>2, <1>3, <1>4, <1>5, <1>6 DEF WindowInv

\* WindowInv is an invariant of the loop and of the jobs it looks at.
THEOREM WindowInvariant == WindowSpec => []WindowInv
<1>1. WindowInit => WindowInv
    BY InitWindows
<1>2. WindowInv /\ [WindowNext]_windowVars => WindowInv'
    <2> SUFFICES ASSUME WindowInv, [WindowNext]_windowVars PROVE WindowInv'
        OBVIOUS
    <2>1. CASE JobIsSet
        BY <2>1, SetJobStep
    <2>2. CASE StartCycle \/ FetchWindow \/ FetchFails \/ EndRound \/ CycleFails \/ ClockTick
        BY <2>2, StartCycleStep, FetchStep, FetchFailsStep, EndRoundStep, CycleFailsStep, TickStep
    <2>3. ASSUME NEW item \in loop.list, SkipTold(item) \/ SendNotice(item) \/ SendNothing(item)
          PROVE  WindowInv'
        BY <2>3, SkipStep, SendReminderStep, NothingStep
    <2>4. ASSUME NEW t \in Tasks, Postponed(t) PROVE WindowInv'
        BY <2>4, PostponedStep
    <2>5. ASSUME NEW t \in Tasks, NEW done \in SUBSET Chores, PerformTask(t, done) \/ BreakOff(t, done)
          PROVE  WindowInv'
        BY <2>5, PerformStep, BreakOffStep
    <2>6. CASE UNCHANGED windowVars
        BY <2>6, WindowsRest
    <2>7. QED
        BY <2>1, <2>2, <2>3, <2>4, <2>5, <2>6 DEF WindowNext, JobIsSet
<1>3. QED
    BY <1>1, <1>2, PTL DEF WindowSpec

\* The clock stays within its bound, and every time that is noted within the clock.
THEOREM WindowTypeCorrect == WindowSpec => []WindowTypeOK
<1>1. WindowInv => WindowTypeOK
    <2> SUFFICES ASSUME WindowInv PROVE WindowTypeOK
        OBVIOUS
    <2>1. QED
        BY DEF WindowInv, WindowTyped, WindowTypeOK, Slots, LoopStates, Notices, Ticks
<1>2. QED
    BY <1>1, WindowInvariant, PTL

\* A job that stands in its window for as long as rounds may be apart is reminded
\* of; customers are told the time of the job, and once; and chores are done at
\* their intervals, whatever breaks off.
THEOREM SchedulerIsInTime == WindowSpec => []SchedulerKeepsTime
<1>1. WindowInv => SchedulerKeepsTime
    BY DEF WindowInv, CopiesAreRight, SchedulerKeepsTime
<1>2. QED
    BY <1>1, WindowInvariant, PTL

-----------------------------------------------------------------------------
(***************************************************************************)
(* JobEdits, for any number of requests, any times and any bodies.  What   *)
(* makes the many commits of update_job safe is a relation between the     *)
(* object in memory, the row, and the history: it holds from the first     *)
(* read of a request to its last commit.                                   *)
(***************************************************************************)

\* What is not flushed yet is asked for, and is in the history already.
PendingIsRecorded ==
    \A e \in Editors : \A f \in Fields :
        req[e].mem[f] # req[e].base[f] =>
            /\ f \in DOMAIN req[e].want
            /\ req[e].mem[f] = req[e].want[f]
            /\ Recorded(f, req[e].mem[f])

\* The session knows the row, but for what others changed.
BaseIsCurrent ==
    \A e \in Editors : req[e].pc \in {"edit", "patch", "delete"} =>
        \A f \in Fields \ touched[e] : row[f] = req[e].base[f]

\* The object in memory is the job as read with the fields visited so far.
LoopInvariant ==
    \A e \in Editors : req[e].pc = "edit" =>
        /\ req[e].want \in Edits
        /\ \A f \in Fields :
              req[e].mem[f] = IF f \in DOMAIN req[e].want \ req[e].left
                              THEN req[e].want[f] ELSE req[e].loaded[f]

\* Patches and deletions change nothing in memory before their commit.
OneCommit ==
    \A e \in Editors :
        /\ req[e].pc = "patch" => req[e].want \in [{"status"} -> Statuses]
        /\ req[e].pc = "delete" => req[e].want = NoEdit
        /\ req[e].pc \in {"patch", "delete"} =>
              req[e].mem = req[e].loaded /\ req[e].base = req[e].loaded

IInv ==
    /\ TypeOK
    /\ PendingIsRecorded
    /\ BaseIsCurrent
    /\ LoopInvariant
    /\ OneCommit
    /\ ValuesRecorded
    /\ EditApplied

-----------------------------------------------------------------------------
(* Jobs and edits *)

LEMMA OfValues == \A f \in Fields : Of(f) \subseteq Values
BY DEF Of, Values, Fields

LEMMA JobsAre ==
    ASSUME NEW j PROVE j \in Jobs <=> /\ j = [f \in Fields |-> j[f]]
                                      /\ \A f \in Fields : j[f] \in Of(f)
BY OfValues DEF Jobs

\* setattr with a value of the column gives a job.
LEMMA SetField ==
    ASSUME NEW j \in Jobs, NEW f \in Fields, NEW v \in Of(f)
    PROVE  /\ [j EXCEPT ![f] = v] \in Jobs
           /\ \A g \in Fields : [j EXCEPT ![f] = v][g] = IF g = f THEN v ELSE j[g]
BY OfValues DEF Jobs

LEMMA ScheduledIsJob ==
    ASSUME NEW j \in Jobs, NEW w
    PROVE  /\ Scheduled(j, w) \in Jobs
           /\ \A f \in Fields : Scheduled(j, w)[f] # j[f] =>
                 /\ f = "status" /\ "start" \in DOMAIN w
                 /\ Scheduled(j, w)[f] = scheduled
<1>1. "status" \in Fields /\ scheduled \in Of("status")
    BY DEF Fields, Of, Statuses
<1>2. QED
    BY <1>1, SetField DEF Scheduled

\* A body asks for values of its fields.
LEMMA WantsAreValues ==
    ASSUME NEW w \in Wants
    PROVE  /\ DOMAIN w \subseteq Fields
           /\ \A f \in DOMAIN w : w[f] \in Of(f)
<1>1. CASE w = NoEdit
    BY <1>1 DEF NoEdit
<1>2. CASE w \in [{"status"} -> Statuses]
    BY <1>2 DEF Fields, Of
<1>3. CASE w \in Edits
    BY <1>3, EditsConstant
<1>4. QED
    BY <1>1, <1>2, <1>3 DEF Wants

\* A commit writes the fields that differ from the last flush.
LEMMA FlushedIsJob ==
    ASSUME TypeOK, NEW e \in Editors, NEW j \in Jobs
    PROVE  /\ Flushed(e, j) \in Jobs
           /\ \A f \in Fields : Flushed(e, j)[f] = IF j[f] # req[e].base[f]
                                                  THEN j[f] ELSE row[f]
<1>1. row \in Jobs
    BY DEF TypeOK
<1>2. QED
    BY <1>1, OfValues DEF Flushed, Jobs
-----------------------------------------------------------------------------
(* The invariant *)

LEMMA InitIInv == Init => IInv
<1> SUFFICES ASSUME Init PROVE IInv
    OBVIOUS
<1>1. created \in Jobs /\ DOMAIN NoEdit = {}
    BY DEF Init, NoEdit
<1>2. QED
    BY <1>1 DEF Init, IInv, TypeOK, PendingIsRecorded, BaseIsCurrent, LoopInvariant,
                OneCommit, ValuesRecorded, EditApplied, Idle, Wants

\* A request reads the job.
LEMMA LoadKeeps ==
    ASSUME IInv, NEW e \in Editors, NEW pc, NEW w \in Wants, Load(e, pc, w),
           \/ pc = "edit" /\ w \in Edits
           \/ pc = "patch" /\ w \in [{"status"} -> Statuses]
           \/ pc = "delete" /\ w = NoEdit
    PROVE  IInv'
<1>1. DOMAIN w \subseteq Fields
    BY WantsAreValues
<1>2. TypeOK'
    BY <1>1 DEF IInv, TypeOK, Load
<1>3. PendingIsRecorded' /\ BaseIsCurrent' /\ OneCommit'
    BY DEF IInv, TypeOK, Load, PendingIsRecorded, BaseIsCurrent, OneCommit, Recorded
<1>4. LoopInvariant'
    BY DEF IInv, TypeOK, Load, LoopInvariant
<1>5. ValuesRecorded' /\ EditApplied'
    BY DEF IInv, TypeOK, Load, ValuesRecorded, EditApplied, Recorded
<1>6. QED
    BY <1>2, <1>3, <1>4, <1>5 DEF IInv

\* A request ends or dies and leaves the tables alone.
LEMMA AnswerKeeps ==
    ASSUME IInv, NEW e \in Editors, NEW pc \in {"failed", "lost"}, Answer(e, pc),
           UNCHANGED <<row, history, created, touched>>, active' \in BOOLEAN
    PROVE  IInv'
BY DEF IInv, TypeOK, Answer, PendingIsRecorded, BaseIsCurrent, LoopInvariant, OneCommit,
       ValuesRecorded, EditApplied, Recorded

\* The fields of the object in memory stay in their types.
LEMMA WantedField ==
    ASSUME TypeOK, NEW e \in Editors, NEW f \in Fields, NextField(e, f)
    PROVE  /\ f \in DOMAIN req[e].want
           /\ req[e].want[f] \in Of(f)
           /\ req[e].want[f] \in Values
<1>1. req[e].want \in Wants /\ f \in DOMAIN req[e].want
    BY DEF TypeOK, NextField
<1>2. QED
    BY <1>1, WantsAreValues, OfValues

LEMMA KeepFieldKeeps ==
    ASSUME IInv, NEW e \in Editors, NEW f \in Fields, KeepField(e, f)
    PROVE  IInv'
<1>1. TypeOK'
    BY DEF IInv, TypeOK, KeepField
<1>2. PendingIsRecorded' /\ BaseIsCurrent' /\ OneCommit'
    BY DEF IInv, TypeOK, KeepField, NextField, PendingIsRecorded, BaseIsCurrent,
           OneCommit, Recorded
<1>3. LoopInvariant'
    BY WantedField DEF IInv, TypeOK, KeepField, NextField, LoopInvariant
<1>4. ValuesRecorded' /\ EditApplied'
    BY DEF IInv, TypeOK, KeepField, NextField, ValuesRecorded, EditApplied, Recorded
<1>5. QED
    BY <1>1, <1>2, <1>3, <1>4 DEF IInv

\* What others know of the row is still so, but for the fields they are told of.
LEMMA CommitKeepsOthers ==
    ASSUME IInv, NEW e \in Editors, NEW r \in Jobs, Commit(e, r),
           \A d \in Editors \ {e} : req'[d] = req[d]
    PROVE  \A d \in Editors \ {e} :
              /\ req'[d].pc \in {"edit", "patch", "delete"} =>
                    \A f \in Fields \ touched'[d] : row'[f] = req'[d].base[f]
              /\ req'[d].pc = "done" =>
                    \A f \in Fields \ touched'[d] :
                       row'[f] = Result(req'[d].loaded, req'[d].want)[f]
BY DEF IInv, TypeOK, Commit, BaseIsCurrent, EditApplied

LEMMA EditFieldKeeps ==
    ASSUME IInv, NEW e \in Editors, NEW f \in Fields, EditField(e, f)
    PROVE  IInv'
<1> DEFINE r == Flushed(e, req[e].mem)
           v == req[e].want[f]
           m == [req[e].mem EXCEPT ![f] = v]
           new == [req[e] EXCEPT !.mem = m, !.base = req[e].mem, !.left = @ \ {f}]
<1>1. /\ NextField(e, f) /\ Commit(e, r) /\ Record(f, v)
      /\ UNCHANGED <<active, created>>
    BY DEF EditField
<1>2. /\ f \in DOMAIN req[e].want /\ v \in Of(f) /\ v \in Values
      /\ req[e].mem \in Jobs /\ f \in req[e].left /\ req[e].pc = "edit"
    BY <1>1, WantedField DEF IInv, TypeOK, NextField
<1>3. /\ r \in Jobs
      /\ \A g \in Fields : r[g] = IF req[e].mem[g] # req[e].base[g]
                                  THEN req[e].mem[g] ELSE row[g]
    BY <1>2, FlushedIsJob DEF IInv
<1>4. /\ m \in Jobs
      /\ \A g \in Fields : m[g] = IF g = f THEN v ELSE req[e].mem[g]
    BY <1>2, SetField
<1>5. /\ req' = [req EXCEPT ![e] = new]
      /\ new \in [pc : {"edit", "patch", "delete", "done", "failed", "lost"}, want : Wants,
                  loaded : Jobs, mem : Jobs, base : Jobs, left : SUBSET Fields]
      /\ new.mem = m /\ new.base = req[e].mem /\ new.left = req[e].left \ {f}
      /\ new.pc = "edit" /\ new.want = req[e].want /\ new.loaded = req[e].loaded
    BY <1>2, <1>4 DEF IInv, TypeOK, EditField
<1> HIDE DEF r, v, m, new
<1>6. history \subseteq history' /\ [field |-> f, new |-> v] \in history'
    BY <1>1 DEF Record
<1>7. req'[e] = new /\ \A d \in Editors \ {e} : req'[d] = req[d]
    BY <1>5 DEF IInv, TypeOK
<1>8. TypeOK'
    <2>1. req' \in [Editors -> [pc : {"idle", "edit", "patch", "delete", "done", "failed", "lost"},
                              want : Wants, loaded : Jobs, mem : Jobs, base : Jobs,
                              left : SUBSET Fields]]
        BY <1>5 DEF IInv, TypeOK
    <2>2. \A d \in Editors : req'[d].left \subseteq DOMAIN req'[d].want
        BY <1>5, <1>7 DEF IInv, TypeOK
    <2>3. row' \in Jobs /\ active' \in BOOLEAN /\ created' \in Jobs
        BY <1>1, <1>3 DEF IInv, TypeOK, Commit
    <2>4. history' \subseteq [field : Fields, new : Values]
        BY <1>1, <1>2 DEF IInv, TypeOK, Record
    <2>5. touched' \in [Editors -> SUBSET Fields]
        BY <1>1 DEF IInv, TypeOK, Commit
    <2>6. QED
        BY <2>1, <2>2, <2>3, <2>4, <2>5 DEF TypeOK
<1>9. PendingIsRecorded'
    <2>1. \A d \in Editors \ {e} : \A g \in Fields :
             req'[d].mem[g] # req'[d].base[g] =>
                 /\ g \in DOMAIN req'[d].want
                 /\ req'[d].mem[g] = req'[d].want[g]
                 /\ \E h \in history' : h.field = g /\ h.new = req'[d].mem[g]
        BY <1>6, <1>7 DEF IInv, PendingIsRecorded, Recorded
    <2>2. \A g \in Fields :
             new.mem[g] # new.base[g] =>
                 /\ g \in DOMAIN new.want
                 /\ new.mem[g] = new.want[g]
                 /\ \E h \in history' : h.field = g /\ h.new = new.mem[g]
        BY <1>2, <1>4, <1>5, <1>6 DEF v
    <2>3. QED
        BY <1>7, <2>1, <2>2 DEF PendingIsRecorded, Recorded
<1>10. BaseIsCurrent' /\ EditApplied'
    <2>1. \A d \in Editors \ {e} :
             /\ req'[d].pc \in {"edit", "patch", "delete"} =>
                   \A g \in Fields \ touched'[d] : row'[g] = req'[d].base[g]
             /\ req'[d].pc = "done" =>
                   \A g \in Fields \ touched'[d] :
                      row'[g] = Result(req'[d].loaded, req'[d].want)[g]
        BY <1>1, <1>3, <1>7, CommitKeepsOthers
    <2>2. \A g \in Fields \ touched'[e] : row'[g] = req'[e].base[g]
        BY <1>1, <1>2, <1>3, <1>5, <1>7 DEF IInv, TypeOK, Commit, BaseIsCurrent
    <2>3. BaseIsCurrent'
        BY <2>1, <2>2 DEF BaseIsCurrent
    <2>4. EditApplied'
        BY <1>5, <1>7, <2>1 DEF EditApplied
    <2>5. QED
        BY <2>3, <2>4
<1>11. LoopInvariant'
    <2>1. /\ new.want \in Edits
          /\ \A g \in Fields :
                new.mem[g] = IF g \in DOMAIN new.want \ new.left
                             THEN new.want[g] ELSE new.loaded[g]
        BY <1>2, <1>4, <1>5 DEF IInv, LoopInvariant, v
    <2>2. QED
        BY <1>7, <2>1 DEF IInv, LoopInvariant
<1>12. OneCommit'
    BY <1>5, <1>7 DEF IInv, OneCommit
<1>13. ValuesRecorded'
    BY <1>1, <1>3, <1>6 DEF IInv, Commit, PendingIsRecorded, ValuesRecorded, Recorded
<1>14. QED
    BY <1>8, <1>9, <1>10, <1>11, <1>12, <1>13 DEF IInv

LEMMA FinishEditKeeps ==
    ASSUME IInv, NEW e \in Editors, FinishEdit(e)
    PROVE  IInv'
<1> DEFINE last == Finishing(e)
           r == Flushed(e, last)
<1>1. /\ req[e].pc = "edit" /\ req[e].left = {}
      /\ Commit(e, r) /\ Answer(e, "done") /\ UNCHANGED <<active, history, created>>
    BY DEF FinishEdit
<1>2. /\ last \in Jobs
      /\ \A f \in Fields : last[f] # req[e].mem[f] => f = "status" /\ last[f] = scheduled
    BY ScheduledIsJob DEF Finishing, IInv, TypeOK
<1>3. /\ r \in Jobs
      /\ \A f \in Fields : r[f] = IF last[f] # req[e].base[f] THEN last[f] ELSE row[f]
    BY <1>2, FlushedIsJob DEF IInv
<1>4. \A d \in Editors \ {e} : req'[d] = req[d]
    BY <1>1 DEF IInv, TypeOK, Answer
<1>5. /\ req'[e].pc = "done" /\ req'[e].mem = req[e].mem /\ req'[e].base = req[e].base
      /\ req'[e].want = req[e].want /\ req'[e].loaded = req[e].loaded
      /\ req'[e].left = req[e].left
    BY <1>1 DEF IInv, TypeOK, Answer
<1>6. TypeOK'
    BY <1>1, <1>3 DEF IInv, TypeOK, Commit, Answer
<1>6a. \A d \in Editors : /\ req'[d].mem = req[d].mem /\ req'[d].base = req[d].base
                          /\ req'[d].want = req[d].want
    BY <1>4, <1>5
<1>6b. PendingIsRecorded'
    BY <1>1, <1>6a DEF IInv, PendingIsRecorded, Recorded
<1>7. LoopInvariant' /\ OneCommit'
    BY <1>4, <1>5 DEF IInv, LoopInvariant, OneCommit
<1>8. last = Result(req[e].loaded, req[e].want)
    <2>1. req[e].mem = [f \in Fields |-> IF f \in DOMAIN req[e].want THEN req[e].want[f]
                                        ELSE req[e].loaded[f]]
        BY <1>1, JobsAre DEF IInv, TypeOK, LoopInvariant
    <2>2. QED
        BY <2>1 DEF Finishing, Result
<1>9. \A f \in Fields \ touched'[e] : row'[f] = last[f]
    BY <1>1, <1>3 DEF IInv, TypeOK, Commit, BaseIsCurrent
<1>10. BaseIsCurrent' /\ EditApplied'
    <2>1. \A d \in Editors \ {e} :
             /\ req'[d].pc \in {"edit", "patch", "delete"} =>
                   \A f \in Fields \ touched'[d] : row'[f] = req'[d].base[f]
             /\ req'[d].pc = "done" =>
                   \A f \in Fields \ touched'[d] :
                      row'[f] = Result(req'[d].loaded, req'[d].want)[f]
        BY <1>1, <1>3, <1>4, CommitKeepsOthers
    <2>2. BaseIsCurrent'
        BY <1>5, <2>1 DEF BaseIsCurrent
    <2>3. \A f \in Fields \ touched'[e] :
             row'[f] = Result(req'[e].loaded, req'[e].want)[f]
        BY <1>5, <1>8, <1>9
    <2>4. EditApplied'
        BY <2>1, <2>3 DEF EditApplied
    <2>5. QED
        BY <2>2, <2>4
<1>11. ValuesRecorded'
    BY <1>1, <1>2, <1>3 DEF IInv, Commit, PendingIsRecorded, ValuesRecorded, Recorded
<1>12. QED
    BY <1>6, <1>6b, <1>7, <1>10, <1>11 DEF IInv

LEMMA PatchStatusKeeps ==
    ASSUME IInv, NEW e \in Editors, PatchStatus(e)
    PROVE  IInv'
<1> DEFINE s == req[e].want["status"]
           r == IF s # req[e].mem["status"] THEN [row EXCEPT !["status"] = s] ELSE row
<1>1. /\ req[e].pc = "patch" /\ Commit(e, r) /\ Record("status", s)
      /\ Answer(e, "done") /\ UNCHANGED <<active, created>>
    BY DEF PatchStatus
<1>2. /\ req[e].want \in [{"status"} -> Statuses] /\ DOMAIN req[e].want = {"status"}
      /\ s \in Of("status") /\ s \in Values /\ "status" \in Fields /\ row \in Jobs
    BY <1>1 DEF IInv, TypeOK, OneCommit, Of, Values, Fields
<1>3. /\ r \in Jobs
      /\ \A f \in Fields : r[f] = IF f = "status" /\ s # req[e].mem["status"] THEN s ELSE row[f]
    BY <1>2, SetField
<1>4. \A d \in Editors \ {e} : req'[d] = req[d]
    BY <1>1 DEF IInv, TypeOK, Answer
<1>5. /\ req'[e].pc = "done" /\ req'[e].mem = req[e].mem /\ req'[e].base = req[e].base
      /\ req'[e].want = req[e].want /\ req'[e].loaded = req[e].loaded
      /\ req'[e].left = req[e].left
    BY <1>1 DEF IInv, TypeOK, Answer
<1>6. history \subseteq history' /\ [field |-> "status", new |-> s] \in history'
    BY <1>1 DEF Record
<1>7. TypeOK'
    BY <1>1, <1>2, <1>3 DEF IInv, TypeOK, Commit, Answer, Record
<1>8. \A d \in Editors : /\ req'[d].mem = req[d].mem /\ req'[d].base = req[d].base
                         /\ req'[d].want = req[d].want
    BY <1>4, <1>5
<1>9. PendingIsRecorded'
    BY <1>6, <1>8 DEF IInv, PendingIsRecorded, Recorded
<1>10. LoopInvariant' /\ OneCommit'
    BY <1>4, <1>5 DEF IInv, LoopInvariant, OneCommit
<1>11. \A d \in Editors \ {e} :
          /\ req'[d].pc \in {"edit", "patch", "delete"} =>
                \A f \in Fields \ touched'[d] : row'[f] = req'[d].base[f]
          /\ req'[d].pc = "done" =>
                \A f \in Fields \ touched'[d] :
                   row'[f] = Result(req'[d].loaded, req'[d].want)[f]
    BY <1>1, <1>3, <1>4, CommitKeepsOthers
<1>12. BaseIsCurrent'
    BY <1>5, <1>11 DEF BaseIsCurrent
<1>13. \A f \in Fields \ touched'[e] : row'[f] = Result(req'[e].loaded, req'[e].want)[f]
    <2>1. /\ req[e].mem = req[e].loaded /\ req[e].base = req[e].loaded
          /\ touched'[e] = touched[e] /\ row' = r
          /\ \A f \in Fields \ touched[e] : row[f] = req[e].base[f]
        BY <1>1 DEF IInv, TypeOK, OneCommit, BaseIsCurrent, Commit
    <2>2. \A f \in Fields : Result(req[e].loaded, req[e].want)[f] =
                            IF f = "status" THEN s ELSE req[e].loaded[f]
        BY <1>2 DEF Result, Scheduled
    <2>3. QED
        BY <1>3, <1>5, <2>1, <2>2
<1>14. EditApplied'
    BY <1>11, <1>13 DEF EditApplied
<1>15. ValuesRecorded'
    BY <1>1, <1>3, <1>6 DEF IInv, Commit, ValuesRecorded, Recorded
<1>16. QED
    BY <1>7, <1>9, <1>10, <1>12, <1>14, <1>15 DEF IInv

LEMMA DeleteJobKeeps ==
    ASSUME IInv, NEW e \in Editors, DeleteJob(e)
    PROVE  IInv'
<1>1. /\ req[e].pc = "delete" /\ Answer(e, "done") /\ active' = FALSE
      /\ UNCHANGED <<row, history, created, touched>>
    BY DEF DeleteJob
<1>2. \A d \in Editors \ {e} : req'[d] = req[d]
    BY <1>1 DEF IInv, TypeOK, Answer
<1>3. /\ req'[e].pc = "done" /\ req'[e].mem = req[e].mem /\ req'[e].base = req[e].base
      /\ req'[e].want = req[e].want /\ req'[e].loaded = req[e].loaded
      /\ req'[e].left = req[e].left
    BY <1>1 DEF IInv, TypeOK, Answer
<1>4. TypeOK'
    BY <1>1 DEF IInv, TypeOK, Answer
<1>5. \A d \in Editors : /\ req'[d].mem = req[d].mem /\ req'[d].base = req[d].base
                         /\ req'[d].want = req[d].want
    BY <1>2, <1>3
<1>6. PendingIsRecorded'
    BY <1>1, <1>5 DEF IInv, PendingIsRecorded, Recorded
<1>7. LoopInvariant' /\ OneCommit' /\ BaseIsCurrent'
    BY <1>1, <1>2, <1>3 DEF IInv, LoopInvariant, OneCommit, BaseIsCurrent
<1>8. \A f \in Fields : Result(req[e].loaded, req[e].want)[f] = req[e].loaded[f]
    BY <1>1 DEF IInv, OneCommit, NoEdit, Result, Scheduled
<1>9. \A f \in Fields \ touched[e] : row[f] = req[e].loaded[f]
    BY <1>1 DEF IInv, OneCommit, BaseIsCurrent
<1>10. EditApplied'
    BY <1>1, <1>2, <1>3, <1>8, <1>9 DEF IInv, EditApplied
<1>11. ValuesRecorded'
    BY <1>1 DEF IInv, ValuesRecorded, Recorded
<1>12. QED
    BY <1>4, <1>6, <1>7, <1>10, <1>11 DEF IInv

-----------------------------------------------------------------------------
LEMMA NextIInv == IInv /\ [Next]_vars => IInv'
<1> SUFFICES ASSUME IInv, [Next]_vars PROVE IInv'
    OBVIOUS
<1>1. ASSUME NEW e \in Editors, NEW w \in Edits, StartEdit(e, w) PROVE IInv'
    BY <1>1, LoadKeeps DEF StartEdit, Wants
<1>2. ASSUME NEW e \in Editors, NEW f \in Fields, KeepField(e, f) PROVE IInv'
    BY <1>2, KeepFieldKeeps
<1>3. ASSUME NEW e \in Editors, NEW f \in Fields, EditField(e, f) PROVE IInv'
    BY <1>3, EditFieldKeeps
<1>4. ASSUME NEW e \in Editors, NEW f \in Fields, EditFieldFails(e, f) PROVE IInv'
    BY <1>4, AnswerKeeps DEF EditFieldFails, IInv, TypeOK
<1>5. ASSUME NEW e \in Editors, FinishEdit(e) PROVE IInv'
    BY <1>5, FinishEditKeeps
<1>6. ASSUME NEW e \in Editors, FinishEditFails(e) PROVE IInv'
    BY <1>6, AnswerKeeps DEF FinishEditFails, IInv, TypeOK
<1>7. ASSUME NEW e \in Editors, NEW s \in Statuses, StartPatch(e, s) PROVE IInv'
    <2>1. [f \in {"status"} |-> s] \in [{"status"} -> Statuses]
        OBVIOUS
    <2>2. QED
        BY <1>7, <2>1, LoadKeeps DEF StartPatch, Wants
<1>8. ASSUME NEW e \in Editors, PatchStatus(e) PROVE IInv'
    BY <1>8, PatchStatusKeeps
<1>9. ASSUME NEW e \in Editors, StartDelete(e) PROVE IInv'
    BY <1>9, LoadKeeps DEF StartDelete, Wants
<1>10. ASSUME NEW e \in Editors, DeleteJob(e) PROVE IInv'
    BY <1>10, DeleteJobKeeps
<1>11. ASSUME NEW e \in Editors, Crash(e) PROVE IInv'
    BY <1>11, AnswerKeeps DEF Crash, IInv, TypeOK
<1>12. CASE UNCHANGED vars
    BY <1>12 DEF IInv, TypeOK, PendingIsRecorded, BaseIsCurrent, LoopInvariant,
                 OneCommit, ValuesRecorded, EditApplied, Recorded, vars
<1>13. QED
    BY <1>1, <1>2, <1>3, <1>4, <1>5, <1>6, <1>7, <1>8, <1>9, <1>10, <1>11, <1>12 DEF Next

LEMMA InvariantHolds == Spec => []IInv
BY InitIInv, NextIInv, PTL DEF Spec

\* Every reachable state is well typed.
THEOREM TypeCorrect == Spec => []TypeOK
<1>1. IInv => TypeOK
    BY DEF IInv
<1>2. QED
    BY <1>1, InvariantHolds, PTL

\* Every value of the job has a history row (or is the automatic status),
\* whatever requests and crashes come between the commits of update_job.
THEOREM EveryValueRecorded == Spec => []ValuesRecorded
<1>1. IInv => ValuesRecorded
    BY DEF IInv
<1>2. QED
    BY <1>1, InvariantHolds, PTL

\* A request that succeeded did what it asked for, and nothing else, to every
\* field that nobody else changed.
THEOREM SuccessMeansApplied == Spec => []EditApplied
<1>1. IInv => EditApplied
    BY DEF IInv
<1>2. QED
    BY <1>1, InvariantHolds, PTL

\* Request e accounts for the new value of field f.
Asked(e, f) ==
    /\ req[e].pc \in {"edit", "patch"}
    /\ \/ f \in DOMAIN req[e].want /\ row'[f] = req[e].want[f]
       \/ f = "status" /\ "start" \in DOMAIN req[e].want /\ row'[f] = scheduled

LEMMA StepIsRequested ==
    ASSUME IInv, Next
    PROVE  \A f \in Fields : row'[f] # row[f] => \E e \in Editors : Asked(e, f)
<1> SUFFICES ASSUME NEW f \in Fields, row'[f] # row[f]
             PROVE  \E e \in Editors : Asked(e, f)
    OBVIOUS
<1>1. ASSUME NEW e \in Editors, NEW g \in Fields, EditField(e, g) PROVE Asked(e, f)
    <2>1. /\ req[e].pc = "edit" /\ row' = Flushed(e, req[e].mem) /\ req[e].mem \in Jobs
        BY <1>1 DEF EditField, NextField, Commit, IInv, TypeOK
    <2>2. row'[f] = IF req[e].mem[f] # req[e].base[f] THEN req[e].mem[f] ELSE row[f]
        BY <2>1, FlushedIsJob DEF IInv
    <2>3. QED
        BY <2>1, <2>2 DEF Asked, IInv, PendingIsRecorded
<1>2. ASSUME NEW e \in Editors, FinishEdit(e) PROVE Asked(e, f)
    <2>1. /\ req[e].pc = "edit" /\ row' = Flushed(e, Finishing(e))
        BY <1>2 DEF FinishEdit, Commit
    <2>2. req[e].mem \in Jobs
        BY DEF IInv, TypeOK
    <2>3. /\ Finishing(e) \in Jobs
          /\ Finishing(e)[f] # req[e].mem[f] =>
                f = "status" /\ "start" \in DOMAIN req[e].want /\ Finishing(e)[f] = scheduled
        BY <2>2, ScheduledIsJob DEF Finishing
    <2>4. row'[f] = IF Finishing(e)[f] # req[e].base[f] THEN Finishing(e)[f] ELSE row[f]
        BY <2>1, <2>3, FlushedIsJob DEF IInv
    <2>5. QED
        BY <2>1, <2>3, <2>4 DEF Asked, IInv, PendingIsRecorded
<1>3. ASSUME NEW e \in Editors, PatchStatus(e) PROVE Asked(e, f)
    <2> DEFINE s == req[e].want["status"]
    <2>1. /\ req[e].pc = "patch" /\ "status" \in DOMAIN req[e].want
          /\ row' = IF s # req[e].mem["status"] THEN [row EXCEPT !["status"] = s] ELSE row
        BY <1>3 DEF PatchStatus, Commit, IInv, OneCommit
    <2>2. f = "status" /\ row'[f] = s
        BY <2>1 DEF IInv, TypeOK, Jobs, Fields
    <2>3. QED
        BY <2>1, <2>2 DEF Asked
<1>4. ASSUME NEW e \in Editors, NEW w, NEW pc, Load(e, pc, w) PROVE FALSE
    BY <1>4 DEF Load
<1>5. ASSUME NEW e \in Editors,
             \/ DeleteJob(e) \/ Crash(e) \/ FinishEditFails(e)
             \/ \E g \in Fields : KeepField(e, g) \/ EditFieldFails(e, g)
      PROVE  FALSE
    BY <1>5 DEF DeleteJob, Crash, FinishEditFails, KeepField, EditFieldFails
<1>6. QED
    BY <1>1, <1>2, <1>3, <1>4, <1>5 DEF Next, StartEdit, StartPatch, StartDelete

\* No commit brings back a value that nobody at work asks for: edits of
\* different fields never undo one another.
THEOREM ChangesAreRequested == Spec => OnlyRequested
<1>1. IInv /\ [Next]_vars =>
        [\A f \in Fields : row'[f] # row[f] =>
           \E e \in Editors :
             /\ req[e].pc \in {"edit", "patch"}
             /\ \/ f \in DOMAIN req[e].want /\ row'[f] = req[e].want[f]
                \/ f = "status" /\ "start" \in DOMAIN req[e].want /\ row'[f] = scheduled]_vars
    BY StepIsRequested DEF Asked
<1>2. QED
    BY <1>1, InvariantHolds, PTL DEF Spec, OnlyRequested

-----------------------------------------------------------------------------
(* Why requests are refused *)

\* The loop visits the start before the end: a field that is behind one still
\* to visit is still to visit too.
OrderKept ==
    \A e \in Editors : \A f \in req[e].left, g \in DOMAIN req[e].want :
        req[e].pc = "edit" /\ Before(f, g) => g \in req[e].left

\* The table holds what its constraint lets in, and so does what was read of it.
SlotsAreValid ==
    /\ ValidTimeRange(row) /\ ValidTimeRange(created)
    /\ \A e \in Editors : ValidTimeRange(req[e].loaded)

RefusalInv == OrderKept /\ SlotsAreValid /\ RefusalHasCause

\* Why request e may be refused; touched: what others changed meanwhile.
Cause(e) ==
    \/ ~ValidTimeRange(Result(req[e].loaded, req[e].want))
    \/ /\ "start" \in DOMAIN req[e].want
       /\ ~ValidTimeRange([req[e].loaded EXCEPT !["start"] = req[e].want["start"]])

LEMMA SameSlot ==
    ASSUME NEW j, NEW k, j["start"] = k["start"], j["end"] = k["end"]
    PROVE  ValidTimeRange(j) <=> ValidTimeRange(k)
BY DEF ValidTimeRange

LEMMA SlotOfResult ==
    ASSUME NEW j \in Jobs, NEW w \in Wants
    PROVE  \A f \in {"start", "end"} :
              Result(j, w)[f] = IF f \in DOMAIN w THEN w[f] ELSE j[f]
<1> DEFINE k == [f \in Fields |-> IF f \in DOMAIN w THEN w[f] ELSE j[f]]
<1>1. \A f \in Fields : k[f] \in Of(f)
  BY WantsAreValues DEF Jobs
<1>2. k \in Jobs  BY <1>1, OfValues DEF Jobs
<1>3. Result(j, w) = Scheduled(k, w)  BY DEF Result
<1> QED  BY <1>2, <1>3, ScheduledIsJob DEF Fields

\* A commit that is refused although nobody moved the slot has its cause in
\* what the loop has visited so far: neither, the start, or both.
LEMMA RefusalIsExplained ==
    ASSUME IInv, RefusalInv, NEW e \in Editors, req[e].pc = "edit",
           NEW m \in Jobs, \A f \in {"start", "end"} : m[f] = req[e].mem[f],
           ~ValidTimeRange(Flushed(e, m)), touched[e] \intersect {"start", "end"} = {}
    PROVE  Cause(e)
<1> DEFINE j == req[e].loaded
           w == req[e].want
           visited == DOMAIN w \ req[e].left
<1>1. /\ j \in Jobs /\ w \in Wants /\ req[e].left \subseteq DOMAIN w
      /\ {"start", "end"} \subseteq Fields
  BY DEF IInv, TypeOK, Fields
<1>2. \A f \in {"start", "end"} : Flushed(e, m)[f] = m[f]
  BY <1>1, FlushedIsJob DEF IInv, BaseIsCurrent
<1>3. \A f \in {"start", "end"} :
         Flushed(e, m)[f] = IF f \in visited THEN w[f] ELSE j[f]
  BY <1>1, <1>2 DEF IInv, LoopInvariant
<1>4. "end" \in visited /\ "start" \notin visited => "start" \notin DOMAIN w
  BY DEF RefusalInv, OrderKept, Before
<1>5. ValidTimeRange(j)  BY DEF RefusalInv, SlotsAreValid
<1>6. CASE "start" \notin visited /\ "end" \notin visited
  BY <1>3, <1>5, <1>6, SameSlot
<1>7. CASE "start" \in visited /\ "end" \notin visited
  <2>1. /\ [j EXCEPT !["start"] = w["start"]]["start"] = w["start"]
        /\ [j EXCEPT !["start"] = w["start"]]["end"] = j["end"]
    BY <1>1 DEF Jobs
  <2>2. ~ValidTimeRange([j EXCEPT !["start"] = w["start"]])
    BY <1>3, <1>7, <2>1, SameSlot
  <2> QED  BY <1>7, <2>2 DEF Cause
<1>8. CASE "end" \in visited
  <2>1. \A f \in {"start", "end"} : Flushed(e, m)[f] = Result(j, w)[f]
    BY <1>1, <1>3, <1>4, <1>8, SlotOfResult
  <2> QED  BY <2>1, SameSlot DEF Cause
<1> QED  BY <1>6, <1>7, <1>8

LEMMA InitRefusal == Init => RefusalInv
BY DEF Init, RefusalInv, OrderKept, SlotsAreValid, RefusalHasCause, Idle

\* Request e moves, but is not refused.
LEMMA NotRefused ==
    ASSUME IInv, RefusalInv, NEW e \in Editors,
           \A d \in Editors \ {e} : req'[d] = req[d],
           \A d \in Editors \ {e} : touched[d] \subseteq touched'[d],
           req'[e].pc # "failed",
           \A f \in req'[e].left, g \in DOMAIN req'[e].want :
              req'[e].pc = "edit" /\ Before(f, g) => g \in req'[e].left,
           ValidTimeRange(row'), ValidTimeRange(req'[e].loaded), UNCHANGED created
    PROVE  RefusalInv'
<1>1. OrderKept'  BY DEF RefusalInv, OrderKept
<1>2. SlotsAreValid'  BY DEF RefusalInv, SlotsAreValid
<1>3. RefusalHasCause'  BY DEF RefusalInv, RefusalHasCause
<1> QED  BY <1>1, <1>2, <1>3 DEF RefusalInv

LEMMA AnswerRefuses ==
    ASSUME IInv, RefusalInv, NEW e \in Editors, NEW pc \in {"done", "failed", "lost"},
           Answer(e, pc), UNCHANGED created, ValidTimeRange(row'),
           \A d \in Editors : touched[d] \subseteq touched'[d],
           pc = "failed" /\ touched[e] \intersect {"start", "end"} = {} => Cause(e)
    PROVE  RefusalInv'
<1>1. /\ \A d \in Editors \ {e} : req'[d] = req[d]
      /\ req'[e].pc = pc /\ req'[e].want = req[e].want
      /\ req'[e].loaded = req[e].loaded /\ req'[e].left = req[e].left
  BY DEF IInv, TypeOK, Answer
<1>2. OrderKept'  BY <1>1 DEF RefusalInv, OrderKept
<1>3. SlotsAreValid'  BY <1>1 DEF RefusalInv, SlotsAreValid
<1>4. RefusalHasCause'  BY <1>1 DEF RefusalInv, RefusalHasCause, Cause
<1> QED  BY <1>2, <1>3, <1>4 DEF RefusalInv

LEMMA LoadAccepts ==
    ASSUME IInv, RefusalInv, NEW e \in Editors, NEW pc \in {"edit", "patch", "delete"},
           NEW w \in Wants, Load(e, pc, w)
    PROVE  RefusalInv'
<1>1. /\ \A d \in Editors \ {e} : req'[d] = req[d] /\ touched'[d] = touched[d]
      /\ req'[e].pc = pc /\ req'[e].want = w /\ req'[e].left = DOMAIN w
      /\ req'[e].loaded = row /\ UNCHANGED <<row, created>>
  BY DEF IInv, TypeOK, Load
<1> QED  BY <1>1, NotRefused DEF RefusalInv, SlotsAreValid

LEMMA LoopAccepts ==
    ASSUME IInv, RefusalInv, NEW e \in Editors, NEW f \in Fields,
           KeepField(e, f) \/ EditField(e, f)
    PROVE  RefusalInv'
<1>1. /\ \A d \in Editors \ {e} : req'[d] = req[d] /\ touched[d] \subseteq touched'[d]
      /\ req'[e].pc = req[e].pc /\ req'[e].want = req[e].want
      /\ req'[e].left = req[e].left \ {f}
      /\ req'[e].loaded = req[e].loaded /\ UNCHANGED created
  BY DEF IInv, TypeOK, KeepField, EditField, Commit
<1>2. ValidTimeRange(row')
  BY DEF KeepField, EditField, Commit, RefusalInv, SlotsAreValid
<1>3. req[e].pc = "edit" /\ \A g \in req[e].left : ~Before(g, f)
  BY DEF KeepField, EditField, NextField
<1>4. \A g \in req'[e].left, h \in DOMAIN req'[e].want :
         Before(g, h) => h \in req'[e].left
  BY <1>1, <1>3 DEF RefusalInv, OrderKept
<1> QED  BY <1>1, <1>2, <1>3, <1>4, NotRefused DEF RefusalInv, SlotsAreValid

LEMMA NextRefusal == IInv /\ RefusalInv /\ [Next]_vars => RefusalInv'
<1> SUFFICES ASSUME IInv, RefusalInv, [Next]_vars PROVE RefusalInv'
  OBVIOUS
<1>1. ValidTimeRange(row)  BY DEF RefusalInv, SlotsAreValid
<1>2. ASSUME NEW e \in Editors, NEW w \in Edits, StartEdit(e, w) PROVE RefusalInv'
  BY <1>2, LoadAccepts DEF StartEdit, Wants
<1>3. ASSUME NEW e \in Editors, NEW f \in Fields, KeepField(e, f) \/ EditField(e, f)
      PROVE  RefusalInv'
  BY <1>3, LoopAccepts
<1>4. ASSUME NEW e \in Editors, NEW f \in Fields, EditFieldFails(e, f) PROVE RefusalInv'
  <2>1. /\ req[e].pc = "edit" /\ ~ValidTimeRange(Flushed(e, req[e].mem))
        /\ Answer(e, "failed") /\ UNCHANGED <<row, created, touched>>
    BY <1>4 DEF EditFieldFails, NextField
  <2>2. req[e].mem \in Jobs  BY DEF IInv, TypeOK
  <2>3. touched[e] \intersect {"start", "end"} = {} => Cause(e)
    BY <2>1, <2>2, RefusalIsExplained
  <2> QED  BY <1>1, <2>1, <2>3, AnswerRefuses
<1>5. ASSUME NEW e \in Editors, FinishEditFails(e) PROVE RefusalInv'
  <2>1. /\ req[e].pc = "edit" /\ ~ValidTimeRange(Flushed(e, Finishing(e)))
        /\ Answer(e, "failed") /\ UNCHANGED <<row, created, touched>>
    BY <1>5 DEF FinishEditFails
  <2>2. req[e].mem \in Jobs  BY DEF IInv, TypeOK
  <2>3. /\ Finishing(e) \in Jobs
        /\ \A f \in {"start", "end"} : Finishing(e)[f] = req[e].mem[f]
    BY <2>2, ScheduledIsJob DEF Finishing, Fields
  <2>4. touched[e] \intersect {"start", "end"} = {} => Cause(e)
    BY <2>1, <2>3, RefusalIsExplained
  <2> QED  BY <1>1, <2>1, <2>4, AnswerRefuses
<1>6. ASSUME NEW e \in Editors, FinishEdit(e) PROVE RefusalInv'
  <2>1. /\ Answer(e, "done") /\ ValidTimeRange(row') /\ UNCHANGED created
        /\ \A d \in Editors : touched[d] \subseteq touched'[d]
    BY <1>6 DEF FinishEdit, Commit, IInv, TypeOK
  <2> QED  BY <2>1, AnswerRefuses
<1>7. ASSUME NEW e \in Editors, NEW s \in Statuses, StartPatch(e, s) PROVE RefusalInv'
  <2>1. [f \in {"status"} |-> s] \in [{"status"} -> Statuses]  OBVIOUS
  <2> QED  BY <1>7, <2>1, LoadAccepts DEF StartPatch, Wants
<1>8. ASSUME NEW e \in Editors, PatchStatus(e) PROVE RefusalInv'
  <2> DEFINE s == req[e].want["status"]
  <2>1. row' = row \/ row' = [row EXCEPT !["status"] = s]
    BY <1>8 DEF PatchStatus, Commit
  <2>2. row'["start"] = row["start"] /\ row'["end"] = row["end"]
    BY <2>1 DEF IInv, TypeOK, Jobs, Fields
  <2>3. ValidTimeRange(row')  BY <1>1, <2>2, SameSlot
  <2>4. /\ Answer(e, "done") /\ UNCHANGED created
        /\ \A d \in Editors : touched[d] \subseteq touched'[d]
    BY <1>8 DEF PatchStatus, Commit, IInv, TypeOK
  <2> QED  BY <2>3, <2>4, AnswerRefuses
<1>9. ASSUME NEW e \in Editors, StartDelete(e) PROVE RefusalInv'
  BY <1>9, LoadAccepts DEF StartDelete, Wants
<1>10. ASSUME NEW e \in Editors, DeleteJob(e) \/ Crash(e) PROVE RefusalInv'
  BY <1>1, <1>10, AnswerRefuses DEF DeleteJob, Crash
<1>11. CASE UNCHANGED vars
  BY <1>11 DEF RefusalInv, OrderKept, SlotsAreValid, RefusalHasCause, vars
<1> QED
  BY <1>2, <1>3, <1>4, <1>5, <1>6, <1>7, <1>8, <1>9, <1>10, <1>11 DEF Next

\* An edit whose slot nobody touched meanwhile is refused only for what it asks:
\* an improper slot, or a start that does not fit the old end, with which
\* update_job commits it.
THEOREM RefusalsHaveCause == Spec => []RefusalHasCause
<1>1. RefusalInv => RefusalHasCause  BY DEF RefusalInv
<1> QED  BY <1>1, InvariantHolds, InitRefusal, NextRefusal, PTL DEF Spec
=============================================================================
