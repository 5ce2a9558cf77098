------------------------- MODULE MCCustomerServices --------------------------
(***************************************************************************)
(* The records of customers, the messages and reminders to them, the       *)
(* calendar, the edits of a job and the lists read by pages, each on a     *)
(* small instance of its own: they share no state in the models, so a behaviour moves only the   *)
(* part named by its focus and leaves the others as they were at first.    *)
(*                                                                         *)
(* Two more choices keep the instances small.  A part may be looked at in  *)
(* facets, each with some of its operations or with one cached view; and   *)
(* request slots are alike while they are idle, so a request takes the     *)
(* first idle one.                                                         *)
(***************************************************************************)
EXTENDS MCJobEdits, MCReminderWindows, CustomerRecords, CalendarGrid, MessageDelivery, PagedLists

CONSTANTS one, two,     \* request slots
          v1, p2

VARIABLE focus

allVars == <<vars, windowVars, customerVars, calendarVars, deliveryVars, listVars>>

Focus == {<<"edits", "all">>, <<"calendar", "all">>}
         \union ({"lists"} \X DOMAIN OrderOf)
         \union ({"customers"} \X {"places", "profile", "list", "notes"})
         \union ({"messages"} \X {"mail", "chat", "receipts"})
         \union ({"windows"} \X (Kinds \union {"chores"}))

On(part) == focus[1] = part
Facet(name) == focus[2] = name

\* A request in the second slot begins only while the first is taken.
FirstIdle(slot, slotNext, idle) ==
    slot[one] = idle /\ slot[two] = idle => slotNext[two] = idle

-----------------------------------------------------------------------------
(* The visits of the calendar: slots 1 to 4 of the 6 of a day are on the page;  *)
(* day 738945 is Thursday 29 February 2024.                                     *)

Leap == 738945
Slot(day, slot) == day * DaySlots + slot

Timed(day, slot, days, endSlot, allDay) ==
    [start |-> Slot(day, slot), end |-> Slot(day + days, endSlot), allDay |-> allDay]

MCVisitTimes ==
    {[start |-> Never, end |-> Never, allDay |-> FALSE],
     [start |-> Slot(Leap, 3), end |-> Never, allDay |-> FALSE],
     [start |-> Never, end |-> Slot(Leap, 1), allDay |-> FALSE],
     Timed(Leap, 0, 0, 1, FALSE), Timed(Leap, 2, 0, 4, FALSE),
     Timed(Leap, 3, 0, 5, FALSE), Timed(Leap, 4, 0, 5, FALSE),
     Timed(Leap, 1, 0, 3, TRUE), Timed(Leap, 4, 1, 0, FALSE),
     Timed(Leap - 1, 2, 2, 3, FALSE), Timed(Leap - 4, 1, 9, 2, FALSE),
     Timed(Leap + 2, 1, 4, 2, TRUE), Timed(Leap - 1, 1, 0, 2, FALSE)}

MCShownMonths == {<<2024, 2>>, <<2024, 3>>}
MCShownDays == {Leap - 1, Leap, Leap + 1, Leap + 5}
MCFilters == {Visits, {v1}}

-----------------------------------------------------------------------------

\* Every setting of the channel that is looked at, none of the other one.
SettingsToTry ==
    \/ On("messages") /\ focus[2] \in Channels /\ \A ch \in Channels \ {focus[2]} :
          own[ch] = "off" /\ platform[ch] = "off"
    \/ /\ own = [ch \in Channels |-> "off"]
       /\ platform = [mail |-> "off", chat |-> "full"]
       /\ fallback /\ consent

MCInit ==
    /\ focus \in Focus
    /\ Init /\ CustomerInit /\ WindowInit
    /\ created["status"] = completed => created["start"] = 1 /\ created["end"] = 2
    /\ MessagesInit /\ SettingsToTry
    /\ ListInit /\ list = IF On("lists") THEN focus[2] ELSE "users"
    /\ On("lists") \/ \A i \in Ids : rows[i].at = "none"
    /\ CalendarInit
    /\ On("calendar") \/ \A v \in Visits : agenda[v].start = Never

-----------------------------------------------------------------------------
(* The steps of each part *)

EditStep ==
    /\ On("edits")
    /\ Next
    /\ FirstIdle(req, req', Idle)
    /\ UNCHANGED <<windowVars, customerVars, calendarVars, deliveryVars, listVars>>

\* What is asked for in each facet ("notes" is also the kind of an idle slot).
KindsFor ==
    [places  |-> {"notes", "update", "anonymize"},
     profile |-> {"notes", "export", "update", "delete", "anonymize"},
     list    |-> {"notes", "update", "delete", "anonymize"},
     notes   |-> {"notes", "delete", "addNote", "editNote", "dropNote", "anonymize"}]

\* One cached view at a time; addresses only where nothing is cached.
CustomerStep ==
    /\ On("customers")
    /\ CustomerNext
    /\ FirstIdle(errand, errand', AtRest)
    /\ \A k \in CopyKeys : \/ Facet("profile") /\ k[1] = "customer"
                           \/ Facet("list") /\ k[1] = "customers"
                           \/ Facet("notes") /\ k[1] = "notes"
                           \/ copies'[k] = "none"
    /\ \A s \in Staff : errand'[s].kind \in KindsFor[focus[2]]
    /\ \A c \in Customers :
          \/ Facet("places") /\ (profile[c] = NoProfile => profile'[c].address # p2)
          \/ profile'[c].address = Nowhere /\ profile'[c].at = Nowhere
    /\ UNCHANGED <<windowVars, calendarVars, deliveryVars, vars, listVars>>

CalendarStep ==
    /\ On("calendar")
    /\ \/ page = NoPage /\ CalendarNext
       \/ page.view = "month" /\ TurnMonth /\ UNCHANGED agenda
    /\ UNCHANGED <<windowVars, customerVars, deliveryVars, vars, listVars>>

\* Without receipts, for all settings; or with receipts for one welcome.
MessagesStep ==
    /\ On("messages")
    /\ MessagesNext
    /\ FirstIdle(hook, hook', Quiet)
    /\ IF focus[2] \in Channels
       THEN receipts' = {} /\ \A d \in Deliveries : transit'[d] \in {"none", "queued"}
       ELSE /\ consent' = consent
            /\ \A d \in Deliveries : /\ delivery'[d].wants \subseteq {"chat"}
                                     /\ delivery'[d].kind = "welcome"
                                     /\ delivery[d].at = "new" => delivery'[d].super
    /\ UNCHANGED <<windowVars, customerVars, calendarVars, vars, listVars>>

ListStep ==
    /\ On("lists")
    /\ ListNext
    /\ UNCHANGED <<windowVars, customerVars, calendarVars, deliveryVars, vars>>

\* The reminders of one kind, for jobs with a start; or the chores, in cycles
\* that are quick to find no jobs, where only retention ever fails.
WindowStep ==
    /\ On("windows")
    /\ WindowNext
    /\ IF Facet("chores")
       THEN /\ UNCHANGED bookingVars
            /\ loop'.at # "send" /\ failing' \subseteq {"retention", "audit"}
            /\ clock' # clock => loop.at # "fetch"
       ELSE /\ UNCHANGED choreVars
            /\ loop'.at = "send" => Facet(loop'.kind)
            /\ \A b \in Bookings :
                  /\ booking'[b].open = (booking'[b].start # NoTime)
                  /\ booking'[b].open \/ booking'[b].end = NoTime
    /\ UNCHANGED <<customerVars, calendarVars, deliveryVars, listVars, vars>>

MCNext ==
    /\ UNCHANGED focus
    /\ \/ EditStep \/ CustomerStep \/ CalendarStep \/ MessagesStep \/ ListStep
       \/ WindowStep

\* The part that moves; what the others are like is known from the focus.
Seen ==
    <<focus, CASE On("edits") -> vars
               [] On("customers") -> customerVars
               [] On("calendar") -> calendarVars
               [] On("lists") -> listVars
               [] On("windows") -> IF Facet("chores")
                                   THEN <<clock, loop.at, loop.kind, choreVars>>
                                   ELSE windowVars
               [] OTHER -> deliveryVars>>

MCSpec == MCInit /\ [][MCNext]_<<allVars, focus>>

\* Every part keeps to its types: edits hold what the schemas allow, and the log
\* of messages no status but its own.  (A part at rest is as it was at first,
\* and that is seen by a behaviour in which it moves.)
CustomerPartsTyped ==
    /\ On("edits") => TypeOK
    /\ On("windows") => WindowTypeOK
    /\ On("customers") => CustomerTypeOK
    /\ On("messages") => DeliveryTypeOK
    /\ On("lists") => ListTypeOK
=============================================================================
