-------------------------- MODULE OrganizationAdmin --------------------------
(***************************************************************************)
(* The platform administration: admin-bl-service, and user-bl-service for  *)
(* the own company, call user-db-access-service, where each change loads a *)
(* row and then commits the columns that differ, and afterwards write the  *)
(* audit entry by a call of its own, whose failure is swallowed.  An entry *)
(* that names an organization is refused by the foreign key once that      *)
(* organization is gone.                                                   *)
(***************************************************************************)
CONSTANTS
    Organizations,
    Slugs,
    Settings,      \* keys of platform_settings
    SettingValues,
    Admins,        \* requests in flight
    Missing,       \* no slug yet, no value
    Gone           \* the slug of an id whose row has been deleted

ASSUME AdminConstants ==
    /\ Organizations # {} /\ Settings # {}
    /\ Missing # Gone /\ {Missing, Gone} \intersect (Slugs \union SettingValues) = {}
    /\ Organizations \intersect Settings = {}

VARIABLES
    org,           \* org[o]: the row
    setting,       \* setting[k]: the value, Missing without a row
    desk,          \* desk[a]: a request and where it is
    unrecorded,    \* history: rows with a change that has no audit entry
    lostEntries,   \* history: rows of which an entry was lost on the way
    blurred,       \* history: organizations whose suspension was half edited
    settled        \* history: settled[k]: the value last accepted for k

adminVars == <<org, setting, desk, unrecorded, lostEntries, blurred, settled>>

\* reason: suspended_reason is not NULL.
OrgRows == [slug : Slugs \union {Missing, Gone}, active : BOOLEAN, reason : BOOLEAN]

\* An id that is not yet in the table.
NoOrg == [slug |-> Missing, active |-> FALSE, reason |-> FALSE]

There(o) == org[o].slug \in Slugs

AdminKinds == {"create", "update", "suspend", "unsuspend", "suspendHere",
               "unsuspendHere", "remove", "company", "setting", "role"}

\* seen: the row loaded; seenValue: the value of the setting; wants: the slug
\* or value asked for.
AtDesk == [at |-> "idle", kind |-> "update",
           org |-> CHOOSE o \in Organizations : TRUE,
           key |-> CHOOSE k \in Settings : TRUE,
           seen |-> NoOrg, seenValue |-> Missing, wants |-> Missing]

AdminTypeOK ==
    /\ org \in [Organizations -> OrgRows]
    /\ setting \in [Settings -> SettingValues \union {Missing}]
    /\ desk \in [Admins -> [at : {"idle", "insert", "commit", "prefs", "entry"},
                            kind : AdminKinds, org : Organizations, key : Settings,
                            seen : OrgRows,
                            seenValue : SettingValues \union {Missing},
                            wants : Slugs \union SettingValues \union {Missing}]]
    /\ unrecorded \subseteq Organizations \union Settings
    /\ lostEntries \subseteq Organizations \union Settings
    /\ blurred \subseteq Organizations
    /\ settled \in [Settings -> SettingValues \union {Missing}]

AdminInit ==
    /\ org = [o \in Organizations |-> NoOrg]
    /\ setting = [k \in Settings |-> Missing]
    /\ desk = [a \in Admins |-> AtDesk]
    /\ unrecorded = {}
    /\ lostEntries = {}
    /\ blurred = {}
    /\ settled = [k \in Settings |-> Missing]

adminRows == <<org, setting, blurred, settled>>
adminTrail == <<unrecorded, lostEntries>>

Home(a) == desk' = [desk EXCEPT ![a] = AtDesk]

Proceed(a, where) ==
    desk' = [desk EXCEPT ![a] = [AtDesk EXCEPT !.at = where, !.kind = desk[a].kind,
                                               !.org = desk[a].org, !.key = desk[a].key]]

Target(a) == IF desk[a].kind = "setting" THEN desk[a].key ELSE desk[a].org

\* The row is changed, and the next step is the audit entry.
Changed(a) == Proceed(a, "entry") /\ UNCHANGED adminTrail

-----------------------------------------------------------------------------
(* Requests, up to the SELECT in user-db-access-service *)

LoadOrg(a, kind, o) ==
    /\ desk[a].at = "idle"
    /\ There(o)
    /\ desk' = [desk EXCEPT ![a] = [AtDesk EXCEPT !.at = "commit", !.kind = kind,
                                                  !.org = o, !.seen = org[o]]]
    /\ UNCHANGED <<adminRows, adminTrail>>

UpdateOrganization(a, o) == LoadOrg(a, "update", o)

SuspendOrganization(a, o) == LoadOrg(a, "suspend", o)

UnsuspendOrganization(a, o) == LoadOrg(a, "unsuspend", o)

DeleteOrganization(a, o) == LoadOrg(a, "remove", o)

\* The routes for it in user-db-access-service, which admin-bl does not use.
SuspendDirectly(a, o) == LoadOrg(a, "suspendHere", o)

UnsuspendDirectly(a, o) == LoadOrg(a, "unsuspendHere", o)

\* create_new_organization looks the slug up and finds it free.
CreateOrganization(a, o, slug) ==
    /\ desk[a].at = "idle"
    /\ org[o] = NoOrg /\ \A b \in Admins : desk[b].at = "insert" => desk[b].org # o
    /\ \A other \in Organizations : org[other].slug # slug
    /\ desk' = [desk EXCEPT ![a] = [AtDesk EXCEPT !.at = "insert", !.kind = "create",
                                                  !.org = o, !.wants = slug]]
    /\ UNCHANGED <<adminRows, adminTrail>>

\* PUT /company of user-bl-service: first the company row.  With preferences
\* a call for the organization follows.
UpdateCompany(a, o) ==
    /\ desk[a].at = "idle"
    /\ There(o)
    /\ \E where \in {"prefs", "entry"} :
          desk' = [desk EXCEPT ![a] = [AtDesk EXCEPT !.at = where, !.kind = "company",
                                                     !.org = o]]
    /\ UNCHANGED <<adminRows, adminTrail>>

\* PUT /admin/users/{id}: the role of a user; its entry names no organization.
UpdateUserRole(a) ==
    /\ desk[a].at = "idle"
    /\ desk' = [desk EXCEPT ![a] = [AtDesk EXCEPT !.at = "entry", !.kind = "role"]]
    /\ UNCHANGED <<adminRows, adminTrail>>

\* upsert_platform_setting: a value equal to the one found is not written, so
\* it counts from here.
UpdateSetting(a, k, value) ==
    /\ desk[a].at = "idle"
    /\ desk' = [desk EXCEPT ![a] = [AtDesk EXCEPT !.at = "commit", !.kind = "setting",
                                                  !.key = k, !.wants = value,
                                                  !.seenValue = setting[k]]]
    /\ settled' = [settled EXCEPT ![k] = IF setting[k] = value THEN value ELSE @]
    /\ UNCHANGED <<org, setting, blurred, adminTrail>>

-----------------------------------------------------------------------------
(* Commits *)

AtOrgCommit(a, kind) == desk[a].at = "commit" /\ desk[a].kind = kind

\* The UPDATE of a flush, in the row as it is by now.
FlushedOrg(seen, new, row) ==
    [slug   |-> IF new.slug # seen.slug THEN new.slug ELSE row.slug,
     active |-> IF new.active # seen.active THEN new.active ELSE row.active,
     reason |-> IF new.reason # seen.reason THEN new.reason ELSE row.reason]

\* The UPDATE of a row that has been deleted fails, and so does one with a
\* slug that is taken.
OrgCommit(a, new, half) ==
    LET o == desk[a].org  row == FlushedOrg(desk[a].seen, new, org[o])
        refused == \/ ~There(o)
                   \/ \E p \in Organizations \ {o} : org[p].slug = row.slug
    IN
    /\ org' = IF refused THEN org ELSE [org EXCEPT ![o] = row]
    /\ blurred' = IF ~refused /\ (half \/ desk[a].seen # org[o])
                  THEN blurred \union {o} ELSE blurred
    /\ IF refused THEN Home(a) /\ UNCHANGED adminTrail
       ELSE IF desk[a].kind \in {"suspendHere", "unsuspendHere"}
       THEN Home(a) /\ UNCHANGED adminTrail
       ELSE Changed(a)
    /\ UNCHANGED <<setting, settled>>

\* update_organization with any of its columns; half: one that belongs to a
\* suspension is taken back without the other.
CommitOrgUpdate(a) ==
    /\ AtOrgCommit(a, "update")
    /\ \E slug \in Slugs, active, reason \in BOOLEAN :
          LET new == [desk[a].seen EXCEPT !.slug = slug, !.active = active,
                                          !.reason = reason]
          IN  OrgCommit(a, new, active /\ reason)

\* What admin-bl sends to suspend and to reactivate.
Suspended(seen, kind) ==
    IF kind = "suspend" THEN [seen EXCEPT !.active = FALSE, !.reason = TRUE]
    ELSE [seen EXCEPT !.active = TRUE, !.reason = FALSE]

CommitSuspension(a) ==
    \E kind \in {"suspend", "unsuspend"} :
        /\ AtOrgCommit(a, kind)
        /\ OrgCommit(a, Suspended(desk[a].seen, kind), FALSE)

\* suspend_organization, whose reason is optional, of user-db-access-service
CommitSuspendHere(a) ==
    /\ AtOrgCommit(a, "suspendHere")
    /\ \E reason \in BOOLEAN :
          OrgCommit(a, [desk[a].seen EXCEPT !.active = FALSE, !.reason = reason], FALSE)

\* unsuspend_organization of user-db-access-service
CommitUnsuspendHere(a) ==
    /\ AtOrgCommit(a, "unsuspendHere")
    /\ OrgCommit(a, [desk[a].seen EXCEPT !.active = TRUE, !.reason = FALSE], FALSE)

\* delete_organization; the rows that point to it are set to NULL.
CommitOrgDelete(a) ==
    LET o == desk[a].org IN
    /\ AtOrgCommit(a, "remove")
    /\ org' = [org EXCEPT ![o] = [NoOrg EXCEPT !.slug = Gone]]
    /\ IF There(o) THEN Changed(a) ELSE Home(a) /\ UNCHANGED adminTrail
    /\ UNCHANGED <<setting, blurred, settled>>

\* create_organization: the unique slug refuses a second one.
InsertOrganization(a) ==
    LET o == desk[a].org  slug == desk[a].wants
        taken == \E p \in Organizations : org[p].slug = slug IN
    /\ desk[a].at = "insert"
    /\ org' = IF taken THEN org
              ELSE [org EXCEPT ![o] = [NoOrg EXCEPT !.slug = slug, !.active = TRUE]]
    /\ IF taken THEN Home(a) /\ UNCHANGED adminTrail ELSE Changed(a)
    /\ UNCHANGED <<setting, blurred, settled>>

\* The second call of PUT /company: a failure leaves the company changed.
CommitPreferences(a) ==
    /\ desk[a].at = "prefs"
    /\ IF There(desk[a].org) THEN Changed(a)
       ELSE /\ Home(a)
            /\ unrecorded' = unrecorded \union {desk[a].org}
            /\ UNCHANGED lostEntries
    /\ UNCHANGED adminRows

\* Mutant of CommitSetting: the INSERT ignores the conflict (DO NOTHING).
CommitSettingIgnored(a) ==
    LET k == desk[a].key  value == desk[a].wants  seen == desk[a].seenValue
        refused == seen = Missing /\ setting[k] # Missing IN
    /\ AtOrgCommit(a, "setting")
    /\ setting' = IF ~refused /\ value # seen THEN [setting EXCEPT ![k] = value]
                  ELSE setting
    /\ settled' = IF value # seen THEN [settled EXCEPT ![k] = value] ELSE settled
    /\ Changed(a)
    /\ UNCHANGED <<org, blurred>>

\* upsert_platform_setting: an UPDATE, or an INSERT that the key may refuse.
CommitSetting(a) ==
    LET k == desk[a].key  value == desk[a].wants  seen == desk[a].seenValue
        refused == seen = Missing /\ setting[k] # Missing
        written == ~refused /\ value # seen IN
    /\ AtOrgCommit(a, "setting")
    /\ setting' = IF written THEN [setting EXCEPT ![k] = value] ELSE setting
    /\ settled' = IF written THEN [settled EXCEPT ![k] = value] ELSE settled
    /\ IF refused THEN Home(a) /\ UNCHANGED adminTrail ELSE Changed(a)
    /\ UNCHANGED <<org, blurred>>

-----------------------------------------------------------------------------
(* The audit entry *)

\* The kinds whose entry names the organization.
ScopedKinds == {"update", "suspend", "unsuspend", "remove", "company"}

\* Mutant of WriteEntry: the entry of a new organization is forgotten.
WriteEntryOfOld(a) ==
    LET refused == \/ desk[a].kind \in ScopedKinds /\ ~There(desk[a].org)
                   \/ desk[a].kind = "create" IN
    /\ desk[a].at = "entry"
    /\ unrecorded' = IF refused THEN unrecorded \union {Target(a)} ELSE unrecorded
    /\ Home(a)
    /\ UNCHANGED <<adminRows, lostEntries>>

\* create_audit_log: the INSERT, which the foreign key may refuse.  The
\* service answers its caller all the same.
WriteEntry(a) ==
    LET refused == desk[a].kind \in ScopedKinds /\ ~There(desk[a].org) IN
    /\ desk[a].at = "entry"
    /\ unrecorded' = IF refused THEN unrecorded \union {Target(a)} ELSE unrecorded
    /\ Home(a)
    /\ UNCHANGED <<adminRows, lostEntries>>

\* The call for the entry fails, or the request is cut off after its commit.
EntryLost(a) ==
    /\ desk[a].at \in {"entry", "prefs"}
    /\ unrecorded' = unrecorded \union {Target(a)}
    /\ lostEntries' = lostEntries \union {Target(a)}
    /\ Home(a)
    /\ UNCHANGED adminRows

\* A request is cut off before its commit.
AdminCutOff(a) ==
    /\ desk[a].at \in {"insert", "commit"}
    /\ Home(a)
    /\ UNCHANGED <<adminRows, adminTrail>>

-----------------------------------------------------------------------------
AdminNext ==
    \E a \in Admins :
        \/ \E o \in Organizations :
              \/ UpdateOrganization(a, o) \/ SuspendOrganization(a, o)
              \/ UnsuspendOrganization(a, o) \/ DeleteOrganization(a, o)
              \/ SuspendDirectly(a, o) \/ UnsuspendDirectly(a, o)
              \/ UpdateCompany(a, o)
              \/ \E slug \in Slugs : CreateOrganization(a, o, slug)
        \/ UpdateUserRole(a)
        \/ \E k \in Settings, value \in SettingValues : UpdateSetting(a, k, value)
        \/ CommitOrgUpdate(a) \/ CommitSuspension(a)
        \/ CommitSuspendHere(a) \/ CommitUnsuspendHere(a)
        \/ CommitOrgDelete(a) \/ InsertOrganization(a)
        \/ CommitPreferences(a) \/ CommitSetting(a)
        \/ WriteEntry(a) \/ EntryLost(a) \/ AdminCutOff(a)

AdminSpec == AdminInit /\ [][AdminNext]_adminVars

-----------------------------------------------------------------------------
(* Properties *)

\* An organization that is at work carries no reason of a suspension: two
\* columns that are written together only differ in time after an edit of one
\* of them, or after two administrators whose requests overlapped.
SuspensionIsWhole ==
    \A o \in Organizations :
        org[o].active /\ org[o].reason => o \in blurred

\* Every change of an organization, a company, a setting or a role is in the
\* audit trail, except where the entry was lost on the way or where the
\* organization has gone by the time of the entry, as it always has when its
\* deletion is what the entry is about.
MissingEntryHasCause ==
    \A t \in unrecorded :
        \/ t \in lostEntries
        \/ t \in Organizations /\ ~There(t)

\* A setting has the value last accepted for it, although each request reads
\* first, writes only a difference, and may find that the key appeared.
SettingIsSettled == setting = settled

\* Together: what overlapping requests of administrators, each of which writes
\* from a copy it read before, leave in the rows.
AdminRowsHold == SuspensionIsWhole /\ SettingIsSettled
=============================================================================
