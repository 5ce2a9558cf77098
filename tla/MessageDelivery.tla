--------------------------- MODULE MessageDelivery ---------------------------
(***************************************************************************)
(* What notification-service sends when it is asked to: the welcome of a   *)
(* customer by mail and by WhatsApp, a test message, the mark of a message *)
(* sent by hand.  Each channel is set up by the first of three tiers that  *)
(* has settings, the message goes out, and then its row is inserted.       *)
(* Twilio reports the fate of a WhatsApp message by receipts that may be   *)
(* lost, repeated or reordered, or come before the row.  (ReminderScheduler*)
(* has the messages that nobody asks for.)  Settings do not change here.   *)
(***************************************************************************)
EXTENDS Naturals

CONSTANTS
    Deliveries,    \* requests; each is made once
    Hooks          \* calls of the webhook in flight

Channels == {"mail", "chat"}

\* There is a request, for an idle call of the webhook to name.
ASSUME DeliveriesAssumption == Deliveries # {}

VARIABLES
    own,           \* own[ch]: the settings of the organization
    platform,      \* platform[ch]: those of the platform
    fallback,      \* SMTP_HOST and TWILIO_AUTH_TOKEN are set
    consent,       \* the customer's data_processing_consent
    delivery,      \* delivery[d]: a request and where it is
    entry,         \* entry[d][ch]: the status in notification_log
    sender,        \* sender[d][ch]: the tier the message went out by
    transit,       \* transit[d]: the WhatsApp message at Twilio
    receipts,      \* receipts <<d, status>> on their way
    hook,          \* hook[h]: a call of the webhook
    known,         \* history: known[d]: the last status a receipt brought in time
    disordered,    \* history: deliveries with a receipt out of order, or two at once
    attempted,     \* history: <<d, ch>> of which an adapter has answered
    unlogged,      \* history: deliveries cut off or ended by an error
    blind,         \* history: <<d, ch>> whose settings were not all read
    withdrew,      \* history: deliveries looked up before consent was withdrawn
    unwanted       \* history: deliveries that sent without consent

deliverySettings == <<own, platform, fallback>>
deliveryRows == <<entry, sender, transit, receipts>>
deliveryHistory == <<known, disordered, attempted, unlogged, blind, withdrew, unwanted>>
deliveryVars == <<deliverySettings, consent, delivery, deliveryRows, hook,
                  deliveryHistory>>

\* off; on but without a host or account; on but refused by the adapter's
\* validation; complete.
Setups == {"off", "lacking", "broken", "full"}

LogStatuses == {"none", "pending", "sent", "delivered", "read", "failed", "pruned"}

\* Where a message is at Twilio, and what it reports.
Fates == {"queued", "sent", "delivered", "read", "failed"}

Tiers == {"none", "own", "platform", "env", "link"}

\* super: the caller is a superadmin.
Unasked == [at |-> "new", kind |-> "welcome", wants |-> {}, ok |-> FALSE, super |-> FALSE]

Quiet == [at |-> "idle", of |-> CHOOSE d \in Deliveries : TRUE,
          status |-> "queued", seen |-> "none"]

DeliveryTypeOK ==
    /\ own \in [Channels -> Setups] /\ platform \in [Channels -> Setups]
    /\ fallback \in BOOLEAN /\ consent \in BOOLEAN
    /\ delivery \in [Deliveries ->
          [at : {"new", "resolveMail", "sendMail", "logMail",
                 "resolveChat", "sendChat", "logChat", "done"},
           kind : {"welcome", "test", "manual"}, wants : SUBSET Channels, ok : BOOLEAN,
           super : BOOLEAN]]
    /\ entry \in [Deliveries -> [Channels -> LogStatuses]]
    /\ sender \in [Deliveries -> [Channels -> Tiers]]
    /\ transit \in [Deliveries -> Fates \union {"none"}]
    /\ receipts \subseteq Deliveries \X Fates
    /\ hook \in [Hooks -> [at : {"idle", "commit"}, of : Deliveries,
                           status : Fates, seen : LogStatuses]]
    /\ known \in [Deliveries -> Fates \union {"none"}]
    /\ attempted \subseteq Deliveries \X Channels
    /\ blind \subseteq Deliveries \X Channels
    /\ disordered \union unlogged \union withdrew \union unwanted \subseteq Deliveries

MessagesInit ==
    /\ own \in [Channels -> Setups]
    /\ platform \in {p \in [Channels -> Setups] : p["chat"] # "broken"}
    /\ fallback \in BOOLEAN
    /\ consent \in BOOLEAN
    /\ delivery = [d \in Deliveries |-> Unasked]
    /\ entry = [d \in Deliveries |-> [ch \in Channels |-> "none"]]
    /\ sender = [d \in Deliveries |-> [ch \in Channels |-> "none"]]
    /\ transit = [d \in Deliveries |-> "none"]
    /\ receipts = {}
    /\ hook = [h \in Hooks |-> Quiet]
    /\ known = [d \in Deliveries |-> "none"]
    /\ disordered = {} /\ attempted = {} /\ unlogged = {}
    /\ blind = {} /\ withdrew = {} /\ unwanted = {}

-----------------------------------------------------------------------------
(* Requests *)

\* The first guards of send_welcome_message.
Welcome(d) == delivery[d].at = "new" /\ consent

\* send_welcome_message: the customer, with consent, then the job.  wants:
\* the channels that are asked for and for which there is an address.
SendWelcome(d) ==
    /\ Welcome(d)
    /\ \E wants \in SUBSET Channels, super \in BOOLEAN :
          delivery' = [delivery EXCEPT ![d] =
              [Unasked EXCEPT !.wants = wants, !.super = super,
                  !.at = IF "mail" \in wants THEN "resolveMail"
                         ELSE IF "chat" \in wants THEN "resolveChat" ELSE "done"]]
    /\ UNCHANGED <<deliverySettings, consent, deliveryRows, hook, deliveryHistory>>

\* send_test_notification: one channel, never the organization's settings.  Any
\* user may ask for it.
SendTest(d) ==
    /\ delivery[d].at = "new"
    /\ \E ch \in Channels, super \in BOOLEAN :
          delivery' = [delivery EXCEPT ![d] =
              [Unasked EXCEPT !.kind = "test", !.wants = {ch}, !.super = super,
                  !.at = IF ch = "mail" THEN "resolveMail" ELSE "resolveChat"]]
    /\ UNCHANGED <<deliverySettings, consent, deliveryRows, hook, deliveryHistory>>

\* mark_notification_sent: a row, and no message.
MarkSent(d) ==
    /\ delivery[d].at = "new"
    /\ \E ch \in Channels : entry' = [entry EXCEPT ![d][ch] = "sent"]
    /\ delivery' = [delivery EXCEPT ![d] = [Unasked EXCEPT !.kind = "manual", !.at = "done"]]
    /\ UNCHANGED <<deliverySettings, consent, sender, transit, receipts, hook,
                   deliveryHistory>>

\* get_organization and get_platform_settings_bulk ask admin-bl-service with the
\* caller's token; whatever is not answered, and both are refused to all but a
\* superadmin, is as good as not set.  A test does not ask for the first.
Answers(d) == IF delivery[d].super THEN BOOLEAN ELSE {FALSE}

OwnSeen(d, ch, found) == IF found /\ delivery[d].kind = "welcome" THEN own[ch] ELSE "off"

PlatformSeen(ch, read) == IF read THEN platform[ch] ELSE "off"

\* Mutant of SmtpTier: the platform comes first.
SmtpTierReversed(mine, common) ==
    IF common \in {"full", "broken"} THEN "platform"
    ELSE IF mine \in {"full", "broken"} THEN "own"
    ELSE IF fallback THEN "env" ELSE "none"

\* _resolve_smtp_config
SmtpTier(mine, common) ==
    IF mine \in {"full", "broken"} THEN "own"
    ELSE IF common \in {"full", "broken"} THEN "platform"
    ELSE IF fallback THEN "env" ELSE "none"

\* _resolve_whatsapp_adapter
ChatTier(mine, common) ==
    IF mine \in {"full", "broken"} THEN "own"
    ELSE IF common = "full" THEN "platform" ELSE "link"

\* get_adapter raises for settings that are not valid.
Refused(tier, mine, common) ==
    \/ tier = "own" /\ mine = "broken"
    \/ tier = "platform" /\ common = "broken"

Reach(d, where) == delivery' = [delivery EXCEPT ![d].at = where]

\* The request ends with an error.
Fails(d) == Reach(d, "done") /\ unlogged' = unlogged \union {d}

AfterMail(d) == IF "chat" \in delivery[d].wants THEN "resolveChat" ELSE "done"

\* A channel is set up: "none" skips the mail of a welcome, and refuses a test.
Resolve(d, ch, tier, refused, whole, send, skip) ==
    /\ IF refused THEN Fails(d)
       ELSE Reach(d, IF tier = "none" THEN skip ELSE send) /\ UNCHANGED unlogged
    /\ sender' = [sender EXCEPT ![d][ch] = IF refused THEN "none" ELSE tier]
    /\ blind' = IF whole THEN blind ELSE blind \union {<<d, ch>>}
    /\ UNCHANGED <<deliverySettings, consent, entry, transit, receipts, hook, known,
                   disordered, attempted, withdrew, unwanted>>

ResolveMail(d) ==
    /\ delivery[d].at = "resolveMail"
    /\ \E found, read \in Answers(d) :
          LET mine == OwnSeen(d, "mail", found)
              common == PlatformSeen("mail", read)
              tier == SmtpTier(mine, common) IN
          Resolve(d, "mail", tier, Refused(tier, mine, common), found /\ read,
                  "sendMail", AfterMail(d))

ResolveChat(d) ==
    /\ delivery[d].at = "resolveChat"
    /\ \E found, read \in Answers(d) :
          LET mine == OwnSeen(d, "chat", found)
              common == PlatformSeen("chat", read)
              tier == ChatTier(mine, common) IN
          Resolve(d, "chat", tier, Refused(tier, mine, common), found /\ read,
                  "sendChat", "done")

-----------------------------------------------------------------------------
(* The adapters, and the row afterwards *)

Sent(d, ch, ok) ==
    /\ attempted' = attempted \union {<<d, ch>>}
    /\ unwanted' = IF ok /\ delivery[d].kind = "welcome" /\ ~consent
                   THEN unwanted \union {d} ELSE unwanted
    /\ UNCHANGED <<deliverySettings, consent, entry, sender, receipts, hook, known,
                   disordered, unlogged, blind, withdrew>>

\* EmailSmtpAdapter.send
SendMail(d) ==
    /\ delivery[d].at = "sendMail"
    /\ \E ok \in BOOLEAN :
          /\ delivery' = [delivery EXCEPT ![d].at = "logMail", ![d].ok = ok]
          /\ Sent(d, "mail", ok)
    /\ UNCHANGED transit

\* WhatsAppTwilioAdapter.send hands the message to Twilio.
SendChat(d) ==
    /\ delivery[d].at = "sendChat" /\ sender[d]["chat"] # "link"
    /\ \E ok \in BOOLEAN :
          /\ delivery' = [delivery EXCEPT ![d].at = "logChat", ![d].ok = ok]
          /\ transit' = IF ok THEN [transit EXCEPT ![d] = "queued"] ELSE transit
          /\ Sent(d, "chat", ok)

\* WhatsAppLinkAdapter.send succeeds with a link in its answer: nothing is sent,
\* and the row will say "sent".
SendLink(d) ==
    /\ delivery[d].at = "sendChat" /\ sender[d]["chat"] = "link"
    /\ \E ok \in BOOLEAN :
          /\ delivery' = [delivery EXCEPT ![d].at = "logChat", ![d].ok = ok]
          /\ Sent(d, "chat", ok)
    /\ UNCHANGED transit

\* create_notification_log
LogMail(d) ==
    /\ delivery[d].at = "logMail"
    /\ entry' = [entry EXCEPT ![d]["mail"] = IF delivery[d].ok THEN "sent" ELSE "failed"]
    /\ Reach(d, AfterMail(d))
    /\ UNCHANGED <<deliverySettings, consent, sender, transit, receipts, hook,
                   deliveryHistory>>

LogChat(d) ==
    /\ delivery[d].at = "logChat"
    /\ entry' = [entry EXCEPT ![d]["chat"] = IF delivery[d].ok THEN "sent" ELSE "failed"]
    /\ Reach(d, "done")
    /\ UNCHANGED <<deliverySettings, consent, sender, transit, receipts, hook,
                   deliveryHistory>>

\* A crash, an exception that no adapter catches, a timeout after Twilio has
\* taken the message.
DeliveryCutOff(d) ==
    /\ delivery[d].at \notin {"new", "done"}
    /\ Fails(d)
    /\ transit' \in {transit, IF delivery[d].at = "sendChat" /\ sender[d]["chat"] # "link"
                              THEN [transit EXCEPT ![d] = "queued"] ELSE transit}
    /\ UNCHANGED <<deliverySettings, consent, entry, sender, receipts, hook, known,
                   disordered, attempted, blind, withdrew, unwanted>>

\* The customer changes the mind, here through customer-bl-service.
ChangeConsent ==
    /\ consent' = ~consent
    /\ withdrew' = IF consent THEN withdrew \union
                      {d \in Deliveries : delivery[d].at \notin {"new", "done"}}
                   ELSE withdrew
    /\ UNCHANGED <<deliverySettings, delivery, deliveryRows, hook, known, disordered,
                   attempted, unlogged, blind, unwanted>>

-----------------------------------------------------------------------------
(* Twilio and its receipts *)

Follows == [queued |-> {"sent", "failed"}, sent |-> {"delivered", "failed"},
            delivered |-> {"read"}, read |-> {}, failed |-> {}]

\* Twilio carries the message on, and reports each state once it is left
\* behind or reached.
Carry(d) ==
    /\ transit[d] # "none"
    /\ \E fate \in Follows[transit[d]] :
          /\ transit' = [transit EXCEPT ![d] = fate]
          /\ receipts' = receipts \union {<<d, fate>>}
    /\ UNCHANGED <<deliverySettings, consent, delivery, entry, sender, hook, deliveryHistory>>

ReportQueued(d) ==
    /\ transit[d] = "queued"
    /\ receipts' = receipts \union {<<d, "queued">>}
    /\ UNCHANGED <<deliverySettings, consent, delivery, entry, sender, transit, hook,
                   deliveryHistory>>

\* _validate_twilio_signature knows one token, that of the environment: a
\* message that an organization sent by its own account is refused.
Genuine(d) == fallback /\ sender[d]["chat"] = "platform"

\* The SELECT of update_delivery_status.  A receipt that Twilio sends again
\* stays on its way; one without a row is answered and forgotten.
LoadReceipt(h, d, status) ==
    /\ hook[h].at = "idle"
    /\ <<d, status>> \in receipts
    /\ receipts' \in {receipts, receipts \ {<<d, status>>}}
    /\ IF Genuine(d) /\ entry[d]["chat"] \notin {"none", "pruned"}
       THEN hook' = [hook EXCEPT ![h] = [at |-> "commit", of |-> d, status |-> status,
                                         seen |-> entry[d]["chat"]]]
       ELSE UNCHANGED hook
    /\ UNCHANGED <<deliverySettings, consent, delivery, entry, sender, transit,
                   deliveryHistory>>

\* Mutant of StatusOf: "read" is counted as sent.
StatusOfRead(status) ==
    IF status = "queued" THEN "pending" ELSE IF status = "read" THEN "sent" ELSE status

\* _STATUS_MAP; "undelivered" is "failed" here.
StatusOf(status) == IF status = "queued" THEN "pending" ELSE status

Rank == [none |-> 0, pruned |-> 0, queued |-> 1, pending |-> 1, sent |-> 2,
         delivered |-> 3, failed |-> 3, read |-> 4]

\* Its UPDATE: whatever the row says by now, unless it said the same when it
\* was loaded; a row that has gone makes it fail.
CommitReceipt(h) ==
    LET d == hook[h].of  new == StatusOf(hook[h].status)  gone == entry[d]["chat"] = "pruned" IN
    /\ hook[h].at = "commit"
    /\ hook' = [hook EXCEPT ![h] = Quiet]
    /\ entry' = IF gone \/ new = hook[h].seen THEN entry ELSE [entry EXCEPT ![d]["chat"] = new]
    /\ disordered' = IF \/ Rank[hook[h].status] < Rank[known[d]]
                        \/ entry[d]["chat"] # hook[h].seen
                     THEN disordered \union {d} ELSE disordered
    /\ known' = IF ~gone /\ Rank[hook[h].status] > Rank[known[d]]
                THEN [known EXCEPT ![d] = hook[h].status] ELSE known
    /\ UNCHANGED <<deliverySettings, consent, delivery, sender, transit, receipts,
                   attempted, unlogged, blind, withdrew, unwanted>>

LoseReceipt ==
    /\ \E receipt \in receipts : receipts' = receipts \ {receipt}
    /\ UNCHANGED <<deliverySettings, consent, delivery, entry, sender, transit, hook,
                   deliveryHistory>>

\* The final states that cleanup_old_notification_logs deletes.
Prunable == {"delivered", "failed"}

PruneLog(d, ch) ==
    /\ entry[d][ch] \in Prunable
    /\ entry' = [entry EXCEPT ![d][ch] = "pruned"]
    /\ UNCHANGED <<deliverySettings, consent, delivery, sender, transit, receipts, hook,
                   deliveryHistory>>

-----------------------------------------------------------------------------
MessagesNext ==
    \/ \E d \in Deliveries :
          \/ SendWelcome(d) \/ SendTest(d) \/ MarkSent(d)
          \/ ResolveMail(d) \/ SendMail(d) \/ LogMail(d)
          \/ ResolveChat(d) \/ SendChat(d) \/ SendLink(d) \/ LogChat(d)
          \/ DeliveryCutOff(d) \/ Carry(d) \/ ReportQueued(d)
          \/ \E h \in Hooks, status \in Fates : LoadReceipt(h, d, status)
          \/ \E ch \in Channels : PruneLog(d, ch)
    \/ \E h \in Hooks : CommitReceipt(h)
    \/ ChangeConsent
    \/ LoseReceipt

MessagesSpec == MessagesInit /\ [][MessagesNext]_deliveryVars

-----------------------------------------------------------------------------
(* Properties *)

\* The log says of a WhatsApp message what became of it: "delivered", "read"
\* and, once Twilio has taken it, "failed" are true, whatever is lost,
\* repeated or overtaken on the way.
LogIsTrue ==
    \A d \in Deliveries :
        LET status == entry[d]["chat"] IN
        /\ status = "delivered" => transit[d] \in {"delivered", "read"}
        /\ status = "read" => transit[d] = "read"
        /\ status = "failed" /\ transit[d] # "none" => transit[d] = "failed"

\* A receipt that was taken is not undone: the row says at least what the best
\* receipt said, unless a receipt came after a later one or two were written
\* at once.
StatusHoldsItsGround ==
    \A d \in Deliveries :
        entry[d]["chat"] # "pruned" /\ Rank[entry[d]["chat"]] < Rank[known[d]] => d \in disordered

\* Retention takes no row of a message whose fate is open.
PrunedIsSettled ==
    \A d \in Deliveries :
        entry[d]["chat"] = "pruned" => transit[d] \in {"none", "delivered", "read", "failed"}

\* An attempt leaves a row, sent or failed, though the row is a commit of its
\* own after the message: none is missing but for requests that ended in an
\* error or are still at it.
AttemptsAreLogged ==
    \A d \in Deliveries, ch \in Channels :
        <<d, ch>> \in attempted /\ entry[d][ch] = "none" =>
            d \in unlogged \/ delivery[d].at \in {"logMail", "logChat"}

\* A welcome goes out by the first tier that has complete settings, the
\* organization's before the platform's, unless an answer was missing or the
\* caller is not a superadmin: of the promise of send_welcome_message this is
\* what the rights of the settings' routes leave.
FirstTierIsUsed ==
    \A d \in Deliveries, ch \in Channels :
        sender[d][ch] # "none" /\ delivery[d].super /\ <<d, ch>> \notin blind =>
            /\ (delivery[d].kind = "welcome" /\ own[ch] = "full") => sender[d][ch] = "own"
            /\ sender[d][ch] \in {"env", "link"} => platform[ch] # "full"

\* Nobody is written to against their will, but for a customer who withdrew
\* the consent while the welcome, which asks once, was on its way.
UnwantedHasCause == unwanted \subseteq withdrew

\* Together: the log has every attempt, with what is known of its fate, for as
\* long as that is open.
LogCanBeTrusted ==
    LogIsTrue /\ StatusHoldsItsGround /\ PrunedIsSettled /\ AttemptsAreLogged

\* Together: a message goes out by the settings that were made for it, and to
\* those who want it.
SentAsAgreed == FirstTierIsUsed /\ UnwantedHasCause
=============================================================================
