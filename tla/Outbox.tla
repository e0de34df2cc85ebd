-------------------------------- MODULE Outbox --------------------------------
(***************************************************************************)
(* The notifications of one account on their way out: by mail and QQ when  *)
(* they are created, and by the escalation job, which reminds of what is   *)
(* still unread, first by mail and then by QQ.                             *)
(*                                                                         *)
(* A delivery is a row written before the message goes out and again after *)
(* it; a server that stops in between leaves the row pending.  Every await *)
(* is a step, but for the preferences, which are read with what they       *)
(* select.  Delivery to the site itself is the notification's own row.     *)
(***************************************************************************)
EXTENDS Naturals, Sequences, FiniteSets

CONSTANTS
  Note,        \* notification ids
  Job,         \* runs of the escalation job that may be under way at a time: the
               \* scheduler starts the next whether or not the last has ended
  MaxCrashes, MaxDeliveries   \* bounds

ASSUME OutboxAssumption ==
  /\ IsFiniteSet(Job) /\ Job # {} /\ Note \cap Job = {}
  /\ MaxCrashes \in Nat /\ MaxDeliveries \in Nat

VARIABLES
  note,      \* the Notification rows: status, and whether `channels' lists email
  old,       \* notifications past email_escalation_min
  delivery,  \* the NotificationDelivery rows for email and QQ
  prefs,     \* what the account has enabled
  address,   \* the channels the account has an address on
  work,      \* what each request and each run of the job is doing
  crashes,   \* history: how often the server stopped
  reminders, \* history: reminder mails handed to the mail server
  messages   \* history: QQ messages handed to the bot

outboxVars == <<note, old, delivery, prefs, address, work, crashes, reminders, messages>>
world == <<prefs, address>>
counts == <<crashes, reminders, messages>>

Channel == {"email", "qq"}
Worker == Note \cup Job   \* a request is named by the notification it creates
Deliveries == DOMAIN delivery
Idle == [at |-> "idle"]
At(w, place) == work[w].at = place
Go(w, next) == work' = [work EXCEPT ![w] = next]

OutboxTypeOK ==
  /\ note \in [Note -> [status : {"none", "unread", "read", "dismissed"}, mailed : BOOLEAN]]
  /\ old \subseteq Note
  /\ Len(delivery) <= MaxDeliveries
  /\ \A d \in Deliveries :
       delivery[d] \in [note : Note, channel : Channel, old : BOOLEAN,
                        status : {"pending", "sent", "failed"}]
  /\ prefs \subseteq {"in_site", "email", "qq"} /\ address \subseteq Channel
  /\ DOMAIN work = Worker
  /\ \A w \in Worker : ~At(w, "idle") => work[w].note \in Note \cup {0} /\ work[w].reminder = (w \in Job)
  /\ crashes \in 0 .. MaxCrashes
  /\ reminders \in [Note -> Nat] /\ messages \in [Note -> Nat]

OutboxInit ==
  /\ note = [n \in Note |-> [status |-> "none", mailed |-> FALSE]]
  /\ old = {} /\ delivery = <<>>
  /\ prefs \in SUBSET {"in_site", "email", "qq"} /\ address \in SUBSET Channel
  /\ work = [w \in Worker |-> Idle]
  /\ crashes = 0
  /\ reminders = [n \in Note |-> 0] /\ messages = [n \in Note |-> 0]

Unread(n) == note[n].status = "unread"
DeliveriesOf(n, ch) == {d \in Deliveries : delivery[d].note = n /\ delivery[d].channel = ch}

-----------------------------------------------------------------------------
(* executeDelivery: the row, the message, the outcome                      *)

Record(w) ==
  /\ At(w, "record") /\ Len(delivery) < MaxDeliveries
  /\ delivery' = Append(delivery, [note |-> work[w].note, channel |-> work[w].channel,
                                   old |-> FALSE, status |-> "pending"])
  /\ Go(w, [work[w] EXCEPT !.at = "send", !.row = Len(delivery) + 1])
  /\ UNCHANGED <<note, old, world, counts>>

\* The mail server or the bot takes the message, or does not.
Send(w, ok) ==
  LET n == work[w].note IN
  /\ At(w, "send")
  /\ Go(w, [work[w] EXCEPT !.at = "outcome", !.ok = ok])
  /\ reminders' = IF ok /\ work[w].channel = "email" /\ work[w].reminder
                    THEN [reminders EXCEPT ![n] = @ + 1] ELSE reminders
  /\ messages' = IF ok /\ work[w].channel = "qq"
                   THEN [messages EXCEPT ![n] = @ + 1] ELSE messages
  /\ UNCHANGED <<note, old, delivery, world, crashes>>

Outcome(w) ==
  /\ At(w, "outcome")
  /\ delivery' = [delivery EXCEPT ![work[w].row].status = IF work[w].ok THEN "sent" ELSE "failed"]
  /\ Go(w, [work[w] EXCEPT !.at = "delivered"])
  /\ UNCHANGED <<note, old, world, counts>>

Blank(n, reminder) == [at |-> "start", note |-> n, channel |-> "email", row |-> 0, ok |-> FALSE,
                       reminder |-> reminder, todo |-> {}]

-----------------------------------------------------------------------------
(* createNotification                                                      *)

Create(n) ==
  /\ note[n].status = "none"
  /\ note' = [note EXCEPT ![n].status = "unread"]
  /\ Go(n, Blank(n, FALSE))
  /\ UNCHANGED <<old, delivery, world, counts>>

\* deliverToChannels reads account and preferences; the account may not want
\* this type of notification.
Begin(n) ==
  /\ At(n, "start")
  /\ \/ Go(n, [work[n] EXCEPT !.at = "next", !.todo = prefs \cap address])
     \/ Go(n, Idle)
  /\ UNCHANGED <<note, old, delivery, world, counts>>

\* Mail first.
NextChannel(n) ==
  LET rest == work[n].todo
      ch == IF "email" \in rest THEN "email" ELSE "qq" IN
  /\ n \in Note /\ (At(n, "next") \/ At(n, "delivered"))
  /\ IF rest = {} THEN Go(n, Idle)
     ELSE Go(n, [work[n] EXCEPT !.at = "record", !.channel = ch, !.todo = rest \ {ch}])
  /\ UNCHANGED <<note, old, delivery, world, counts>>

-----------------------------------------------------------------------------
(* The escalation job                                                      *)

StartJob(j) ==
  /\ At(j, "idle")
  /\ Go(j, Blank(0, TRUE))
  /\ UNCHANGED <<note, old, delivery, world, counts>>

\* What escalateInSiteToEmail lists.
MailDue(n) == /\ {"in_site", "email"} \subseteq prefs /\ "email" \in address
              /\ Unread(n) /\ n \in old /\ ~note[n].mailed

\* Mutant: what was mailed when it was created is left out.
ListMailsMutant(j) ==
  /\ At(j, "start")
  /\ Go(j, [work[j] EXCEPT !.at = "mails",
                           !.todo = {n \in Note : MailDue(n) /\ DeliveriesOf(n, "email") = {}}])
  /\ UNCHANGED <<note, old, delivery, world, counts>>

ListMails(j) ==
  /\ At(j, "start")
  /\ Go(j, [work[j] EXCEPT !.at = "mails", !.todo = {n \in Note : MailDue(n)}])
  /\ UNCHANGED <<note, old, delivery, world, counts>>

RemindByMail(j, n) ==
  /\ At(j, "mails") /\ n \in work[j].todo
  /\ Go(j, [work[j] EXCEPT !.at = "record", !.note = n, !.channel = "email", !.todo = @ \ {n}])
  /\ UNCHANGED <<note, old, delivery, world, counts>>

MailedMutant(n) == note

\* The channel is noted whatever came of the delivery.
Mailed(n) == [note EXCEPT ![n].mailed = TRUE]

NoteChannel(j) ==
  /\ j \in Job /\ At(j, "delivered") /\ work[j].channel = "email"
  /\ note' = Mailed(work[j].note)
  /\ Go(j, [work[j] EXCEPT !.at = "mails"])
  /\ UNCHANGED <<old, delivery, world, counts>>

\* What escalateEmailToQQ lists: mails sent long ago of what is still unread.
QQDue(d) == /\ {"email", "qq"} \subseteq prefs /\ "qq" \in address
            /\ delivery[d].channel = "email" /\ delivery[d].status = "sent" /\ delivery[d].old
            /\ Unread(delivery[d].note)

ListUnread(j) ==
  /\ At(j, "mails") /\ work[j].todo = {}
  /\ Go(j, [work[j] EXCEPT !.at = "unread", !.todo = {d \in Deliveries : QQDue(d)}])
  /\ UNCHANGED <<note, old, delivery, world, counts>>

\* Mutant: the job does not look for an earlier delivery.
MayMessageMutant(n) == TRUE

\* Nothing was ever recorded for QQ, whatever came of it.
MayMessage(n) == DeliveriesOf(n, "qq") = {}

RemindByQQ(j, d) ==
  LET n == delivery[d].note IN
  /\ At(j, "unread") /\ d \in work[j].todo
  /\ Go(j, [work[j] EXCEPT !.at = IF MayMessage(n) THEN "record" ELSE "unread",
                           !.note = n, !.channel = "qq", !.todo = @ \ {d}])
  /\ UNCHANGED <<note, old, delivery, world, counts>>

NextUnread(j) ==
  /\ j \in Job /\ At(j, "delivered") /\ work[j].channel = "qq"
  /\ Go(j, [work[j] EXCEPT !.at = "unread"])
  /\ UNCHANGED <<note, old, delivery, world, counts>>

EndJob(j) ==
  /\ At(j, "unread") /\ work[j].todo = {}
  /\ Go(j, Idle)
  /\ UNCHANGED <<note, old, delivery, world, counts>>

-----------------------------------------------------------------------------
(* The account, time and the server                                        *)

MarkAsRead(n) ==
  /\ Unread(n)
  /\ note' = [note EXCEPT ![n].status = "read"]
  /\ UNCHANGED <<old, delivery, world, work, counts>>

DismissNotification(n) ==
  /\ note[n].status \notin {"none", "dismissed"}
  /\ note' = [note EXCEPT ![n].status = "dismissed"]
  /\ UNCHANGED <<old, delivery, world, work, counts>>

UpdateNotificationPreferences(p) ==
  /\ p # prefs /\ prefs' = p
  /\ UNCHANGED <<note, old, delivery, address, work, counts>>

\* The threshold is a minute or more.
NoteAges(n) ==
  /\ note[n].status # "none" /\ n \notin old /\ At(n, "idle")
  /\ old' = old \cup {n}
  /\ UNCHANGED <<note, delivery, world, work, counts>>

MailAges(d) ==
  /\ delivery[d].channel = "email" /\ delivery[d].status = "sent" /\ ~delivery[d].old
  /\ At(delivery[d].note, "idle")
  /\ delivery' = [delivery EXCEPT ![d].old = TRUE]
  /\ UNCHANGED <<note, old, world, work, counts>>

\* The server stops; requests and runs of the job are gone, the rows stay.
Crash ==
  /\ crashes < MaxCrashes
  /\ crashes' = crashes + 1
  /\ work' = [w \in Worker |-> Idle]
  /\ UNCHANGED <<note, old, delivery, world, reminders, messages>>

-----------------------------------------------------------------------------
DeliveryStep(w) == Record(w) \/ Outcome(w) \/ \E ok \in BOOLEAN : Send(w, ok)

RequestStep(n) == Begin(n) \/ NextChannel(n) \/ DeliveryStep(n)

JobStep(j) ==
  \/ StartJob(j) \/ ListMails(j) \/ NoteChannel(j) \/ ListUnread(j) \/ NextUnread(j) \/ EndJob(j)
  \/ \E n \in Note : RemindByMail(j, n)
  \/ \E d \in Deliveries : RemindByQQ(j, d)
  \/ DeliveryStep(j)

OutboxNext ==
  \/ \E n \in Note : \/ Create(n) \/ RequestStep(n) \/ NoteAges(n)
                     \/ MarkAsRead(n) \/ DismissNotification(n)
  \/ \E j \in Job : JobStep(j)
  \/ \E d \in Deliveries : MailAges(d)
  \/ \E p \in SUBSET {"in_site", "email", "qq"} : UpdateNotificationPreferences(p)
  \/ Crash

\* The cron schedule starts the job again and again, and the event loop
\* resumes it; nothing makes people read or time pass.
OutboxFairness == WF_outboxVars(\E j \in Job : JobStep(j))

OutboxSpec == OutboxInit /\ [][OutboxNext]_outboxVars /\ OutboxFairness

-----------------------------------------------------------------------------
(* What the outbox promises                                                *)

\* A notification is announced by QQ no more often than there are runs of the job
\* that may each have looked for an earlier delivery before the others recorded
\* theirs: once if runs do not overlap.  Neither a failed delivery nor a stop of the
\* server repeats it: the row comes first.
FewMessages == \A n \in Note : messages[n] <= Cardinality(Job)

\* A notification is reminded of by mail once by each run that may have listed it
\* before another noted it, and once more for every time the server stopped before
\* they had.
FewReminders == \A n \in Note : reminders[n] <= Cardinality(Job) * (1 + crashes)

\* Nobody is written to without end: how often a notification goes out is bounded by
\* the runs that overlap and the stops of the server, whatever fails on its way
\* (delivery.service, notification.escalation).
RemindersAreFew == FewMessages /\ FewReminders

\* What is unread for long enough does get its reminder, or is read, or is not
\* to be reminded of any more, even when the server stops on the way.
EventuallyReminded == \A n \in Note : MailDue(n) ~> ~MailDue(n)
=============================================================================
