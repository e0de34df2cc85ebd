-------------------------------- MODULE Inbox --------------------------------
(***************************************************************************)
(* One account's notifications as its page lists them, and the form its    *)
(* preferences are set on.                                                 *)
(*                                                                         *)
(* The page asks for the list once, when it opens, and shows the newest.   *)
(* From then on its rows change only by what it is told: a request goes    *)
(* out, the server acts on it, and the answer comes back, in any order     *)
(* with the others.  The account may use another client meanwhile.         *)
(***************************************************************************)
EXTENDS Outbox, FiniteSets

CONSTANTS
  ListSize,              \* the page size of the list
  MaxMail, MaxChanges      \* bounds: requests under way, changes made on the form

ASSUME InboxAssumption == ListSize \in Nat \ {0}

VARIABLES
  made,      \* the notifications, oldest first
  shown,     \* the page's row of each
  mail,      \* the page's requests, and the answers to them
  gone,      \* history: notifications the page has said are deleted
  claimed,   \* history: rows that were on the page when "all read" was pressed
  saved,     \* the NotificationPreference row: kinds of notification, minutes to wait
  form,      \* the preferences on the form, and as they were loaded
  changes      \* history: changes made on the form

boxVars == <<made, shown, mail, gone, claimed>>
formVars == <<saved, form, changes>>
inboxVars == <<boxVars, formVars>>

-----------------------------------------------------------------------------
(* What the form shows of the preferences, and what it sends               *)

KeysOf == [task |-> {"task_assigned", "task_completed", "task_reassigned"},
           review |-> {"review_requested", "review_approved", "review_rejected"},
           file |-> {"file_uploaded"}, mention |-> {"mention"}, system |-> {"task_overdue"}]
Kinds == DOMAIN KeysOf
ShownBy == [task |-> "task_assigned", review |-> "review_requested", file |-> "file_uploaded",
            mention |-> "mention", system |-> "task_overdue"]
Unsent == {"join_approved", "conflict_detected", "downstream_reset"}
AllKeys == Unsent \cup UNION {KeysOf[k] : k \in Kinds}

\* Mutant: the hours are sent as they are.
PayloadMutant(f, row) == [wants |-> (row.wants \cap Unsent) \cup UNION {KeysOf[k] : k \in f.kinds},
                          mail |-> f.hours, qq |-> f.hours * 2]

\* toNotificationPreferencePayload: the switch for escalation is not sent.
Payload(f, row) == [wants |-> (row.wants \cap Unsent) \cup UNION {KeysOf[k] : k \in f.kinds},
                    mail |-> f.hours * 60, qq |-> f.hours * 120]

\* To the nearest hour, halves up, and an hour at least.
InHours(minutes) == IF minutes < 90 THEN 1 ELSE (minutes + 30) \div 60

\* normalizeNotificationPreference
ShownForm(channels, row) ==
  [channels |-> channels, kinds |-> {k \in Kinds : ShownBy[k] \in row.wants},
   hours |-> InHours(row.mail), escalates |-> TRUE]
StoreDefaults == [channels |-> {"in_site", "email"}, kinds |-> Kinds \ {"system"},
             hours |-> 2, escalates |-> TRUE]

-----------------------------------------------------------------------------
(* The list                                                                *)

NoRows == [n \in Note |-> "absent"]
Newest == {made[i] : i \in {k \in DOMAIN made : k > Len(made) - ListSize}}

\* normalizeNotification: what is not read, whatever else it is, is unread.
ListedRows == [n \in Note |-> IF n \notin Newest THEN "absent"
                              ELSE IF note[n].status = "read" THEN "read" ELSE "unread"]

\* `here': the page that asked is still open.
Asking(does, n) == [does |-> does, of |-> n, at |-> "server", ok |-> FALSE, rows |-> NoRows, here |-> TRUE]
AskFor(does, n) ==
  /\ Cardinality(mail) < MaxMail
  /\ mail' = mail \cup {Asking(does, n)}

InboxInit ==
  /\ made = <<>> /\ shown = NoRows /\ mail = {} /\ gone = {} /\ claimed = {}
  /\ saved = [wants |-> AllKeys, mail |-> 30, qq |-> 120]
  /\ form = [at |-> "closed", now |-> StoreDefaults, loaded |-> StoreDefaults]
  /\ changes = 0

Notify(n) ==
  /\ Create(n)
  /\ made' = Append(made, n)
  /\ UNCHANGED <<shown, mail, gone, claimed, formVars>>

\* What is on its way to the server still gets there.
OpenPage ==
  /\ shown' = NoRows
  /\ mail' = {[m EXCEPT !.here = FALSE] : m \in {k \in mail : k.at = "server" /\ k.does # "list"}}
             \cup {Asking("list", "")}
  /\ UNCHANGED <<outboxVars, made, gone, claimed, formVars>>

\* Any row can be clicked, a read one too.
ClickRow(n) ==
  /\ shown[n] \in {"unread", "read"} /\ AskFor("read", n)
  /\ UNCHANGED <<outboxVars, made, shown, gone, claimed, formVars>>

ClickDelete(n) ==
  /\ shown[n] \in {"unread", "read"} /\ AskFor("dismiss", n)
  /\ UNCHANGED <<outboxVars, made, shown, gone, claimed, formVars>>

\* "All read" changes the store, which holds none of the page's rows.
ClickAllRead ==
  /\ claimed' = claimed \cup {n \in Note : shown[n] = "unread"}
  /\ UNCHANGED <<outboxVars, made, shown, mail, gone, formVars>>

\* What the server does with a request, and whether it could.
Served(m) ==
  CASE m.does = "list" -> UNCHANGED outboxVars
    [] m.does = "read" -> IF Unread(m.of) THEN MarkAsRead(m.of) ELSE UNCHANGED outboxVars
    [] m.does = "dismiss" -> IF note[m.of].status = "dismissed" THEN UNCHANGED outboxVars
                             ELSE DismissNotification(m.of)

ServeMail(m) ==
  /\ m.at = "server"
  /\ Served(m)
  /\ mail' = (mail \ {m}) \cup
       (IF m.here THEN {[m EXCEPT !.at = "page", !.ok = m.does # "read" \/ Unread(m.of),
                                  !.rows = IF m.does = "list" THEN ListedRows ELSE NoRows]}
        ELSE {})
  /\ UNCHANGED <<made, shown, gone, claimed, formVars>>

\* Another client of the account.
MarkAllAsRead ==
  /\ \E n \in Note : Unread(n)
  /\ note' = [n \in Note |-> IF Unread(n) THEN [note[n] EXCEPT !.status = "read"] ELSE note[n]]
  /\ UNCHANGED <<old, delivery, world, work, counts, inboxVars>>

ShownAfterMutant(m) ==
  [shown EXCEPT ![m.of] = IF m.does = "dismiss" THEN "gone" ELSE IF @ = "unread" THEN "read" ELSE @]

\* handleMarkAsRead and handleDismiss: a row that has gone stays gone, and
\* what was refused changes nothing.
ShownAfter(m) ==
  [shown EXCEPT ![m.of] = IF ~m.ok THEN @
                          ELSE IF m.does = "dismiss" THEN "gone"
                          ELSE IF @ = "unread" THEN "read" ELSE @]

\* A request may also fail on its way; the list is then left as it is.
Hear(m) ==
  /\ m.at = "page"
  /\ shown' = IF m.does = "list" THEN m.rows ELSE ShownAfter(m)
  /\ gone' = IF m.does = "dismiss" /\ m.ok THEN gone \cup {m.of} ELSE gone
  /\ mail' = mail \ {m}
  /\ UNCHANGED <<outboxVars, made, claimed, formVars>>

Lose(m) ==
  /\ m \in mail
  /\ IF m.does = "list" THEN UNCHANGED shown ELSE shown' = ShownAfter([m EXCEPT !.ok = FALSE])
  /\ mail' = mail \ {m}
  /\ UNCHANGED <<outboxVars, made, gone, claimed, formVars>>

-----------------------------------------------------------------------------
(* The settings form                                                       *)

\* The form opens with what the store was last given.
OpenSettings ==
  /\ form' = [form EXCEPT !.at = "loading", !.now = form.loaded]
  /\ UNCHANGED <<outboxVars, boxVars, saved, changes>>

ShowSettings ==
  LET f == ShownForm(prefs, saved) IN
  /\ form.at = "loading"
  /\ form' \in {[at |-> "open", now |-> f, loaded |-> f], [form EXCEPT !.at = "open"]}
  /\ UNCHANGED <<outboxVars, boxVars, saved, changes>>

Toggle(set, x) == IF x \in set THEN set \ {x} ELSE set \cup {x}

EditSettings(f) ==
  /\ form.at = "open" /\ changes < MaxChanges
  /\ form' = [form EXCEPT !.now = f]
  /\ changes' = changes + 1
  /\ UNCHANGED <<outboxVars, boxVars, saved>>

ChangedForms ==
  {[form.now EXCEPT !.channels = Toggle(@, c)] : c \in {"in_site", "email", "qq"}}
  \cup {[form.now EXCEPT !.kinds = Toggle(@, k)] : k \in Kinds}
  \cup {[form.now EXCEPT !.hours = h] : h \in IF form.now.escalates THEN {1, 3, 72} ELSE {}}
  \cup {[form.now EXCEPT !.escalates = ~@]}

\* There is nothing to save until something differs.  The server keeps what it
\* is sent and answers with its row.
SaveSettings ==
  /\ form.at = "open" /\ form.now # form.loaded
  /\ saved' = Payload(form.now, saved)
  /\ prefs' = form.now.channels
  /\ form' = [form EXCEPT !.at = "saving"]
  /\ UNCHANGED <<note, old, delivery, address, work, counts, boxVars, changes>>

SettingsSaved ==
  LET f == ShownForm(prefs, saved) IN
  /\ form.at = "saving"
  /\ form' = [at |-> "open", now |-> f, loaded |-> f]
  /\ UNCHANGED <<outboxVars, boxVars, saved, changes>>

\* The form keeps what was entered.
SavingFailed ==
  /\ form.at = "saving"
  /\ form' = [form EXCEPT !.at = "open"]
  /\ UNCHANGED <<outboxVars, boxVars, saved, changes>>

-----------------------------------------------------------------------------
MailboxNext ==
  \/ \E n \in Note : Notify(n) \/ ClickRow(n) \/ ClickDelete(n)
  \/ OpenPage \/ ClickAllRead \/ MarkAllAsRead
  \/ \E m \in mail : ServeMail(m) \/ Hear(m) \/ Lose(m)

SettingsNext ==
  \/ OpenSettings \/ ShowSettings \/ SaveSettings \/ SettingsSaved \/ SavingFailed
  \/ \E f \in ChangedForms : EditSettings(f)

InboxSpec == InboxInit /\ OutboxInit /\ [][MailboxNext \/ SettingsNext]_<<outboxVars, inboxVars>>

-----------------------------------------------------------------------------
InboxTypeOK ==
  /\ \A i \in DOMAIN made : made[i] \in Note
  /\ shown \in [Note -> {"absent", "unread", "read", "gone"}]
  /\ \A m \in mail : m.does \in {"list", "read", "dismiss"} /\ m.at \in {"server", "page"}
  /\ gone \subseteq Note /\ claimed \subseteq Note
  /\ saved.wants \subseteq AllKeys /\ {saved.mail, saved.qq} \subseteq Nat
  /\ form.at \in {"closed", "loading", "open", "saving"}
  /\ changes \in 0 .. MaxChanges

\* What the page shows as read or as deleted is so for the server, however its
\* requests and their answers cross, and whatever another client does: nothing
\* the account still has to see is hidden from it.
ShownReadIsRead ==
  \A n \in Note : /\ shown[n] = "read" => note[n].status \in {"read", "dismissed"}
                  /\ shown[n] = "gone" => note[n].status = "dismissed"

\* A form that was saved shows what was on it when it was saved, its hours and
\* kinds of notification too, but for the switch the server never hears of.
SavesWhatIsShown ==
  [][form.at = "saving" /\ form'.at = "open"
     => form'.now = form.now \/ form'.now = [form.now EXCEPT !.escalates = TRUE]]_form

\* Not so: a list reread holds dismissed notifications again, as unread ones.
DismissedStaysGone == \A n \in gone : shown[n] \in {"absent", "gone"}

\* Not so: "all read" is told to nobody.
AllReadMeansRead == \A n \in claimed : shown[n] # "unread"

\* Not so: saving any change also saves the waiting times as the form rounds them.
OnlyEditsAreSaved ==
  [][saved'.mail # saved.mail => form.now.hours # form.loaded.hours]_<<saved, form>>
=============================================================================
