--------------------------- MODULE Subscriptions ---------------------------
(* Email subscriptions with double opt-in: to the incidents of a status page *)
(* (app/subscription.go) and to the newsletter (app/blog_subscription.go),   *)
(* which differ only in who sends mail to the confirmed.  An incident update *)
(* is mailed by a goroutine of its own (adapter/http/incidents.go).          *)
(*                                                                           *)
(* A row is <<list, email, n>>: the n-th row of that address; its two tokens *)
(* are unguessable, so only who got a mail with one can use it.              *)
EXTENDS Integers

CONSTANTS Pages,           \* slugs
          Newsletter,      \* the list of blog_subscribers
          Signups,         \* bound: <<list, address>> of those who may subscribe
          MaxRows,         \* bound: rows per list and address
          Notifications,   \* incident updates
          MaxMailFailures  \* bound: failing statements and mails, deadlines, crashes

ASSUME NewsletterAssumption == Newsletter \notin Pages
ASSUME SignupsAssumption == \A s \in Signups : s[1] \in Pages \cup {Newsletter}
ASSUME MailFailuresAssumption == MaxMailFailures \in Nat

VARIABLES row,          \* the rows, with what became of the confirmation mail
          notify,       \* the goroutines of notifyIncidentAsync
          told,         \* history: incident mails that were sent
          mailFailures

subVars == <<row, notify, told, mailFailures>>

Rows == {<<s[1], s[2], n>> : s \in Signups, n \in 1..MaxRows}
ListOf(r) == r[1]
SameAddress(q, r) == q[1] = r[1] /\ q[2] = r[2]
Pending == {"created", "mailed", "silent"}
Exists(r) == row[r] \in Pending \cup {"confirmed"}

Quiet == [at |-> "idle", page |-> Newsletter, left |-> {}, failed |-> {},
          began |-> {}, consented |-> {}]

(* Only well-formed rows and notifications exist, and only of pages.         *)
SubscriptionsTypeOK ==
    /\ row \in [Rows -> Pending \cup {"unused", "confirmed", "deleted"}]
    /\ \A n \in Notifications :
          /\ notify[n].at \in {"idle", "list", "send", "done", "cut"}
          /\ notify[n].at # "idle" => notify[n].page \in Pages
          /\ \A r \in notify[n].left \cup notify[n].failed : ListOf(r) = notify[n].page
    /\ told \subseteq Notifications \X Rows
    /\ mailFailures \in 0..MaxMailFailures

SubscriptionsInit ==
    /\ row = [r \in Rows |-> "unused"]
    /\ notify = [n \in Notifications |-> Quiet]
    /\ told = {}
    /\ mailFailures = 0

MailFails == mailFailures < MaxMailFailures /\ mailFailures' = mailFailures + 1

-----------------------------------------------------------------------------
(* Statements, the same for both tables.                                     *)

Set(r, to) == row' = [row EXCEPT ![r] = to]

(* INSERT, with UNIQUE (slug, email) or UNIQUE (email).                      *)
CreateSubscriber(r) ==
    /\ row[r] = "unused"
    /\ \A q \in Rows : SameAddress(q, r) => ~Exists(q) /\ (q[3] < r[3] => row[q] = "deleted")
    /\ Set(r, "created")

(* UPDATE ... WHERE confirm_token = $1 AND confirmed_at IS NULL.             *)
ConfirmSubscriber(r) == row[r] \in Pending /\ Set(r, "confirmed")

(* DELETE ... WHERE unsubscribe_token = $1.                                  *)
UnsubscribeSubscriber(r) == Exists(r) /\ Set(r, "deleted")

(* Mutant: without confirmed_at IS NOT NULL.                                 *)
ListConfirmedBySlugAll(page) == {r \in Rows : ListOf(r) = page /\ Exists(r)}
ListConfirmedBySlug(page) == {r \in Rows : ListOf(r) = page /\ row[r] = "confirmed"}

-----------------------------------------------------------------------------
(* The services.                                                             *)

(* Subscribe; when the insert fails it succeeds and does nothing.            *)
Subscribe(r) ==
    /\ CreateSubscriber(r)
    /\ UNCHANGED <<notify, told, mailFailures>>

(* ... and sends the confirmation; a failure leaves the row without a mail,  *)
(* and no later Subscribe sends one.                                         *)
SendConfirmation(r) ==
    /\ row[r] = "created"
    /\ \/ Set(r, "mailed") /\ UNCHANGED mailFailures
       \/ Set(r, "silent") /\ MailFails
    /\ UNCHANGED <<notify, told>>

(* The link of the mail is followed, for the first time.                     *)
Confirm(r) ==
    /\ row[r] = "mailed"
    /\ ConfirmSubscriber(r)
    /\ notify' = [n \in Notifications |->
          IF notify[n].at \in {"list", "send"}
          THEN [notify[n] EXCEPT !.consented = @ \cup {r}] ELSE notify[n]]
    /\ UNCHANGED <<told, mailFailures>>

(* The link of an incident mail, or of a newsletter.                         *)
Unsubscribe(r) ==
    /\ ListOf(r) = Newsletter \/ \E n \in Notifications : <<n, r>> \in told
    /\ row[r] = "confirmed"
    /\ UnsubscribeSubscriber(r)
    /\ UNCHANGED <<notify, told, mailFailures>>

-----------------------------------------------------------------------------
(* An incident was opened or moved on, and a goroutine starts.               *)
NotifyIncidentAsync(n, page) ==
    /\ notify[n].at = "idle"
    /\ LET confirmed == {r \in Rows : ListOf(r) = page /\ row[r] = "confirmed"} IN
       notify' = [notify EXCEPT ![n] = [Quiet EXCEPT
            !.at = "list", !.page = page, !.began = confirmed, !.consented = confirmed]]
    /\ UNCHANGED <<row, told, mailFailures>>

ListSubscribers(n) ==
    /\ notify[n].at = "list"
    /\ notify' = [notify EXCEPT ![n].at = "send",
                                ![n].left = ListConfirmedBySlug(notify[n].page)]
    /\ UNCHANGED <<row, told, mailFailures>>

SendMail(n) ==
    /\ notify[n].at = "send"
    /\ \E r \in notify[n].left :
          /\ notify' = [notify EXCEPT ![n].left = @ \ {r}]
          /\ told' = told \cup {<<n, r>>}
    /\ UNCHANGED <<row, mailFailures>>

(* A mail that fails is logged.  Mutant: the others are not sent then.       *)
SendMailAborts(n) ==
    /\ notify[n].at = "send"
    /\ MailFails
    /\ \E r \in notify[n].left :
          notify' = [notify EXCEPT ![n].left = {}, ![n].failed = {r}]
    /\ UNCHANGED <<row, told>>
SendMailFails(n) ==
    /\ notify[n].at = "send"
    /\ MailFails
    /\ \E r \in notify[n].left :
          notify' = [notify EXCEPT ![n].left = @ \ {r}, ![n].failed = @ \cup {r}]
    /\ UNCHANGED <<row, told>>

EndNotify(n) ==
    /\ notify[n].at = "send"
    /\ notify[n].left = {}
    /\ notify' = [notify EXCEPT ![n].at = "done"]
    /\ UNCHANGED <<row, told, mailFailures>>

(* The list cannot be read, notifyWindow is over, or the process ends.       *)
CutNotify(n) ==
    /\ notify[n].at \in {"list", "send"}
    /\ MailFails
    /\ notify' = [notify EXCEPT ![n].at = "cut"]
    /\ UNCHANGED <<row, told>>

NotifyIncident(n) ==
    ListSubscribers(n) \/ SendMail(n) \/ SendMailFails(n) \/ EndNotify(n) \/ CutNotify(n)

SubscriptionsNext ==
    \/ \E r \in Rows : Subscribe(r) \/ SendConfirmation(r) \/ Confirm(r) \/ Unsubscribe(r)
    \/ \E n \in Notifications : \/ \E page \in Pages : NotifyIncidentAsync(n, page)
                                \/ NotifyIncident(n)

SubscriptionsSpec == SubscriptionsInit /\ [][SubscriptionsNext]_subVars

-----------------------------------------------------------------------------
(* Properties.                                                               *)

(* An incident mail goes only to an address that had confirmed, and had not  *)
(* unsubscribed by the time of the update it tells of, whatever is confirmed *)
(* or unsubscribed while mails go out (NotifyIncident, subscription.go:      *)
(* 92-122).                                                                  *)
MailNeedsConsent ==
    \A n \in Notifications, r \in Rows : <<n, r>> \in told => r \in notify[n].consented

(* "Errors on individual sends are logged but don't abort the batch": once   *)
(* a batch went through, every row confirmed before it began was mailed,     *)
(* unsubscribed, or is the one whose mail failed (subscription.go:92-122).   *)
BatchReachesAll ==
    \A n \in Notifications : notify[n].at = "done" =>
        \A r \in notify[n].began :
            <<n, r>> \in told \/ r \in notify[n].failed \/ row[r] = "deleted"
=============================================================================
