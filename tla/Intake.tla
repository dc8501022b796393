------------------------------- MODULE Intake -------------------------------
(***************************************************************************)
(* The public forms of the site: the contact form (api/contact.py), the    *)
(* newsletter signup and the unsubscribe link (api/newsletter_public.py),  *)
(* the terminal intake (api/intake.py, core/db/crud.py), the subscriber    *)
(* list and its auto-reply behind them (core/subscribers.py,               *)
(* core/contact_autoreply.py, core/email_service.py) and the retention     *)
(* sweep over their rows (core/retention.py).                              *)
(*                                                                         *)
(* A request is a coroutine with a database session of its own; it can be  *)
(* overtaken at every await, so an action ends where the coroutine awaits  *)
(* a commit, a read it acts on later, or the mail API.  An ORM object read *)
(* before an await is the request's `snap`: a commit writes the columns    *)
(* the code changed relative to it and leaves the others of the row alone. *)
(*                                                                         *)
(* Emails stand for normalised addresses (stripped, lower case), which is  *)
(* what the validators hand on; all requests come from one network.  Rows  *)
(* that nothing reads back are left out: the text of the answers, names,   *)
(* and the wording of mails.                                               *)
(***************************************************************************)
EXTENDS Naturals, Sequences, FiniteSets

CONSTANTS
    Requests,         \* coroutines of the API process
    Emails,           \* normalised addresses
    Roles,            \* the roles a visitor may choose
    Sessions,         \* terminal session ids
    ContactIpLimit,   \* _IP_LIMIT of api/contact.py
    SignupIpLimit,    \* _IP_LIMIT of api/newsletter_public.py
    IntakeIpLimit,    \* INTAKE_IP_LIMIT
    SessionLimit,     \* INTAKE_SESSION_LIMIT
    NoRow,            \* a key without a row
    SweepsCooldown,   \* RETENTION_SUBSCRIBER_AUTOREPLY_DAYS is below 7
    MaxStarts,        \* bound: requests over the whole run
    MaxFaults         \* bound: failing commits over the whole run

ASSUME LimitsAssumption ==
    /\ {ContactIpLimit, SignupIpLimit, IntakeIpLimit, SessionLimit} \subseteq Nat
    /\ {MaxStarts, MaxFaults} \subseteq Nat
    /\ SweepsCooldown \in BOOLEAN
    /\ IsFiniteSet(Requests)

\* A missing row is told apart from every row.
ASSUME NoRowAssumption ==
    NoRow \notin [unsubscribed : BOOLEAN, token : Nat, profile : BOOLEAN]

VARIABLES
    contacts,   \* ContactRecord rows, oldest first
    subs,       \* email -> Subscriber row or NoRow
    cooling,    \* email -> a sent or skipped auto-reply row is within 7 days
    intakes,    \* session -> TerminalIntakeRecord row or NoRow
    mailbox,    \* links delivered: [email, token]
    req,        \* request -> its coroutine
    tokens,     \* uuid4 tokens handed out so far
    starts, faults,
    mails,      \* ghost: auto-replies delivered to an email in this window
    unlogged,   \* ghost: auto-reply rows lost to a failed commit in it
    retired     \* ghost: tokens whose holder unsubscribed or that lost a race

vars == <<contacts, subs, cooling, intakes, mailbox, req, tokens, starts,
          faults, mails, unlogged, retired>>

Idle == [pc |-> "idle"]

(***************************************************************************)
(* What passes validation: role, name and a plausible address for the      *)
(* contact form, a role of VALID_ROLES for the signup, a session and its   *)
(* answers for the intake.  A payload that fails is answered 422, an       *)
(* oversized one 413, before any handler runs.                             *)
(***************************************************************************)
ContactPayloads ==
    [kind : {"contact", "update"}, email : Emails, role : Roles]

SignupPayloads == [kind : {"signup"}, email : Emails, role : Roles]

IntakePayloads == [kind : {"intake"}, session : Sessions]

\* The chat stream links a completed intake to its conversation.
ChatLinks == [kind : {"link"}, session : Sessions]

\* A link comes out of a mail; an unknown token ends like a known one.
Clicks == {[kind |-> "click", token |-> m.token] : m \in mailbox}

EntryPoint ==
    [contact |-> "limits", update |-> "limits", signup |-> "limits",
     intake |-> "intake", link |-> "find", click |-> "click"]

Init ==
    /\ contacts = <<>>
    /\ subs \in [Emails -> {NoRow} \cup
                           [unsubscribed : BOOLEAN, token : {0}, profile : {TRUE}]]
    /\ cooling = [e \in Emails |-> FALSE]
    /\ intakes = [s \in Sessions |-> NoRow]
    /\ mailbox = {}
    /\ req = [r \in Requests |-> Idle]
    /\ tokens = 0
    /\ starts = 0 /\ faults = 0
    /\ mails = [e \in Emails |-> 0]
    /\ unlogged = [e \in Emails |-> 0]
    /\ retired = {0 : e \in {x \in Emails : subs[x] # NoRow /\ subs[x].unsubscribed}}

Goto(r, label) == req' = [req EXCEPT ![r].pc = label]

Answer(r) == req' = [req EXCEPT ![r] = Idle]

Begin(r) ==
    /\ req[r] = Idle
    /\ starts < MaxStarts
    /\ \E p \in ContactPayloads \cup SignupPayloads \cup IntakePayloads
                \cup ChatLinks \cup Clicks :
          req' = [req EXCEPT ![r] = [pc |-> EntryPoint[p.kind], in |-> p,
                                     id |-> 0, snap |-> NoRow, token |-> 0]]
    /\ starts' = starts + 1
    /\ UNCHANGED <<contacts, subs, cooling, intakes, mailbox, tokens, faults,
                   mails, unlogged, retired>>

-----------------------------------------------------------------------------
(* Contact form and signup: limits, the record, the notification.          *)

\* The newest contact of this email and role, 0 when there is none.
LatestContact(email, role) ==
    LET Mine == {i \in DOMAIN contacts : /\ contacts[i].email = email
                                         /\ contacts[i].role = role}
    IN  IF Mine = {} THEN 0 ELSE CHOOSE i \in Mine : \A j \in Mine : j <= i

IpSubmissionCount ==
    Cardinality({i \in DOMAIN contacts : contacts[i].age = "day"})

EnforceIpRateLimit == IpSubmissionCount < ContactIpLimit

EnforceRateLimits(latest) ==
    /\ latest = 0 \/ contacts[latest].age # "day"
    /\ EnforceIpRateLimit

EnforceSignupIpRateLimit ==
    Cardinality({i \in DOMAIN contacts : /\ contacts[i].age = "day"
                                         /\ contacts[i].newsletter}) < SignupIpLimit

Admitted(p, latest) ==
    CASE p.kind = "contact" -> EnforceRateLimits(latest)
      [] p.kind = "update"  -> latest # 0 /\ EnforceIpRateLimit
      [] p.kind = "signup"  -> EnforceSignupIpRateLimit

\* The checks; a refused request answers 404, 409 or 429 and changes nothing.
Limits(r) ==
    /\ req[r].pc = "limits"
    /\ LET p == req[r].in
           latest == LatestContact(p.email, p.role)
       IN  IF Admitted(p, latest)
           THEN req' = [req EXCEPT ![r].pc = "save",
                                   ![r].id = IF p.kind = "update" THEN latest ELSE 0]
           ELSE Answer(r)
    /\ UNCHANGED <<contacts, subs, cooling, intakes, mailbox, tokens, starts,
                   faults, mails, unlogged, retired>>

NewContact(p) ==
    [email |-> p.email, role |-> p.role, age |-> "day", personal |-> TRUE,
     newsletter |-> p.kind = "signup", notified |-> FALSE]

\* An update rewrites name, data and address of the row it read; the data it
\* writes has no signup_source, and the email column is not written.
SubmitContact(r) ==
    LET p == req[r].in IN
    /\ req[r].pc = "save"
    /\ p.kind \in {"contact", "update"}
    /\ IF p.kind = "update"
       THEN /\ contacts' = [contacts EXCEPT ![req[r].id].personal = TRUE,
                                            ![req[r].id].newsletter = FALSE]
            /\ Goto(r, "notify")
       ELSE /\ contacts' = Append(contacts, NewContact(p))
            /\ req' = [req EXCEPT ![r].pc = "notify",
                                  ![r].id = Len(contacts) + 1]
    /\ UNCHANGED <<subs, cooling, intakes, mailbox, tokens, starts, faults,
                   mails, unlogged, retired>>

NewsletterSubscribe(r) ==
    /\ req[r].pc = "save"
    /\ req[r].in.kind = "signup"
    /\ contacts' = Append(contacts, NewContact(req[r].in))
    /\ req' = [req EXCEPT ![r].pc = "subscribe", ![r].id = Len(contacts) + 1]
    /\ UNCHANGED <<subs, cooling, intakes, mailbox, tokens, starts, faults,
                   mails, unlogged, retired>>

\* The operator's mail is sent, skipped or fails; each outcome is a row.
NotifyContact(r) ==
    /\ req[r].pc = "notify"
    /\ contacts' = [contacts EXCEPT ![req[r].id].notified = TRUE]
    /\ Goto(r, "subscribe")
    /\ UNCHANGED <<subs, cooling, intakes, mailbox, tokens, starts, faults,
                   mails, unlogged, retired>>

\* The commit of that row fails: the retry in the handler meets the same
\* session and the request ends in an error, the visitor never subscribed.
SaveNotificationFails(r) ==
    /\ req[r].pc = "notify"
    /\ faults < MaxFaults
    /\ faults' = faults + 1
    /\ Answer(r)
    /\ UNCHANGED <<contacts, subs, cooling, intakes, mailbox, tokens, starts,
                   mails, unlogged, retired>>

-----------------------------------------------------------------------------
(* subscribe_and_reply: upsert, cooldown, auto-reply, audit row.           *)

GetSubscriberByEmail(r) ==
    /\ req[r].pc = "subscribe"
    /\ req' = [req EXCEPT ![r].pc = "upsert", ![r].snap = subs[req[r].in.email]]
    /\ UNCHANGED <<contacts, subs, cooling, intakes, mailbox, tokens, starts,
                   faults, mails, unlogged, retired>>

\* A first row, with a token of its own.
Inserted == [unsubscribed |-> FALSE, token |-> tokens + 1, profile |-> TRUE]

\* The row after a refresh of it: profile columns equal to what was read are
\* not written, so a profile cleared meanwhile may stay cleared.
Refreshed(row, snap, same) ==
    [row EXCEPT !.profile = IF snap.profile /\ same THEN row.profile ELSE TRUE]

\* A mutant for the checks: every form submission rotates the token.
OptedInAlways(row, snap) ==
    [row EXCEPT !.unsubscribed = FALSE, !.token = tokens + 1]

\* A row read as unsubscribed is opted in again, under a new token.
OptedIn(row, snap) ==
    IF snap.unsubscribed
    THEN [row EXCEPT !.unsubscribed = FALSE, !.token = tokens + 1]
    ELSE row

UpsertSubscriber(r) ==
    LET e == req[r].in.email
        snap == req[r].snap
        row == subs[e]
    IN
    /\ req[r].pc = "upsert"
    /\ \/ /\ snap = NoRow /\ row = NoRow
          /\ subs' = [subs EXCEPT ![e] = Inserted]
          /\ tokens' = tokens + 1
          /\ Goto(r, "refresh")
          /\ UNCHANGED retired
       \/ /\ snap = NoRow /\ row # NoRow      \* uq_subscriber_email: rollback
          /\ Answer(r)
          /\ UNCHANGED <<subs, tokens, retired>>
       \/ /\ snap # NoRow
          /\ \E same \in BOOLEAN :
                subs' = [subs EXCEPT ![e] = OptedIn(Refreshed(row, snap, same), snap)]
          /\ tokens' = IF snap.unsubscribed THEN tokens + 1 ELSE tokens
          /\ retired' = IF snap.unsubscribed /\ snap.token # row.token
                        THEN retired \cup {row.token}
                        ELSE retired
          /\ Goto(r, "refresh")
    /\ UNCHANGED <<contacts, cooling, intakes, mailbox, starts, faults, mails,
                   unlogged>>

\* Any other failure of the upsert is swallowed: no mail, no audit row.
UpsertFails(r) ==
    /\ req[r].pc = "upsert"
    /\ faults < MaxFaults
    /\ faults' = faults + 1
    /\ Answer(r)
    /\ UNCHANGED <<contacts, subs, cooling, intakes, mailbox, tokens, starts,
                   mails, unlogged, retired>>

\* A mutant for the checks: the cooldown is never looked up.
NoCooldown(e) == FALSE

RecentAutoreplyExists(e) == cooling[e]

\* After the commit the row is read again, then the cooldown is checked.
SubscribeAndReply(r) ==
    LET e == req[r].in.email IN
    /\ req[r].pc = "refresh"
    /\ req' = [req EXCEPT ![r].token = subs[e].token,
                          ![r].pc = IF RecentAutoreplyExists(e) THEN "record"
                                                                ELSE "send"]
    /\ UNCHANGED <<contacts, subs, cooling, intakes, mailbox, tokens, starts,
                   faults, mails, unlogged, retired>>

\* The letters of the roles differ in their wording; each ends in the footer with
\* the unsubscribe link.
Letter(email, token) == [email |-> email, token |-> token]

ComposeAutoReply(r) == Letter(req[r].in.email, req[r].token)

\* Whether the mail API takes it.  Without credentials nothing is sent; a
\* timeout may hide a mail that was accepted; neither case raises.
SendInternalEmail == {"delivered", "not delivered"}

SendAutoReply(r) ==
    LET e == req[r].in.email IN
    /\ req[r].pc = "send"
    /\ \E outcome \in SendInternalEmail :
          IF outcome = "delivered"
          THEN /\ mailbox' = mailbox \cup {ComposeAutoReply(r)}
               /\ mails' = [mails EXCEPT ![e] = @ + 1]
          ELSE UNCHANGED <<mailbox, mails>>
    /\ Goto(r, "record")
    /\ UNCHANGED <<contacts, subs, cooling, intakes, tokens, starts, faults,
                   unlogged, retired>>

\* "sent" or "skipped", never "failed": every recorded attempt cools down.
RecordAutoreply(r) ==
    /\ req[r].pc = "record"
    /\ cooling' = [cooling EXCEPT ![req[r].in.email] = TRUE]
    /\ Answer(r)
    /\ UNCHANGED <<contacts, subs, intakes, mailbox, tokens, starts, faults,
                   mails, unlogged, retired>>

RecordAutoreplyFails(r) ==
    /\ req[r].pc = "record"
    /\ faults < MaxFaults
    /\ faults' = faults + 1
    /\ unlogged' = [unlogged EXCEPT ![req[r].in.email] = @ + 1]
    /\ Answer(r)
    /\ UNCHANGED <<contacts, subs, cooling, intakes, mailbox, tokens, starts,
                   mails, retired>>

-----------------------------------------------------------------------------
(* The unsubscribe link, GET and one-click POST alike.                     *)

Holders(token) == {e \in Emails : subs[e] # NoRow /\ subs[e].token = token}

GetSubscriberByToken(r) ==
    /\ req[r].pc = "click"
    /\ LET who == Holders(req[r].in.token)
       IN  IF who = {}
           THEN Answer(r)
           ELSE \E e \in who :
                  req' = [req EXCEPT ![r].pc = "unsubscribe", ![r].snap = subs[e],
                                     ![r].in = [kind |-> "click", email |-> e]]
    /\ UNCHANGED <<contacts, subs, cooling, intakes, mailbox, tokens, starts,
                   faults, mails, unlogged, retired>>

UnsubscribeByToken(r) ==
    LET e == req[r].in.email
        snap == req[r].snap
    IN
    /\ req[r].pc = "unsubscribe"
    /\ subs' = [subs EXCEPT ![e].unsubscribed = @ \/ ~snap.unsubscribed,
                            ![e].profile = @ /\ ~snap.profile]
    /\ retired' = IF snap.unsubscribed THEN retired
                                       ELSE retired \cup {subs[e].token}
    /\ Answer(r)
    /\ UNCHANGED <<contacts, cooling, intakes, mailbox, tokens, starts, faults,
                   mails, unlogged>>

\* An issue mailed to the active subscribers carries each one's link.
ActiveSubscribers == {e \in Emails : subs[e] # NoRow /\ ~subs[e].unsubscribed}

NewsletterMail ==
    /\ mailbox' = mailbox \cup {[email |-> e, token |-> subs[e].token] :
                                  e \in ActiveSubscribers}
    /\ mailbox' # mailbox
    /\ UNCHANGED <<contacts, subs, cooling, intakes, req, tokens, starts,
                   faults, mails, unlogged, retired>>

-----------------------------------------------------------------------------
(* Terminal intake: one row per session, submitted or linked by a chat.    *)

IntakeIpCount ==
    Cardinality({s \in Sessions : intakes[s] # NoRow /\ intakes[s].age = "day"})

IntakeAdmitted(existing) ==
    /\ IntakeIpCount < IntakeIpLimit
    /\ existing # NoRow => ~(existing.seen /\ existing.count >= SessionLimit)
    /\ existing = NoRow => 0 < SessionLimit

SubmitIntake(r) ==
    /\ req[r].pc = "intake"
    /\ LET existing == intakes[req[r].in.session]
       IN  IF IntakeAdmitted(existing)
           THEN req' = [req EXCEPT ![r].pc = "find", ![r].snap = existing]
           ELSE Answer(r)
    /\ UNCHANGED <<contacts, subs, cooling, intakes, mailbox, tokens, starts,
                   faults, mails, unlogged, retired>>

\* The select of save_terminal_intake_submission: a row the session already
\* holds comes back as first read, whatever was committed since.
FindTerminalIntake(r) ==
    /\ req[r].pc = "find"
    /\ req' = [req EXCEPT ![r].pc = "commit",
                          ![r].snap = IF @ = NoRow THEN intakes[req[r].in.session]
                                                   ELSE @]
    /\ UNCHANGED <<contacts, subs, cooling, intakes, mailbox, tokens, starts,
                   faults, mails, unlogged, retired>>

NewIntake == [count |-> 0, linked |-> FALSE, seen |-> TRUE, age |-> "day"]

\* The count is the one read plus one; a link is set, never taken away.
ApplyTerminalIntakeRecord(row, snap, p) ==
    [row EXCEPT !.count = IF p.kind = "intake" THEN snap.count + 1 ELSE @,
                !.linked = @ \/ p.kind = "link",
                !.seen = TRUE]

SaveTerminalIntakeSubmission(r) ==
    LET p == req[r].in
        snap == req[r].snap
        row == intakes[p.session]
    IN
    /\ req[r].pc = "commit"
    /\ \/ /\ snap = NoRow /\ row = NoRow
          /\ intakes' = [intakes EXCEPT ![p.session] =
                            ApplyTerminalIntakeRecord(NewIntake, NewIntake, p)]
          /\ Answer(r)
       \/ /\ snap = NoRow /\ row # NoRow   \* uq_terminal_intake_session: again
          /\ req' = [req EXCEPT ![r].snap = row]
          /\ UNCHANGED intakes
       \/ /\ snap # NoRow /\ row # NoRow
          /\ intakes' = [intakes EXCEPT ![p.session] =
                            ApplyTerminalIntakeRecord(row, snap, p)]
          /\ Answer(r)
       \/ /\ snap # NoRow /\ row = NoRow   \* swept: the update matches no row
          /\ Answer(r)
          /\ UNCHANGED intakes
    /\ UNCHANGED <<contacts, subs, cooling, mailbox, tokens, starts, faults,
                   mails, unlogged, retired>>

-----------------------------------------------------------------------------
(* Time and the retention sweep.                                           *)

Older(age) == IF age = "day" THEN "kept" ELSE "stale"

\* First the windows of 24 hours end, then those of the retention policy.
TimePasses ==
    /\ contacts' = [i \in DOMAIN contacts |->
                      [contacts[i] EXCEPT !.age = Older(@)]]
    /\ intakes' = [s \in Sessions |->
                     IF intakes[s] = NoRow THEN NoRow
                     ELSE [intakes[s] EXCEPT !.age = Older(@), !.seen = FALSE]]
    /\ <<contacts', intakes'>> # <<contacts, intakes>>
    /\ UNCHANGED <<subs, cooling, mailbox, req, tokens, starts, faults, mails,
                   unlogged, retired>>

\* AUTOREPLY_COOLDOWN after the last audit row of an email.
CooldownPasses(e) ==
    /\ cooling[e] \/ mails[e] > 0
    /\ cooling' = [cooling EXCEPT ![e] = FALSE]
    /\ mails' = [mails EXCEPT ![e] = 0]
    /\ unlogged' = [unlogged EXCEPT ![e] = 0]
    /\ UNCHANGED <<contacts, subs, intakes, mailbox, req, tokens, starts,
                   faults, retired>>

Anonymized == "deleted+id@anon.invalid"

AnonymizedContact(c) ==
    IF c.age = "stale" /\ c.email # Anonymized
    THEN [c EXCEPT !.email = Anonymized, !.personal = FALSE, !.newsletter = FALSE]
    ELSE c

SweptIntake(row) ==
    IF row # NoRow /\ row.age = "stale" /\ ~row.linked THEN NoRow ELSE row

\* One transaction: stale unlinked intakes go, stale contacts lose what is
\* personal, and audit rows go when their window is shorter than the cooldown.
Sweep ==
    /\ contacts' = [i \in DOMAIN contacts |-> AnonymizedContact(contacts[i])]
    /\ intakes' = [s \in Sessions |-> SweptIntake(intakes[s])]
    /\ cooling' = [e \in Emails |-> cooling[e] /\ ~SweepsCooldown]
    /\ <<contacts', intakes', cooling'>> # <<contacts, intakes, cooling>>
    /\ UNCHANGED <<subs, mailbox, req, tokens, starts, faults, mails, unlogged,
                   retired>>

Next ==
    \/ \E r \in Requests :
          \/ Begin(r) \/ Limits(r) \/ SubmitContact(r) \/ NewsletterSubscribe(r)
          \/ NotifyContact(r) \/ SaveNotificationFails(r)
          \/ GetSubscriberByEmail(r) \/ UpsertSubscriber(r) \/ UpsertFails(r)
          \/ SubscribeAndReply(r) \/ SendAutoReply(r)
          \/ RecordAutoreply(r) \/ RecordAutoreplyFails(r)
          \/ GetSubscriberByToken(r) \/ UnsubscribeByToken(r)
          \/ SubmitIntake(r) \/ FindTerminalIntake(r)
          \/ SaveTerminalIntakeSubmission(r)
    \/ NewsletterMail
    \/ TimePasses
    \/ \E e \in Emails : CooldownPasses(e)
    \/ Sweep

Spec == Init /\ [][Next]_vars

-----------------------------------------------------------------------------
Subscriber == [unsubscribed : BOOLEAN, token : Nat, profile : BOOLEAN]

\* Rows, mails and counters have the shape the tables give them.
TypeOK ==
    /\ subs \in [Emails -> {NoRow} \cup Subscriber]
    /\ cooling \in [Emails -> BOOLEAN]
    /\ mailbox \subseteq [email : Emails, token : Nat]
    /\ mails \in [Emails -> Nat] /\ unlogged \in [Emails -> Nat]
    /\ \A s \in Sessions : intakes[s] # NoRow => intakes[s].count \in Nat
    /\ tokens \in Nat /\ starts \in 0 .. MaxStarts /\ faults \in 0 .. MaxFaults

(***************************************************************************)
(* "The unsubscribe token in every newsletter / auto-reply email takes the *)
(* recipient off the list in one click" (core/subscribers.py): the token   *)
(* of every delivered mail is still the one of its row, unless the person  *)
(* unsubscribed under it, or two submissions that read the same            *)
(* unsubscribed row each gave it a token.                                  *)
(***************************************************************************)
MailedLinkWorks ==
    \A m \in mailbox : subs[m.email].token = m.token \/ m.token \in retired

(***************************************************************************)
(* The joe-job guard of subscribe_and_reply: within one cooldown an        *)
(* address gets at most one auto-reply for each request that can be past   *)
(* the check at once, plus one for each audit row that was not stored,     *)
(* however many forms are submitted with it.                               *)
(***************************************************************************)
RepliesBounded ==
    \A e \in Emails : mails[e] <= Cardinality(Requests) + unlogged[e]
=============================================================================
