------------------------------- MODULE MailLinks -------------------------------
(***************************************************************************)
(* Accounts of users and the links that are sent to them by mail: to       *)
(* confirm a registration, to recover a password, to change an address.    *)
(* The server's user service, the triggers of the tables pending_*, the    *)
(* mailer process, and the pages on which a link is asked for and used.    *)
(*                                                                         *)
(* Left out: deleted users, guests and the domains of addresses (a guard   *)
(* of the registration only), and the text of the mails.                   *)
(***************************************************************************)
EXTENDS Integers, Sequences, FiniteSets

CONSTANTS
    Users, Addresses,
    Pages,         \* pages on which links are used at the same time
    MaxRequests,   \* links that are asked for
    MaxFaults      \* crashes of the mailer, and refused mails and lost answers

Kinds == {"registration", "recovery", "email_change"}
Tokens == 1 .. MaxRequests
NoRow == [token |-> 0]
NoPage == [stage |-> "none"]
Nobody == "nobody"

VARIABLES
    status,      \* usr: "none", "pending" or "active"
    email,       \* usr.email
    password,    \* the link that set the password, 0 for the user's own
    row,         \* the row of a user in the table pending_<kind>
    mailer,      \* the mailer process
    events,      \* its queue, with the notifications under way
    inbox,       \* who got which link: <<token, address>>
    pages,       \* the pages with a link: a request under way, or its success
    asked, crashes, faults, \* how much of the bounds is used up
    copies,      \* mails with the link, by token
    refused      \* links whose last mail the mail server refused

accounts == <<status, email, password, row>>
mailing == <<mailer, events, inbox, copies, refused>>
bounds == <<asked, crashes, faults>>
linkVars == <<accounts, mailing, pages, bounds>>

Down == [state |-> "down", todo |-> <<>>, kind |-> Nobody, batch |-> <<>>, stage |-> "notice"]

ASSUME LinkBounds ==
    /\ Nobody \notin Addresses \cup Users /\ IsFiniteSet(Users) /\ IsFiniteSet(Pages)
    /\ MaxRequests \in Nat /\ MaxFaults \in Nat

\* Some users have an account at first, each with an address of their own.
Homes == {home \in UNION {[us -> Addresses] : us \in SUBSET Users} :
            \A u, v \in DOMAIN home : home[u] = home[v] => u = v}

LinksInit(home) ==
    /\ status = [u \in Users |-> IF u \in DOMAIN home THEN "active" ELSE "none"]
    /\ email = [u \in Users |-> IF u \in DOMAIN home THEN home[u] ELSE Nobody]
    /\ password = [u \in Users |-> 0]
    /\ row = [k \in Kinds |-> [u \in Users |-> NoRow]]
    /\ mailer = Down /\ events = <<>> /\ inbox = {}
    /\ pages = [s \in Pages |-> NoPage]
    /\ asked = 0 /\ crashes = 0 /\ faults = 0
    /\ copies = [t \in Tokens |-> 0] /\ refused = {}

Fault == crashes + faults < MaxFaults

-----------------------------------------------------------------------------
(* The user service. *)

Used(a) == \E u \in Users : email[u] = a

\* pg_notify in the triggers pending_*_trig, on insert and on update.
Notify(k) == events' = IF mailer.state = "down" THEN events ELSE Append(events, k)

\* insert into pending_<kind>: user_id is unique, so that a row that is still
\* there, expired or not, refuses the next one.
Insert(k, u, a) ==
    /\ asked < MaxRequests /\ asked' = asked + 1
    /\ row[k][u] = NoRow
    /\ row' = [row EXCEPT ![k][u] = [token |-> asked + 1, to |-> a, unsent |-> TRUE, valid |-> TRUE]]
    /\ Notify(k)

register_user(u, a) ==
    /\ status[u] = "none" /\ ~Used(a)
    /\ status' = [status EXCEPT ![u] = "pending"]
    /\ email' = [email EXCEPT ![u] = a]
    /\ Insert("registration", u, a)
    /\ UNCHANGED password

\* A user whose registration is pending may ask for a new password as well.
request_password_recovery(u) ==
    /\ status[u] # "none"
    /\ Insert("recovery", u, Nobody)
    /\ UNCHANGED <<status, email, password>>

request_email_change(u, a) ==
    /\ status[u] = "active"
    /\ Insert("email_change", u, a)
    /\ UNCHANGED <<status, email, password>>

change_password(u) ==
    /\ status[u] = "active"
    /\ password[u] # 0
    /\ password' = [password EXCEPT ![u] = 0]
    /\ UNCHANGED <<status, email, row, events, asked>>

Expire(k, u) ==
    /\ row[k][u] # NoRow /\ row[k][u].valid
    /\ row' = [row EXCEPT ![k][u].valid = FALSE]
    /\ UNCHANGED <<status, email, password, mailing, pages, bounds>>

\* The first statement of confirm_*: the row of the token, if it is valid.
Looked(k, t) == {u \in Users : row[k][u].token = t /\ row[k][u].valid}

\* The rest of confirm_*: the rows of the user go, whatever their token, and
\* what was confirmed comes into force.  An address that is taken by now makes
\* the transaction fail.
Confirmable(p) == p.kind = "email_change" => ~Used(p.to) \/ email[p.user] = p.to

\* Mutant of Confirm: the rows of the user in all three tables go.
ConfirmAllRows(p) ==
    /\ row' = [k \in Kinds |-> [row[k] EXCEPT ![p.user] = NoRow]]
    /\ status' = IF p.kind = "registration" THEN [status EXCEPT ![p.user] = "active"] ELSE status
    /\ email' = IF p.kind = "email_change" THEN [email EXCEPT ![p.user] = p.to] ELSE email
    /\ password' = IF p.kind = "recovery" THEN [password EXCEPT ![p.user] = p.token] ELSE password

Confirm(p) ==
    /\ row' = [row EXCEPT ![p.kind][p.user] = NoRow]
    /\ status' = IF p.kind = "registration" THEN [status EXCEPT ![p.user] = "active"] ELSE status
    /\ email' = IF p.kind = "email_change" THEN [email EXCEPT ![p.user] = p.to] ELSE email
    /\ password' = IF p.kind = "recovery" THEN [password EXCEPT ![p.user] = p.token] ELSE password

-----------------------------------------------------------------------------
(* The pages. *)

RegisterForm(u, a) == register_user(u, a)
RecoveryForm(u) == request_password_recovery(u)
ChangeEmailForm(u, a) == request_email_change(u, a)
ChangePasswordForm(u) == change_password(u)

Forms ==
    /\ \E u \in Users :
         \/ \E a \in Addresses : RegisterForm(u, a) \/ ChangeEmailForm(u, a)
         \/ RecoveryForm(u)
         \/ ChangePasswordForm(u)
    /\ UNCHANGED <<mailer, inbox, copies, refused, pages, crashes, faults>>

\* The link of a mail leads to the page of its kind, which asks to confirm.  A
\* link may be opened twice, and again after an error.
Opened(k) == {p \in [stage : {"sent"}, kind : {k}, token : Tokens, user : {Nobody}, to : {Nobody}] :
                /\ \E a \in Addresses : <<p.token, a>> \in inbox
                /\ \E u \in Users : row[k][u].token = p.token}

ConfirmRegistration == Opened("registration")
ConfirmPasswordRecovery == Opened("recovery")
ConfirmEmailChange == Opened("email_change")

Submit(s) ==
    /\ pages[s].stage \in {"none", "success"}
    /\ \E p \in ConfirmRegistration \cup ConfirmPasswordRecovery \cup ConfirmEmailChange :
         pages' = [pages EXCEPT ![s] = p]
    /\ UNCHANGED <<accounts, mailing, bounds>>

Look(s) ==
    /\ pages[s].stage = "sent"
    /\ LET p == pages[s]
           found == Looked(p.kind, p.token)
       IN  \/ found = {} /\ pages' = [pages EXCEPT ![s] = NoPage]
           \/ \E u \in found :
                pages' = [pages EXCEPT ![s] = [p EXCEPT !.stage = "looked", !.user = u, !.to = row[p.kind][u].to]]
    /\ UNCHANGED <<accounts, mailing, bounds>>

\* The answer of a confirmation that went through may be lost.
Finish(s) ==
    /\ pages[s].stage = "looked"
    /\ IF Confirmable(pages[s])
       THEN /\ Confirm(pages[s])
            /\ \/ pages' = [pages EXCEPT ![s].stage = "success"] /\ UNCHANGED faults
               \/ pages' = [pages EXCEPT ![s] = NoPage] /\ Fault /\ faults' = faults + 1
       ELSE pages' = [pages EXCEPT ![s] = NoPage] /\ UNCHANGED <<accounts, faults>>
    /\ UNCHANGED <<mailing, asked, crashes>>

-----------------------------------------------------------------------------
(* The mailer. *)

Unsent(k) == {u \in Users : row[k][u] # NoRow /\ row[k][u].unsent /\ row[k][u].valid}

\* Mutant of Batch: the link goes to the address the user has.
BatchToOld(k) ==
    LET us == Unsent(k)
        order == CHOOSE f \in [1 .. Cardinality(us) -> us] : \A i, j \in DOMAIN f : f[i] = f[j] => i = j
    IN  [i \in DOMAIN order |-> [user |-> order[i], token |-> row[k][order[i]].token, to |-> email[order[i]]]]

\* The rows a handler reads, with the addresses they have at that time.
Batch(k) ==
    LET us == Unsent(k)
        order == CHOOSE f \in [1 .. Cardinality(us) -> us] : \A i, j \in DOMAIN f : f[i] = f[j] => i = j
    IN  [i \in DOMAIN order |->
           [user |-> order[i], token |-> row[k][order[i]].token,
            to |-> IF k = "email_change" THEN row[k][order[i]].to ELSE email[order[i]]]]

\* Mutant of Startup: the handlers wait for the first notification.
StartupListenOnly == <<>>

\* run: listen first, then run every handler once.
Startup == <<"registration", "recovery", "email_change">>

StartMailer ==
    /\ mailer.state = "down"
    /\ mailer' = [Down EXCEPT !.state = "idle", !.todo = Startup]
    /\ events' = <<>>
    /\ UNCHANGED <<accounts, inbox, copies, refused, pages, bounds>>

FirstStage(k) == IF k = "email_change" THEN "notice" ELSE "link"

Handle(m, k) == IF Unsent(k) = {} THEN [m EXCEPT !.state = "idle"]
                ELSE [m EXCEPT !.state = "busy", !.kind = k, !.batch = Batch(k), !.stage = FirstStage(k)]

TakeEvent ==
    /\ mailer.state = "idle"
    /\ \/ /\ mailer.todo # <<>>
          /\ mailer' = Handle([mailer EXCEPT !.todo = Tail(@)], Head(mailer.todo))
          /\ UNCHANGED events
       \/ /\ mailer.todo = <<>> /\ events # <<>>
          /\ mailer' = Handle(mailer, Head(events))
          /\ events' = Tail(events)
    /\ UNCHANGED <<accounts, inbox, copies, refused, pages, bounds>>

NextMail(m) == IF Len(m.batch) = 1 THEN [m EXCEPT !.batch = <<>>, !.state = "idle", !.kind = Nobody, !.stage = "notice"]
               ELSE [m EXCEPT !.batch = Tail(@), !.stage = FirstStage(m.kind)]

\* The mail without a link to the old address of a user.
SendNotice ==
    /\ mailer.state = "busy" /\ mailer.stage = "notice"
    /\ mailer' = [mailer EXCEPT !.stage = "link"]
    /\ UNCHANGED <<accounts, events, inbox, copies, refused, pages, bounds>>

SendLink ==
    /\ mailer.state = "busy" /\ mailer.stage = "link"
    /\ LET m == Head(mailer.batch)
       IN  /\ inbox' = inbox \cup {<<m.token, m.to>>}
           /\ copies' = [copies EXCEPT ![m.token] = @ + 1]
           /\ refused' = refused \ {m.token}
    /\ mailer' = [mailer EXCEPT !.stage = "mark"]
    /\ UNCHANGED <<accounts, events, pages, bounds>>

\* Mutant of MarkSent: the row stays as it is.
MarkNothing(k, t) == [row EXCEPT ![k] = [u \in Users |-> row[k][u]]]

\* update pending_<kind> set mail_next_attempt = null where token = $1
MarkSent(k, t) == [row EXCEPT ![k] = [u \in Users |-> IF row[k][u] # NoRow /\ row[k][u].token = t
                                                      THEN [row[k][u] EXCEPT !.unsent = FALSE] ELSE row[k][u]]]

Mark ==
    /\ mailer.state = "busy" /\ mailer.stage = "mark"
    /\ LET t == Head(mailer.batch).token
       IN  /\ row' = MarkSent(mailer.kind, t)
           /\ IF \E u \in Users : row[mailer.kind][u].token = t THEN Notify(mailer.kind) ELSE UNCHANGED events
    /\ mailer' = NextMail(mailer)
    /\ UNCHANGED <<status, email, password, inbox, copies, refused, pages, bounds>>

\* smtplib.SMTPException: the row stays as it is, the handler goes on.
Refuse ==
    /\ Fault /\ faults' = faults + 1
    /\ mailer.state = "busy" /\ mailer.stage \in {"notice", "link"}
    /\ refused' = refused \cup {Head(mailer.batch).token}
    /\ mailer' = NextMail(mailer)
    /\ UNCHANGED <<accounts, events, inbox, copies, pages, asked, crashes>>

\* Any other exception, or the end of the connection to the database, ends run.
CrashMailer ==
    /\ Fault /\ crashes' = crashes + 1
    /\ mailer.state # "down"
    /\ mailer' = Down /\ events' = <<>>
    /\ UNCHANGED <<accounts, inbox, copies, refused, pages, asked, faults>>

MailerStep == TakeEvent \/ SendNotice \/ SendLink \/ Mark

LinksNext ==
    \/ Forms
    \/ \E k \in Kinds, u \in Users : Expire(k, u)
    \/ \E s \in Pages : Submit(s) \/ Look(s) \/ Finish(s)
    \/ StartMailer \/ MailerStep \/ Refuse \/ CrashMailer

-----------------------------------------------------------------------------
(* Properties. *)

LinksTypeOK ==
    /\ status \in [Users -> {"none", "pending", "active"}]
    /\ email \in [Users -> Addresses \cup {Nobody}]
    /\ \A u \in Users : status[u] = "none" <=> email[u] = Nobody
    /\ \A u \in Users : status[u] = "pending" => row["registration"][u] # NoRow
    /\ password \in [Users -> Tokens \cup {0}]
    /\ \A k \in Kinds, u \in Users :
         row[k][u] = NoRow \/ row[k][u] \in [token : 1 .. asked, to : Addresses \cup {Nobody}, unsent : BOOLEAN, valid : BOOLEAN]
    /\ mailer.state \in {"down", "idle", "busy"}
    /\ inbox \subseteq Tokens \X Addresses
    /\ copies \in [Tokens -> Nat] /\ refused \subseteq Tokens

\* Two users never have one address, and an address or a password that came into
\* force by a link was set by a link that was mailed: to this very address, or,
\* for a password, to an address at all (confirm_*, on_*_notification).
AddressesAreProven ==
    /\ \A u, v \in Users : email[u] = email[v] /\ email[u] # Nobody => u = v
    /\ \A u \in Users : password[u] # 0 => \E a \in Addresses : <<password[u], a>> \in inbox
    /\ \A s \in Pages : pages[s].stage = "success" /\ pages[s].kind = "email_change" =>
         <<pages[s].token, pages[s].to>> \in inbox

\* A link is mailed a second time only after a crash of the mailer: the handler
\* marks the row before it looks at the next, and a row it marked is not read
\* again (on_*_notification).
MailedOncePerLife == \A t \in Tokens : copies[t] <= 1 + crashes

\* Every valid link is mailed in the end, unless the mail server refused the last
\* try or the mailer is down: run listens before it reads the tables, and the
\* triggers announce every row.
LinksAreMailed ==
    <>[](\/ mailer.state = "down"
         \/ \A k \in Kinds : \A u \in Unsent(k) : row[k][u].token \in refused)
================================================================================
