---------------------------- MODULE MailLinks_proofs ----------------------------
(***************************************************************************)
(* The inductive invariant of MailLinks, for any users, addresses, pages   *)
(* and bounds; Session_proofs states its theorems for the specification.   *)
(***************************************************************************)
EXTENDS MailLinks, FiniteSetTheorems, SequenceTheorems, TLAPS

-----------------------------------------------------------------------------
(* The invariant.                                                          *)

Row == [token : Tokens, to : Addresses \cup {Nobody}, unsent : BOOLEAN, valid : BOOLEAN]
Mail == [user : Users, token : Tokens, to : Addresses]
Mailer ==
    [state : {"down", "idle", "busy"}, todo : Seq(Kinds), kind : Kinds \cup {Nobody},
     batch : Seq(Mail), stage : {"notice", "link", "mark"}]

RowType == row \in [Kinds -> [Users -> Row \cup {NoRow}]]
Rowed(k, u) == row[k][u] # NoRow

\* The rows: each has a token of its own, and belongs to somebody.
RowsOK ==
    /\ RowType /\ asked \in 0..MaxRequests
    /\ \A k \in Kinds, u \in Users : Rowed(k, u) =>
         /\ row[k][u].token <= asked
         /\ status[u] # "none"
         /\ k = "email_change" => row[k][u].to \in Addresses
    /\ \A k, l \in Kinds, u, v \in Users :
         Rowed(k, u) /\ Rowed(l, v) /\ row[k][u].token = row[l][v].token => k = l /\ u = v
    /\ \A u \in Users : status[u] = "pending" => Rowed("registration", u)

\* The accounts: no address twice, no password of a link nobody got.
UsersOK ==
    /\ status \in [Users -> {"none", "pending", "active"}]
    /\ email \in [Users -> Addresses \cup {Nobody}]
    /\ password \in [Users -> Tokens \cup {0}]
    /\ \A u \in Users : status[u] = "none" <=> email[u] = Nobody
    /\ \A u, v \in Users : email[u] = email[v] /\ email[u] # Nobody => u = v
    /\ \A u \in Users : password[u] # 0 => \E a \in Addresses : <<password[u], a>> \in inbox

\* A link that changes an address went to this very address.
InboxOK ==
    /\ inbox \subseteq Tokens \X Addresses
    /\ \A t \in Tokens, a \in Addresses : <<t, a>> \in inbox => t <= asked
    /\ \A u \in Users, a \in Addresses :
         Rowed("email_change", u) /\ <<row["email_change"][u].token, a>> \in inbox => a = row["email_change"][u].to

\* What the mailer carries agrees with the rows that are still there.
MailerOK ==
    /\ mailer \in Mailer /\ events \in Seq(Kinds)
    /\ mailer.state = "busy" => mailer.kind \in Kinds /\ mailer.batch # <<>>
    /\ mailer.state # "busy" => mailer.batch = <<>>
    /\ \A i \in 1..Len(mailer.batch) :
         /\ mailer.batch[i].token <= asked
         /\ \A k \in Kinds, u \in Users : Rowed(k, u) /\ row[k][u].token = mailer.batch[i].token =>
              /\ k = mailer.kind
              /\ k = "email_change" => mailer.batch[i].to = row[k][u].to
    /\ \A i, j \in 1..Len(mailer.batch) : mailer.batch[i].token = mailer.batch[j].token => i = j

\* The mail to the first of the batch is out, and its row is still unsent.
Marking(t) == mailer.state = "busy" /\ mailer.stage = "mark" /\ mailer.batch[1].token = t

\* Nothing that may still be mailed has been mailed since the last crash.
CopiesOK ==
    /\ copies \in [Tokens -> Nat] /\ crashes \in Nat /\ refused \subseteq Tokens
    /\ \A t \in Tokens : copies[t] <= 1 + crashes /\ (t > asked => copies[t] = 0)
    /\ \A k \in Kinds, u \in Users :
         Rowed(k, u) /\ row[k][u].unsent => copies[row[k][u].token] <= crashes \/ Marking(row[k][u].token)
    /\ \A i \in 1..Len(mailer.batch) : i # 1 \/ mailer.stage # "mark" => copies[mailer.batch[i].token] <= crashes

Page ==
    [stage : {"sent", "looked", "success"}, kind : Kinds, token : Tokens, user : Users \cup {Nobody},
     to : Addresses \cup {Nobody}]

\* A page that uses a link has one that was mailed, and knows of whom.
PageOK(p) ==
    /\ \E a \in Addresses : <<p.token, a>> \in inbox
    /\ p.stage \in {"looked", "success"} =>
         /\ p.user \in Users /\ status[p.user] # "none"
         /\ p.kind = "email_change" => p.to \in Addresses /\ <<p.token, p.to>> \in inbox

PagesOK == \A s \in Pages : pages[s].stage # "none" => PageOK(pages[s])
PagesType == pages \in [Pages -> Page \cup {NoPage}]

LinksInv == RowsOK /\ UsersOK /\ InboxOK /\ MailerOK /\ CopiesOK /\ PagesOK /\ PagesType

\* A row that is there is one
LEMMA RowIsRow ==
    ASSUME RowType, NEW k \in Kinds, NEW u \in Users
    PROVE  IF Rowed(k, u) THEN row[k][u] \in Row /\ row[k][u].token \in Tokens ELSE row[k][u].token = 0
  BY DEF RowType, Rowed, Row, NoRow

\* The properties that the run checks
LEMMA LinksInvImplies == LinksInv => LinksTypeOK /\ AddressesAreProven /\ MailedOncePerLife
<1>1. SUFFICES ASSUME LinksInv PROVE LinksTypeOK /\ AddressesAreProven /\ MailedOncePerLife
  OBVIOUS
<1>2. RowsOK /\ UsersOK /\ InboxOK /\ MailerOK /\ CopiesOK /\ PagesOK
  BY <1>1 DEF LinksInv
<1>3. ASSUME NEW k \in Kinds, NEW u \in Users
      PROVE  row[k][u] = NoRow \/ row[k][u] \in [token : 1..asked, to : Addresses \cup {Nobody}, unsent : BOOLEAN, valid : BOOLEAN]
  <2>1. CASE Rowed(k, u)
    <3>1. row[k][u] \in Row /\ row[k][u].token <= asked /\ asked \in Nat
      BY <1>2, <2>1, RowIsRow, LinkBounds DEF RowsOK
    <3> QED
      BY <3>1, LinkBounds DEF Row, Tokens
  <2> QED
    BY <2>1 DEF Rowed
<1>4. LinksTypeOK
  BY <1>2, <1>3 DEF LinksTypeOK, RowsOK, UsersOK, InboxOK, MailerOK, CopiesOK, Rowed, Mailer
<1>5. AddressesAreProven
  BY <1>2 DEF AddressesAreProven, UsersOK, PagesOK, PageOK
<1>6. MailedOncePerLife
  BY <1>2 DEF MailedOncePerLife, CopiesOK
<1> QED
  BY <1>4, <1>5, <1>6

\* At first nobody has asked for a link
LEMMA LinksInitOK ==
    ASSUME NEW home \in Homes, LinksInit(home)
    PROVE  LinksInv
<1>1. PICK us \in SUBSET Users : home \in [us -> Addresses]
  BY DEF Homes
<1>2. DOMAIN home = us /\ \A u \in us : home[u] \in Addresses
  BY <1>1
<1>3. \A u, v \in us : home[u] = home[v] => u = v
  BY <1>2 DEF Homes
<1>4. Nobody \notin Addresses
  BY LinkBounds
<1>5. UsersOK
  <2>1. email = [u \in Users |-> IF u \in us THEN home[u] ELSE Nobody] /\ status = [u \in Users |-> IF u \in us THEN "active" ELSE "none"]
        /\ password = [u \in Users |-> 0]
    BY <1>2 DEF LinksInit
  <2> QED
    BY <2>1, <1>2, <1>3, <1>4 DEF UsersOK
<1>6. \A k \in Kinds, u \in Users : row[k][u] = NoRow
  BY DEF LinksInit
<1>7. RowsOK
  BY <1>6, LinkBounds DEF LinksInit, RowsOK, RowType, Rowed
<1>8. InboxOK
  BY DEF LinksInit, InboxOK
<1>9. MailerOK
  BY <1>6 DEF LinksInit, MailerOK, Mailer, Down, Nobody
<1>10. CopiesOK
  BY <1>6 DEF LinksInit, CopiesOK, Rowed, Down
<1>11. PagesOK /\ PagesType
  BY DEF LinksInit, PagesOK, NoPage, PagesType
<1> QED
  BY <1>5, <1>7, <1>8, <1>9, <1>10, <1>11 DEF LinksInv

-----------------------------------------------------------------------------
(* Changes of the rows.                                                    *)

\* One row is replaced
LEMMA OneRow ==
    ASSUME RowType, NEW k \in Kinds, NEW u \in Users, NEW r \in Row \cup {NoRow}, row' = [row EXCEPT ![k][u] = r]
    PROVE  /\ RowType'
           /\ \A l \in Kinds, v \in Users : row'[l][v] = IF l = k /\ v = u THEN r ELSE row[l][v]
  BY DEF RowType

\* A notification of a kind of link
LEMMA NotifyStep ==
    ASSUME events \in Seq(Kinds), NEW k \in Kinds, Notify(k)
    PROVE  events' \in Seq(Kinds)
  BY AppendProperties DEF Notify

\* A link is asked for: its number is new
LEMMA InsertStep ==
    ASSUME LinksInv, NEW k \in Kinds, NEW u \in Users, NEW a \in Addresses \cup {Nobody}, Insert(k, u, a),
           k = "email_change" => a \in Addresses,
           status'[u] # "none",
           \A v \in Users : status[v] # "none" => status'[v] # "none",
           \A v \in Users : status'[v] = "pending" => status[v] = "pending" \/ (v = u /\ k = "registration"),
           UNCHANGED <<mailer, inbox, copies, refused, pages, crashes>>
    PROVE  RowsOK' /\ InboxOK' /\ MailerOK' /\ CopiesOK' /\ PagesOK' /\ PagesType'
<1> DEFINE new == [token |-> asked + 1, to |-> a, unsent |-> TRUE, valid |-> TRUE]
<1>1. /\ asked < MaxRequests /\ asked' = asked + 1 /\ row[k][u] = NoRow
      /\ row' = [row EXCEPT ![k][u] = new] /\ Notify(k)
  BY DEF Insert
<1>2. RowsOK /\ UsersOK /\ InboxOK /\ MailerOK /\ CopiesOK /\ PagesOK /\ PagesType
  BY DEF LinksInv
<1>3. asked \in Nat /\ MaxRequests \in Nat /\ asked + 1 \in Tokens /\ asked' \in 0..MaxRequests
  BY <1>1, <1>2, LinkBounds DEF RowsOK, Tokens
<1>4. new \in Row /\ new # NoRow
  BY <1>3 DEF Row, NoRow
<1>5. new.token = asked + 1 /\ new.to = a
  OBVIOUS
<1> HIDE DEF new
<1>6. RowType' /\ \A l \in Kinds, v \in Users : row'[l][v] = IF l = k /\ v = u THEN new ELSE row[l][v]
  <2>1. RowType
    BY <1>2 DEF RowsOK
  <2> QED
    BY <1>1, <1>4, <2>1 DEF RowType
<1>7. \A l \in Kinds, v \in Users : Rowed(l, v) => row[l][v].token \in Nat /\ row[l][v].token <= asked
  BY <1>2, RowIsRow, LinkBounds DEF RowsOK, Tokens
<1>8. RowsOK'
  <2>1. ASSUME NEW l \in Kinds, NEW v \in Users, Rowed(l, v)'
        PROVE  row'[l][v].token <= asked' /\ status'[v] # "none" /\ (l = "email_change" => row'[l][v].to \in Addresses)
    <3>1. CASE l = k /\ v = u
      BY <3>1, <1>1, <1>3, <1>5, <1>6
    <3>2. CASE ~(l = k /\ v = u)
      <4>1. row'[l][v] = row[l][v] /\ Rowed(l, v)
        BY <2>1, <3>2, <1>6 DEF Rowed
      <4> QED
        BY <4>1, <1>1, <1>2, <1>3, <1>7 DEF RowsOK
    <3> QED
      BY <3>1, <3>2
  <2>2. ASSUME NEW l \in Kinds, NEW m \in Kinds, NEW v \in Users, NEW w \in Users, Rowed(l, v)', Rowed(m, w)',
               row'[l][v].token = row'[m][w].token
        PROVE  l = m /\ v = w
    <3>1. CASE l = k /\ v = u
      <4>1. row'[l][v].token = asked + 1
        BY <3>1, <1>5, <1>6
      <4> QED
        BY <4>1, <3>1, <2>2, <1>3, <1>6, <1>7 DEF Rowed
    <3>2. CASE m = k /\ w = u
      <4>1. row'[m][w].token = asked + 1
        BY <3>2, <1>5, <1>6
      <4> QED
        BY <4>1, <3>2, <2>2, <1>3, <1>6, <1>7 DEF Rowed
    <3>3. CASE ~(l = k /\ v = u) /\ ~(m = k /\ w = u)
      BY <3>3, <2>2, <1>2, <1>6 DEF RowsOK, Rowed
    <3> QED
      BY <3>1, <3>2, <3>3
  <2>3. ASSUME NEW v \in Users, status'[v] = "pending"
        PROVE  Rowed("registration", v)'
    <3>1. "registration" \in Kinds
      BY DEF Kinds
    <3> QED
      BY <2>3, <3>1, <1>2, <1>4, <1>6 DEF RowsOK, Rowed
  <2> QED
    BY <2>1, <2>2, <2>3, <1>3, <1>6 DEF RowsOK
<1>9. InboxOK'
  <2>1. \A t \in Tokens, x \in Addresses : <<t, x>> \in inbox => t <= asked /\ t \in Nat
    BY <1>2, LinkBounds DEF InboxOK, Tokens
  <2>2. "email_change" \in Kinds
    BY DEF Kinds
  <2>3. ASSUME NEW v \in Users, NEW x \in Addresses, Rowed("email_change", v)', <<row'["email_change"][v].token, x>> \in inbox
        PROVE  x = row'["email_change"][v].to
    <3>1. CASE k = "email_change" /\ v = u
      BY <2>1, <2>3, <3>1, <1>3, <1>5, <1>6
    <3>2. CASE ~(k = "email_change" /\ v = u)
      BY <2>2, <2>3, <3>2, <1>2, <1>6 DEF InboxOK, Rowed
    <3> QED
      BY <3>1, <3>2
  <2> QED
    BY <2>1, <2>3, <1>1, <1>2, <1>3 DEF InboxOK
<1>10. MailerOK'
  <2>1. events' \in Seq(Kinds)
    BY <1>1, <1>2, NotifyStep DEF MailerOK
  <2>2. ASSUME NEW i \in 1..Len(mailer.batch)
        PROVE  /\ mailer.batch[i].token <= asked'
               /\ \A l \in Kinds, v \in Users : Rowed(l, v)' /\ row'[l][v].token = mailer.batch[i].token =>
                    /\ l = mailer.kind
                    /\ l = "email_change" => mailer.batch[i].to = row'[l][v].to
    <3>1. mailer.batch[i] \in Mail
      BY <1>2, ElementOfSeq DEF MailerOK, Mailer
    <3>2. mailer.batch[i].token \in Nat /\ mailer.batch[i].token <= asked
      BY <3>1, <1>2, LinkBounds DEF MailerOK, Mail, Tokens
    <3>3. ASSUME NEW l \in Kinds, NEW v \in Users, Rowed(l, v)', row'[l][v].token = mailer.batch[i].token
          PROVE  row'[l][v] = row[l][v]
      BY <3>2, <3>3, <1>3, <1>5, <1>6
    <3> QED
      BY <3>2, <3>3, <1>1, <1>2, <1>3 DEF MailerOK, Rowed
  <2> QED
    BY <2>1, <2>2, <1>2 DEF MailerOK
<1>11. CopiesOK'
  <2>1. copies[asked + 1] = 0 /\ \A t \in Tokens : t \in Nat /\ copies[t] \in Nat
    BY <1>2, <1>3, LinkBounds DEF CopiesOK, Tokens
  <2>2. ASSUME NEW l \in Kinds, NEW v \in Users, Rowed(l, v)', row'[l][v].unsent
        PROVE  copies[row'[l][v].token] <= crashes \/ Marking(row'[l][v].token)
    <3>1. CASE l = k /\ v = u
      BY <2>1, <3>1, <1>2, <1>5, <1>6 DEF CopiesOK
    <3>2. CASE ~(l = k /\ v = u)
      BY <2>2, <3>2, <1>2, <1>6 DEF CopiesOK, Rowed
    <3> QED
      BY <3>1, <3>2
  <2>3. \A t \in Tokens : t > asked' => copies[t] = 0
    BY <2>1, <1>1, <1>2, <1>3 DEF CopiesOK
  <2> QED
    BY <2>2, <2>3, <1>2 DEF CopiesOK, Marking
<1>12. PagesOK' /\ PagesType'
  BY <1>2 DEF PagesOK, PageOK, PagesType
<1> QED
  BY <1>8, <1>9, <1>10, <1>11, <1>12

\* What confirmations, expiry and the mailer do to the rows
Shrinks ==
    /\ RowType'
    /\ \A k \in Kinds, u \in Users : Rowed(k, u)' =>
         /\ Rowed(k, u) /\ row'[k][u].token = row[k][u].token /\ row'[k][u].to = row[k][u].to
         /\ row'[k][u].unsent => row[k][u].unsent

\* Rows that go or are marked take nothing from the others
LEMMA ShrinkStep ==
    ASSUME LinksInv, Shrinks,
           \A v \in Users : status[v] # "none" => status'[v] # "none",
           \A v \in Users : status'[v] = "pending" => Rowed("registration", v)',
           UNCHANGED <<mailer, inbox, copies, refused, crashes, asked>>, events' \in Seq(Kinds)
    PROVE  RowsOK' /\ InboxOK' /\ MailerOK' /\ CopiesOK'
<1>1. RowsOK /\ UsersOK /\ InboxOK /\ MailerOK /\ CopiesOK
  BY DEF LinksInv
<1>2. RowsOK'
  BY <1>1 DEF RowsOK, Shrinks
<1>3. InboxOK'
  <2>1. "email_change" \in Kinds
    BY DEF Kinds
  <2> QED
    BY <2>1, <1>1 DEF InboxOK, Shrinks
<1>4. MailerOK'
  BY <1>1 DEF MailerOK, Shrinks
<1>5. CopiesOK'
  BY <1>1 DEF CopiesOK, Shrinks, Marking
<1> QED
  BY <1>2, <1>3, <1>4, <1>5

-----------------------------------------------------------------------------
(* The forms.                                                              *)

\* Nobody has an address that is not used, and users with an account have one
LEMMA UnusedAddress ==
    ASSUME UsersOK, NEW a \in Addresses, ~Used(a), NEW u \in Users, status[u] = "none",
           status' = [status EXCEPT ![u] = "pending"], email' = [email EXCEPT ![u] = a], UNCHANGED <<password, inbox>>
    PROVE  UsersOK'
<1>1. a # Nobody /\ \A v \in Users : email[v] # a
  BY LinkBounds DEF Used
<1>2. \A v \in Users : /\ status'[v] = IF v = u THEN "pending" ELSE status[v]
                       /\ email'[v] = IF v = u THEN a ELSE email[v]
  BY DEF UsersOK
<1> QED
  BY <1>1, <1>2 DEF UsersOK

\* Registrations, and requests for links and passwords
LEMMA FormsStep ==
    ASSUME LinksInv, Forms
    PROVE  LinksInv'
<1>1. UNCHANGED <<mailer, inbox, copies, refused, pages, crashes>>
  BY DEF Forms
<1>2. RowsOK /\ UsersOK /\ InboxOK /\ MailerOK /\ CopiesOK /\ PagesOK /\ PagesType
  BY DEF LinksInv
<1>3. "registration" \in Kinds /\ "recovery" \in Kinds /\ "email_change" \in Kinds
  BY DEF Kinds
<1>4. ASSUME NEW u \in Users, NEW a \in Addresses, register_user(u, a)
      PROVE  LinksInv'
  <2>1. /\ status[u] = "none" /\ ~Used(a) /\ Insert("registration", u, a)
        /\ status' = [status EXCEPT ![u] = "pending"] /\ email' = [email EXCEPT ![u] = a] /\ password' = password
    BY <1>4 DEF register_user
  <2>2. UsersOK'
    BY <2>1, <1>1, <1>2, UnusedAddress
  <2>3. \A v \in Users : status'[v] = IF v = u THEN "pending" ELSE status[v]
    BY <2>1, <1>2 DEF UsersOK
  <2>4. RowsOK' /\ InboxOK' /\ MailerOK' /\ CopiesOK' /\ PagesOK' /\ PagesType'
    BY <2>1, <2>3, <1>1, <1>3, InsertStep
  <2> QED
    BY <2>2, <2>4 DEF LinksInv
<1>5. ASSUME NEW u \in Users, request_password_recovery(u)
      PROVE  LinksInv'
  <2>1. status[u] # "none" /\ Insert("recovery", u, Nobody) /\ UNCHANGED <<status, email, password>>
    BY <1>5 DEF request_password_recovery
  <2>2. UsersOK'
    BY <2>1, <1>1, <1>2 DEF UsersOK
  <2>3. RowsOK' /\ InboxOK' /\ MailerOK' /\ CopiesOK' /\ PagesOK' /\ PagesType'
    BY <2>1, <1>1, <1>3, InsertStep
  <2> QED
    BY <2>2, <2>3 DEF LinksInv
<1>6. ASSUME NEW u \in Users, NEW a \in Addresses, request_email_change(u, a)
      PROVE  LinksInv'
  <2>1. status[u] = "active" /\ Insert("email_change", u, a) /\ UNCHANGED <<status, email, password>>
    BY <1>6 DEF request_email_change
  <2>2. UsersOK'
    BY <2>1, <1>1, <1>2 DEF UsersOK
  <2>3. RowsOK' /\ InboxOK' /\ MailerOK' /\ CopiesOK' /\ PagesOK' /\ PagesType'
    BY <2>1, <1>1, <1>3, InsertStep
  <2> QED
    BY <2>2, <2>3 DEF LinksInv
<1>7. ASSUME NEW u \in Users, change_password(u)
      PROVE  LinksInv'
  <2>1. password' = [password EXCEPT ![u] = 0] /\ UNCHANGED <<status, email, row, events, asked>>
    BY <1>7 DEF change_password
  <2>2. UsersOK'
    BY <2>1, <1>1, <1>2 DEF UsersOK
  <2>3. RowsOK' /\ InboxOK' /\ PagesOK' /\ PagesType'
    BY <2>1, <1>1, <1>2 DEF RowsOK, RowType, Rowed, InboxOK, PagesOK, PageOK, PagesType
  <2>4. MailerOK' /\ CopiesOK'
    BY <2>1, <1>1, <1>2 DEF MailerOK, CopiesOK, Rowed, Marking
  <2> QED
    BY <2>2, <2>3, <2>4 DEF LinksInv
<1> QED
  BY <1>4, <1>5, <1>6, <1>7 DEF Forms, RegisterForm, RecoveryForm, ChangeEmailForm, ChangePasswordForm

-----------------------------------------------------------------------------
(* The links.                                                              *)

\* A row expires
LEMMA ExpireStep ==
    ASSUME LinksInv, NEW k \in Kinds, NEW u \in Users, Expire(k, u)
    PROVE  LinksInv'
<1>1. /\ Rowed(k, u) /\ row' = [row EXCEPT ![k][u].valid = FALSE]
      /\ UNCHANGED <<status, email, password, mailing, pages, bounds>>
  BY DEF Expire, Rowed
<1>2. RowsOK /\ UsersOK /\ InboxOK /\ MailerOK /\ CopiesOK /\ PagesOK /\ PagesType
  BY DEF LinksInv
<1>3. UNCHANGED <<mailer, events, inbox, copies, refused, asked, crashes>>
  BY <1>1 DEF mailing, bounds
<1>4. row[k][u] \in Row
  BY <1>1, <1>2, RowIsRow DEF RowsOK
<1>5. Shrinks /\ \A v \in Users : Rowed("registration", v)' <=> Rowed("registration", v)
  <2> DEFINE r == [row[k][u] EXCEPT !.valid = FALSE]
  <2>1. r \in Row /\ r # NoRow /\ r.token = row[k][u].token /\ r.to = row[k][u].to /\ r.unsent = row[k][u].unsent
    BY <1>4 DEF Row, NoRow
  <2>2. row' = [row EXCEPT ![k][u] = r]
    BY <1>1
  <2>3. RowType
    BY <1>2 DEF RowsOK
  <2> HIDE DEF r
  <2>4. RowType' /\ \A l \in Kinds, v \in Users : row'[l][v] = IF l = k /\ v = u THEN r ELSE row[l][v]
    BY <2>1, <2>2, <2>3 DEF RowType
  <2>5. "registration" \in Kinds
    BY DEF Kinds
  <2>6. ASSUME NEW l \in Kinds, NEW v \in Users
        PROVE  /\ Rowed(l, v)' <=> Rowed(l, v)
               /\ row'[l][v].token = row[l][v].token /\ row'[l][v].to = row[l][v].to
               /\ row'[l][v].unsent = row[l][v].unsent
    <3>1. CASE l = k /\ v = u
      <4>1. row'[l][v] = r /\ Rowed(l, v)
        BY <3>1, <2>4, <1>1
      <4> QED
        BY <4>1, <3>1, <2>1 DEF Rowed
    <3>2. CASE ~(l = k /\ v = u)
      <4>1. row'[l][v] = row[l][v]
        BY <3>2, <2>4
      <4> QED
        BY <4>1 DEF Rowed
    <3> QED
      BY <3>1, <3>2
  <2> QED
    BY <2>4, <2>5, <2>6 DEF Shrinks
<1>6. RowsOK' /\ InboxOK' /\ MailerOK' /\ CopiesOK'
  <2>1. \A v \in Users : status'[v] = "pending" => Rowed("registration", v)'
    BY <1>1, <1>2, <1>5 DEF RowsOK
  <2>2. events' \in Seq(Kinds)
    BY <1>2, <1>3 DEF MailerOK
  <2> QED
    BY <2>1, <2>2, <1>1, <1>3, <1>5, ShrinkStep
<1>7. UsersOK' /\ PagesOK' /\ PagesType'
  BY <1>1, <1>2, <1>3 DEF UsersOK, PagesOK, PageOK, PagesType
<1> QED
  BY <1>6, <1>7 DEF LinksInv

\* Nothing but the pages changes
LEMMA OnlyPages ==
    ASSUME LinksInv, UNCHANGED <<accounts, mailing, bounds>>, PagesType', PagesOK'
    PROVE  LinksInv'
<1>1. RowsOK /\ UsersOK /\ InboxOK /\ MailerOK /\ CopiesOK
  BY DEF LinksInv
<1>2. UNCHANGED <<status, email, password, row, mailer, events, inbox, copies, refused, asked, crashes>>
  BY DEF accounts, mailing, bounds
<1>3. RowsOK' /\ UsersOK'
  BY <1>1, <1>2 DEF RowsOK, UsersOK, RowType, Rowed
<1>4. InboxOK' /\ MailerOK'
  BY <1>1, <1>2 DEF InboxOK, MailerOK, Rowed
<1>5. CopiesOK'
  BY <1>1, <1>2 DEF CopiesOK, Rowed, Marking
<1> QED
  BY <1>3, <1>4, <1>5 DEF LinksInv

\* A link that was mailed is opened
LEMMA SubmitStep ==
    ASSUME LinksInv, NEW s \in Pages, Submit(s)
    PROVE  LinksInv'
<1>0. PICK k \in Kinds : \E p \in Opened(k) : pages' = [pages EXCEPT ![s] = p]
  BY DEF Submit, ConfirmRegistration, ConfirmPasswordRecovery, ConfirmEmailChange, Kinds
<1>1. PICK p \in Opened(k) : pages' = [pages EXCEPT ![s] = p]
  BY <1>0
<1>2. UNCHANGED <<accounts, mailing, bounds>>
  BY DEF Submit
<1>3. UNCHANGED <<status, inbox>> /\ PagesOK /\ PagesType
  BY <1>2 DEF accounts, mailing, LinksInv
<1>4. p \in Page /\ p.stage = "sent" /\ \E a \in Addresses : <<p.token, a>> \in inbox
  BY <1>1 DEF Opened, Page
<1>5. PageOK(p)
  BY <1>4 DEF PageOK
<1>6. PagesType'
  BY <1>1, <1>3, <1>4 DEF PagesType
<1>7. PagesOK'
  BY <1>1, <1>3, <1>5 DEF PagesOK, PagesType, PageOK
<1> QED
  BY <1>2, <1>6, <1>7, OnlyPages

\* The server reads the row of the link: it is of the user and the address the link was mailed to
LEMMA LookStep ==
    ASSUME LinksInv, NEW s \in Pages, Look(s)
    PROVE  LinksInv'
<1> DEFINE p == pages[s]
<1>1. /\ p.stage = "sent"
      /\ \/ pages' = [pages EXCEPT ![s] = NoPage]
         \/ \E u \in Looked(p.kind, p.token) :
              pages' = [pages EXCEPT ![s] = [p EXCEPT !.stage = "looked", !.user = u, !.to = row[p.kind][u].to]]
      /\ UNCHANGED <<accounts, mailing, bounds>>
  BY DEF Look
<1>2. UNCHANGED <<status, inbox>> /\ PagesOK /\ PagesType /\ RowsOK /\ InboxOK
  BY <1>1 DEF accounts, mailing, LinksInv
<1>3. p \in Page /\ \E a \in Addresses : <<p.token, a>> \in inbox
  <2>1. p \in Page \cup {NoPage}
    BY <1>2 DEF PagesType
  <2>2. p.stage = "sent"
    BY <1>1
  <2>3. NoPage.stage = "none"
    BY DEF NoPage
  <2>4. p # NoPage
    BY <2>2, <2>3
  <2>5. PageOK(p)
    BY <1>1, <1>2 DEF PagesOK
  <2> QED
    BY <2>1, <2>4, <2>5 DEF PageOK
<1>4. p.kind \in Kinds /\ p.token \in Tokens
  BY <1>3 DEF Page
<1>5. CASE pages' = [pages EXCEPT ![s] = NoPage]
  <2>1. PagesType' /\ PagesOK'
    BY <1>2, <1>5 DEF PagesType, PagesOK, PageOK, NoPage
  <2> QED
    BY <2>1, <1>1, OnlyPages
<1>6. ASSUME NEW u \in Looked(p.kind, p.token),
             pages' = [pages EXCEPT ![s] = [p EXCEPT !.stage = "looked", !.user = u, !.to = row[p.kind][u].to]]
      PROVE  LinksInv'
  <2> DEFINE new == [p EXCEPT !.stage = "looked", !.user = u, !.to = row[p.kind][u].to]
  <2>1. u \in Users /\ row[p.kind][u].token = p.token
    BY DEF Looked
  <2>2. Rowed(p.kind, u) /\ row[p.kind][u] \in Row
    BY <2>1, <1>2, <1>4, RowIsRow, LinkBounds DEF RowsOK, Tokens
  <2>3. row[p.kind][u].to \in Addresses \cup {Nobody}
    BY <2>2 DEF Row
  <2>4. new \in Page /\ new.kind = p.kind /\ new.token = p.token /\ new.user = u /\ new.to = row[p.kind][u].to
    BY <2>1, <2>3, <1>3 DEF Page
  <2>5. p.kind = "email_change" => row[p.kind][u].to \in Addresses /\ <<p.token, row[p.kind][u].to>> \in inbox
    BY <2>1, <2>2, <1>2, <1>3, <1>4 DEF RowsOK, InboxOK
  <2>6. status[u] # "none"
    BY <2>1, <2>2, <1>2, <1>4 DEF RowsOK
  <2> HIDE DEF new
  <2>7. PageOK(new)
    BY <2>1, <2>4, <2>5, <2>6, <1>3 DEF PageOK
  <2>8. pages' = [pages EXCEPT ![s] = new]
    BY <1>6 DEF new
  <2>9. PagesType'
    BY <2>4, <2>8, <1>2 DEF PagesType
  <2>10. PagesOK'
    BY <2>7, <2>8, <1>2 DEF PagesOK, PagesType, PageOK
  <2> QED
    BY <2>9, <2>10, <1>1, OnlyPages
<1> QED
  BY <1>1, <1>5, <1>6

\* A row is deleted
LEMMA RemoveRow ==
    ASSUME RowType, NEW k \in Kinds, NEW u \in Users, row' = [row EXCEPT ![k][u] = NoRow]
    PROVE  Shrinks /\ \A v \in Users : Rowed("registration", v)' <=> Rowed("registration", v) /\ ~(k = "registration" /\ v = u)
<1>1. RowType' /\ \A l \in Kinds, v \in Users : row'[l][v] = IF l = k /\ v = u THEN NoRow ELSE row[l][v]
  BY DEF RowType
<1>2. "registration" \in Kinds
  BY DEF Kinds
<1>3. ASSUME NEW l \in Kinds, NEW v \in Users
      PROVE  /\ Rowed(l, v)' => row'[l][v] = row[l][v]
             /\ Rowed(l, v)' <=> Rowed(l, v) /\ ~(l = k /\ v = u)
  BY <1>1 DEF Rowed
<1> QED
  BY <1>1, <1>2, <1>3 DEF Shrinks

\* What a confirmation does to the accounts
LEMMA ConfirmStep ==
    ASSUME LinksInv, NEW s \in Pages, pages[s].stage = "looked", Confirmable(pages[s]), Confirm(pages[s]),
           UNCHANGED <<mailing, asked, crashes>>
    PROVE  /\ RowsOK' /\ UsersOK' /\ InboxOK' /\ MailerOK' /\ CopiesOK'
           /\ \A v \in Users : status[v] # "none" => status'[v] # "none"
<1> DEFINE p == pages[s]
<1>1. /\ row' = [row EXCEPT ![p.kind][p.user] = NoRow]
      /\ status' = IF p.kind = "registration" THEN [status EXCEPT ![p.user] = "active"] ELSE status
      /\ email' = IF p.kind = "email_change" THEN [email EXCEPT ![p.user] = p.to] ELSE email
      /\ password' = IF p.kind = "recovery" THEN [password EXCEPT ![p.user] = p.token] ELSE password
  BY DEF Confirm
<1>2. p.kind = "email_change" => ~Used(p.to) \/ email[p.user] = p.to
  BY DEF Confirmable
<1>3. RowsOK /\ UsersOK /\ InboxOK /\ MailerOK /\ CopiesOK /\ PagesOK /\ PagesType
  BY DEF LinksInv
<1>4. p \in Page /\ PageOK(p)
  <2>1. p \in Page \cup {NoPage}
    BY <1>3 DEF PagesType
  <2>2. NoPage.stage = "none"
    BY DEF NoPage
  <2> QED
    BY <2>1, <2>2, <1>3 DEF PagesOK
<1>5. /\ p.kind \in Kinds /\ p.token \in Tokens /\ p.user \in Users /\ status[p.user] # "none"
      /\ \E a \in Addresses : <<p.token, a>> \in inbox
      /\ p.kind = "email_change" => p.to \in Addresses
  BY <1>4 DEF Page, PageOK
<1>6. UNCHANGED <<mailer, events, inbox, copies, refused, asked, crashes>>
  BY DEF mailing
<1> HIDE DEF p
<1>7. \A v \in Users : /\ status'[v] = IF p.kind = "registration" /\ v = p.user THEN "active" ELSE status[v]
                       /\ email'[v] = IF p.kind = "email_change" /\ v = p.user THEN p.to ELSE email[v]
                       /\ password'[v] = IF p.kind = "recovery" /\ v = p.user THEN p.token ELSE password[v]
  BY <1>1, <1>3 DEF UsersOK
<1>8. \A v \in Users : status[v] # "none" <=> status'[v] # "none"
  BY <1>5, <1>7
<1>9. UsersOK'
  <2>1. /\ status' \in [Users -> {"none", "pending", "active"}]
        /\ email' \in [Users -> Addresses \cup {Nobody}]
        /\ password' \in [Users -> Tokens \cup {0}]
    BY <1>1, <1>3, <1>5 DEF UsersOK
  <2>2. Nobody \notin Addresses
    BY LinkBounds
  <2>3. \A u \in Users : status'[u] = "none" <=> email'[u] = Nobody
    BY <2>2, <1>3, <1>5, <1>7, <1>8 DEF UsersOK
  <2>4. \A u, v \in Users : email'[u] = email'[v] /\ email'[u] # Nobody => u = v
    BY <1>2, <1>3, <1>5, <1>7 DEF UsersOK, Used
  <2>5. \A u \in Users : password'[u] # 0 => \E a \in Addresses : <<password'[u], a>> \in inbox
    BY <1>3, <1>5, <1>7 DEF UsersOK
  <2> QED
    BY <2>1, <2>3, <2>4, <2>5, <1>6 DEF UsersOK
<1>10. RowsOK' /\ InboxOK' /\ MailerOK' /\ CopiesOK'
  <2>1. Shrinks /\ \A v \in Users : Rowed("registration", v)' <=> Rowed("registration", v) /\ ~(p.kind = "registration" /\ v = p.user)
    BY <1>1, <1>3, <1>5, RemoveRow DEF RowsOK
  <2>2. \A v \in Users : status'[v] = "pending" => Rowed("registration", v)'
    BY <2>1, <1>3, <1>7 DEF RowsOK
  <2>3. events' \in Seq(Kinds)
    BY <1>3, <1>6 DEF MailerOK
  <2> QED
    BY <2>1, <2>2, <2>3, <1>6, <1>8, ShrinkStep
<1> QED
  BY <1>8, <1>9, <1>10

\* A confirmation ends
LEMMA FinishStep ==
    ASSUME LinksInv, NEW s \in Pages, Finish(s)
    PROVE  LinksInv'
<1> DEFINE p == pages[s]
           new == [p EXCEPT !.stage = "success"]
<1>1. p.stage = "looked" /\ UNCHANGED <<mailing, asked, crashes>>
  BY DEF Finish
<1>2. PagesOK /\ PagesType /\ UNCHANGED inbox
  BY <1>1 DEF LinksInv, mailing
<1>3. p \in Page
  <2>1. p \in Page \cup {NoPage}
    BY <1>2 DEF PagesType
  <2>2. NoPage.stage = "none"
    BY DEF NoPage
  <2> QED
    BY <2>1, <2>2, <1>1
<1>4. new \in Page /\ new.kind = p.kind /\ new.token = p.token /\ new.user = p.user /\ new.to = p.to
  BY <1>3 DEF Page
<1>5. PageOK(p)
  BY <1>1, <1>2 DEF PagesOK
<1>6. pages' = [pages EXCEPT ![s] = new] \/ pages' = [pages EXCEPT ![s] = NoPage]
  BY DEF Finish
<1> HIDE DEF p, new
<1>7. PageOK(new)
  BY <1>1, <1>4, <1>5 DEF PageOK
<1>8. PagesType'
  BY <1>2, <1>4, <1>6 DEF PagesType
<1>9. (\A v \in Users : status[v] # "none" => status'[v] # "none") => PagesOK'
  <2>1. SUFFICES ASSUME \A v \in Users : status[v] # "none" => status'[v] # "none", NEW r \in Pages, pages'[r].stage # "none"
                 PROVE  PageOK(pages[r])'
    BY DEF PagesOK
  <2>2. NoPage.stage = "none"
    BY DEF NoPage
  <2>3. pages'[r] = new \/ (pages'[r] = pages[r] /\ pages[r].stage # "none")
    BY <2>1, <2>2, <1>2, <1>6 DEF PagesType
  <2>4. PageOK(pages'[r])
    BY <2>3, <1>2, <1>7 DEF PagesOK
  <2> QED
    BY <2>1, <2>4, <1>2 DEF PageOK
<1>10. CASE Confirmable(pages[s])
  <2>1. Confirm(pages[s])
    BY <1>10 DEF Finish
  <2> QED
    BY <2>1, <1>1, <1>8, <1>9, <1>10, ConfirmStep DEF LinksInv, p
<1>11. CASE ~Confirmable(pages[s])
  <2>1. pages' = [pages EXCEPT ![s] = NoPage] /\ UNCHANGED <<accounts, faults>>
    BY <1>11 DEF Finish
  <2>2. UNCHANGED <<accounts, mailing, bounds>> /\ status' = status
    BY <2>1, <1>1 DEF bounds, accounts
  <2> QED
    BY <2>2, <1>8, <1>9, OnlyPages
<1> QED
  BY <1>10, <1>11

-----------------------------------------------------------------------------
(* The mailer.                                                             *)

\* The batch of a handler: every row that is to be mailed, once
LEMMA BatchType ==
    ASSUME LinksInv, NEW k \in Kinds
    PROVE  /\ Batch(k) \in Seq(Mail)
           /\ Unsent(k) # {} => Batch(k) # <<>>
           /\ \A i \in 1..Len(Batch(k)) : \E u \in Unsent(k) :
                /\ Batch(k)[i].token = row[k][u].token
                /\ k = "email_change" => Batch(k)[i].to = row[k][u].to
           /\ \A i, j \in 1..Len(Batch(k)) : Batch(k)[i].token = Batch(k)[j].token => i = j
<1> DEFINE us == Unsent(k)
           n == Cardinality(us)
           order == CHOOSE f \in [1 .. n -> us] : \A i, j \in DOMAIN f : f[i] = f[j] => i = j
           mail(u) == [user |-> u, token |-> row[k][u].token, to |-> IF k = "email_change" THEN row[k][u].to ELSE email[u]]
<1>1. RowsOK /\ UsersOK
  BY DEF LinksInv
<1>2. us \in SUBSET Users /\ \A u \in us : Rowed(k, u)
  BY DEF Unsent, Rowed
<1>3. IsFiniteSet(us)
  BY <1>2, FS_Subset, LinkBounds
<1>4. n \in Nat /\ ExistsBijection(1 .. n, us)
  BY <1>3, FS_CardinalityType
<1>5. n = 0 <=> us = {}
  BY <1>3, FS_EmptySet
<1>6. Batch(k) = [i \in DOMAIN order |-> mail(order[i])]
  BY DEF Batch
<1> HIDE DEF us, n, mail
<1>7. \E f \in [1 .. n -> us] : \A i, j \in DOMAIN f : f[i] = f[j] => i = j
  BY <1>4 DEF ExistsBijection, Bijection, Injection, IsInjective
<1>8. order \in [1 .. n -> us] /\ \A i, j \in DOMAIN order : order[i] = order[j] => i = j
  BY <1>7
<1> HIDE DEF order
<1>9. ASSUME NEW u \in us
      PROVE  mail(u) \in Mail /\ mail(u).token = row[k][u].token /\ (k = "email_change" => mail(u).to = row[k][u].to)
  <2>1. u \in Users /\ Rowed(k, u) /\ row[k][u].token \in Tokens /\ status[u] # "none"
    BY <1>1, <1>2, RowIsRow DEF RowsOK
  <2>2. email[u] \in Addresses /\ (k = "email_change" => row[k][u].to \in Addresses)
    BY <2>1, <1>1 DEF RowsOK, UsersOK
  <2> QED
    BY <2>1, <2>2 DEF mail, Mail
<1>10. DOMAIN order = 1 .. n /\ \A i \in 1 .. n : order[i] \in us
  BY <1>8
<1>11. Batch(k) \in [1 .. n -> Mail] /\ \A i \in 1 .. n : Batch(k)[i] = mail(order[i])
  BY <1>6, <1>9, <1>10
<1>12. Batch(k) \in Seq(Mail) /\ Len(Batch(k)) = n
  <2>1. Batch(k) \in Seq(Mail)
    BY <1>4, <1>11, SeqDef
  <2>2. DOMAIN Batch(k) = 1 .. n
    BY <1>11
  <2> QED
    BY <2>1, <2>2, <1>4, LenProperties
<1>13. ASSUME NEW i \in 1 .. n, NEW j \in 1 .. n, Batch(k)[i].token = Batch(k)[j].token
       PROVE  i = j
  <2>1. row[k][order[i]].token = row[k][order[j]].token
    BY <1>9, <1>10, <1>11, <1>13
  <2>2. order[i] = order[j]
    BY <2>1, <1>1, <1>2, <1>10 DEF RowsOK
  <2> QED
    BY <2>2, <1>8, <1>10
<1>14. \A i \in 1 .. n : \E u \in us : Batch(k)[i].token = row[k][u].token /\ (k = "email_change" => Batch(k)[i].to = row[k][u].to)
  BY <1>9, <1>10, <1>11
<1>15. us # {} => Batch(k) # <<>>
  BY <1>4, <1>5, <1>12, EmptySeq
<1> QED
  BY <1>12, <1>13, <1>14, <1>15 DEF us

\* A step of the mailer that leaves the accounts alone
LEMMA MailerFrame ==
    ASSUME LinksInv, UNCHANGED <<accounts, pages, asked>>, inbox \subseteq inbox'
    PROVE  RowsOK' /\ UsersOK' /\ PagesOK' /\ PagesType'
<1>1. RowsOK /\ UsersOK /\ PagesOK /\ PagesType
  BY DEF LinksInv
<1>2. UNCHANGED <<status, email, password, row>>
  BY DEF accounts
<1>3. RowsOK' /\ UsersOK'
  BY <1>1, <1>2 DEF RowsOK, UsersOK, RowType, Rowed
<1>4. PagesOK' /\ PagesType'
  BY <1>1, <1>2 DEF PagesOK, PagesType, PageOK
<1> QED
  BY <1>3, <1>4

\* The mailer starts and runs its handlers
LEMMA StartStep ==
    ASSUME LinksInv, StartMailer
    PROVE  LinksInv'
<1>1. /\ mailer.state = "down" /\ mailer' = [Down EXCEPT !.state = "idle", !.todo = Startup] /\ events' = <<>>
      /\ UNCHANGED <<accounts, inbox, copies, refused, pages, bounds>>
  BY DEF StartMailer
<1>2. MailerOK /\ CopiesOK /\ InboxOK /\ UNCHANGED <<row, asked, crashes>>
  BY <1>1 DEF LinksInv, accounts, bounds
<1>3. Startup \in Seq(Kinds)
  BY DEF Startup, Kinds
<1>4. mailer' = [state |-> "idle", todo |-> Startup, kind |-> Nobody, batch |-> <<>>, stage |-> "notice"]
  BY <1>1 DEF Down
<1>5. MailerOK'
  <2>1. mailer' \in Mailer /\ mailer'.state = "idle" /\ mailer'.batch = <<>>
    BY <1>3, <1>4 DEF Mailer
  <2> QED
    BY <2>1, <1>1 DEF MailerOK
<1>6. CopiesOK'
  <2>1. mailer'.batch = <<>> /\ Len(mailer'.batch) = 0
    BY <1>4
  <2>2. \A k \in Kinds, u \in Users : Rowed(k, u) /\ row[k][u].unsent => copies[row[k][u].token] <= crashes
    BY <1>1, <1>2 DEF CopiesOK, Marking
  <2> QED
    BY <2>1, <2>2, <1>1, <1>2 DEF CopiesOK, Rowed
<1>7. InboxOK'
  BY <1>1, <1>2 DEF InboxOK, Rowed
<1>8. RowsOK' /\ UsersOK' /\ PagesOK' /\ PagesType'
  BY <1>1, <1>2, MailerFrame
<1> QED
  BY <1>5, <1>6, <1>7, <1>8 DEF LinksInv

\* An idle mailer takes up a kind of link: what it carries are rows
LEMMA HandleStep ==
    ASSUME LinksInv, NEW k \in Kinds, NEW m \in Mailer, m.state = "idle", m.batch = <<>>, mailer.state = "idle",
           mailer' = Handle(m, k), events' \in Seq(Kinds), UNCHANGED <<accounts, inbox, copies, refused, pages, bounds>>
    PROVE  LinksInv'
<1>1. RowsOK /\ MailerOK /\ CopiesOK /\ InboxOK /\ UNCHANGED <<row, asked, crashes>>
  BY DEF LinksInv, accounts, bounds
<1>2. RowsOK' /\ UsersOK' /\ PagesOK' /\ PagesType'
  BY <1>1, MailerFrame
<1>3. InboxOK'
  BY <1>1 DEF InboxOK, Rowed
<1>4. CASE Unsent(k) = {}
  <2>1. mailer' = [m EXCEPT !.state = "idle"]
    BY <1>4 DEF Handle
  <2>2. mailer' \in Mailer /\ mailer'.state = "idle" /\ mailer'.batch = <<>>
    BY <2>1 DEF Mailer
  <2>3. MailerOK'
    BY <2>2, <1>1 DEF MailerOK
  <2>4. CopiesOK'
    BY <2>2, <1>1 DEF CopiesOK, Rowed, Marking
  <2> QED
    BY <2>3, <2>4, <1>2, <1>3 DEF LinksInv
<1>5. CASE Unsent(k) # {}
  <2> DEFINE b == Batch(k)
  <2>1. mailer' = [m EXCEPT !.state = "busy", !.kind = k, !.batch = b, !.stage = FirstStage(k)]
    BY <1>5 DEF Handle
  <2>2. /\ b \in Seq(Mail) /\ b # <<>>
        /\ \A i \in 1..Len(b) : \E u \in Unsent(k) : b[i].token = row[k][u].token /\ (k = "email_change" => b[i].to = row[k][u].to)
        /\ \A i, j \in 1..Len(b) : b[i].token = b[j].token => i = j
    BY <1>5, BatchType
  <2> HIDE DEF b
  <2>3. FirstStage(k) \in {"notice", "link"}
    BY DEF FirstStage
  <2>4. /\ mailer' \in Mailer
        /\ mailer'.state = "busy" /\ mailer'.kind = k /\ mailer'.batch = b /\ mailer'.stage \in {"notice", "link"}
    BY <2>1, <2>2, <2>3 DEF Mailer
  <2>5. ASSUME NEW i \in 1..Len(b)
        PROVE  /\ b[i].token <= asked /\ copies[b[i].token] <= crashes
               /\ \A l \in Kinds, v \in Users : Rowed(l, v) /\ row[l][v].token = b[i].token =>
                    l = k /\ (l = "email_change" => b[i].to = row[l][v].to)
    <3>1. PICK u \in Unsent(k) : b[i].token = row[k][u].token /\ (k = "email_change" => b[i].to = row[k][u].to)
      BY <2>2
    <3>2. u \in Users /\ Rowed(k, u) /\ row[k][u].unsent
      BY DEF Unsent, Rowed
    <3>3. b[i].token <= asked /\ copies[b[i].token] <= crashes
      BY <3>1, <3>2, <1>1 DEF RowsOK, CopiesOK, Marking
    <3> QED
      BY <3>1, <3>2, <3>3, <1>1 DEF RowsOK
  <2>6. MailerOK'
    <3>1. \A i \in 1..Len(mailer'.batch) :
            /\ mailer'.batch[i].token <= asked'
            /\ \A l \in Kinds, v \in Users : Rowed(l, v)' /\ row'[l][v].token = mailer'.batch[i].token =>
                 l = mailer'.kind /\ (l = "email_change" => mailer'.batch[i].to = row'[l][v].to)
      BY <2>4, <2>5, <1>1 DEF Rowed
    <3>2. \A i, j \in 1..Len(mailer'.batch) : mailer'.batch[i].token = mailer'.batch[j].token => i = j
      BY <2>2, <2>4
    <3> QED
      BY <3>1, <3>2, <2>2, <2>4 DEF MailerOK
  <2>7. CopiesOK'
    <3>1. ~\E t \in Tokens : Marking(t)
      BY DEF Marking
    <3>2. \A l \in Kinds, v \in Users : Rowed(l, v) /\ row[l][v].unsent => copies[row[l][v].token] <= crashes
      BY <1>1 DEF CopiesOK, Marking
    <3> QED
      BY <3>2, <2>4, <2>5, <1>1 DEF CopiesOK, Rowed
  <2> QED
    BY <2>6, <2>7, <1>2, <1>3 DEF LinksInv
<1> QED
  BY <1>4, <1>5

\* The mailer takes up an event, or what run does at the start
LEMMA TakeEventStep ==
    ASSUME LinksInv, TakeEvent
    PROVE  LinksInv'
<1>1. mailer.state = "idle" /\ UNCHANGED <<accounts, inbox, copies, refused, pages, bounds>>
  BY DEF TakeEvent
<1>2. mailer \in Mailer /\ mailer.batch = <<>> /\ events \in Seq(Kinds) /\ mailer.todo \in Seq(Kinds)
  BY <1>1 DEF LinksInv, MailerOK, Mailer
<1>3. CASE mailer.todo # <<>> /\ mailer' = Handle([mailer EXCEPT !.todo = Tail(@)], Head(mailer.todo)) /\ UNCHANGED events
  <2> DEFINE m == [mailer EXCEPT !.todo = Tail(@)]
  <2>1. Head(mailer.todo) \in Kinds /\ Tail(mailer.todo) \in Seq(Kinds)
    BY <1>2, <1>3, HeadTailProperties
  <2>2. m \in Mailer /\ m.state = "idle" /\ m.batch = <<>>
    BY <2>1, <1>1, <1>2 DEF Mailer
  <2> HIDE DEF m
  <2>3. mailer' = Handle(m, Head(mailer.todo))
    BY <1>3 DEF m
  <2> QED
    BY <2>1, <2>2, <2>3, <1>1, <1>2, <1>3, HandleStep
<1>4. CASE events # <<>> /\ mailer' = Handle(mailer, Head(events)) /\ events' = Tail(events)
  <2>1. Head(events) \in Kinds /\ events' \in Seq(Kinds)
    BY <1>2, <1>4, HeadTailProperties
  <2> QED
    BY <2>1, <1>1, <1>2, <1>4, HandleStep
<1> QED
  BY <1>3, <1>4 DEF TakeEvent

\* The mailer goes on to the next mail of its batch
LEMMA NextMailIs ==
    ASSUME mailer \in Mailer, mailer.state = "busy", mailer.kind \in Kinds, mailer.batch # <<>>, mailer' = NextMail(mailer)
    PROVE  /\ mailer' \in Mailer
           /\ mailer'.batch = Tail(mailer.batch) /\ mailer'.stage \in {"notice", "link"}
           /\ mailer'.state = "busy" => mailer'.kind = mailer.kind /\ mailer'.batch # <<>>
           /\ mailer'.state # "busy" => mailer'.batch = <<>>
           /\ Len(mailer'.batch) = Len(mailer.batch) - 1 /\ Len(mailer.batch) \in Nat
           /\ \A i \in 1..Len(mailer'.batch) : mailer'.batch[i] = mailer.batch[i + 1] /\ i + 1 \in 1..Len(mailer.batch)
<1> DEFINE b == mailer.batch
<1>1. b \in Seq(Mail) /\ b # <<>>
  BY DEF Mailer
<1> HIDE DEF b
<1>2. /\ Tail(b) \in Seq(Mail) /\ Len(Tail(b)) = Len(b) - 1 /\ Len(b) \in Nat
      /\ \A i \in 1..Len(Tail(b)) : Tail(b)[i] = b[i + 1] /\ i + 1 \in 1..Len(b)
  BY <1>1, HeadTailProperties, LenProperties
<1>3. <<>> \in Seq(Mail) /\ (Len(b) = 1 <=> Tail(b) = <<>>)
  <2>1. \A seq \in Seq(Mail) : seq # <<>> => Len(seq) \in Nat \ {0}
    BY EmptySeq
  <2>2. <<>> \in Seq(Mail) /\ Len(<<>>) = 0
    BY EmptySeq
  <2>3. Tail(b) = <<>> => Len(b) = 1
    BY <1>2, <2>2
  <2>4. Tail(b) # <<>> => Len(Tail(b)) # 0
    BY <1>2, <2>1
  <2>5. Len(b) = 1 => Tail(b) = <<>>
    BY <1>2, <2>4
  <2> QED
    BY <2>2, <2>3, <2>5
<1>4. CASE Len(b) = 1
  <2>1. mailer' = [mailer EXCEPT !.batch = <<>>, !.state = "idle", !.kind = Nobody, !.stage = "notice"]
    BY <1>4 DEF NextMail, b
  <2>2. mailer'.batch = <<>> /\ mailer'.state = "idle" /\ mailer'.stage = "notice"
    BY <2>1 DEF Mailer
  <2>3. mailer' \in Mailer
    <3>1. Nobody \in Kinds \cup {Nobody} /\ "idle" \in {"down", "idle", "busy"} /\ "notice" \in {"notice", "link", "mark"}
      OBVIOUS
    <3> HIDE DEF Kinds
    <3> QED
      BY <2>1, <3>1, <1>3 DEF Mailer
  <2> QED
    BY <2>2, <2>3, <1>2, <1>3, <1>4 DEF b
<1>5. CASE Len(b) # 1
  <2>1. mailer' = [mailer EXCEPT !.batch = Tail(b), !.stage = FirstStage(mailer.kind)]
    BY <1>5 DEF NextMail, b
  <2>2. FirstStage(mailer.kind) \in {"notice", "link"}
    BY DEF FirstStage
  <2>3. /\ mailer' \in Mailer /\ mailer'.batch = Tail(b) /\ mailer'.state = "busy" /\ mailer'.kind = mailer.kind
        /\ mailer'.stage \in {"notice", "link"}
    BY <2>1, <2>2, <1>2 DEF Mailer
  <2> QED
    BY <2>3, <1>2, <1>3, <1>5 DEF b
<1> QED
  BY <1>4, <1>5

\* What it carries is still in agreement with the rows
LEMMA NextMailOK ==
    ASSUME LinksInv, Shrinks, mailer.state = "busy", mailer' = NextMail(mailer), events' \in Seq(Kinds), asked' = asked
    PROVE  MailerOK'
<1>1. MailerOK /\ mailer \in Mailer /\ mailer.kind \in Kinds /\ mailer.batch # <<>>
  BY DEF LinksInv, MailerOK
<1>2. /\ mailer' \in Mailer
      /\ mailer'.state = "busy" => mailer'.kind = mailer.kind /\ mailer'.batch # <<>>
      /\ mailer'.state # "busy" => mailer'.batch = <<>>
      /\ Len(mailer'.batch) = Len(mailer.batch) - 1 /\ Len(mailer.batch) \in Nat
      /\ \A i \in 1..Len(mailer'.batch) : mailer'.batch[i] = mailer.batch[i + 1] /\ i + 1 \in 1..Len(mailer.batch)
  BY <1>1, NextMailIs
<1>3. ASSUME NEW i \in 1..Len(mailer'.batch)
      PROVE  /\ mailer'.batch[i].token <= asked'
             /\ \A k \in Kinds, u \in Users : Rowed(k, u)' /\ row'[k][u].token = mailer'.batch[i].token =>
                  k = mailer'.kind /\ (k = "email_change" => mailer'.batch[i].to = row'[k][u].to)
  <2>1. mailer'.batch[i] = mailer.batch[i + 1] /\ i + 1 \in 1..Len(mailer.batch)
    BY <1>2
  <2>2. mailer'.kind = mailer.kind
    <3>1. mailer'.batch # <<>>
      BY <1>3
    <3> QED
      BY <3>1, <1>2
  <2>3. mailer.batch[i + 1].token <= asked
    BY <2>1, <1>1 DEF MailerOK
  <2>4. ASSUME NEW k \in Kinds, NEW u \in Users, Rowed(k, u)', row'[k][u].token = mailer.batch[i + 1].token
        PROVE  k = mailer.kind /\ (k = "email_change" => mailer.batch[i + 1].to = row'[k][u].to)
    BY <2>1, <2>4, <1>1 DEF MailerOK, Shrinks
  <2> QED
    BY <2>1, <2>2, <2>3, <2>4
<1>4. ASSUME NEW i \in 1..Len(mailer'.batch), NEW j \in 1..Len(mailer'.batch), mailer'.batch[i].token = mailer'.batch[j].token
      PROVE  i = j
  <2>1. i + 1 \in 1..Len(mailer.batch) /\ j + 1 \in 1..Len(mailer.batch) /\ mailer.batch[i + 1].token = mailer.batch[j + 1].token
    BY <1>2, <1>4
  <2>2. i + 1 = j + 1
    BY <2>1, <1>1 DEF MailerOK
  <2> QED
    BY <2>2, <1>2
<1>5. \A i \in 1..Len(mailer'.batch) :
        /\ mailer'.batch[i].token <= asked'
        /\ \A k \in Kinds, u \in Users : Rowed(k, u)' /\ row'[k][u].token = mailer'.batch[i].token =>
             k = mailer'.kind /\ (k = "email_change" => mailer'.batch[i].to = row'[k][u].to)
  BY <1>3
<1>6. \A i, j \in 1..Len(mailer'.batch) : mailer'.batch[i].token = mailer'.batch[j].token => i = j
  BY <1>4
<1>7. mailer'.state = "busy" => mailer'.kind \in Kinds /\ mailer'.batch # <<>>
  BY <1>1, <1>2
<1> QED
  BY <1>2, <1>5, <1>6, <1>7 DEF MailerOK

\* Rows that stay as they are
LEMMA SameRows ==
    ASSUME RowType, row' = row
    PROVE  Shrinks
  BY DEF Shrinks, RowType, Rowed

\* The notice to the old address is sent
LEMMA NoticeStep ==
    ASSUME LinksInv, SendNotice
    PROVE  LinksInv'
<1>1. /\ mailer.state = "busy" /\ mailer.stage = "notice" /\ mailer' = [mailer EXCEPT !.stage = "link"]
      /\ UNCHANGED <<accounts, events, inbox, copies, refused, pages, bounds>>
  BY DEF SendNotice
<1>2. MailerOK /\ CopiesOK /\ InboxOK /\ UNCHANGED <<row, asked, crashes>>
  BY <1>1 DEF LinksInv, accounts, bounds
<1>3. /\ mailer' \in Mailer /\ mailer'.state = "busy" /\ mailer'.kind = mailer.kind /\ mailer'.batch = mailer.batch
      /\ mailer'.stage = "link"
  BY <1>1, <1>2 DEF MailerOK, Mailer
<1>4. MailerOK'
  BY <1>1, <1>2, <1>3 DEF MailerOK, Rowed
<1>5. CopiesOK'
  BY <1>1, <1>2, <1>3 DEF CopiesOK, Rowed, Marking
<1>6. InboxOK'
  BY <1>1, <1>2 DEF InboxOK, Rowed
<1>7. RowsOK' /\ UsersOK' /\ PagesOK' /\ PagesType'
  BY <1>1, <1>2, MailerFrame
<1> QED
  BY <1>4, <1>5, <1>6, <1>7 DEF LinksInv

\* A link is sent: nobody else gets it, and it was not sent in this life before
LEMMA SendStep ==
    ASSUME LinksInv, SendLink
    PROVE  LinksInv'
<1> DEFINE m == mailer.batch[1]
<1>1. /\ mailer.state = "busy" /\ mailer.stage = "link" /\ mailer' = [mailer EXCEPT !.stage = "mark"]
      /\ UNCHANGED <<accounts, events, pages, bounds>>
  BY DEF SendLink
<1>2. RowsOK /\ MailerOK /\ CopiesOK /\ InboxOK /\ UNCHANGED <<row, asked, crashes>>
  BY <1>1 DEF LinksInv, accounts, bounds
<1>3. mailer.batch \in Seq(Mail) /\ mailer.batch # <<>> /\ mailer.kind \in Kinds
  BY <1>1, <1>2 DEF MailerOK, Mailer
<1>4. Head(mailer.batch) = m /\ m \in Mail /\ 1 \in 1..Len(mailer.batch)
  BY <1>3, HeadTailProperties, EmptySeq, LenProperties, ElementOfSeq
<1>5. /\ inbox' = inbox \cup {<<m.token, m.to>>}
      /\ copies' = [copies EXCEPT ![m.token] = @ + 1]
      /\ refused' = refused \ {m.token}
  BY <1>4 DEF SendLink
<1>6. m.token \in Tokens /\ m.to \in Addresses /\ m.token <= asked /\ asked \in Nat
  BY <1>2, <1>4, LinkBounds DEF Mail, MailerOK, RowsOK
<1>7. /\ mailer' \in Mailer /\ mailer'.state = "busy" /\ mailer'.kind = mailer.kind /\ mailer'.batch = mailer.batch
      /\ mailer'.stage = "mark"
  BY <1>1, <1>2 DEF MailerOK, Mailer
<1>8. MailerOK'
  BY <1>1, <1>2, <1>7 DEF MailerOK, Rowed
<1>9. InboxOK'
  <2>1. ASSUME NEW u \in Users, Rowed("email_change", u), row["email_change"][u].token = m.token
        PROVE  m.to = row["email_change"][u].to
    <3>1. "email_change" \in Kinds
      BY DEF Kinds
    <3> QED
      BY <2>1, <3>1, <1>2, <1>4 DEF MailerOK
  <2> HIDE DEF m
  <2> QED
    BY <2>1, <1>2, <1>5, <1>6 DEF InboxOK, Rowed
<1>10. CopiesOK'
  <2>1. copies[m.token] <= crashes
    BY <1>1, <1>2, <1>4 DEF CopiesOK
  <2>2. \A t \in Tokens : t \in Nat /\ copies[t] \in Nat /\ copies'[t] = IF t = m.token THEN copies[t] + 1 ELSE copies[t]
    BY <1>2, <1>5, LinkBounds DEF CopiesOK, Tokens
  <2>3. mailer'.state = "busy" /\ mailer'.stage = "mark" /\ mailer'.batch[1].token = m.token
    BY <1>7
  <2>4. ASSUME NEW k \in Kinds, NEW u \in Users, Rowed(k, u), row[k][u].unsent, row[k][u].token # m.token
        PROVE  copies'[row[k][u].token] <= crashes
    <3>1. copies[row[k][u].token] <= crashes /\ row[k][u].token \in Tokens
      BY <2>4, <1>1, <1>2, RowIsRow DEF CopiesOK, Marking, RowsOK
    <3> QED
      BY <2>2, <2>4, <3>1
  <2>5. ASSUME NEW i \in 1..Len(mailer.batch), i # 1
        PROVE  copies'[mailer.batch[i].token] <= crashes
    <3>1. mailer.batch[i].token # mailer.batch[1].token
      BY <2>5, <1>2, <1>4 DEF MailerOK
    <3>3. copies[mailer.batch[i].token] <= crashes
      BY <2>5, <1>2 DEF CopiesOK
    <3>2. mailer.batch[i].token \in Tokens
      <4>1. mailer.batch[i] \in Mail
        BY <1>3, ElementOfSeq
      <4> QED
        BY <4>1 DEF Mail
    <3> QED
      BY <2>2, <3>1, <3>2, <3>3
  <2> HIDE DEF m
  <2>6. copies' \in [Tokens -> Nat] /\ refused' \subseteq Tokens /\ crashes' \in Nat
    <3>1. copies \in [Tokens -> Nat] /\ refused \subseteq Tokens /\ crashes' \in Nat /\ copies[m.token] + 1 \in Nat
      BY <1>2, <1>6 DEF CopiesOK
    <3> QED
      BY <3>1, <1>5
  <2>7. \A t \in Tokens : copies'[t] <= 1 + crashes /\ (t > asked => copies'[t] = 0)
    <3>1. \A t \in Tokens : copies[t] <= 1 + crashes /\ (t > asked => copies[t] = 0)
      BY <1>2 DEF CopiesOK
    <3>2. crashes \in Nat
      BY <1>2 DEF CopiesOK
    <3> HIDE DEF Tokens
    <3> QED
      BY <2>1, <2>2, <3>1, <3>2, <1>6
  <2>8. \A k \in Kinds, u \in Users : Rowed(k, u) /\ row[k][u].unsent => copies'[row[k][u].token] <= crashes \/ Marking(row[k][u].token)'
    <3>1. SUFFICES ASSUME NEW k \in Kinds, NEW u \in Users, Rowed(k, u), row[k][u].unsent, row[k][u].token = m.token
                   PROVE  Marking(row[k][u].token)'
      BY <2>4
    <3>2. row'[k][u].token = m.token
      BY <3>1, <1>2
    <3> QED
      BY <2>3, <3>2 DEF Marking
  <2> QED
    BY <2>5, <2>6, <2>7, <2>8, <1>2, <1>7 DEF CopiesOK, Rowed, Marking
<1>11. RowsOK' /\ UsersOK' /\ PagesOK' /\ PagesType'
  BY <1>1, <1>2, <1>5, MailerFrame
<1> QED
  BY <1>8, <1>9, <1>10, <1>11 DEF LinksInv

\* A row is marked: it, and none of the others, is not to be mailed any more
LEMMA MarkStep ==
    ASSUME LinksInv, Mark
    PROVE  LinksInv'
<1> DEFINE t == mailer.batch[1].token
<1>1. /\ mailer.state = "busy" /\ mailer.stage = "mark" /\ mailer' = NextMail(mailer)
      /\ UNCHANGED <<status, email, password, inbox, copies, refused, pages, bounds>>
  BY DEF Mark
<1>2. RowsOK /\ UsersOK /\ MailerOK /\ CopiesOK /\ InboxOK /\ PagesOK /\ PagesType /\ UNCHANGED <<asked, crashes>>
  BY <1>1 DEF LinksInv, bounds
<1>3. mailer.batch \in Seq(Mail) /\ mailer.batch # <<>> /\ mailer.kind \in Kinds /\ mailer \in Mailer
  BY <1>1, <1>2 DEF MailerOK, Mailer
<1>4. Head(mailer.batch) = mailer.batch[1] /\ 1 \in 1..Len(mailer.batch)
  BY <1>3, HeadTailProperties, EmptySeq, LenProperties
<1>5. /\ row' = MarkSent(mailer.kind, t)
      /\ Notify(mailer.kind) \/ UNCHANGED events
  BY <1>4 DEF Mark
<1>6. events' \in Seq(Kinds)
  BY <1>2, <1>3, <1>5, NotifyStep DEF MailerOK
<1> HIDE DEF t
<1>7. \A k \in Kinds, u \in Users :
        row'[k][u] = IF k = mailer.kind /\ Rowed(k, u) /\ row[k][u].token = t THEN [row[k][u] EXCEPT !.unsent = FALSE] ELSE row[k][u]
  BY <1>2, <1>3, <1>5 DEF MarkSent, RowsOK, RowType, Rowed
<1>8. ASSUME NEW k \in Kinds, NEW u \in Users
      PROVE  /\ row'[k][u] \in Row \cup {NoRow} /\ (Rowed(k, u)' <=> Rowed(k, u))
             /\ Rowed(k, u) => /\ row'[k][u].token = row[k][u].token /\ row'[k][u].to = row[k][u].to
                               /\ row'[k][u].unsent => row[k][u].unsent /\ ~(k = mailer.kind /\ row[k][u].token = t)
  <2>1. CASE ~Rowed(k, u)
    BY <2>1, <1>7 DEF Rowed
  <2>2. CASE Rowed(k, u)
    <3>1. row[k][u] \in Row
      BY <2>2, <1>2, RowIsRow DEF RowsOK
    <3>2. [row[k][u] EXCEPT !.unsent = FALSE] \in Row /\ [row[k][u] EXCEPT !.unsent = FALSE].token = row[k][u].token
          /\ [row[k][u] EXCEPT !.unsent = FALSE].to = row[k][u].to /\ [row[k][u] EXCEPT !.unsent = FALSE].unsent = FALSE
      BY <3>1 DEF Row
    <3>3. \A r \in Row : r # NoRow
      BY DEF Row, NoRow
    <3> QED
      BY <3>1, <3>2, <3>3, <2>2, <1>7 DEF Rowed
  <2> QED
    BY <2>1, <2>2
<1>9. Shrinks
  <2>1. row' \in [Kinds -> [Users -> Row \cup {NoRow}]]
    <3>1. row' = [row EXCEPT ![mailer.kind] = [u \in Users |-> row'[mailer.kind][u]]]
      BY <1>2, <1>3, <1>5 DEF MarkSent, RowsOK, RowType
    <3>2. [u \in Users |-> row'[mailer.kind][u]] \in [Users -> Row \cup {NoRow}]
      BY <1>3, <1>8
    <3> QED
      BY <3>1, <3>2, <1>2 DEF RowsOK, RowType
  <2> QED
    BY <2>1, <1>8 DEF Shrinks, RowType
<1>10. RowsOK'
  <2>1. \A v \in Users : status'[v] = "pending" => Rowed("registration", v)'
    <3>1. "registration" \in Kinds
      BY DEF Kinds
    <3> QED
      BY <3>1, <1>1, <1>2, <1>8 DEF RowsOK
  <2> QED
    BY <2>1, <1>1, <1>2, <1>9 DEF RowsOK, Shrinks
<1>11. UsersOK' /\ PagesOK' /\ PagesType'
  BY <1>1, <1>2 DEF UsersOK, PagesOK, PageOK, PagesType
<1>12. InboxOK'
  <2>1. "email_change" \in Kinds
    BY DEF Kinds
  <2> QED
    BY <2>1, <1>1, <1>2, <1>9 DEF InboxOK, Shrinks
<1>13. MailerOK'
  BY <1>1, <1>2, <1>6, <1>9, NextMailOK
<1>14. CopiesOK'
  <2>1. ASSUME NEW k \in Kinds, NEW u \in Users, Rowed(k, u)', row'[k][u].unsent
        PROVE  copies[row'[k][u].token] <= crashes
    <3>1. Rowed(k, u) /\ row[k][u].unsent /\ row'[k][u].token = row[k][u].token /\ ~(k = mailer.kind /\ row[k][u].token = t)
      BY <2>1, <1>8
    <3>2. row[k][u].token = t => k = mailer.kind
      BY <3>1, <1>2, <1>4 DEF MailerOK, t
    <3>3. ~Marking(row[k][u].token)
      BY <3>1, <3>2 DEF Marking, t
    <3> QED
      BY <3>1, <3>3, <1>2 DEF CopiesOK
  <2>2. ASSUME NEW i \in 1..Len(mailer'.batch)
        PROVE  copies[mailer'.batch[i].token] <= crashes
    <3>1. mailer'.batch[i] = mailer.batch[i + 1] /\ i + 1 \in 1..Len(mailer.batch)
      BY <1>1, <1>3, NextMailIs
    <3>2. i + 1 # 1
      OBVIOUS
    <3> QED
      BY <3>1, <3>2, <1>2 DEF CopiesOK
  <2> QED
    BY <2>1, <2>2, <1>1, <1>2 DEF CopiesOK
<1> QED
  BY <1>10, <1>11, <1>12, <1>13, <1>14 DEF LinksInv

\* The mail server refuses a mail
LEMMA RefuseStep ==
    ASSUME LinksInv, Refuse
    PROVE  LinksInv'
<1>1. /\ mailer.state = "busy" /\ mailer.stage \in {"notice", "link"} /\ mailer' = NextMail(mailer)
      /\ refused' = refused \cup {Head(mailer.batch).token}
      /\ UNCHANGED <<accounts, events, inbox, copies, pages, asked, crashes>>
  BY DEF Refuse
<1>2. RowsOK /\ MailerOK /\ CopiesOK /\ InboxOK /\ UNCHANGED row
  BY <1>1 DEF LinksInv, accounts
<1>3. mailer.batch \in Seq(Mail) /\ mailer.batch # <<>> /\ mailer.kind \in Kinds /\ mailer \in Mailer
  BY <1>1, <1>2 DEF MailerOK, Mailer
<1>4. Head(mailer.batch).token \in Tokens
  <2>1. Head(mailer.batch) \in Mail
    BY <1>3, HeadTailProperties
  <2> QED
    BY <2>1 DEF Mail
<1>5. Shrinks
  BY <1>2, SameRows DEF RowsOK
<1>6. MailerOK'
  <2>1. events' \in Seq(Kinds)
    BY <1>1, <1>2 DEF MailerOK
  <2> QED
    BY <2>1, <1>1, <1>5, NextMailOK
<1>7. CopiesOK'
  <2>1. \A k \in Kinds, u \in Users : Rowed(k, u) /\ row[k][u].unsent => copies[row[k][u].token] <= crashes
    BY <1>1, <1>2 DEF CopiesOK, Marking
  <2>2. ASSUME NEW i \in 1..Len(mailer'.batch)
        PROVE  copies[mailer'.batch[i].token] <= crashes
    <3>1. mailer'.batch[i] = mailer.batch[i + 1] /\ i + 1 \in 1..Len(mailer.batch)
      BY <1>1, <1>3, NextMailIs
    <3> QED
      BY <3>1, <1>1, <1>2 DEF CopiesOK
  <2> QED
    BY <2>1, <2>2, <1>1, <1>2, <1>4 DEF CopiesOK, Rowed
<1>8. InboxOK'
  BY <1>1, <1>2 DEF InboxOK, Rowed
<1>9. RowsOK' /\ UsersOK' /\ PagesOK' /\ PagesType'
  BY <1>1, <1>2, MailerFrame
<1> QED
  BY <1>6, <1>7, <1>8, <1>9 DEF LinksInv

\* The mailer ends: what it was about to mark will be mailed again
LEMMA CrashStep ==
    ASSUME LinksInv, CrashMailer
    PROVE  LinksInv'
<1>1. /\ crashes' = crashes + 1 /\ mailer' = Down /\ events' = <<>>
      /\ UNCHANGED <<accounts, inbox, copies, refused, pages, asked>>
  BY DEF CrashMailer
<1>2. RowsOK /\ MailerOK /\ CopiesOK /\ InboxOK /\ UNCHANGED row
  BY <1>1 DEF LinksInv, accounts
<1>3. mailer'.state = "down" /\ mailer'.batch = <<>> /\ mailer'.stage = "notice"
  BY <1>1 DEF Down
<1>4. MailerOK'
  <2>1. mailer' \in Mailer
    BY <1>1 DEF Down, Mailer
  <2> QED
    BY <2>1, <1>1, <1>3 DEF MailerOK
<1>5. CopiesOK'
  <2>1. copies \in [Tokens -> Nat] /\ refused \subseteq Tokens /\ crashes \in Nat /\ crashes' \in Nat
    BY <1>1, <1>2 DEF CopiesOK
  <2>2. \A t \in Tokens : copies[t] \in Nat /\ copies[t] <= crashes' /\ (t > asked => copies[t] = 0)
    BY <1>1, <1>2, <2>1 DEF CopiesOK
  <2>3. ASSUME NEW k \in Kinds, NEW u \in Users, Rowed(k, u)
        PROVE  copies[row[k][u].token] <= crashes'
    BY <2>2, <2>3, <1>2, RowIsRow DEF RowsOK
  <2>4. \A t \in Tokens : copies[t] <= 1 + crashes'
    BY <2>1, <2>2
  <2> QED
    BY <2>1, <2>2, <2>3, <2>4, <1>1, <1>2, <1>3 DEF CopiesOK, Rowed
<1>6. InboxOK'
  BY <1>1, <1>2 DEF InboxOK, Rowed
<1>7. RowsOK' /\ UsersOK' /\ PagesOK' /\ PagesType'
  BY <1>1, <1>2, MailerFrame
<1> QED
  BY <1>4, <1>5, <1>6, <1>7 DEF LinksInv

\* The invariant is kept by every step about the links
LEMMA LinksNextOK ==
    ASSUME LinksInv, LinksNext
    PROVE  LinksInv'
  BY FormsStep, ExpireStep, SubmitStep, LookStep, FinishStep, StartStep, TakeEventStep, NoticeStep, SendStep,
     MarkStep, RefuseStep, CrashStep DEF LinksNext, MailerStep

\* and by steps about something else
LEMMA LinksStutter ==
    ASSUME LinksInv, UNCHANGED linkVars
    PROVE  LinksInv'
<1>1. UNCHANGED <<status, email, password, row, mailer, events, inbox, pages, asked, crashes, copies, refused>>
  BY DEF linkVars, accounts, mailing, bounds
<1>2. (RowsOK /\ UsersOK)'
  BY <1>1 DEF LinksInv, RowsOK, RowType, Rowed, UsersOK
<1>3. (InboxOK /\ MailerOK)'
  BY <1>1 DEF LinksInv, InboxOK, MailerOK, Rowed
<1>4. CopiesOK'
  BY <1>1 DEF LinksInv, CopiesOK, Rowed, Marking
<1>5. (PagesOK /\ PagesType)'
  BY <1>1 DEF LinksInv, PagesOK, PageOK, PagesType
<1> QED
  BY <1>2, <1>3, <1>4, <1>5 DEF LinksInv
=============================================================================
