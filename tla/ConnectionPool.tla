---------------------------- MODULE ConnectionPool ----------------------------
(***************************************************************************)
(* The pool of database connections of the server and the requests that    *)
(* share it.  A request takes a connection to look up its user, gives it   *)
(* back, and takes one for the transaction of its service method; the      *)
(* methods that check a password take a second one meanwhile.              *)
(*                                                                         *)
(* What a request does with its connections is in the other modules.  A    *)
(* request that waits for a second connection has written nothing yet, so  *)
(* nobody waits for its row locks, and every other statement is answered.  *)
(***************************************************************************)
EXTENDS Naturals, Sequences, FiniteSets

CONSTANTS
    Requests,      \* requests and messages of web sockets under way at a time
    PoolSize,      \* n_connections
    MaxArrivals    \* bound: requests that arrive

ASSUME PoolBounds ==
    /\ IsFiniteSet(Requests) /\ MaxArrivals \in Nat
    /\ PoolSize \in Nat /\ PoolSize >= 2      \* one for the listener, one for requests

VARIABLES
    up,        \* the notification manager has its connection and keeps it
    free,      \* connections in the pool
    queue,     \* who waits for a connection
    request,   \* what is under way
    arrived

poolVars == <<up, free, queue, request, arrived>>

\* "open": login, registration, links and web sockets; "user": with a token;
\* "password": change_password and request_email_change
Needs == {"open", "user", "password"}
NoRequest == [kind |-> "none", step |-> "none", held |-> 0]

Waits(r) == \E i \in 1 .. Len(queue) : queue[i] = r
Works(r) == request[r] # NoRequest /\ ~Waits(r)

PoolInit ==
    /\ up = FALSE /\ free = PoolSize /\ queue = <<>>
    /\ request = [r \in Requests |-> NoRequest]
    /\ arrived = 0

initialize ==
    /\ ~up
    /\ up' = TRUE /\ free' = free - 1
    /\ UNCHANGED <<queue, request, arrived>>

Acquire(r, step, held) ==
    /\ request' = [request EXCEPT ![r].step = step, ![r].held = held]
    /\ queue' = Append(queue, r)

Arrive(r, kind) ==
    /\ up /\ request[r] = NoRequest
    /\ arrived < MaxArrivals /\ arrived' = arrived + 1
    /\ request' = [request EXCEPT
         ![r] = [kind |-> kind, step |-> IF kind = "open" THEN "method" ELSE "token", held |-> 0]]
    /\ queue' = Append(queue, r)
    /\ UNCHANGED <<up, free>>

\* The pool serves its waiters in the order they came, without a timeout.
Grant ==
    /\ queue # <<>> /\ free > 0
    /\ free' = free - 1 /\ queue' = Tail(queue)
    /\ request' = [request EXCEPT ![Head(queue)].held = @ + 1]
    /\ UNCHANGED <<up, arrived>>

\* Mutant of get_current_user: the connection is kept for the service method.
TokenKeepsConnection(r) ==
    /\ Works(r) /\ request[r].step = "token"
    /\ Acquire(r, "method", 1)
    /\ UNCHANGED <<up, free, arrived>>

get_current_user(r) ==
    /\ Works(r) /\ request[r].step = "token"
    /\ free' = free + 1
    /\ Acquire(r, "method", 0)
    /\ UNCHANGED <<up, arrived>>

\* _verify_user_password, inside the transaction of the method.
VerifyPassword(r) ==
    /\ Works(r) /\ request[r].step = "method" /\ request[r].kind = "password"
    /\ Acquire(r, "verify", 1)
    /\ UNCHANGED <<up, free, arrived>>

Verified(r) ==
    /\ Works(r) /\ request[r].step = "verify"
    /\ free' = free + 1
    /\ request' = [request EXCEPT ![r].step = "write", ![r].held = 1]
    /\ UNCHANGED <<up, queue, arrived>>

\* Mutant of Release: an exception in the inner block returns the inner connection only.
ReleaseInner(r) ==
    /\ free' = free + 1
    /\ request' = [request EXCEPT ![r] = NoRequest]
    /\ UNCHANGED <<up, queue, arrived>>

\* async with: whatever the request holds goes back.
Release(r) ==
    /\ free' = free + request[r].held
    /\ request' = [request EXCEPT ![r] = NoRequest]
    /\ UNCHANGED <<up, queue, arrived>>

Complete(r) ==
    /\ Works(r)
    /\ request[r].step = "write" \/ (request[r].step = "method" /\ request[r].kind # "password")
    /\ Release(r)

\* An exception at any step that holds a connection: a wrong token or password,
\* an error of the database.
Raise(r) == Works(r) /\ Release(r)

PoolNext ==
    \/ initialize \/ Grant
    \/ \E r \in Requests : \/ \E kind \in Needs : Arrive(r, kind)
                            \/ get_current_user(r) \/ VerifyPassword(r) \/ Verified(r)
                            \/ Complete(r) \/ Raise(r)

-----------------------------------------------------------------------------
(* Properties. *)

Holding(n) == Cardinality({r \in Requests : request[r].held >= n})

PoolTypeOK ==
    /\ up \in BOOLEAN /\ free \in 0 .. PoolSize /\ arrived \in 0 .. MaxArrivals
    /\ queue \in Seq(Requests)
    /\ request \in [Requests -> [kind : Needs \cup {"none"}, held : 0 .. 2,
                                 step : {"none", "token", "method", "verify", "write"}]]

\* No connection is lost, whatever is raised where, and everybody waits for
\* everybody only when as many password checks came together as there are
\* connections: each holds one and waits for another one, for ever, as the pool
\* has no timeout.  No other mixture of requests brings it to a standstill
\* (_verify_user_password, get_current_user, the decorators).
OnlyPasswordChecksStarve ==
    /\ free + Holding(1) + Holding(2) + (IF up THEN 1 ELSE 0) = PoolSize
    /\ (queue # <<>> /\ free = 0 /\ \A r \in Requests : ~Works(r)) =>
         Cardinality({r \in Requests : Waits(r) /\ request[r].step = "verify"}) = PoolSize - 1
=============================================================================
