------------------------------ MODULE Users_proofs ------------------------------
(***************************************************************************)
(* Theorems about the pool of connections, for any number of connections   *)
(* and requests: none is lost, and only password checks bring it to a      *)
(* standstill.                                                             *)
(***************************************************************************)
EXTENDS Users, FiniteSetTheorems, TLAPS

-----------------------------------------------------------------------------
(* The invariant.                                                          *)

Steps == {"none", "token", "method", "verify", "write"}
ARequest == [kind : Needs \cup {"none"}, held : 0 .. 2, step : Steps]

Holders(f, n) == {r \in Requests : f[r].held >= n}

\* Nobody is in the queue twice.
InLine(q) == \A i, j \in 1 .. Len(q) : q[i] = q[j] => i = j

\* Who waits holds what the blocks around the wait hold, and who does not wait
\* holds one connection more.
Expects(p) ==
    /\ p.step \in {"token", "method", "verify"}
    /\ p.held = IF p.step = "verify" THEN 1 ELSE 0
Has(p) ==
    \/ p.step = "none" /\ p.held = 0
    \/ p.step \in {"token", "method", "write"} /\ p.held = 1
    \/ p.step = "verify" /\ p.held = 2

RequestsOK ==
    \A r \in Requests :
      /\ request[r].step = "none" <=> request[r] = NoRequest
      /\ Waits(r) => Expects(request[r])
      /\ ~Waits(r) => Has(request[r])

\* Before the server is up nobody asks.
NobodyEarly == ~up => queue = <<>> /\ \A r \in Requests : request[r] = NoRequest

Conserved ==
    free + Cardinality(Holders(request, 1)) + Cardinality(Holders(request, 2)) + (IF up THEN 1 ELSE 0) = PoolSize

PoolInv ==
    /\ PoolTypeOK
    /\ request \in [Requests -> ARequest]
    /\ InLine(queue)
    /\ RequestsOK
    /\ NobodyEarly
    /\ Conserved

-----------------------------------------------------------------------------
(* Counting.                                                               *)

\* When one request changes, as many holders come or go as it says.
LEMMA OneChanges ==
    ASSUME NEW r \in Requests, NEW p \in ARequest, NEW n \in 1 .. 2,
           request \in [Requests -> ARequest], request' = [request EXCEPT ![r] = p]
    PROVE  /\ Cardinality(Holders(request, n)) \in Nat /\ Cardinality(Holders(request', n)) \in Nat
           /\ Cardinality(Holders(request', n)) + (IF request[r].held >= n THEN 1 ELSE 0)
                = Cardinality(Holders(request, n)) + (IF p.held >= n THEN 1 ELSE 0)
<1> DEFINE Others == {x \in Requests \ {r} : request[x].held >= n}
<1>1. IsFiniteSet(Requests)
  BY PoolBounds
<1>2. IsFiniteSet(Others) /\ r \notin Others
  BY <1>1, FS_Subset
<1>3. Holders(request, n) = IF request[r].held >= n THEN Others \cup {r} ELSE Others
  BY DEF Holders
<1>4. Holders(request', n) = IF p.held >= n THEN Others \cup {r} ELSE Others
  BY DEF Holders
<1>5. Cardinality(Others) \in Nat
  BY <1>2, FS_CardinalityType
<1>6. Cardinality(Others \cup {r}) = Cardinality(Others) + 1
  BY <1>2, FS_AddElement
<1> HIDE DEF Others
<1>7. request[r].held \in 0 .. 2 /\ p.held \in 0 .. 2
  BY DEF ARequest
<1>8. CASE request[r].held >= n /\ p.held >= n
  BY <1>3, <1>4, <1>5, <1>6, <1>8
<1>9. CASE request[r].held >= n /\ ~(p.held >= n)
  BY <1>3, <1>4, <1>5, <1>6, <1>9
<1>10. CASE ~(request[r].held >= n) /\ p.held >= n
  BY <1>3, <1>4, <1>5, <1>6, <1>10
<1>11. CASE ~(request[r].held >= n) /\ ~(p.held >= n)
  BY <1>3, <1>4, <1>5, <1>6, <1>11
<1>12. QED
  BY <1>8, <1>9, <1>10, <1>11

\* The connections of a request that changes go to the pool or come from it.
LEMMA Exchange ==
    ASSUME NEW r \in Requests, NEW p \in ARequest, request \in [Requests -> ARequest],
           request' = [request EXCEPT ![r] = p], Conserved, up' = up,
           free \in Nat, free' \in Nat, free' + p.held = free + request[r].held
    PROVE  Conserved' /\ free' \in 0 .. PoolSize
<1>1. request[r].held \in 0 .. 2 /\ p.held \in 0 .. 2
  BY DEF ARequest
<1>2. /\ Cardinality(Holders(request, 1)) \in Nat /\ Cardinality(Holders(request', 1)) \in Nat
      /\ Cardinality(Holders(request', 1)) + (IF request[r].held >= 1 THEN 1 ELSE 0)
           = Cardinality(Holders(request, 1)) + (IF p.held >= 1 THEN 1 ELSE 0)
  BY OneChanges, 1 \in 1 .. 2
<1>3. /\ Cardinality(Holders(request, 2)) \in Nat /\ Cardinality(Holders(request', 2)) \in Nat
      /\ Cardinality(Holders(request', 2)) + (IF request[r].held >= 2 THEN 1 ELSE 0)
           = Cardinality(Holders(request, 2)) + (IF p.held >= 2 THEN 1 ELSE 0)
  BY OneChanges, 2 \in 1 .. 2
<1>4. PICK h1 \in Nat : h1 = Cardinality(Holders(request, 1))
  BY <1>2
<1>5. PICK h2 \in Nat : h2 = Cardinality(Holders(request, 2))
  BY <1>3
<1>6. PICK k1 \in Nat : k1 = Cardinality(Holders(request', 1))
  BY <1>2
<1>7. PICK k2 \in Nat : k2 = Cardinality(Holders(request', 2))
  BY <1>3
<1>8. PICK a \in 0 .. 2 : a = request[r].held
  BY <1>1
<1>9. PICK b \in 0 .. 2 : b = p.held
  BY <1>1
<1>10. PICK u \in 0 .. 1 : u = IF up THEN 1 ELSE 0
  OBVIOUS
<1>11. k1 + (IF a >= 1 THEN 1 ELSE 0) = h1 + (IF b >= 1 THEN 1 ELSE 0)
  BY <1>2, <1>4, <1>6, <1>8, <1>9
<1>12. k2 + (IF a >= 2 THEN 1 ELSE 0) = h2 + (IF b >= 2 THEN 1 ELSE 0)
  BY <1>3, <1>5, <1>7, <1>8, <1>9
<1>13. PICK f \in Nat : f = free
  OBVIOUS
<1>14. PICK g \in Nat : g = free'
  OBVIOUS
<1>15. f + h1 + h2 + u = PoolSize /\ g + b = f + a
  BY <1>4, <1>5, <1>8, <1>9, <1>10, <1>13, <1>14 DEF Conserved
<1>16. g + k1 + k2 + u = PoolSize
  BY <1>11, <1>12, <1>15, PoolBounds
<1>17. Conserved'
  BY <1>6, <1>7, <1>10, <1>14, <1>16 DEF Conserved, Holders
<1>18. g \in 0 .. PoolSize
  BY <1>16, PoolBounds
<1>19. QED
  BY <1>14, <1>17, <1>18

-----------------------------------------------------------------------------
(* The queue.                                                              *)

\* Who asks joins the end of the queue.
LEMMA Joins ==
    ASSUME NEW r \in Requests, queue \in Seq(Requests), InLine(queue), ~Waits(r),
           queue' = Append(queue, r)
    PROVE  /\ queue' \in Seq(Requests) /\ InLine(queue')
           /\ \A x \in Requests : Waits(x)' <=> (Waits(x) \/ x = r)
<1>1. queue' \in Seq(Requests) /\ Len(queue') = Len(queue) + 1 /\ Len(queue) \in Nat
  OBVIOUS
<1>2. \A i \in 1 .. Len(queue) : queue'[i] = queue[i]
  OBVIOUS
<1>3. queue'[Len(queue) + 1] = r
  OBVIOUS
<1>4. \A i \in 1 .. Len(queue) : queue[i] # r
  BY DEF Waits
<1>5. \A i \in 1 .. Len(queue') : i \in 1 .. Len(queue) \/ i = Len(queue) + 1
  BY <1>1
<1>6. InLine(queue')
  BY <1>2, <1>3, <1>4, <1>5 DEF InLine
<1>7. ASSUME NEW x \in Requests PROVE Waits(x)' <=> (Waits(x) \/ x = r)
  <2>1. Waits(x)' <=> \E i \in 1 .. Len(queue') : queue'[i] = x
    BY DEF Waits
  <2>2. 1 .. Len(queue) \subseteq 1 .. Len(queue') /\ Len(queue) + 1 \in 1 .. Len(queue')
    BY <1>1
  <2> QED
    BY <1>2, <1>3, <1>5, <2>1, <2>2 DEF Waits
<1> QED
  BY <1>1, <1>6, <1>7

\* Who is served leaves the queue, and nobody else.
LEMMA Leaves ==
    ASSUME queue \in Seq(Requests), InLine(queue), queue # <<>>, queue' = Tail(queue)
    PROVE  /\ queue' \in Seq(Requests) /\ InLine(queue')
           /\ Head(queue) \in Requests /\ Waits(Head(queue))
           /\ \A x \in Requests : Waits(x)' <=> (Waits(x) /\ x # Head(queue))
<1>1. queue' \in Seq(Requests) /\ Len(queue) \in Nat /\ Len(queue) >= 1 /\ Len(queue') = Len(queue) - 1
  OBVIOUS
<1>2. \A i \in 1 .. Len(queue') : i + 1 \in 1 .. Len(queue) /\ queue'[i] = queue[i + 1]
  BY <1>1
<1>3. Head(queue) = queue[1] /\ 1 \in 1 .. Len(queue)
  BY <1>1
<1>4. \A i \in 1 .. Len(queue) : i = 1 \/ (i - 1 \in 1 .. Len(queue') /\ (i - 1) + 1 = i)
  BY <1>1
<1>5. InLine(queue')
  <2> SUFFICES ASSUME NEW i \in 1 .. Len(queue'), NEW j \in 1 .. Len(queue'), queue'[i] = queue'[j]
               PROVE  i = j
    BY DEF InLine
  <2>1. i + 1 = j + 1
    BY <1>2 DEF InLine
  <2> QED
    BY <2>1, <1>1
<1>6. Waits(Head(queue)) /\ Head(queue) \in Requests
  BY <1>1, <1>3 DEF Waits
<1>7. ASSUME NEW x \in Requests PROVE Waits(x)' <=> (Waits(x) /\ x # Head(queue))
  <2>1. Waits(x)' <=> \E i \in 1 .. Len(queue') : queue'[i] = x
    BY DEF Waits
  <2>2. ASSUME NEW i \in 1 .. Len(queue'), queue'[i] = x PROVE Waits(x) /\ x # Head(queue)
    <3>1. i + 1 # 1
      BY <1>1
    <3> QED
      BY <1>2, <1>3, <2>2, <3>1 DEF Waits, InLine
  <2>3. ASSUME NEW i \in 1 .. Len(queue), queue[i] = x, x # Head(queue)
        PROVE  i - 1 \in 1 .. Len(queue') /\ queue'[i - 1] = x
    BY <1>2, <1>3, <1>4, <2>3
  <2> QED
    BY <2>1, <2>2, <2>3 DEF Waits
<1> QED
  BY <1>1, <1>5, <1>6, <1>7

-----------------------------------------------------------------------------
(* Every step.                                                             *)

\* What a step of one request has to show.
LEMMA OneStep ==
    ASSUME PoolInv, NEW r \in Requests, NEW p \in ARequest, request' = [request EXCEPT ![r] = p],
           up = TRUE, up' = up, arrived' \in 0 .. MaxArrivals,
           free' \in Nat, free' + p.held = free + request[r].held,
           p.step = "none" <=> p = NoRequest,
           queue' \in Seq(Requests), InLine(queue'),
           \A x \in Requests : x # r => (Waits(x)' <=> Waits(x)),
           Waits(r)' => Expects(p), ~Waits(r)' => Has(p)
    PROVE  PoolInv'
<1>1. request' \in [Requests -> ARequest]
  BY DEF PoolInv
<1>2. free \in Nat
  BY DEF PoolInv, PoolTypeOK
<1>3. Conserved' /\ free' \in 0 .. PoolSize
  BY Exchange, <1>2 DEF PoolInv
<1>4. PoolTypeOK'
  BY <1>1, <1>3 DEF PoolTypeOK, ARequest, Steps
<1>5. RequestsOK'
  <2> SUFFICES ASSUME NEW x \in Requests
               PROVE  /\ request'[x].step = "none" <=> request'[x] = NoRequest
                      /\ Waits(x)' => Expects(request'[x])
                      /\ ~Waits(x)' => Has(request'[x])
    BY DEF RequestsOK, Expects, Has
  <2>1. CASE x = r
    BY <2>1 DEF PoolInv
  <2>2. CASE x # r
    <3>1. request'[x] = request[x]
      BY <2>2 DEF PoolInv
    <3>2. Waits(x)' <=> Waits(x)
      BY <2>2
    <3> QED
      BY <3>1, <3>2 DEF PoolInv, RequestsOK
  <2> QED
    BY <2>1, <2>2
<1>6. NobodyEarly' /\ InLine(queue)'
  BY DEF NobodyEarly
<1> QED
  BY <1>1, <1>3, <1>4, <1>5, <1>6 DEF PoolInv

\* What is known of a request that works.
LEMMA Working ==
    ASSUME PoolInv, NEW r \in Requests, Works(r)
    PROVE  /\ up = TRUE /\ free \in Nat /\ ~Waits(r) /\ request[r] \in ARequest
           /\ request[r].step = "verify" => request[r].held = 2
           /\ request[r].step \in {"token", "method", "write"} => request[r].held = 1
  BY DEF PoolInv, PoolTypeOK, RequestsOK, NobodyEarly, Works, Has

\* The listener's connection is there: nobody holds one yet.
LEMMA InitializeStep == PoolInv /\ initialize => PoolInv'
<1> SUFFICES ASSUME PoolInv, initialize PROVE PoolInv'
  OBVIOUS
<1>1. Holders(request, 1) = {} /\ Holders(request, 2) = {}
  BY DEF PoolInv, NobodyEarly, initialize, Holders, NoRequest
<1>2. Cardinality(Holders(request, 1)) = 0 /\ Cardinality(Holders(request, 2)) = 0
  BY <1>1, FS_EmptySet
<1>3. up = FALSE /\ up' = TRUE /\ free = PoolSize /\ free' = PoolSize - 1
  BY <1>2, PoolBounds DEF PoolInv, PoolTypeOK, Conserved, initialize
<1>4. request' = request /\ queue' = queue /\ arrived' = arrived
  BY DEF initialize
<1>5. PoolTypeOK'
  BY <1>3, <1>4, PoolBounds DEF PoolInv, PoolTypeOK
<1>6. Conserved'
  <2>1. Cardinality(Holders(request', 1)) = 0 /\ Cardinality(Holders(request', 2)) = 0
    BY <1>2, <1>4
  <2> QED
    BY <1>3, <2>1, PoolBounds DEF Conserved, Holders
<1>7. RequestsOK' /\ NobodyEarly' /\ InLine(queue)'
  BY <1>3, <1>4 DEF PoolInv, RequestsOK, NobodyEarly, InLine, Waits
<1> QED
  BY <1>4, <1>5, <1>6, <1>7 DEF PoolInv

\* Arrive keeps the pool invariant
LEMMA ArriveStep == ASSUME PoolInv, NEW r \in Requests, NEW kind \in Needs, Arrive(r, kind) PROVE PoolInv'
<1> DEFINE p == [kind |-> kind, step |-> IF kind = "open" THEN "method" ELSE "token", held |-> 0]
<1>1. p \in ARequest /\ p.held = 0 /\ p.step \in {"method", "token"} /\ p # NoRequest
  BY DEF ARequest, Steps, NoRequest
<1>2. up = TRUE /\ up' = up /\ free' = free /\ free \in Nat /\ arrived' \in 0 .. MaxArrivals
  BY PoolBounds DEF PoolInv, PoolTypeOK, Arrive
<1>3. request' = [request EXCEPT ![r] = p] /\ request[r] = NoRequest /\ request[r].held = 0
  BY DEF Arrive, NoRequest
<1>4. ~Waits(r)
  BY <1>3 DEF PoolInv, RequestsOK, Expects, NoRequest
<1>5. queue \in Seq(Requests) /\ InLine(queue) /\ queue' = Append(queue, r)
  BY DEF PoolInv, PoolTypeOK, Arrive
<1>6. queue' \in Seq(Requests) /\ InLine(queue') /\ \A x \in Requests : Waits(x)' <=> (Waits(x) \/ x = r)
  BY <1>4, <1>5, Joins
<1>7. Expects(p)
  BY <1>1 DEF Expects
<1>8. p.step = "none" <=> p = NoRequest
  BY <1>1
<1> HIDE DEF p
<1>9. free' \in Nat /\ free' + p.held = free + request[r].held
  BY <1>1, <1>2, <1>3
<1> QED
  BY <1>1, <1>2, <1>3, <1>6, <1>7, <1>8, <1>9, OneStep

\* Grant keeps the pool invariant
LEMMA GrantStep == PoolInv /\ Grant => PoolInv'
<1> SUFFICES ASSUME PoolInv, Grant PROVE PoolInv'
  OBVIOUS
<1> DEFINE r == Head(queue)
           p == [request[r] EXCEPT !.held = @ + 1]
<1>1. queue \in Seq(Requests) /\ InLine(queue) /\ queue # <<>> /\ queue' = Tail(queue)
  BY DEF PoolInv, PoolTypeOK, Grant
<1>2. /\ queue' \in Seq(Requests) /\ InLine(queue') /\ r \in Requests /\ Waits(r)
      /\ \A x \in Requests : Waits(x)' <=> (Waits(x) /\ x # r)
  BY <1>1, Leaves
<1> HIDE DEF r
<1>3. request[r] \in ARequest /\ Expects(request[r]) /\ request[r].held \in 0 .. 1
  BY <1>2 DEF PoolInv, RequestsOK, Expects
<1>4. p \in ARequest /\ p.held = request[r].held + 1 /\ p.step = request[r].step
  BY <1>3 DEF ARequest
<1>5. Has(p) /\ p.step # "none" /\ p # NoRequest
  BY <1>3, <1>4 DEF Has, Expects, NoRequest
<1>6. request' = [request EXCEPT ![r] = p]
  BY <1>2 DEF Grant, PoolInv, r
<1>7. up = TRUE /\ up' = up /\ arrived' \in 0 .. MaxArrivals /\ free \in Nat /\ free' \in Nat /\ free' + 1 = free
  BY <1>1 DEF Grant, PoolInv, PoolTypeOK, NobodyEarly
<1> HIDE DEF p
<1>8. free' + p.held = free + request[r].held
  BY <1>3, <1>4, <1>7
<1> QED
  BY <1>2, <1>4, <1>5, <1>6, <1>7, <1>8, OneStep

\* A request that joins the queue, with what it holds meanwhile.
LEMMA AcquireStep ==
    ASSUME PoolInv, NEW r \in Requests, Works(r), NEW step \in {"token", "method", "verify"}, NEW held \in 0 .. 1,
           Acquire(r, step, held), held = IF step = "verify" THEN 1 ELSE 0,
           up' = up, arrived' = arrived, free' \in Nat, free' + held = free + request[r].held
    PROVE  PoolInv'
<1> DEFINE p == [request[r] EXCEPT !.step = step, !.held = held]
<1>1. up = TRUE /\ ~Waits(r) /\ request[r] \in ARequest
  BY Working
<1>2. p \in ARequest /\ p.held = held /\ p.step = step
  <2> DEFINE q == [request[r] EXCEPT !.step = step]
  <2>1. q \in ARequest /\ q.step = step /\ held \in 0 .. 2
    BY <1>1 DEF ARequest, Steps
  <2>2. p = [q EXCEPT !.held = held]
    OBVIOUS
  <2> HIDE DEF p, q
  <2> QED
    BY <2>1, <2>2 DEF ARequest
<1>3. Expects(p) /\ p.step # "none" /\ p # NoRequest
  BY <1>2 DEF Expects, NoRequest
<1>4. request' = [request EXCEPT ![r] = p] /\ queue' = Append(queue, r)
  BY DEF Acquire, PoolInv
<1>5. queue \in Seq(Requests) /\ InLine(queue) /\ arrived \in 0 .. MaxArrivals
  BY DEF PoolInv, PoolTypeOK
<1>6. queue' \in Seq(Requests) /\ InLine(queue') /\ \A x \in Requests : Waits(x)' <=> (Waits(x) \/ x = r)
  BY <1>1, <1>4, <1>5, Joins
<1> HIDE DEF p
<1>7. free' + p.held = free + request[r].held
  BY <1>2
<1> QED
  BY <1>1, <1>2, <1>3, <1>4, <1>5, <1>6, <1>7, OneStep

\* Token keeps the pool invariant
LEMMA TokenStep == ASSUME PoolInv, NEW r \in Requests, get_current_user(r) PROVE PoolInv'
<1>1. Works(r) /\ Acquire(r, "method", 0) /\ up' = up /\ arrived' = arrived /\ free' = free + 1
  BY DEF get_current_user
<1>2. free \in Nat /\ request[r].held = 1
  BY <1>1, Working DEF get_current_user
<1>3. free' \in Nat /\ free' + 0 = free + request[r].held
  BY <1>1, <1>2
<1> QED
  BY <1>1, <1>3, AcquireStep

\* Password keeps the pool invariant
LEMMA PasswordStep == ASSUME PoolInv, NEW r \in Requests, VerifyPassword(r) PROVE PoolInv'
<1>1. Works(r) /\ Acquire(r, "verify", 1) /\ up' = up /\ arrived' = arrived /\ free' = free
  BY DEF VerifyPassword
<1>2. free \in Nat /\ request[r].held = 1
  BY <1>1, Working DEF VerifyPassword
<1>3. free' \in Nat /\ free' + 1 = free + request[r].held
  BY <1>1, <1>2
<1> QED
  BY <1>1, <1>3, AcquireStep

\* A request that goes on or ends without joining the queue.
LEMMA NoWaitStep ==
    ASSUME PoolInv, NEW r \in Requests, Works(r), NEW p \in ARequest, Has(p),
           p.step = "none" <=> p = NoRequest, request' = [request EXCEPT ![r] = p],
           up' = up, arrived' = arrived, queue' = queue, free' \in Nat, free' + p.held = free + request[r].held
    PROVE  PoolInv'
<1>1. up = TRUE /\ ~Waits(r)
  BY Working
<1>2. queue' \in Seq(Requests) /\ InLine(queue') /\ arrived' \in 0 .. MaxArrivals
  BY DEF PoolInv, PoolTypeOK
<1>3. \A x \in Requests : Waits(x)' <=> Waits(x)
  BY DEF Waits
<1> QED
  BY <1>1, <1>2, <1>3, OneStep

\* Verified keeps the pool invariant
LEMMA VerifiedStep == ASSUME PoolInv, NEW r \in Requests, Verified(r) PROVE PoolInv'
<1> DEFINE p == [request[r] EXCEPT !.step = "write", !.held = 1]
<1>1. Works(r) /\ up' = up /\ arrived' = arrived /\ queue' = queue /\ free' = free + 1
  BY DEF Verified
<1>2. free \in Nat /\ request[r].held = 2 /\ request[r] \in ARequest
  BY <1>1, Working DEF Verified
<1>3. p \in ARequest /\ p.held = 1 /\ p.step = "write"
  <2> DEFINE q == [request[r] EXCEPT !.step = "write"]
  <2>1. q \in ARequest /\ q.step = "write" /\ 1 \in 0 .. 2
    BY <1>2 DEF ARequest, Steps
  <2>2. p = [q EXCEPT !.held = 1]
    OBVIOUS
  <2> HIDE DEF p, q
  <2> QED
    BY <2>1, <2>2 DEF ARequest
<1>3a. p # NoRequest /\ Has(p)
  BY <1>3 DEF Has, NoRequest
<1>4. request' = [request EXCEPT ![r] = p]
  BY DEF Verified, PoolInv
<1> HIDE DEF p
<1>5. free' \in Nat /\ free' + p.held = free + request[r].held
  BY <1>1, <1>2, <1>3
<1> QED
  BY <1>1, <1>3, <1>3a, <1>4, <1>5, NoWaitStep

\* Release keeps the pool invariant
LEMMA ReleaseStep == ASSUME PoolInv, NEW r \in Requests, Works(r), Release(r) PROVE PoolInv'
<1>1. up' = up /\ arrived' = arrived /\ queue' = queue /\ free' = free + request[r].held
  BY DEF Release
<1>2. free \in Nat /\ request[r] \in ARequest /\ request[r].held \in 0 .. 2
  BY Working DEF ARequest
<1>3. NoRequest \in ARequest /\ NoRequest.held = 0 /\ NoRequest.step = "none" /\ Has(NoRequest)
  BY DEF ARequest, Steps, Has, NoRequest
<1>4. request' = [request EXCEPT ![r] = NoRequest]
  BY DEF Release
<1>5. free' \in Nat /\ free' + NoRequest.held = free + request[r].held
  BY <1>1, <1>2, <1>3
<1> QED
  BY <1>1, <1>3, <1>4, <1>5, NoWaitStep

\* The invariant is inductive.
LEMMA PoolStep == PoolInv /\ (PoolNext \/ UNCHANGED poolVars) => PoolInv'
<1> SUFFICES ASSUME PoolInv, PoolNext \/ UNCHANGED poolVars PROVE PoolInv'
  OBVIOUS
<1>1. CASE initialize
  BY <1>1, InitializeStep
<1>2. CASE Grant
  BY <1>2, GrantStep
<1>3. CASE \E r \in Requests, kind \in Needs : Arrive(r, kind)
  BY <1>3, ArriveStep
<1>4. CASE \E r \in Requests : get_current_user(r)
  BY <1>4, TokenStep
<1>5. CASE \E r \in Requests : VerifyPassword(r)
  BY <1>5, PasswordStep
<1>6. CASE \E r \in Requests : Verified(r)
  BY <1>6, VerifiedStep
<1>7. CASE \E r \in Requests : Complete(r) \/ Raise(r)
  BY <1>7, ReleaseStep DEF Complete, Raise
<1>8. CASE UNCHANGED poolVars
  BY <1>8 DEF poolVars, PoolInv, PoolTypeOK, InLine, RequestsOK, NobodyEarly, Conserved, Holders, Waits
<1> QED
  BY <1>1, <1>2, <1>3, <1>4, <1>5, <1>6, <1>7, <1>8 DEF PoolNext

\* The pool invariant holds at the start
LEMMA PoolStart == PoolInit => PoolInv
<1> SUFFICES ASSUME PoolInit PROVE PoolInv
  OBVIOUS
<1>1. NoRequest \in ARequest /\ NoRequest.held = 0 /\ NoRequest.step = "none"
  BY DEF ARequest, Steps, NoRequest
<1>2. request \in [Requests -> ARequest]
  BY <1>1 DEF PoolInit
<1>2a. PoolTypeOK
  <2>1. free \in 0 .. PoolSize /\ arrived \in 0 .. MaxArrivals
    BY PoolBounds DEF PoolInit
  <2>1a. up \in BOOLEAN
    BY DEF PoolInit
  <2>2. queue \in Seq(Requests)
    BY DEF PoolInit
  <2> QED
    BY <1>2, <2>1, <2>1a, <2>2 DEF PoolTypeOK, ARequest, Steps
<1>3. Holders(request, 1) = {} /\ Holders(request, 2) = {}
  BY <1>1 DEF Holders, PoolInit
<1>4. Conserved
  <2>1. Cardinality(Holders(request, 1)) = 0 /\ Cardinality(Holders(request, 2)) = 0
    BY <1>3, FS_EmptySet
  <2> QED
    BY <2>1, PoolBounds DEF Conserved, PoolInit
<1>5. InLine(queue) /\ NobodyEarly /\ \A r \in Requests : ~Waits(r)
  BY DEF PoolInit, InLine, NobodyEarly, Waits
<1>6. RequestsOK
  BY <1>1, <1>5 DEF RequestsOK, PoolInit, Has
<1> QED
  BY <1>2, <1>2a, <1>4, <1>5, <1>6 DEF PoolInv

-----------------------------------------------------------------------------
(* The theorems.                                                           *)

\* When everybody waits, each that holds a connection waits to check a password.
LEMMA Standstill == PoolInv => OnlyPasswordChecksStarve
<1> SUFFICES ASSUME PoolInv PROVE OnlyPasswordChecksStarve
  OBVIOUS
<1>1. free + Holding(1) + Holding(2) + (IF up THEN 1 ELSE 0) = PoolSize
  BY DEF PoolInv, Conserved, Holding, Holders
<1>2. ASSUME queue # <<>>, free = 0, \A r \in Requests : ~Works(r)
      PROVE  Cardinality({r \in Requests : Waits(r) /\ request[r].step = "verify"}) = PoolSize - 1
  <2>1. up = TRUE
    BY <1>2 DEF PoolInv, NobodyEarly, PoolTypeOK
  <2>2. ASSUME NEW r \in Requests
        PROVE  ~(request[r].held >= 2) /\ (request[r].held >= 1 <=> Waits(r) /\ request[r].step = "verify")
    <3>1. Waits(r) \/ request[r] = NoRequest
      BY <1>2 DEF Works
    <3>2. CASE Waits(r)
      BY <3>2 DEF PoolInv, RequestsOK, Expects
    <3>3. CASE request[r] = NoRequest
      BY <3>3 DEF NoRequest
    <3> QED
      BY <3>1, <3>2, <3>3
  <2>3. {r \in Requests : request[r].held >= 2} = {}
    BY <2>2
  <2>4. Holding(2) = 0
    BY <2>3, FS_EmptySet DEF Holding
  <2>5. {r \in Requests : request[r].held >= 1} = {r \in Requests : Waits(r) /\ request[r].step = "verify"}
    BY <2>2
  <2>6. Holding(1) \in Nat
    BY PoolBounds, FS_Subset, FS_CardinalityType DEF Holding
  <2>7. Holding(1) = PoolSize - 1
    BY <1>1, <1>2, <2>1, <2>4, <2>6, PoolBounds
  <2> QED
    BY <2>5, <2>7 DEF Holding
<1> QED
  BY <1>1, <1>2 DEF OnlyPasswordChecksStarve

\* The pool invariant holds in every state
LEMMA PoolAlways == UsersSpec => []PoolInv
<1>1. UsersInit => PoolInv
  BY PoolStart DEF UsersInit
<1>2. PoolInv /\ [UsersNext]_<<vars, poolVars, about>> => PoolInv'
  BY PoolStep DEF UsersNext
<1> QED
  BY <1>1, <1>2, PTL DEF UsersSpec

\* The pool, its queue and what requests hold are of their types.
THEOREM PoolTypeCorrect == UsersSpec => []PoolTypeOK
<1>1. PoolInv => PoolTypeOK
  BY DEF PoolInv
<1> QED
  BY <1>1, PoolAlways, PTL

\* No connection is lost, and only as many password checks as there are
\* connections bring the pool to a standstill, whatever its size and however many
\* requests come, in whatever order they come and fail.
THEOREM PasswordChecksAlone == UsersSpec => []OnlyPasswordChecksStarve
  BY Standstill, PoolAlways, PTL
=============================================================================
