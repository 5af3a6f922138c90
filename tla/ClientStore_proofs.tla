--------------------------- MODULE ClientStore_proofs ---------------------------
(***************************************************************************)
(* Proofs about the client store, for any applications, slices, number of  *)
(* requests and bound: types, local ids, where the known items come from,  *)
(* what saves keep, that a draft becomes one item, and that the lists of   *)
(* ids and the balance effects agree with the items.                       *)
(***************************************************************************)
EXTENDS ClientStore, FiniteSetTheorems, SequenceTheorems, WellFoundedInduction, TLAPS

-----------------------------------------------------------------------------
(* The inductive invariant.  What it says of one item or request is stated *)
(* for any revisions "pub" of the server and any next local ids "ids".     *)

StoredPart == [val : Int, deleted : BOOLEAN]
Content == [fields : Int, deleted : BOOLEAN, parts : Seq(StoredPart)]
Part == [val : Int, deleted : BOOLEAN, state : {"backend", "new", "updated"}]

Exists(pub, t) == t \in Items /\ pub[t] # <<>>
Newest(pub, t) == pub[t][Len(pub[t])]
HasPart(pub, t, p) == Exists(pub, t) /\ p \in DOMAIN Newest(pub, t).parts
History(pub) ==
    \A t \in Items : \A n \in 1..Len(pub[t]) : \A p \in DOMAIN pub[t][n].parts : HasPart(pub, t, p)
StoredIn(pub, s) == \E t \in Items : pub[t] # <<>> /\ \E n \in 1..Len(pub[t]) : s \in Stamps(pub[t][n])

\* A part of item t in the application: new ones have local ids, all others are
\* parts of the server's item; what is to be sent is an edit of this user, and
\* what is not has been stored.
PartOK(p, c, t, pub, ids) ==
    /\ c \in Part
    /\ c.state = "new" => p \in Int /\ ids.part < p /\ p < 0
    /\ c.state # "new" => HasPart(pub, t, p)
    /\ c.state # "backend" => c.val > 0
    /\ c.state = "backend" /\ c.val > 0 => StoredIn(pub, c.val)

PartsOK(parts, t, pub, ids) ==
    /\ IsFiniteSet(DOMAIN parts)
    /\ \A p \in DOMAIN parts : PartOK(p, parts[p], t, pub, ids)

ItemOK(c, t, pub, ids) ==
    /\ {"fields", "deleted", "parts"} \subseteq DOMAIN c
    /\ c.fields \in Int /\ c.deleted \in BOOLEAN /\ PartsOK(c.parts, t, pub, ids)

KnownItemOK(c, t, pub, ids) ==
    /\ Exists(pub, t) /\ "rev" \in DOMAIN c /\ c.rev \in 1..Len(pub[t])
    /\ ItemOK(c, t, pub, ids)

\* A draft is of an item of the server or has a local id.
ItemId(t, pub, ids) == t \in Int /\ t > ids.item /\ (t < 0 \/ Exists(pub, t))

\* What is on its way to the server; it is stored once it was answered.
SaveOK(q, pub, ids) ==
    /\ {"body", "had"} \subseteq DOMAIN q
    /\ ItemId(q.item, pub, ids)
    /\ q.body.fields \in Int /\ PartsOK(q.body.parts, q.item, pub, ids)
    /\ \A p \in DOMAIN q.body.parts : q.body.parts[p].state # "backend"
    /\ \A s \in q.had :
         \/ StoredIn(pub, s)
         \/ /\ q.stage # "answered"
            /\ s = q.body.fields \/ \E p \in DOMAIN q.body.parts : s = q.body.parts[p].val

AnswerOK(q, pub) ==
    /\ "answer" \in DOMAIN q
    /\ \A t \in DOMAIN q.answer : Exists(pub, t) /\ q.answer[t] \in 1..Len(pub[t])
    /\ q.kind # "list" => DOMAIN q.answer # {}

RequestOK(q, pub, ids) ==
    /\ {"stage", "kind", "item"} \subseteq DOMAIN q
    /\ q.stage \in {"sent", "answered", "orphan"} /\ q.kind \in {"list", "get", "save", "delete"}
    /\ q.kind = "list" => q.item = 0
    /\ q.kind \in {"get", "delete"} => Exists(pub, q.item)
    /\ q.kind = "save" => SaveOK(q, pub, ids)
    /\ q.stage = "answered" => AnswerOK(q, pub)

IdsOK(ids) == ids \in [item : Int, part : Int] /\ ids.item < 0 /\ ids.part < 0

ServerOK ==
    /\ published \in [Items -> Seq(Content)] /\ bornFrom \in [Items -> Int]
    /\ \A t \in Items : /\ next.item < bornFrom[t] /\ bornFrom[t] <= 0
                        /\ published[t] = <<>> => bornFrom[t] = 0
    /\ History(published)

KnownOK == \A t \in DOMAIN known : KnownItemOK(known[t], t, published, next)

DraftOK ==
    /\ \A t \in DOMAIN draft : ItemId(t, published, next) /\ ItemOK(draft[t], t, published, next)
    /\ ~group.present => DOMAIN draft = {}

RequestsOK ==
    /\ DOMAIN requests = Slots
    /\ \A r \in Slots : requests[r] # Idle => RequestOK(requests[r], published, next)

PagesOK ==
    /\ focus \in Focuses
    /\ news \subseteq Existing
    /\ group \in [present : BOOLEAN, status : {"none", "loading", "initialized", "failed"}]
    /\ events \in 0..MaxEvents
    /\ {page, member, gap, risky} \subseteq BOOLEAN

\* While nothing went wrong, a draft that has become an item is about to be
\* removed by the answer to the one save that made it.
Saves(r) == requests[r] # Idle /\ requests[r].kind = "save"

NoOrphans == \A r \in Slots : Saves(r) => requests[r].stage # "orphan"

OneSave ==
    \A r, s \in Slots :
       Saves(r) /\ Saves(s) /\ requests[r].item < 0 /\ requests[r].item = requests[s].item => r = s

SentIsUnborn ==
    \A r \in Slots, t \in Items :
       Saves(r) /\ requests[r].item < 0 /\ requests[r].stage = "sent" => bornFrom[t] # requests[r].item

BornIsAnswered ==
    \A t \in Items : bornFrom[t] < 0 /\ bornFrom[t] \in DOMAIN draft =>
       \E r \in Slots : Saves(r) /\ requests[r].item = bornFrom[t] /\ requests[r].stage = "answered"

BornOnce == \A t, u \in Items : bornFrom[t] < 0 /\ bornFrom[t] = bornFrom[u] => t = u

BirthOK == NoOrphans /\ OneSave /\ SentIsUnborn /\ BornIsAnswered /\ BornOnce

IInv ==
    /\ IdsOK(next) /\ ServerOK /\ KnownOK /\ DraftOK /\ RequestsOK /\ PagesOK
    /\ KnownComesFromServer
    /\ ~risky => BirthOK

\* What a step must not do, and what all lemmas about actions show
SaveStep ==
    \A t \in DOMAIN draft \ DOMAIN draft', r \in Slots :
       SavedBy(r, t) => \A stamp \in requests[r].had : Stored(stamp)

PartStep ==
    \A t \in Existing : \A p \in DOMAIN Latest(t).parts :
       LET now == published'[t][Len(published'[t])].parts[p].val
       IN now # Latest(t).parts[p].val => now > 0 \/ now = -Stamp

Good == IInv' /\ SaveStep /\ PartStep

-----------------------------------------------------------------------------
(* Revisions. *)

\* The newest revision of an item that exists
LEMMA NewestType ==
    ASSUME NEW pub \in [Items -> Seq(Content)], NEW t, Exists(pub, t)
    PROVE  pub[t] \in Seq(Content) /\ Len(pub[t]) \in Nat /\ Len(pub[t]) > 0 /\ Newest(pub, t) \in Content
<1>1. pub[t] \in Seq(Content) /\ pub[t] # <<>>
  BY DEF Exists
<1>2. Len(pub[t]) \in Nat /\ Len(pub[t]) # 0
  BY <1>1, EmptySeq
<1>3. pub[t][Len(pub[t])] \in Content
  BY <1>1, <1>2, ElementOfSeq
<1> QED
  BY <1>1, <1>2, <1>3 DEF Newest

\* The inductive invariant contains the type invariant and the safety invariants of the runs
LEMMA InvariantsFollow == IInv => TypeOK /\ LocalIdsAreFresh /\ KnownComesFromServer /\ OneItemPerDraft
<1> SUFFICES ASSUME IInv PROVE TypeOK /\ LocalIdsAreFresh /\ KnownComesFromServer /\ OneItemPerDraft
  OBVIOUS
<1> USE DEF IInv
<1>1. ASSUME NEW p, NEW t, HasPart(published, t, p) PROVE p \in Int /\ p > 0
  <2>1. Newest(published, t) \in Content
    BY <1>1, NewestType DEF HasPart, ServerOK
  <2>2. Newest(published, t).parts \in Seq(StoredPart)
    BY <2>1 DEF Content
  <2> QED
    BY <1>1, <2>2 DEF HasPart
<1>2. ASSUME NEW c, NEW t, ItemOK(c, t, published, next)
      PROVE  Mutable(c) /\ \A p \in DOMAIN c.parts : p > next.part
  <2>1. ASSUME NEW p \in DOMAIN c.parts
        PROVE  /\ p \in Int \ {0} /\ p > next.part
               /\ c.parts[p].val \in Int /\ c.parts[p].deleted \in BOOLEAN
               /\ c.parts[p].state \in {"backend", "new", "updated"}
    <3>1. PartOK(p, c.parts[p], t, published, next)
      BY <1>2 DEF ItemOK, PartsOK
    <3>2. p \in Int \ {0} /\ p > next.part
      BY <1>1, <3>1 DEF PartOK, IdsOK
    <3> QED
      BY <3>1, <3>2 DEF PartOK, Part
  <2> QED
    BY <1>2, <2>1 DEF ItemOK, Mutable
<1>3. ASSUME NEW t PROVE Exists(published, t) <=> t \in Existing
  BY DEF Exists, Existing
<1>4. \A t \in DOMAIN known : t \in Existing /\ known[t].rev \in 1..Len(published[t]) /\ Mutable(known[t])
  BY <1>2, <1>3 DEF KnownOK, KnownItemOK
<1>5. \A t \in DOMAIN draft : (t < 0 \/ t \in Existing) /\ Mutable(draft[t])
  BY <1>2, <1>3 DEF DraftOK, ItemId
<1>6. ASSUME NEW r \in Slots, requests[r] # Idle
      PROVE  /\ requests[r].stage \in {"sent", "answered", "orphan"}
             /\ requests[r].kind \in {"list", "get", "save", "delete"}
             /\ requests[r].item > next.item
  <2>1. RequestOK(requests[r], published, next)
    BY <1>6 DEF RequestsOK
  <2>2. ASSUME Exists(published, requests[r].item) PROVE requests[r].item > next.item
    BY <2>2 DEF Exists, Items, IdsOK
  <2>3. requests[r].item > next.item
    BY <2>1, <2>2 DEF RequestOK, SaveOK, ItemId, IdsOK
  <2> QED
    BY <2>1, <2>3 DEF RequestOK
<1>7. TypeOK
  BY <1>4, <1>5, <1>6 DEF TypeOK, PagesOK, RequestsOK
<1>8. LocalIdsAreFresh
  BY <1>2, <1>6 DEF LocalIdsAreFresh, DraftOK, ItemId
<1>9. OneItemPerDraft
  BY DEF OneItemPerDraft, BirthOK, BornOnce, Existing, PagesOK
<1> QED
  BY <1>7, <1>8, <1>9

-----------------------------------------------------------------------------
(* What is right stays right: the server only adds revisions and parts, and *)
(* the next local ids only go down.                                         *)

Grown(pub, ids, pub2, ids2) ==
    /\ pub \in [Items -> Seq(Content)] /\ pub2 \in [Items -> Seq(Content)]
    /\ ids \in [item : Int, part : Int] /\ ids2 \in [item : Int, part : Int]
    /\ ids2.item <= ids.item /\ ids2.part <= ids.part
    /\ \A t : Exists(pub, t) =>
         /\ Exists(pub2, t) /\ Len(pub[t]) <= Len(pub2[t])
         /\ \A n \in 1..Len(pub[t]) : pub2[t][n] = pub[t][n]
         /\ \A p : HasPart(pub, t, p) => HasPart(pub2, t, p)

\* With the same revisions and lower local ids, the later state is a growth of the earlier one
LEMMA NothingGrows ==
    ASSUME NEW pub \in [Items -> Seq(Content)], NEW ids \in [item : Int, part : Int],
           NEW ids2 \in [item : Int, part : Int], ids2.item <= ids.item, ids2.part <= ids.part
    PROVE  Grown(pub, ids, pub, ids2)
<1>1. \A t : Exists(pub, t) => Len(pub[t]) <= Len(pub[t])
  BY NewestType
<1> QED
  BY <1>1 DEF Grown

\* A stamp the server has stored stays stored when revisions are appended
LEMMA StoredKeeps ==
    ASSUME NEW pub, NEW ids, NEW pub2, NEW ids2, Grown(pub, ids, pub2, ids2), NEW s, StoredIn(pub, s)
    PROVE  StoredIn(pub2, s)
<1>0. PICK t \in Items : pub[t] # <<>> /\ \E n \in 1..Len(pub[t]) : s \in Stamps(pub[t][n])
  BY DEF StoredIn
<1>1. PICK n \in 1..Len(pub[t]) : s \in Stamps(pub[t][n])
  BY <1>0
<1>2. Exists(pub, t)
  BY <1>0 DEF Exists
<1>3. Exists(pub2, t) /\ pub2[t][n] = pub[t][n] /\ Len(pub[t]) <= Len(pub2[t])
  BY <1>1, <1>2 DEF Grown
<1>4. Len(pub[t]) \in Nat /\ Len(pub2[t]) \in Nat
  BY <1>2, <1>3, NewestType DEF Grown
<1>5. n \in 1..Len(pub2[t])
  BY <1>1, <1>3, <1>4
<1> QED
  BY <1>1, <1>3, <1>5 DEF StoredIn, Exists

\* Parts of a copy that fit the server fit every later server
LEMMA PartsKeep ==
    ASSUME NEW pub, NEW ids, NEW pub2, NEW ids2, Grown(pub, ids, pub2, ids2),
           NEW parts, NEW t, PartsOK(parts, t, pub, ids)
    PROVE  PartsOK(parts, t, pub2, ids2)
<1>1. ASSUME NEW p \in DOMAIN parts PROVE PartOK(p, parts[p], t, pub2, ids2)
  <2>1. PartOK(p, parts[p], t, pub, ids)
    BY DEF PartsOK
  <2>2. parts[p].state = "new" => ids2.part < p
    BY <2>1 DEF PartOK, Grown
  <2>3. HasPart(pub, t, p) => HasPart(pub2, t, p)
    BY DEF Grown, HasPart
  <2> QED
    BY <2>1, <2>2, <2>3, StoredKeeps DEF PartOK
<1> QED
  BY <1>1 DEF PartsOK

\* A copy of an item that fits the server fits every later server
LEMMA ItemKeeps ==
    ASSUME NEW pub, NEW ids, NEW pub2, NEW ids2, Grown(pub, ids, pub2, ids2),
           NEW c, NEW t, ItemOK(c, t, pub, ids)
    PROVE  ItemOK(c, t, pub2, ids2)
  BY PartsKeep DEF ItemOK

\* A copy from the server stays a copy of one of its revisions
LEMMA KnownItemKeeps ==
    ASSUME NEW pub, NEW ids, NEW pub2, NEW ids2, Grown(pub, ids, pub2, ids2),
           NEW c, NEW t, KnownItemOK(c, t, pub, ids)
    PROVE  KnownItemOK(c, t, pub2, ids2)
<1>1. ItemOK(c, t, pub2, ids2)
  BY ItemKeeps DEF KnownItemOK
<1>2. Exists(pub, t) /\ Exists(pub2, t) /\ Len(pub[t]) <= Len(pub2[t])
  BY DEF KnownItemOK, Grown
<1>3. Len(pub[t]) \in Nat /\ Len(pub2[t]) \in Nat
  BY <1>2, NewestType DEF Grown
<1> QED
  BY <1>1, <1>2, <1>3 DEF KnownItemOK

\* An id that is of the server or local stays so as revisions are appended
LEMMA IdKeeps ==
    ASSUME NEW pub, NEW ids, NEW pub2, NEW ids2, Grown(pub, ids, pub2, ids2),
           NEW t, ItemId(t, pub, ids)
    PROVE  ItemId(t, pub2, ids2)
  BY DEF ItemId, Grown

\* A request that fits the server fits every later server
LEMMA RequestKeeps ==
    ASSUME NEW pub, NEW ids, NEW pub2, NEW ids2, Grown(pub, ids, pub2, ids2),
           NEW q, RequestOK(q, pub, ids)
    PROVE  RequestOK(q, pub2, ids2)
<1>1. q.kind = "save" => SaveOK(q, pub2, ids2)
  <2> SUFFICES ASSUME q.kind = "save" PROVE SaveOK(q, pub2, ids2)
    OBVIOUS
  <2>1. SaveOK(q, pub, ids)
    BY DEF RequestOK
  <2>2. ItemId(q.item, pub2, ids2)
    BY <2>1, IdKeeps DEF SaveOK
  <2>3. PartsOK(q.body.parts, q.item, pub2, ids2)
    BY <2>1, PartsKeep DEF SaveOK
  <2> QED
    BY <2>1, <2>2, <2>3, StoredKeeps DEF SaveOK
<1>2. q.stage = "answered" => AnswerOK(q, pub2)
  <2> SUFFICES ASSUME q.stage = "answered" PROVE AnswerOK(q, pub2)
    OBVIOUS
  <2>1. AnswerOK(q, pub)
    BY DEF RequestOK
  <2>2. ASSUME NEW t \in DOMAIN q.answer PROVE Exists(pub2, t) /\ q.answer[t] \in 1..Len(pub2[t])
    <3>1. Exists(pub, t) /\ q.answer[t] \in 1..Len(pub[t])
      BY <2>1 DEF AnswerOK
    <3>2. Exists(pub2, t) /\ Len(pub[t]) <= Len(pub2[t])
      BY <3>1 DEF Grown
    <3>3. Len(pub[t]) \in Nat /\ Len(pub2[t]) \in Nat
      BY <3>1, <3>2, NewestType DEF Grown
    <3> QED
      BY <3>1, <3>2, <3>3
  <2> QED
    BY <2>1, <2>2 DEF AnswerOK
<1>3. q.kind \in {"get", "delete"} => Exists(pub2, q.item)
  BY DEF RequestOK, Grown
<1> QED
  BY <1>1, <1>2, <1>3 DEF RequestOK

-----------------------------------------------------------------------------
(* What a step leaves alone stays right. *)

Later == Grown(published, next, published', next')

\* Nothing is published.
LEMMA SamePublished ==
    ASSUME IInv, UNCHANGED published, IdsOK(next'), next'.item <= next.item, next'.part <= next.part
    PROVE  Later
  BY NothingGrows DEF Later, IInv, ServerOK, IdsOK

\* A step that publishes nothing and only lowers the local ids keeps the facts about the server
LEMMA ServerKeeps ==
    ASSUME IInv, UNCHANGED <<published, bornFrom>>, IdsOK(next'), next'.item <= next.item
    PROVE  ServerOK'
<1>1. \A t \in Items : bornFrom[t] \in Int
  BY DEF IInv, ServerOK
<1> QED
  BY <1>1 DEF IInv, ServerOK, IdsOK

\* The items known from the server stay in order in a step that leaves them alone
LEMMA KnownKeeps == ASSUME IInv, Later, UNCHANGED known PROVE KnownOK'
<1>1. ASSUME NEW t \in DOMAIN known PROVE KnownItemOK(known[t], t, published', next')
  BY <1>1, KnownItemKeeps DEF IInv, KnownOK, Later
<1> QED
  BY <1>1 DEF KnownOK

\* The drafts stay in order in a step that leaves them alone
LEMMA DraftKeeps == ASSUME IInv, Later, UNCHANGED <<draft, group>> PROVE DraftOK'
<1>1. ASSUME NEW t \in DOMAIN draft
      PROVE  ItemId(t, published', next') /\ ItemOK(draft[t], t, published', next')
  <2>1. ItemId(t, published, next) /\ ItemOK(draft[t], t, published, next)
    BY DEF IInv, DraftOK
  <2> QED
    BY <2>1, ItemKeeps, IdKeeps DEF Later
<1> QED
  BY <1>1 DEF IInv, DraftOK

\* One request changes, or none.
LEMMA OneRequest ==
    ASSUME IInv, Later, NEW r, NEW q, requests' = [requests EXCEPT ![r] = q],
           q = Idle \/ RequestOK(q, published', next')
    PROVE  RequestsOK'
<1>1. ASSUME NEW s \in Slots, requests'[s] # Idle PROVE RequestOK(requests'[s], published', next')
  <2>1. CASE s = r
    BY <1>1, <2>1 DEF IInv, RequestsOK
  <2>2. CASE s # r
    <3>1. requests'[s] = requests[s]
      BY <2>2 DEF IInv, RequestsOK
    <3>2. RequestOK(requests[s], published, next)
      BY <1>1, <3>1 DEF IInv, RequestsOK
    <3> QED
      BY <3>1, <3>2, RequestKeeps DEF Later
  <2> QED
    BY <2>1, <2>2
<1> QED
  BY <1>1 DEF IInv, RequestsOK

\* The requests on their way stay in order in a step that leaves them alone
LEMMA RequestsKeep == ASSUME IInv, Later, UNCHANGED requests PROVE RequestsOK'
<1>1. ASSUME NEW s \in Slots, requests[s] # Idle PROVE RequestOK(requests[s], published', next')
  BY <1>1, RequestKeeps DEF IInv, RequestsOK, Later
<1> QED
  BY <1>1 DEF IInv, RequestsOK

\* What the web shows stays from the server while page, server and known items stay
LEMMA WebKeeps ==
    ASSUME IInv, UNCHANGED <<focus, published, known>>
    PROVE  KnownComesFromServer'
  BY DEF IInv, KnownComesFromServer, FromServer

\* No save begins, no draft gets an id that was used, and the answered saves
\* wait as long as their drafts do.
LEMMA BirthKeeps ==
    ASSUME IInv, UNCHANGED bornFrom, ~risky' => ~risky,
           \A x \in DOMAIN draft' : x < 0 => x \in DOMAIN draft \/ x = next.item,
           ~risky' => \A r \in Slots : requests'[r] # Idle /\ requests'[r].kind = "save" => requests'[r] = requests[r],
           ~risky' => \A r \in Slots :
              Saves(r) /\ requests[r].stage = "answered" /\ requests[r].item \in DOMAIN draft'
                => requests'[r] = requests[r]
    PROVE  (~risky => BirthOK)'
<1> SUFFICES ASSUME ~risky' PROVE BirthOK'
  OBVIOUS
<1>1. BirthOK
  BY DEF IInv
<1>2. ASSUME NEW r \in Slots, Saves(r)' PROVE Saves(r) /\ requests'[r] = requests[r]
  BY <1>2 DEF Saves
<1>3. NoOrphans' /\ OneSave' /\ SentIsUnborn' /\ BornOnce'
  BY <1>1, <1>2 DEF BirthOK, NoOrphans, OneSave, SentIsUnborn, BornOnce
<1>4. ASSUME NEW t \in Items, bornFrom[t] < 0, bornFrom[t] \in DOMAIN draft'
      PROVE  \E r \in Slots : Saves(r)' /\ requests'[r].item = bornFrom[t] /\ requests'[r].stage = "answered"
  <2>1. bornFrom[t] # next.item
    BY DEF IInv, ServerOK, IdsOK
  <2>2. bornFrom[t] \in DOMAIN draft
    BY <1>4, <2>1
  <2>3. PICK r \in Slots : Saves(r) /\ requests[r].item = bornFrom[t] /\ requests[r].stage = "answered"
    BY <1>1, <1>4, <2>2 DEF BirthOK, BornIsAnswered
  <2>4. requests'[r] = requests[r]
    BY <1>4, <2>3
  <2> QED
    BY <2>3, <2>4 DEF Saves
<1> QED
  BY <1>3, <1>4 DEF BirthOK, BornIsAnswered

\* Nothing is published.
LEMMA PartsLeftAlone == ASSUME UNCHANGED published PROVE PartStep
  BY DEF PartStep, Latest

\* No draft goes, or no request ends.
LEMMA NoSaveEnds ==
    ASSUME \/ DOMAIN draft \subseteq DOMAIN draft'
           \/ \A r \in Slots : requests[r] # Idle => requests'[r] # Idle
    PROVE  SaveStep
  BY DEF SaveStep, SavedBy

-----------------------------------------------------------------------------
(* The user's work on drafts. *)

\* The drafts and the known items after a change of drafts
DraftsFit ==
    /\ IdsOK(next') /\ next'.item <= next.item /\ next'.part <= next.part
    /\ \A t \in DOMAIN draft' :
         /\ t < 0 => t \in DOMAIN draft \/ t = next.item
         /\ ItemId(t, published, next') /\ ItemOK(draft'[t], t, published, next')
    /\ \A t \in DOMAIN known' : KnownItemOK(known'[t], t, published, next')
    /\ KnownComesFromServer'

\* A step that changes drafts only
LEMMA LocalStep ==
    ASSUME IInv, DraftsFit, group.present, events' \in 0..MaxEvents,
           UNCHANGED <<focus, server, news, group, requests, page, gap, risky>>
    PROVE  Good
<1>1. Later
  BY SamePublished DEF DraftsFit, server
<1>2. ServerOK'
  BY ServerKeeps DEF DraftsFit, server
<1>3. KnownOK'
  BY DEF DraftsFit, KnownOK, server
<1>4. DraftOK'
  BY DEF DraftsFit, DraftOK, server
<1>5. RequestsOK'
  BY <1>1, RequestsKeep
<1>6. PagesOK'
  BY DEF IInv, PagesOK, Existing, server
<1>7. \A x \in DOMAIN draft' : x < 0 => x \in DOMAIN draft \/ x = next.item
  BY DEF DraftsFit
<1>8. (~risky => BirthOK)'
  BY <1>7, BirthKeeps DEF server
<1>9. SaveStep /\ PartStep
  BY NoSaveEnds, PartsLeftAlone DEF server
<1> QED
  BY <1>1, <1>2, <1>3, <1>4, <1>5, <1>6, <1>8, <1>9 DEF Good, IInv, DraftsFit

\* The known items, when only the next local ids change
LEMMA KnownFits ==
    ASSUME IInv, UNCHANGED <<focus, published, known>>, IdsOK(next'),
           next'.item <= next.item, next'.part <= next.part
    PROVE  /\ \A t \in DOMAIN known' : KnownItemOK(known'[t], t, published, next')
           /\ KnownComesFromServer'
<1>1. Later /\ KnownOK'
  BY SamePublished, KnownKeeps
<1> QED
  BY <1>1, WebKeeps DEF KnownOK

\* So do the drafts that a change does not touch.
LEMMA DraftFits ==
    ASSUME IInv, UNCHANGED published, IdsOK(next'), next'.item <= next.item, next'.part <= next.part,
           NEW t \in DOMAIN draft
    PROVE  ItemId(t, published, next') /\ ItemOK(draft[t], t, published, next')
<1>1. Grown(published, next, published, next')
  BY SamePublished DEF Later
<1>2. ItemId(t, published, next) /\ ItemOK(draft[t], t, published, next)
  BY DEF IInv, DraftOK
<1> QED
  BY <1>1, <1>2, ItemKeeps, IdKeeps

\* One draft is written.
LEMMA DraftWritten ==
    ASSUME IInv, UNCHANGED published, IdsOK(next'), next'.item <= next.item, next'.part <= next.part,
           NEW t, NEW c, draft' = With(draft, t, c),
           t < 0 => t \in DOMAIN draft \/ t = next.item,
           ItemId(t, published, next'), ItemOK(c, t, published, next')
    PROVE  \A x \in DOMAIN draft' :
              /\ x < 0 => x \in DOMAIN draft \/ x = next.item
              /\ ItemId(x, published, next') /\ ItemOK(draft'[x], x, published, next')
<1>1. /\ DOMAIN draft' = DOMAIN draft \cup {t} /\ draft'[t] = c
      /\ \A x \in DOMAIN draft : x # t => draft'[x] = draft[x]
  BY DEF With
<1>2. ASSUME NEW x \in DOMAIN draft', x # t
      PROVE  x \in DOMAIN draft /\ ItemId(x, published, next') /\ ItemOK(draft'[x], x, published, next')
  <2>1. x \in DOMAIN draft /\ draft'[x] = draft[x]
    BY <1>1, <1>2
  <2>2. ItemId(x, published, next') /\ ItemOK(draft[x], x, published, next')
    BY <2>1, DraftFits
  <2> QED
    BY <2>1, <2>2
<1> QED
  BY <1>1, <1>2

\* An item that is shown can be copied into a draft.
LEMMA BaseOK ==
    ASSUME IInv, NEW t \in Visible
    PROVE  ItemId(t, published, next) /\ ItemOK(Base(t), t, published, next) /\ (t < 0 => t \in DOMAIN draft)
<1>1. CASE t \in DOMAIN draft
  BY <1>1 DEF IInv, DraftOK, Base
<1>2. CASE t \notin DOMAIN draft
  <2>1. t \in DOMAIN known
    BY <1>2 DEF Visible
  <2>2. KnownItemOK(known[t], t, published, next)
    BY <2>1 DEF IInv, KnownOK
  <2>3. t \in Int /\ t > 0
    BY <2>2 DEF KnownItemOK, Exists, Items
  <2>4. Base(t) = [fields |-> known[t].fields, deleted |-> known[t].deleted, parts |-> known[t].parts]
    BY <1>2 DEF Base
  <2> QED
    BY <2>2, <2>3, <2>4 DEF KnownItemOK, ItemOK, ItemId, IInv, IdsOK
<1> QED
  BY <1>1, <1>2

\* The create forms: a new draft takes the next local id and breaks nothing
LEMMA NewDraftStep ==
    ASSUME IInv, Edit, NEW c, c = [fields |-> Stamp, deleted |-> FALSE, parts |-> NoParts], NewDraft(c)
    PROVE  Good
<1>1. IdsOK(next') /\ next'.item = next.item - 1 /\ next'.part = next.part
  BY DEF NewDraft, NextLocal, IInv, IdsOK
<1>2. events \in Nat /\ events' \in 0..MaxEvents
  BY StoreBounds DEF Edit, Count, IInv, PagesOK
<1>3. ItemOK(c, next.item, published, next')
  <2>1. DOMAIN NoParts = {}
    BY DEF NoParts
  <2>2. PartsOK(NoParts, next.item, published, next')
    BY <2>1, FS_EmptySet DEF PartsOK
  <2> QED
    BY <1>2, <2>2 DEF ItemOK, Stamp
<1>4. ItemId(next.item, published, next')
  BY <1>1 DEF ItemId, IInv, IdsOK
<1>5. UNCHANGED <<focus, published, known>> /\ draft' = With(draft, next.item, c)
  BY DEF Edit, server, NewDraft
<1>6. next'.item <= next.item /\ next'.part <= next.part
  BY <1>1 DEF IInv, IdsOK
<1>7. \A x \in DOMAIN draft' :
         /\ x < 0 => x \in DOMAIN draft \/ x = next.item
         /\ ItemId(x, published, next') /\ ItemOK(draft'[x], x, published, next')
  BY <1>1, <1>3, <1>4, <1>5, <1>6, DraftWritten
<1>8. DraftsFit
  BY <1>1, <1>5, <1>6, <1>7, KnownFits DEF DraftsFit
<1> QED
  BY <1>2, <1>8, LocalStep DEF Edit, Ready

\* StartEdit keeps the invariant and neither loses nor undoes an edit
LEMMA StartEditStep == ASSUME IInv, NEW t, StartEdit(t) PROVE Good
<1>1. t \in Visible /\ UNCHANGED <<focus, published, known, next>> /\ draft' = With(draft, t, Base(t))
  BY DEF StartEdit, server
<1>2. IdsOK(next') /\ next'.item <= next.item /\ next'.part <= next.part
  BY <1>1 DEF IInv, IdsOK
<1>3. ItemId(t, published, next') /\ ItemOK(Base(t), t, published, next') /\ (t < 0 => t \in DOMAIN draft)
  BY <1>1, BaseOK
<1>4. \A x \in DOMAIN draft' :
         /\ x < 0 => x \in DOMAIN draft \/ x = next.item
         /\ ItemId(x, published, next') /\ ItemOK(draft'[x], x, published, next')
  BY <1>1, <1>2, <1>3, DraftWritten
<1>5. DraftsFit
  BY <1>1, <1>2, <1>4, KnownFits DEF DraftsFit
<1> QED
  BY <1>5, LocalStep DEF StartEdit, Ready, IInv, PagesOK

\* updateTransaction on a draft leaves drafts that fit the server
LEMMA UpdateFits ==
    ASSUME IInv, NEW t \in Visible, NEW fields \in Int, UpdateDraft(t, fields),
           UNCHANGED <<focus, published, known, next>>
    PROVE  DraftsFit /\ t \in DOMAIN draft' /\ DOMAIN draft \subseteq DOMAIN draft'
<1> DEFINE c == [Base(t) EXCEPT !.fields = fields]
<1>1. ItemId(t, published, next) /\ ItemOK(Base(t), t, published, next) /\ (t < 0 => t \in DOMAIN draft)
  BY BaseOK
<1>2. IdsOK(next') /\ next'.item <= next.item /\ next'.part <= next.part
  BY DEF IInv, IdsOK
<1>3. ItemOK(c, t, published, next')
  BY <1>1 DEF ItemOK
<1>4. draft' = With(draft, t, c)
  BY DEF UpdateDraft
<1> HIDE DEF c
<1>5. \A x \in DOMAIN draft' :
         /\ x < 0 => x \in DOMAIN draft \/ x = next.item
         /\ ItemId(x, published, next') /\ ItemOK(draft'[x], x, published, next')
  BY <1>1, <1>2, <1>3, <1>4, DraftWritten
<1> QED
  BY <1>2, <1>4, <1>5, KnownFits DEF DraftsFit, With

\* An edit counts as an event, and its stamp is positive.
LEMMA Counted ==
    ASSUME IInv, Count
    PROVE  events' \in 0..MaxEvents /\ Stamp \in Int /\ Stamp > 0
  BY StoreBounds DEF Count, Stamp, IInv, PagesOK

\* EditFields keeps the invariant and neither loses nor undoes an edit
LEMMA EditFieldsStep == ASSUME IInv, NEW t, EditFields(t) PROVE Good
<1>1. events' \in 0..MaxEvents /\ Stamp \in Int /\ group.present
  BY Counted DEF EditFields, Edit, Ready
<1>2. t \in Visible /\ UpdateDraft(t, Stamp) /\ UNCHANGED <<focus, published, known, next>>
  BY DEF EditFields, Edit, server
<1>3. DraftsFit
  BY <1>1, <1>2, UpdateFits
<1> QED
  BY <1>1, <1>3, LocalStep DEF EditFields, Edit

\* The parts of a draft are replaced.  On the web there is a draft already, and
\* what is known stays as it is.
LEMMA ChangePartsStep ==
    ASSUME IInv, Edit, NEW t \in Visible, NEW parts, ChangeParts(t, parts),
           focus.app = "web" => t \in DOMAIN draft,
           IdsOK(next'), next'.item <= next.item, next'.part <= next.part,
           PartsOK(parts, t, published, next')
    PROVE  Good
<1> DEFINE c == [Base(t) EXCEPT !.parts = parts]
<1>0. UNCHANGED <<focus, published>> /\ group.present /\ events' \in 0..MaxEvents
  BY Counted DEF Edit, Ready, server
<1>1. ItemId(t, published, next) /\ ItemOK(Base(t), t, published, next) /\ (t < 0 => t \in DOMAIN draft)
  BY BaseOK
<1>2. Grown(published, next, published, next')
  BY <1>0, SamePublished DEF Later
<1>3. ItemOK(c, t, published, next') /\ ItemId(t, published, next')
  BY <1>1, <1>2, IdKeeps DEF ItemOK
<1>4. draft' = With(draft, t, c)
  BY DEF ChangeParts
<1> HIDE DEF c
<1>5. \A x \in DOMAIN draft' :
         /\ x < 0 => x \in DOMAIN draft \/ x = next.item
         /\ ItemId(x, published, next') /\ ItemOK(draft'[x], x, published, next')
  BY <1>0, <1>1, <1>3, <1>4, DraftWritten
<1>6. ASSUME NEW x \in DOMAIN known' PROVE KnownItemOK(known'[x], x, published, next')
  <2>1. x \in DOMAIN known
    BY DEF ChangeParts
  <2>2. KnownItemOK(known[x], x, published, next')
    BY <1>2, <2>1, KnownItemKeeps DEF IInv, KnownOK
  <2>3. CASE known'[x] = known[x]
    BY <2>2, <2>3
  <2>4. CASE known'[x] = [known[x] EXCEPT !.parts = parts] /\ x = t
    BY <2>2, <2>4 DEF KnownItemOK, ItemOK
  <2> QED
    BY <2>1, <2>3, <2>4 DEF ChangeParts
<1>7. KnownComesFromServer'
  <2>1. CASE focus.app = "web"
    <3>1. known' = known
      BY <2>1 DEF ChangeParts
    <3> QED
      BY <1>0, <3>1, WebKeeps
  <2>2. CASE focus.app # "web"
    BY <1>0, <2>2 DEF KnownComesFromServer
  <2> QED
    BY <2>1, <2>2
<1>8. DraftsFit
  BY <1>5, <1>6, <1>7 DEF DraftsFit
<1> QED
  BY <1>0, <1>8, LocalStep DEF Edit

\* An edited part is new if it was new, else updated
LEMMA MarkedIs ==
    ASSUME NEW s \in {"backend", "new", "updated"}
    PROVE  Marked(s) \in {"new", "updated"} /\ (Marked(s) = "new" <=> s = "new")
  BY DEF Marked

\* AddPart keeps the invariant and neither loses nor undoes an edit
LEMMA AddPartStep ==
    ASSUME IInv, NEW t, focus.app = "web" => t \in DOMAIN draft, AddPart(t)
    PROVE  Good
<1> DEFINE c == [val |-> Stamp, deleted |-> FALSE, state |-> "new"]
           parts == With(Base(t).parts, next.part, c)
<1>1. t \in Visible /\ Edit /\ ChangeParts(t, parts) /\ UNCHANGED published
  BY DEF AddPart, Edit, server
<1>2. Stamp \in Int /\ Stamp > 0
  BY <1>1, Counted DEF Edit
<1>3. IdsOK(next') /\ next'.item <= next.item /\ next'.part <= next.part /\ next'.part < next.part
  BY DEF AddPart, NextLocal, IInv, IdsOK
<1>4. PartsOK(Base(t).parts, t, published, next')
  BY <1>1, <1>3, BaseOK, SamePublished, PartsKeep DEF ItemOK, Later
<1>5. PartOK(next.part, c, t, published, next')
  BY <1>2, <1>3 DEF PartOK, Part, IInv, IdsOK
<1> HIDE DEF c
<1>6. DOMAIN parts = DOMAIN Base(t).parts \cup {next.part}
  BY DEF With
<1>7. ASSUME NEW p \in DOMAIN parts PROVE PartOK(p, parts[p], t, published, next')
  <2>1. CASE p = next.part
    BY <1>5, <2>1 DEF With
  <2>2. CASE p # next.part
    BY <1>4, <2>2 DEF With, PartsOK
  <2> QED
    BY <2>1, <2>2
<1>8. IsFiniteSet(DOMAIN parts)
  BY <1>4, <1>6, FS_AddElement DEF PartsOK
<1>9. PartsOK(parts, t, published, next')
  BY <1>7, <1>8 DEF PartsOK
<1> HIDE DEF parts
<1> QED
  BY <1>1, <1>3, <1>9, ChangePartsStep

\* One part of a draft is replaced by an edit.
LEMMA PartReplaced ==
    ASSUME NEW pub, NEW ids, NEW parts, NEW t, PartsOK(parts, t, pub, ids), NEW p \in DOMAIN parts,
           NEW v \in Int, v > 0, NEW gone \in BOOLEAN
    PROVE  PartsOK([parts EXCEPT ![p] = [val |-> v, deleted |-> gone, state |-> Marked(@.state)]], t, pub, ids)
<1> DEFINE c == [val |-> v, deleted |-> gone, state |-> Marked(parts[p].state)]
<1>1. PartOK(p, parts[p], t, pub, ids)
  BY DEF PartsOK
<1>2. PartOK(p, c, t, pub, ids)
  BY <1>1, MarkedIs DEF PartOK, Part
<1> HIDE DEF c
<1>3. PartsOK([parts EXCEPT ![p] = c], t, pub, ids)
  BY <1>2 DEF PartsOK
<1> QED
  BY <1>3 DEF c

\* EditPart keeps the invariant and neither loses nor undoes an edit
LEMMA EditPartStep ==
    ASSUME IInv, NEW t, focus.app = "web" => t \in DOMAIN draft, NEW p, EditPart(t, p)
    PROVE  Good
<1> DEFINE parts == [Base(t).parts EXCEPT ![p] = [val |-> Stamp, deleted |-> FALSE, state |-> Marked(@.state)]]
<1>1. t \in Visible /\ Edit /\ ChangeParts(t, parts) /\ UNCHANGED next /\ p \in DOMAIN Base(t).parts
  BY DEF EditPart, LivePart
<1>2. Stamp \in Int /\ Stamp > 0
  BY <1>1, Counted DEF Edit
<1>3. IdsOK(next') /\ next'.item <= next.item /\ next'.part <= next.part
  BY <1>1 DEF IInv, IdsOK
<1>4. PartsOK(Base(t).parts, t, published, next')
  BY <1>1, BaseOK DEF ItemOK
<1>5. PartsOK(parts, t, published, next')
  BY <1>1, <1>2, <1>4, PartReplaced
<1> HIDE DEF parts
<1> QED
  BY <1>1, <1>3, <1>5, ChangePartsStep

\* DeletePart keeps the invariant and neither loses nor undoes an edit
LEMMA DeletePartStep ==
    ASSUME IInv, NEW t, focus.app = "web" => t \in DOMAIN draft, NEW p, DeletePart(t, p)
    PROVE  Good
<1> DEFINE old == Base(t).parts
           gone == [old EXCEPT ![p] = [val |-> Stamp, deleted |-> TRUE, state |-> Marked(@.state)]]
<1>1. /\ t \in Visible /\ Edit /\ UNCHANGED next /\ p \in DOMAIN old
      /\ ChangeParts(t, IF old[p].state = "new" THEN Without(old, p) ELSE gone)
  BY DEF DeletePart, LivePart
<1>2. Stamp \in Int /\ Stamp > 0
  BY <1>1, Counted DEF Edit
<1>3. IdsOK(next') /\ next'.item <= next.item /\ next'.part <= next.part
  BY <1>1 DEF IInv, IdsOK
<1>4. PartsOK(old, t, published, next')
  BY <1>1, BaseOK DEF ItemOK
<1>5. PartsOK(gone, t, published, next')
  BY <1>1, <1>2, <1>4, PartReplaced
<1> HIDE DEF gone, old
<1>6. PartsOK(Without(old, p), t, published, next')
  BY <1>4, FS_Subset DEF Without, PartsOK
<1>7. CASE old[p].state = "new"
  BY <1>1, <1>3, <1>6, <1>7, ChangePartsStep
<1>8. CASE old[p].state # "new"
  BY <1>1, <1>3, <1>5, <1>8, ChangePartsStep
<1> QED
  BY <1>7, <1>8

\* Drafts are dropped, one or all.
LEMMA DropFits ==
    ASSUME IInv, NEW t, RemoveDraft(t), UNCHANGED <<focus, published, known, next>>
    PROVE  DraftsFit
<1>1. IdsOK(next') /\ next'.item <= next.item /\ next'.part <= next.part
  BY DEF IInv, IdsOK
<1>2. DOMAIN draft' = DOMAIN draft \ {t} /\ \A x \in DOMAIN draft' : draft'[x] = draft[x]
  BY DEF RemoveDraft, Without
<1>3. \A x \in DOMAIN draft' :
         /\ x < 0 => x \in DOMAIN draft \/ x = next.item
         /\ ItemId(x, published, next') /\ ItemOK(draft'[x], x, published, next')
  BY <1>2 DEF IInv, DraftOK
<1> QED
  BY <1>1, <1>3, KnownFits DEF DraftsFit

\* Discard keeps the invariant and neither loses nor undoes an edit
LEMMA DiscardStep == ASSUME IInv, NEW t, Discard(t) PROVE Good
<1>1. events' \in 0..MaxEvents /\ group.present
  BY Counted DEF Discard, Ready
<1>2. DraftsFit
  BY DropFits DEF Discard, server
<1> QED
  BY <1>1, <1>2, LocalStep DEF Discard

-----------------------------------------------------------------------------
(* Requests are sent. *)

LEMMA Sent ==
    ASSUME IInv, NEW q, Send(q)
    PROVE  \E r \in Slots :
              /\ requests[r] = Idle /\ requests' = [requests EXCEPT ![r] = q]
              /\ requests'[r] = q /\ \A s \in Slots : s # r => requests'[s] = requests[s]
<1> DEFINE r == CHOOSE s \in Slots : requests[s] = Idle
<1>1. r \in Slots /\ requests[r] = Idle
  BY DEF Send
<1>2. requests' = [requests EXCEPT ![r] = q]
  BY DEF Send
<1> HIDE DEF r
<1> QED
  BY <1>1, <1>2 DEF IInv, RequestsOK

\* The changes of this user that are in a draft are in the body of its save, or
\* the server has them.
LEMMA SaveRequestOK ==
    ASSUME NEW pub, NEW ids, NEW t, NEW c, ItemId(t, pub, ids), ItemOK(c, t, pub, ids)
    PROVE  SaveRequest(t, c) # Idle /\ RequestOK(SaveRequest(t, c), pub, ids)
<1> DEFINE q == SaveRequest(t, c)
           parts == [p \in ChangedParts(c) |-> c.parts[p]]
<1>1. /\ DOMAIN q = {"stage", "kind", "item", "had", "body"}
      /\ q.stage = "sent" /\ q.kind = "save" /\ q.item = t /\ q.had = {s \in Stamps(c) : s > 0}
      /\ q.body = [fields |-> c.fields, parts |-> parts]
  BY DEF SaveRequest
<1>2. PartsOK(c.parts, t, pub, ids) /\ c.fields \in Int
  BY DEF ItemOK
<1>3. DOMAIN parts \subseteq DOMAIN c.parts /\ \A p \in DOMAIN parts : parts[p] = c.parts[p] /\ parts[p].state # "backend"
  BY DEF ChangedParts
<1>4. PartsOK(parts, t, pub, ids)
  BY <1>2, <1>3, FS_Subset DEF PartsOK
<1>5. ASSUME NEW s \in q.had
      PROVE  \/ StoredIn(pub, s)
             \/ s = c.fields \/ \E p \in DOMAIN parts : s = parts[p].val
  <2>1. s > 0 /\ (s = c.fields \/ \E p \in DOMAIN c.parts : s = c.parts[p].val)
    BY <1>1 DEF Stamps
  <2>2. ASSUME NEW p \in DOMAIN c.parts, s = c.parts[p].val
        PROVE  StoredIn(pub, s) \/ p \in DOMAIN parts
    <3>1. PartOK(p, c.parts[p], t, pub, ids)
      BY <1>2 DEF PartsOK
    <3> QED
      BY <2>1, <2>2, <3>1 DEF PartOK, ChangedParts
  <2> QED
    BY <1>3, <2>1, <2>2
<1> HIDE DEF parts
<1>6. q.body.fields = c.fields /\ q.body.parts = parts
  BY <1>1
<1> HIDE DEF q
<1>7. SaveOK(q, pub, ids)
  BY <1>1, <1>2, <1>3, <1>4, <1>5, <1>6 DEF SaveOK
<1>8. q # Idle /\ RequestOK(q, pub, ids)
  BY <1>1, <1>7 DEF RequestOK, Idle
<1> QED
  BY <1>8 DEF q

\* Sending a save whose draft exists keeps the invariant and undoes nobody
LEMMA SendSaveStep ==
    ASSUME IInv, NEW t, SendSave(t), DraftsFit, t \in DOMAIN draft', DOMAIN draft \subseteq DOMAIN draft'
    PROVE  Good
<1> DEFINE q == SaveRequest(t, draft'[t])
<1>0. /\ UNCHANGED <<focus, published, bornFrom, member, news, group, known, next, page, gap>>
      /\ group.present /\ events' \in 0..MaxEvents /\ risky' = (risky \/ InFlight("save", t))
  BY Counted DEF SendSave, Ready, server
<1>1. Later
  BY <1>0, SamePublished DEF DraftsFit
<1>2. RequestOK(q, published', next') /\ q # Idle
  BY <1>0, SaveRequestOK DEF DraftsFit
<1>3. q.stage = "sent" /\ q.kind = "save" /\ q.item = t
  BY DEF SaveRequest
<1>4. Send(q)
  BY DEF SendSave
<1> HIDE DEF q
<1>5. PICK r \in Slots :
         /\ requests[r] = Idle /\ requests' = [requests EXCEPT ![r] = q]
         /\ requests'[r] = q /\ \A s \in Slots : s # r => requests'[s] = requests[s]
  BY <1>4, Sent
<1>6. ServerOK' /\ RequestsOK' /\ KnownOK'
  BY <1>0, <1>1, <1>2, <1>5, ServerKeeps, OneRequest, KnownKeeps DEF DraftsFit
<1>7. DraftOK'
  BY <1>0 DEF DraftsFit, DraftOK
<1>8. PagesOK'
  BY <1>0 DEF IInv, PagesOK, Existing
<1>9. ASSUME ~risky' PROVE BirthOK'
  <2>1. ~risky /\ BirthOK
    BY <1>0, <1>9 DEF IInv
  <2>2. ASSUME NEW s \in Slots, Saves(s) PROVE requests[s].item # t
    BY <1>0, <1>9, <2>2 DEF InFlight, Saves
  <2>3. ASSUME NEW u \in Items, t < 0 PROVE bornFrom[u] # t
    <3>1. t \in DOMAIN draft \/ t = next.item
      BY <2>3 DEF DraftsFit
    <3>2. next.item < bornFrom[u] /\ bornFrom[u] \in Int /\ next.item \in Int
      BY DEF IInv, ServerOK, IdsOK
    <3> QED
      BY <2>1, <2>2, <2>3, <3>1, <3>2 DEF BirthOK, BornIsAnswered
  <2>4. ASSUME NEW s \in Slots, s # r PROVE Saves(s)' <=> Saves(s)
    BY <1>5, <2>4 DEF Saves
  <2>5. NoOrphans' /\ SentIsUnborn'
    BY <1>0, <1>3, <1>5, <2>1, <2>3, <2>4 DEF BirthOK, NoOrphans, SentIsUnborn
  <2>6. OneSave'
    BY <1>3, <1>5, <2>1, <2>2, <2>4 DEF BirthOK, OneSave
  <2>7. ASSUME NEW u \in Items, bornFrom[u] < 0, bornFrom[u] \in DOMAIN draft'
        PROVE  \E s \in Slots : Saves(s)' /\ requests'[s].item = bornFrom[u] /\ requests'[s].stage = "answered"
    <3>1. next.item < bornFrom[u] /\ bornFrom[u] \in Int /\ next.item \in Int
      BY DEF IInv, ServerOK, IdsOK
    <3>2. bornFrom[u] \in DOMAIN draft
      BY <2>7, <3>1 DEF DraftsFit
    <3>3. PICK s \in Slots : Saves(s) /\ requests[s].item = bornFrom[u] /\ requests[s].stage = "answered"
      BY <2>1, <2>7, <3>2 DEF BirthOK, BornIsAnswered
    <3> QED
      BY <1>5, <2>4, <3>3 DEF Saves
  <2>8. BornIsAnswered' /\ BornOnce'
    BY <1>0, <2>1, <2>7 DEF BirthOK, BornIsAnswered, BornOnce
  <2> QED
    BY <2>5, <2>6, <2>8 DEF BirthOK
<1>10. SaveStep /\ PartStep
  BY <1>0, NoSaveEnds, PartsLeftAlone
<1> QED
  BY <1>6, <1>7, <1>8, <1>9, <1>10 DEF Good, IInv, DraftsFit

\* SaveAction keeps the invariant and neither loses nor undoes an edit
LEMMA SaveActionStep == ASSUME IInv, NEW t, Save(t) PROVE Good
<1>1. SendSave(t) /\ t \in DOMAIN draft /\ draft' = draft /\ UNCHANGED <<focus, published, known, next>>
  BY DEF Save, SendSave, server
<1>2. IdsOK(next') /\ next'.item <= next.item /\ next'.part <= next.part
  BY <1>1 DEF IInv, IdsOK
<1>3. DraftsFit
  BY <1>1, <1>2, KnownFits DEF DraftsFit, IInv, DraftOK
<1> QED
  BY <1>1, <1>3, SendSaveStep

\* SubmitForm keeps the invariant and neither loses nor undoes an edit
LEMMA SubmitFormStep == ASSUME IInv, NEW t, SubmitForm(t) PROVE Good
<1>1. t \in Visible /\ UpdateDraft(t, Base(t).fields) /\ SendSave(t)
  BY DEF SubmitForm
<1>2. UNCHANGED <<focus, published, known, next>> /\ Base(t).fields \in Int
  BY <1>1, BaseOK DEF SendSave, server, ItemOK
<1> QED
  BY <1>1, <1>2, UpdateFits, SendSaveStep

\* A request that is not a save, or no request, is sent; nothing else changes
\* but the pages.
LEMMA AskStep ==
    ASSUME IInv, NEW q, Send(q), RequestOK(q, published, next), q # Idle, q.kind # "save",
           UNCHANGED <<focus, published, bornFrom, known, draft, next, risky>>, PagesOK',
           group'.present \/ group'.present = group.present
    PROVE  Good
<1>1. IdsOK(next') /\ Later
  BY SamePublished DEF IInv, IdsOK
<1>2. PICK r \in Slots :
         /\ requests[r] = Idle /\ requests' = [requests EXCEPT ![r] = q]
         /\ requests'[r] = q /\ \A s \in Slots : s # r => requests'[s] = requests[s]
  BY Sent
<1>3. ServerOK' /\ RequestsOK' /\ KnownOK' /\ KnownComesFromServer'
  <2>1. RequestOK(q, published', next')
    OBVIOUS
  <2>2. RequestsOK'
    BY <1>1, <1>2, <2>1, OneRequest
  <2>3. ServerOK'
    BY <1>1, ServerKeeps DEF IInv, IdsOK
  <2> QED
    BY <1>1, <2>2, <2>3, KnownKeeps, WebKeeps
<1>4. DraftOK'
  BY DEF IInv, DraftOK
<1>5. \A s \in Slots : requests'[s] # Idle /\ requests'[s].kind = "save" => requests'[s] = requests[s]
  BY <1>2
<1>6. \A s \in Slots : Saves(s) => requests'[s] = requests[s]
  BY <1>2 DEF Saves
<1>7. (~risky => BirthOK)'
  BY <1>5, <1>6, BirthKeeps
<1>8. SaveStep /\ PartStep
  BY NoSaveEnds, PartsLeftAlone
<1> QED
  BY <1>1, <1>3, <1>4, <1>7, <1>8 DEF Good, IInv

\* A list, get or delete request carries nothing of a draft
LEMMA PlainRequest ==
    ASSUME NEW kind, NEW t, NEW pub, NEW ids,
           (kind = "list" /\ t = 0) \/ (kind \in {"get", "delete"} /\ Exists(pub, t))
    PROVE  /\ Request(kind, t) # Idle /\ Request(kind, t).kind # "save"
           /\ RequestOK(Request(kind, t), pub, ids)
  BY DEF Request, RequestOK, Idle

\* Delete keeps the invariant and neither loses nor undoes an edit
LEMMA DeleteStep == ASSUME IInv, NEW t, Delete(t) PROVE Good
<1>1. events' \in 0..MaxEvents /\ group.present
  BY Counted DEF Delete, Ready
<1>2. CASE t \in DOMAIN known
  <2>1. Exists(published, t)
    BY <1>2 DEF IInv, KnownOK, KnownItemOK
  <2>2. /\ Send(Request("delete", t))
        /\ UNCHANGED <<focus, published, bornFrom, member, known, draft, next, risky, news, group, page, gap>>
    BY <1>2 DEF Delete, server
  <2>3. PagesOK'
    BY <1>1, <2>2 DEF IInv, PagesOK, Existing
  <2> QED
    BY <2>1, <2>2, <2>3, PlainRequest, AskStep
<1>3. CASE t \notin DOMAIN known
  <2>1. RemoveDraft(t) /\ UNCHANGED <<focus, published, known, next>>
    BY <1>3 DEF Delete, server
  <2>2. DraftsFit
    BY <2>1, DropFits
  <2> QED
    BY <1>1, <1>3, <2>2, LocalStep DEF Delete
<1> QED
  BY <1>2, <1>3

\* Asking for the list keeps the invariant, whatever becomes of the page
LEMMA FetchListStep ==
    ASSUME IInv, FetchList, events' \in 0..MaxEvents, news' = news, page' \in BOOLEAN, member' = member
    PROVE  Good
<1>1. /\ Send(Request("list", 0)) /\ UNCHANGED <<focus, published, bornFrom, known, draft, next, gap, risky>>
      /\ group' = IF group.present THEN group ELSE [present |-> TRUE, status |-> "loading"]
  BY DEF FetchList, server
<1>2. group' \in [present : BOOLEAN, status : {"none", "loading", "initialized", "failed"}] /\ group'.present
  BY <1>1 DEF IInv, PagesOK
<1>3. PagesOK'
  BY <1>1, <1>2 DEF IInv, PagesOK, Existing
<1> QED
  BY <1>1, <1>2, <1>3, PlainRequest, AskStep

\* OpenPage keeps the invariant and neither loses nor undoes an edit
LEMMA OpenPageStep == ASSUME IInv, OpenPage PROVE Good
  BY FetchListStep DEF OpenPage, FetchList, server, IInv, PagesOK

\* Refresh keeps the invariant and neither loses nor undoes an edit
LEMMA RefreshStep == ASSUME IInv, Refresh PROVE Good
  BY FetchListStep, Counted DEF Refresh, FetchList, server, IInv, PagesOK

\* Notified keeps the invariant and neither loses nor undoes an edit
LEMMA NotifiedStep == ASSUME IInv, NEW t, Notified(t) PROVE Good
<1>1. /\ Send(Request("get", t)) /\ t \in news /\ news' = news \ {t}
      /\ UNCHANGED <<focus, published, bornFrom, member, known, draft, next, gap, risky, group, page, events>>
  BY DEF Notified, server, store
<1>2. Exists(published, t)
  BY <1>1 DEF IInv, PagesOK, Existing, Exists
<1>3. PagesOK'
  BY <1>1 DEF IInv, PagesOK, Existing
<1> QED
  BY <1>1, <1>2, <1>3, PlainRequest, AskStep

-----------------------------------------------------------------------------
(* The group goes, the application restarts, requests fail. *)

LEMMA LeaveStep == ASSUME IInv, Leave PROVE Good
<1>1. /\ UNCHANGED <<focus, published, bornFrom, next, requests, gap, risky>>
      /\ member' = FALSE /\ page' = FALSE /\ news' = {} /\ group' = [present |-> FALSE, status |-> "none"]
      /\ DOMAIN known' = {} /\ DOMAIN draft' = {} /\ events' \in 0..MaxEvents
  BY Counted DEF Leave, NoParts
<1>2. IdsOK(next') /\ Later
  BY <1>1, SamePublished DEF IInv, IdsOK
<1>3. RequestsOK' /\ ServerOK'
  BY <1>1, <1>2, RequestsKeep, ServerKeeps DEF IInv, IdsOK
<1>4. KnownOK' /\ DraftOK' /\ KnownComesFromServer'
  BY <1>1 DEF KnownOK, DraftOK, KnownComesFromServer
<1>5. PagesOK'
  BY <1>1 DEF IInv, PagesOK, Existing
<1>6. (~risky => BirthOK)'
  BY <1>1, BirthKeeps
<1>7. SaveStep /\ PartStep
  BY <1>1, NoSaveEnds, PartsLeftAlone
<1> QED
  BY <1>2, <1>3, <1>4, <1>5, <1>6, <1>7 DEF Good, IInv

\* Requests change in a step that touches neither server nor items.
LEMMA RequestsOnly ==
    ASSUME IInv, UNCHANGED <<focus, published, bornFrom, known, draft, next>>, group'.present = group.present,
           RequestsOK', PagesOK', (~risky => BirthOK)'
    PROVE  Good
<1>1. IdsOK(next') /\ Later
  BY SamePublished DEF IInv, IdsOK
<1>2. ServerOK'
  BY <1>1, ServerKeeps DEF IInv, IdsOK
<1>3. KnownOK' /\ KnownComesFromServer'
  BY <1>1, KnownKeeps, WebKeeps
<1>4. DraftOK'
  BY DEF IInv, DraftOK
<1>5. SaveStep /\ PartStep
  BY NoSaveEnds, PartsLeftAlone
<1> QED
  BY <1>1, <1>2, <1>3, <1>4, <1>5 DEF Good, IInv

\* Reload keeps the invariant and neither loses nor undoes an edit
LEMMA ReloadStep == ASSUME IInv, Reload PROVE Good
<1>1. /\ UNCHANGED <<focus, published, bornFrom, member, known, draft, next, group, gap>>
      /\ page' = FALSE /\ news' = {} /\ events' \in 0..MaxEvents
      /\ risky' = (risky \/ \E r \in Slots : Saves(r))
  BY Counted DEF Reload, server, store, Saves
<1>2. DOMAIN requests' = Slots
  BY DEF Reload
<1>3. ASSUME NEW r \in Slots, requests'[r] # Idle
      PROVE  /\ requests[r] # Idle /\ requests'[r] \in {requests[r], [requests[r] EXCEPT !.stage = "orphan"]}
             /\ requests[r].kind \in {"save", "delete"} \/ requests'[r] = requests[r]
  BY <1>3 DEF Reload
<1>4. ASSUME NEW r \in Slots, requests'[r] # Idle PROVE RequestOK(requests'[r], published', next')
  <2>1. RequestOK(requests[r], published, next)
    BY <1>3, <1>4 DEF IInv, RequestsOK
  <2>2. CASE requests'[r] = requests[r]
    BY <1>1, <2>1, <2>2
  <2>3. CASE requests'[r] = [requests[r] EXCEPT !.stage = "orphan"]
    <3> DEFINE q == requests[r]
               o == [q EXCEPT !.stage = "orphan"]
    <3>1. DOMAIN o = DOMAIN q /\ o.stage = "orphan" /\ \A k \in DOMAIN q : k # "stage" => o[k] = q[k]
      BY <2>1 DEF RequestOK
    <3>2. o.kind = q.kind /\ o.item = q.item
      BY <2>1, <3>1 DEF RequestOK
    <3>3. q.kind = "save" => SaveOK(o, published, next)
      <4> SUFFICES ASSUME q.kind = "save" PROVE SaveOK(o, published, next)
        OBVIOUS
      <4>1. SaveOK(q, published, next)
        BY <2>1 DEF RequestOK
      <4>2. o.body = q.body /\ o.had = q.had
        BY <3>1, <4>1 DEF SaveOK
      <4> HIDE DEF o
      <4> QED
        BY <3>1, <3>2, <4>1, <4>2 DEF SaveOK
    <3> HIDE DEF o
    <3>4. RequestOK(o, published, next)
      BY <2>1, <3>1, <3>2, <3>3 DEF RequestOK
    <3> QED
      BY <1>1, <2>3, <3>4 DEF o
  <2> QED
    BY <1>3, <1>4, <2>2, <2>3
<1>5. RequestsOK'
  BY <1>2, <1>4 DEF RequestsOK
<1>6. PagesOK'
  BY <1>1 DEF IInv, PagesOK, Existing
<1>7. ASSUME NEW r \in Slots, ~risky', requests'[r] # Idle PROVE requests'[r].kind # "save"
  <2>1. requests[r].kind # "save" /\ RequestOK(requests[r], published, next)
    BY <1>1, <1>3, <1>7 DEF Saves, IInv, RequestsOK
  <2> QED
    BY <1>3, <1>7, <2>1 DEF RequestOK
<1>8. (~risky => BirthOK)'
  BY <1>1, <1>7, BirthKeeps
<1> QED
  BY <1>1, <1>5, <1>6, <1>8, RequestsOnly

\* Reject keeps the invariant and neither loses nor undoes an edit
LEMMA RejectStep == ASSUME IInv, NEW r \in Slots, Reject(r) PROVE Good
<1>1. /\ UNCHANGED <<focus, published, bornFrom, member, news, known, draft, next, page, events>>
      /\ requests' = [requests EXCEPT ![r] = Idle]
      /\ group' = group \/ group' = [group EXCEPT !.status = "failed"]
      /\ gap' \in BOOLEAN
      /\ risky' = (risky \/ (requests[r].kind = "save" /\ requests[r].stage = "answered"))
  BY DEF Reject, server, IInv, PagesOK
<1>2. group'.present = group.present /\ PagesOK'
  BY <1>1 DEF IInv, PagesOK, Existing
<1>3. Later
  BY <1>1, SamePublished DEF IInv, IdsOK
<1>4. RequestsOK'
  BY <1>1, <1>3, OneRequest
<1>5. \A s \in Slots : requests'[s] = IF s = r THEN Idle ELSE requests[s]
  BY <1>1 DEF IInv, RequestsOK
<1>6. (~risky => BirthOK)'
  BY <1>1, <1>5, BirthKeeps DEF Saves
<1> QED
  BY <1>1, <1>2, <1>4, <1>6, RequestsOnly

-----------------------------------------------------------------------------
(* Answers. *)

\* What comes from the server fits what the server has.
LEMMA FromServerOK ==
    ASSUME IInv, NEW t, Exists(published, t), NEW n \in 1..Len(published[t])
    PROVE  KnownItemOK(FromServer(t, n), t, published, next) /\ FromServer(t, n).rev = n
<1> DEFINE c == published[t][n]
           parts == [p \in DOMAIN c.parts |->
                       [val |-> c.parts[p].val, deleted |-> c.parts[p].deleted, state |-> "backend"]]
           item == FromServer(t, n)
<1>1. published[t] \in Seq(Content)
  BY NewestType DEF IInv, ServerOK
<1>2. c \in Content
  BY <1>1, ElementOfSeq
<1>3. c.parts \in Seq(StoredPart) /\ c.fields \in Int /\ c.deleted \in BOOLEAN
  BY <1>2 DEF Content
<1>4. item = [rev |-> n, fields |-> c.fields, deleted |-> c.deleted, parts |-> parts]
  BY DEF FromServer
<1>5. DOMAIN parts = 1..Len(c.parts) /\ Len(c.parts) \in Nat
  BY <1>3
<1>6. IsFiniteSet(DOMAIN parts)
  <2> HIDE DEF parts, c
  <2>1. IsFiniteSet(1..Len(c.parts))
    BY <1>5, FS_Interval
  <2> QED
    BY <1>5, <2>1
<1>7. ASSUME NEW p \in DOMAIN parts PROVE PartOK(p, parts[p], t, published, next)
  <2>1. c.parts[p] \in StoredPart
    BY <1>3, <1>5, <1>7, ElementOfSeq
  <2>2. HasPart(published, t, p)
    BY <1>7 DEF IInv, ServerOK, History, Exists
  <2>3. StoredIn(published, c.parts[p].val)
    BY <1>7 DEF StoredIn, Stamps, Exists
  <2>4. parts[p].val = c.parts[p].val /\ parts[p].deleted = c.parts[p].deleted /\ parts[p].state = "backend"
        /\ parts[p] \in Part
    BY <1>7, <2>1 DEF Part, StoredPart
  <2> HIDE DEF parts
  <2> QED
    BY <2>2, <2>3, <2>4 DEF PartOK
<1> HIDE DEF parts
<1>8. PartsOK(parts, t, published, next)
  BY <1>6, <1>7 DEF PartsOK
<1> HIDE DEF c, item
<1>9. ItemOK(item, t, published, next)
  BY <1>3, <1>4, <1>8 DEF ItemOK
<1>10. KnownItemOK(item, t, published, next) /\ item.rev = n
  BY <1>4, <1>9 DEF KnownItemOK
<1> QED
  BY <1>10 DEF item

\* An answer ends its request and changes what is known, and perhaps drops the
\* draft it is about.
LEMMA AnswerStep ==
    ASSUME IInv, NEW r \in Slots, requests[r] # Idle, requests[r].stage = "answered",
           requests' = [requests EXCEPT ![r] = Idle],
           UNCHANGED <<focus, published, bornFrom, member, news, next, page, events, risky>>,
           gap' \in BOOLEAN,
           group' \in [present : BOOLEAN, status : {"none", "loading", "initialized", "failed"}],
           group.present => group'.present,
           \A t \in DOMAIN known' : KnownItemOK(known'[t], t, published, next),
           focus.app = "web" => \A t \in DOMAIN known' : known'[t] = FromServer(t, known'[t].rev),
           \/ UNCHANGED draft /\ (requests[r].kind = "save" => DOMAIN draft = {})
           \/ RemoveDraft(requests[r].item)
    PROVE  Good
<1>1. IdsOK(next') /\ Later
  BY SamePublished DEF IInv, IdsOK
<1>2. DOMAIN draft' \subseteq DOMAIN draft /\ \A t \in DOMAIN draft' : draft'[t] = draft[t]
  BY DEF RemoveDraft, Without
<1>3. requests[r].kind = "save" => requests[r].item \notin DOMAIN draft'
  BY DEF RemoveDraft, Without
<1>4. ServerOK'
  BY <1>1, ServerKeeps DEF IInv, IdsOK
<1>5. RequestsOK'
  BY <1>1, OneRequest
<1>6. DraftOK'
  BY <1>2 DEF IInv, DraftOK
<1>7. PagesOK'
  BY DEF IInv, PagesOK, Existing
<1>8. KnownOK'
  BY DEF KnownOK
<1>9. KnownComesFromServer'
  BY DEF KnownComesFromServer, FromServer
<1>10. \A s \in Slots : requests'[s] = IF s = r THEN Idle ELSE requests[s]
  BY DEF IInv, RequestsOK
<1>11. (~risky => BirthOK)'
  BY <1>2, <1>3, <1>10, BirthKeeps DEF Saves
<1>12. SaveStep
  <2>1. ASSUME NEW s \in Slots, NEW t, SavedBy(s, t), NEW stamp \in requests[s].had PROVE Stored(stamp)
    <3>1. s = r /\ requests[r].kind = "save"
      BY <1>10, <2>1 DEF SavedBy
    <3>2. SaveOK(requests[r], published, next)
      BY <3>1 DEF IInv, RequestsOK, RequestOK
    <3>3. StoredIn(published, stamp)
      BY <2>1, <3>1, <3>2 DEF SaveOK
    <3> QED
      BY <3>3 DEF StoredIn, Stored, Existing
  <2> QED
    BY <2>1 DEF SaveStep
<1>13. PartStep
  BY PartsLeftAlone
<1> QED
  BY <1>1, <1>4, <1>5, <1>6, <1>7, <1>8, <1>9, <1>11, <1>12, <1>13 DEF Good, IInv

\* ReceiveList keeps the invariant and neither loses nor undoes an edit
LEMMA ReceiveListStep == ASSUME IInv, NEW r \in Slots, ReceiveList(r) PROVE Good
<1> DEFINE answer == requests[r].answer
<1>1. /\ requests[r] # Idle /\ requests[r].stage = "answered" /\ requests[r].kind = "list"
      /\ requests' = [requests EXCEPT ![r] = Idle]
      /\ UNCHANGED <<focus, published, bornFrom, member, news, next, page, events, risky, draft>>
  BY DEF ReceiveList, server
<1>2. AnswerOK(requests[r], published)
  BY <1>1 DEF IInv, RequestsOK, RequestOK
<1>3. gap' \in BOOLEAN
  BY DEF ReceiveList, IInv, PagesOK
<1>4. CASE group.present \/ focus.slice = "accounts"
  <2>1. /\ group' = [present |-> TRUE, status |-> "initialized"]
        /\ known' = [t \in DOMAIN answer |-> FromServer(t, answer[t])]
    BY <1>4 DEF ReceiveList
  <2>2. ASSUME NEW t \in DOMAIN known'
        PROVE  KnownItemOK(known'[t], t, published, next) /\ known'[t] = FromServer(t, known'[t].rev)
    <3>1. Exists(published, t) /\ answer[t] \in 1..Len(published[t]) /\ known'[t] = FromServer(t, answer[t])
      BY <1>2, <2>1, <2>2 DEF AnswerOK
    <3>2. KnownItemOK(FromServer(t, answer[t]), t, published, next) /\ FromServer(t, answer[t]).rev = answer[t]
      BY <3>1, FromServerOK
    <3> QED
      BY <3>1, <3>2
  <2> QED
    BY <1>1, <1>3, <2>1, <2>2, AnswerStep
<1>5. CASE ~(group.present \/ focus.slice = "accounts")
  <2>1. UNCHANGED <<group, known>>
    BY <1>5 DEF ReceiveList
  <2>2. /\ \A t \in DOMAIN known' : KnownItemOK(known'[t], t, published, next)
        /\ focus.app = "web" => \A t \in DOMAIN known' : known'[t] = FromServer(t, known'[t].rev)
    BY <2>1 DEF IInv, KnownOK, KnownComesFromServer
  <2> QED
    BY <1>1, <1>3, <2>1, <2>2, AnswerStep DEF IInv, PagesOK
<1> QED
  BY <1>4, <1>5

\* Receive keeps the invariant and neither loses nor undoes an edit
LEMMA ReceiveStep == ASSUME IInv, NEW r \in Slots, Receive(r) PROVE Good
<1> DEFINE q == requests[r]
           t == CHOOSE u \in DOMAIN q.answer : TRUE
           item == FromServer(t, q.answer[t])
<1>1. /\ q # Idle /\ q.stage = "answered" /\ q.kind # "list"
      /\ requests' = [requests EXCEPT ![r] = Idle]
      /\ UNCHANGED <<focus, published, bornFrom, member, news, group, next, page, events, risky>>
  BY DEF Receive, server
<1>2. AnswerOK(q, published)
  BY <1>1 DEF IInv, RequestsOK, RequestOK
<1>3. gap' \in BOOLEAN
  BY DEF Receive, IInv, PagesOK
<1>4. t \in DOMAIN q.answer
  BY <1>1, <1>2 DEF AnswerOK
<1>5. KnownItemOK(item, t, published, next) /\ item.rev = q.answer[t]
  BY <1>2, <1>4, FromServerOK DEF AnswerOK
<1>6. group.present =>
         /\ known' = With(known, t, item)
         /\ IF q.kind = "get" THEN UNCHANGED draft ELSE RemoveDraft(q.item)
  BY DEF Receive, DraftOf
<1>7. ~group.present => UNCHANGED <<known, draft>>
  BY DEF Receive
<1>8. item = FromServer(t, item.rev)
  BY <1>5
<1> HIDE DEF t, item
<1>9. ASSUME NEW u \in DOMAIN known'
      PROVE  /\ KnownItemOK(known'[u], u, published, next)
             /\ focus.app = "web" => known'[u] = FromServer(u, known'[u].rev)
  <2>1. CASE known'[u] = item /\ u = t
    BY <1>5, <1>8, <2>1
  <2>2. CASE known'[u] = known[u] /\ u \in DOMAIN known
    BY <2>2 DEF IInv, KnownOK, KnownComesFromServer
  <2> QED
    BY <1>6, <1>7, <1>9, <2>1, <2>2 DEF With
<1>10. \/ UNCHANGED draft /\ (q.kind = "save" => DOMAIN draft = {})
       \/ RemoveDraft(q.item)
  BY <1>6, <1>7 DEF IInv, DraftOK
<1> QED
  BY <1>1, <1>3, <1>9, <1>10, AnswerStep DEF IInv, PagesOK

-----------------------------------------------------------------------------
(* The server publishes a revision. *)

\* A revision c of item t that has all parts of the one before
KeepsParts(pub, t, c) == \A p : HasPart(pub, t, p) => p \in DOMAIN c.parts

Adds(pub, t, c, pub2) ==
    /\ pub \in [Items -> Seq(Content)] /\ t \in Items /\ c \in Content
    /\ pub2 = [pub EXCEPT ![t] = Append(@, c)] /\ KeepsParts(pub, t, c)

\* Appending a revision that keeps the parts is a growth of the server
LEMMA RevisionAdded ==
    ASSUME NEW pub, NEW ids \in [item : Int, part : Int], NEW t, NEW c, NEW pub2, Adds(pub, t, c, pub2)
    PROVE  /\ Grown(pub, ids, pub2, ids)
           /\ Exists(pub2, t) /\ Newest(pub2, t) = c /\ Len(pub2[t]) \in 1..Len(pub2[t])
           /\ pub2[t][Len(pub2[t])] = c
           /\ \A u \in Items : u # t => pub2[u] = pub[u]
           /\ History(pub) => History(pub2)
<1> USE DEF Adds
<1>1. pub[t] \in Seq(Content) /\ Len(pub[t]) \in Nat
  OBVIOUS
<1>2. pub2[t] = Append(pub[t], c) /\ \A u \in Items : u # t => pub2[u] = pub[u]
  OBVIOUS
<1>3. /\ pub2[t] \in Seq(Content) /\ pub2[t] # <<>> /\ Len(pub2[t]) = Len(pub[t]) + 1
      /\ \A n \in 1..Len(pub[t]) : pub2[t][n] = pub[t][n]
      /\ pub2[t][Len(pub2[t])] = c
  BY <1>1, <1>2, AppendProperties
<1>4. pub2 \in [Items -> Seq(Content)]
  BY <1>1, AppendProperties
<1>5. Exists(pub2, t) /\ Newest(pub2, t) = c /\ Len(pub2[t]) \in 1..Len(pub2[t])
  BY <1>1, <1>3 DEF Exists, Newest
<1>6. ASSUME NEW p, HasPart(pub, t, p) \/ p \in DOMAIN c.parts PROVE HasPart(pub2, t, p)
  BY <1>5, <1>6 DEF HasPart, KeepsParts
<1>7. ASSUME NEW u, Exists(pub, u)
      PROVE  /\ Exists(pub2, u) /\ Len(pub[u]) <= Len(pub2[u])
             /\ \A n \in 1..Len(pub[u]) : pub2[u][n] = pub[u][n]
             /\ \A p : HasPart(pub, u, p) => HasPart(pub2, u, p)
  <2>1. CASE u = t
    <3>1. Exists(pub2, t) /\ Len(pub[t]) <= Len(pub2[t])
      BY <1>1, <1>3, <1>5
    <3>2. \A n \in 1..Len(pub[t]) : pub2[t][n] = pub[t][n]
      BY <1>3
    <3>3. \A p : HasPart(pub, t, p) => HasPart(pub2, t, p)
      BY <1>6
    <3> QED
      BY <2>1, <3>1, <3>2, <3>3
  <2>2. CASE u # t
    <3>1. u \in Items /\ pub2[u] = pub[u] /\ Len(pub[u]) \in Nat
      BY <1>2, <1>7, <2>2, NewestType DEF Exists
    <3> QED
      BY <1>7, <3>1 DEF Exists, HasPart, Newest
  <2> QED
    BY <2>1, <2>2
<1>8. Grown(pub, ids, pub2, ids)
  <2>1. ids.item <= ids.item /\ ids.part <= ids.part
    OBVIOUS
  <2> QED
    BY <1>4, <1>7, <2>1 DEF Grown
<1>9. ASSUME History(pub), NEW u \in Items, NEW p, NEW n \in 1..Len(pub2[u]), p \in DOMAIN pub2[u][n].parts
      PROVE  HasPart(pub2, u, p)
  <2>1. CASE u # t
    <3>1. pub2[u] = pub[u]
      BY <1>2, <2>1
    <3>2. HasPart(pub, u, p)
      BY <1>9, <3>1 DEF History
    <3> QED
      BY <1>7, <3>2 DEF HasPart
  <2>2. CASE u = t /\ n \in 1..Len(pub[t])
    BY <1>3, <1>6, <1>9, <2>2 DEF History
  <2>3. CASE u = t /\ n = Len(pub2[t])
    BY <1>3, <1>6, <1>9, <2>3
  <2> QED
    BY <1>1, <1>3, <2>1, <2>2, <2>3
<1> QED
  BY <1>2, <1>3, <1>5, <1>8, <1>9 DEF History

\* What publishing does to everything but the requests
LEMMA PublishStep ==
    ASSUME IInv, NEW t \in Items, NEW c \in Content, NEW from \in Int, Publish(t, c, from),
           Exists(published, t) \/ (next.item < from /\ from <= 0),
           \A p : HasPart(published, t, p) =>
              /\ p \in DOMAIN c.parts
              /\ \/ c.parts[p].val = Newest(published, t).parts[p].val
                 \/ c.parts[p].val > 0 \/ c.parts[p].val = -Stamp,
           UNCHANGED <<focus, group, known, draft, next, page, gap, risky>>, events' \in 0..MaxEvents,
           RequestsOK', (~risky => BirthOK)'
    PROVE  Good
<1>1. /\ published' = [published EXCEPT ![t] = Append(@, c)]
      /\ bornFrom' = [bornFrom EXCEPT ![t] = IF published[t] = <<>> THEN from ELSE @]
      /\ news' = Announced(t) /\ member' = member
  BY DEF Publish
<1>2. published \in [Items -> Seq(Content)] /\ next \in [item : Int, part : Int] /\ History(published)
  BY DEF IInv, ServerOK, IdsOK
<1>3. /\ Grown(published, next, published', next)
      /\ Exists(published', t) /\ Newest(published', t) = c
      /\ published'[t][Len(published'[t])] = c
      /\ \A u \in Items : u # t => published'[u] = published[u]
      /\ History(published')
  <2>1. Adds(published, t, c, published')
    BY <1>1, <1>2 DEF KeepsParts, Adds
  <2> QED
    BY <1>2, <2>1, RevisionAdded
<1>4. Later /\ IdsOK(next')
  <2>1. next' = next
    OBVIOUS
  <2> QED
    BY <1>3, <2>1 DEF Later, IInv
<1>5. ServerOK'
  <2>1. published' \in [Items -> Seq(Content)]
    BY <1>3 DEF Grown
  <2>2. ASSUME NEW u \in Items
        PROVE  bornFrom'[u] \in Int /\ next.item < bornFrom'[u] /\ bornFrom'[u] <= 0
               /\ (published'[u] = <<>> => bornFrom'[u] = 0)
    <3>1. bornFrom[u] \in Int /\ next.item < bornFrom[u] /\ bornFrom[u] <= 0
          /\ (published[u] = <<>> => bornFrom[u] = 0)
      BY DEF IInv, ServerOK
    <3>2. CASE u = t
      BY <1>1, <1>3, <3>1, <3>2 DEF IInv, ServerOK, Exists
    <3>3. CASE u # t
      BY <1>1, <1>3, <3>1, <3>3 DEF IInv, ServerOK
    <3> QED
      BY <3>2, <3>3
  <2>3. bornFrom' \in [Items -> Int]
    BY <1>1, <2>2 DEF IInv, ServerOK
  <2> QED
    BY <1>3, <2>1, <2>2, <2>3 DEF ServerOK
<1>6. KnownOK' /\ DraftOK'
  BY <1>4, KnownKeeps, DraftKeeps
<1>7. PagesOK'
  <2>1. news' \subseteq Existing'
    <3>1. \A u \in Existing : u \in Existing'
      BY <1>3 DEF Grown, Existing, Exists
    <3>2. t \in Existing'
      BY <1>3 DEF Existing, Exists
    <3> QED
      BY <1>1, <3>1, <3>2 DEF Announced, IInv, PagesOK
  <2> QED
    BY <1>1, <2>1 DEF IInv, PagesOK
<1>8. KnownComesFromServer'
  <2>1. ASSUME NEW u \in DOMAIN known PROVE FromServer(u, known[u].rev)' = FromServer(u, known[u].rev)
    <3>1. Exists(published, u) /\ known[u].rev \in 1..Len(published[u])
      BY DEF IInv, KnownOK, KnownItemOK
    <3>2. published'[u][known[u].rev] = published[u][known[u].rev]
      BY <1>3, <3>1 DEF Grown
    <3> QED
      BY <3>2 DEF FromServer
  <2> QED
    BY <2>1 DEF IInv, KnownComesFromServer
<1>9. SaveStep
  BY NoSaveEnds
<1>10. PartStep
  <2>1. ASSUME NEW u \in Existing, NEW p \in DOMAIN Latest(u).parts
        PROVE  \/ published'[u][Len(published'[u])].parts[p].val = Latest(u).parts[p].val
               \/ published'[u][Len(published'[u])].parts[p].val > 0
               \/ published'[u][Len(published'[u])].parts[p].val = -Stamp
    <3>1. CASE u = t
      <4>1. HasPart(published, t, p) /\ Latest(t) = Newest(published, t)
        BY <2>1, <3>1 DEF HasPart, Existing, Exists, Latest, Newest
      <4> QED
        BY <1>3, <3>1, <4>1
    <3>2. CASE u # t
      <4>1. published'[u] = published[u]
        BY <1>3, <3>2 DEF Existing
      <4> QED
        BY <4>1 DEF Latest
    <3> QED
      BY <3>1, <3>2
  <2> QED
    BY <2>1 DEF PartStep
<1> QED
  BY <1>4, <1>5, <1>6, <1>7, <1>8, <1>9, <1>10 DEF Good, IInv

-----------------------------------------------------------------------------
(* A save is merged into the parts the server has. *)

\* Local ids count down, so new parts are numbered from the highest id on: one
\* number each, without gaps.
Rank(F, p) == Cardinality({q \in F : q >= p})

\* The rank of an integer in a finite set, counted from above, is a bijection to 1..k
LEMMA Ranks ==
    ASSUME NEW F, F \subseteq Int, IsFiniteSet(F)
    PROVE  /\ Cardinality(F) \in Nat
           /\ \A p \in F : Rank(F, p) \in 1..Cardinality(F)
           /\ \A p, q \in F : Rank(F, p) = Rank(F, q) => p = q
           /\ \A i \in 1..Cardinality(F) : \E p \in F : Rank(F, p) = i
<1> DEFINE Above(p) == {q \in F : q >= p}
           k == Cardinality(F)
           rank == [p \in F |-> Rank(F, p)]
<1>1. k \in Nat
  BY FS_CardinalityType
<1>2. ASSUME NEW p \in F
      PROVE  /\ IsFiniteSet(Above(p)) /\ Cardinality(Above(p)) \in Nat
             /\ Cardinality(Above(p)) # 0 /\ Cardinality(Above(p)) <= k
  <2>1. Above(p) \in SUBSET F /\ p \in Above(p)
    OBVIOUS
  <2> HIDE DEF Above
  <2>2. IsFiniteSet(Above(p)) /\ Cardinality(Above(p)) <= k
    BY <2>1, FS_Subset
  <2> QED
    BY <2>1, <2>2, FS_CardinalityType, FS_EmptySet
<1>3. ASSUME NEW p \in F, NEW q \in F, p < q PROVE Cardinality(Above(p)) # Cardinality(Above(q))
  <2>1. Above(q) \in SUBSET Above(p) /\ p \in Above(p) /\ p \notin Above(q)
    <3>1. p \in Int /\ q \in Int /\ p >= p /\ ~(p >= q)
      BY <1>3
    <3>2. ASSUME NEW x \in F, x >= q PROVE x >= p
      <4>1. x \in Int
        OBVIOUS
      <4> QED
        BY <1>3, <3>1, <3>2, <4>1
    <3> QED
      BY <3>1, <3>2
  <2> HIDE DEF Above
  <2> QED
    BY <1>2, <2>1, FS_Subset
<1>4. \A p \in F : rank[p] = Cardinality(Above(p)) /\ rank[p] = Rank(F, p)
  BY DEF Rank
<1>5. rank \in [F -> {rank[p] : p \in F}]
  OBVIOUS
<1> HIDE DEF Above, rank
<1>6. \A p \in F : rank[p] \in 1..k
  BY <1>1, <1>2, <1>4
<1>7. \A p, q \in F : rank[p] = rank[q] => p = q
  BY <1>3, <1>4
<1>8. rank \in Injection(F, 1..k)
  BY <1>6, <1>7, <1>5 DEF Injection, IsInjective
<1>9. IsFiniteSet(1..k) /\ Cardinality(1..k) = k
  BY <1>1, FS_Interval
<1>10. rank \in Surjection(F, 1..k)
  BY <1>8, <1>9, FS_Injection
<1> QED
  BY <1>1, <1>4, <1>6, <1>7, <1>10 DEF Surjection

\* What the server stores keeps all parts; those that change have a value from the save,
\* and all values of the save are there.
LEMMA MergedIs ==
    ASSUME NEW parts \in Seq(StoredPart), NEW body, IsFiniteSet(DOMAIN body.parts),
           \A p \in DOMAIN body.parts :
              /\ body.parts[p] \in Part /\ body.parts[p].val > 0
              /\ body.parts[p].state = "new" => p \in Int
              /\ body.parts[p].state # "new" => p \in DOMAIN parts
    PROVE  /\ Merged(parts, body) \in Seq(StoredPart)
           /\ \A q \in DOMAIN parts :
                /\ q \in DOMAIN Merged(parts, body)
                /\ Merged(parts, body)[q].val = parts[q].val \/ Merged(parts, body)[q].val > 0
           /\ \A p \in DOMAIN body.parts :
                \E q \in DOMAIN Merged(parts, body) : Merged(parts, body)[q].val = body.parts[p].val
<1> DEFINE fresh == {p \in DOMAIN body.parts : body.parts[p].state = "new"}
           count == Cardinality(DOMAIN parts)
           Nth(p) == count + Cardinality({q \in fresh : q >= p})
           Plain(p) == [val |-> body.parts[p].val, deleted |-> body.parts[p].deleted]
           D == DOMAIN parts \cup {Nth(p) : p \in fresh}
           m == [q \in D |->
                   IF q \in DOMAIN parts
                   THEN IF q \in DOMAIN body.parts THEN Plain(q) ELSE parts[q]
                   ELSE Plain(CHOOSE p \in fresh : Nth(p) = q)]
           k == Cardinality(fresh)
<1>1. Merged(parts, body) = m
  BY DEF Merged
<1>2. fresh \in SUBSET Int /\ fresh \in SUBSET DOMAIN body.parts
  OBVIOUS
<1>3. IsFiniteSet(fresh)
  <2> HIDE DEF fresh
  <2> QED
    BY <1>2, FS_Subset
<1>4. DOMAIN parts = 1..Len(parts) /\ Len(parts) \in Nat /\ count = Len(parts)
  <2>1. DOMAIN parts = 1..Len(parts) /\ Len(parts) \in Nat
    OBVIOUS
  <2>2. PICK n \in Nat : n = Len(parts)
    BY <2>1
  <2>3. Cardinality(1..n) = n
    BY FS_Interval
  <2> QED
    BY <2>1, <2>2, <2>3
<1>5. \A p \in fresh : Nth(p) = count + Rank(fresh, p)
  BY DEF Rank
<1>6. /\ k \in Nat
      /\ \A p \in fresh : Rank(fresh, p) \in 1..k
      /\ \A p, q \in fresh : Rank(fresh, p) = Rank(fresh, q) => p = q
      /\ \A i \in 1..k : \E p \in fresh : Rank(fresh, p) = i
  <2> HIDE DEF fresh, k
  <2> QED
    BY <1>2, <1>3, Ranks DEF k
<1>7. \A p \in DOMAIN body.parts : Plain(p) \in StoredPart /\ Plain(p).val = body.parts[p].val /\ Plain(p).val > 0
  BY DEF Part, StoredPart
<1>8. \A p \in fresh : Nth(p) \in D /\ Nth(p) \notin DOMAIN parts
  <2> HIDE DEF fresh, k, Nth, count
  <2>1. \A p \in fresh : Nth(p) \notin DOMAIN parts
    BY <1>4, <1>5, <1>6
  <2> QED
    BY <2>1
<1>9. \A p \in fresh : \A q \in fresh : Nth(p) = Nth(q) => p = q
  <2> HIDE DEF fresh, k, Nth, count
  <2> QED
    BY <1>4, <1>5, <1>6
<1>10. D = 1..(count + k)
  <2> HIDE DEF fresh, k, Nth, count
  <2>1. ASSUME NEW i \in 1..(count + k), i \notin DOMAIN parts PROVE \E p \in fresh : i = Nth(p)
    <3>1. i - count \in 1..k
      BY <1>4, <1>6, <2>1
    <3>2. PICK p \in fresh : Rank(fresh, p) = i - count
      BY <1>6, <3>1
    <3> QED
      BY <1>4, <1>5, <3>1, <3>2
  <2>2. \A p \in fresh : Nth(p) \in 1..(count + k)
    BY <1>4, <1>5, <1>6
  <2>3. DOMAIN parts \subseteq 1..(count + k)
    BY <1>4, <1>6
  <2> QED
    BY <2>1, <2>2, <2>3
<1>11. DOMAIN m = D /\ \A q \in DOMAIN parts : m[q] = IF q \in DOMAIN body.parts THEN Plain(q) ELSE parts[q]
  OBVIOUS
<1>12. \A p \in fresh : m[Nth(p)] = Plain(p)
  <2> HIDE DEF fresh, Nth, Plain
  <2>1. ASSUME NEW p \in fresh PROVE (CHOOSE x \in fresh : Nth(x) = Nth(p)) = p
    BY <1>9
  <2> QED
    BY <1>8, <2>1
<1> HIDE DEF m, Plain, Nth
<1>13. ASSUME NEW q \in D PROVE m[q] \in StoredPart
  <2>1. CASE q \in DOMAIN parts
    <3>1. parts[q] \in StoredPart
      BY <1>4, <2>1, ElementOfSeq
    <3> QED
      BY <1>7, <1>11, <2>1, <3>1
  <2>2. CASE q \notin DOMAIN parts
    <3>1. PICK p \in fresh : q = Nth(p)
      BY <1>13, <2>2
    <3> QED
      BY <1>2, <1>7, <1>12, <3>1
  <2> QED
    BY <2>1, <2>2
<1>14. m \in Seq(StoredPart)
  <2>1. m = [q \in D |-> m[q]]
    BY DEF m
  <2> HIDE DEF D, k, count
  <2>2. m \in [D -> StoredPart]
    BY <1>13, <2>1
  <2>3. count + k \in Nat
    BY <1>4, <1>6
  <2> QED
    BY <1>10, <2>2, <2>3, SeqDef
<1>15. \A q \in DOMAIN parts : q \in DOMAIN m /\ (m[q].val = parts[q].val \/ m[q].val > 0)
  BY <1>7, <1>11
<1>16. ASSUME NEW p \in DOMAIN body.parts PROVE \E q \in DOMAIN m : m[q].val = body.parts[p].val
  <2>1. CASE body.parts[p].state = "new"
    <3>1. p \in fresh
      BY <2>1
    <3> QED
      BY <1>7, <1>8, <1>11, <1>12, <3>1
  <2>2. CASE body.parts[p].state # "new"
    <3>1. p \in DOMAIN parts
      BY <2>2
    <3> QED
      BY <1>7, <1>11, <3>1
  <2> QED
    BY <2>1, <2>2
<1> QED
  BY <1>1, <1>14, <1>15, <1>16

-----------------------------------------------------------------------------
(* The server executes requests, and other clients change items. *)

LEMMA NoPartsIsSeq == NoParts \in Seq(StoredPart) /\ DOMAIN NoParts = {}
<1>1. NoParts = [i \in 1..0 |-> 0]
  BY DEF NoParts
<1>2. NoParts \in [1..0 -> StoredPart] /\ 0 \in Nat
  BY <1>1
<1> QED
  BY <1>1, <1>2, SeqDef

\* Latest is the newest revision of an item that exists
LEMMA LatestIs ==
    ASSUME IInv, NEW t, Exists(published, t)
    PROVE  /\ t \in Items /\ Latest(t) = Newest(published, t) /\ Latest(t) \in Content
           /\ Latest(t).parts \in Seq(StoredPart)
<1>1. t \in Items /\ Latest(t) = Newest(published, t)
  BY DEF Exists, Latest, Newest
<1>2. Newest(published, t) \in Content
  BY NewestType DEF IInv, ServerOK
<1> QED
  BY <1>1, <1>2 DEF Content

\* What update_transaction and create_transaction publish for a save
LEMMA SavedIs ==
    ASSUME IInv, NEW q, SaveOK(q, published, next)
    PROVE  /\ Saved(q.item, q.body) \in Content
           /\ Exists(published, q.item) => \A p : HasPart(published, q.item, p) =>
                /\ p \in DOMAIN Saved(q.item, q.body).parts
                /\ \/ Saved(q.item, q.body).parts[p].val = Newest(published, q.item).parts[p].val
                   \/ Saved(q.item, q.body).parts[p].val > 0
           /\ \A s \in q.had : StoredIn(published, s) \/ s \in Stamps(Saved(q.item, q.body))
<1> DEFINE old == IF q.item \in Items THEN Latest(q.item).parts ELSE NoParts
           new == Merged(old, q.body)
           c == Saved(q.item, q.body)
<1>1. old \in Seq(StoredPart) /\ \A p : HasPart(published, q.item, p) => p \in DOMAIN old
  <2>1. CASE Exists(published, q.item)
    BY <2>1, LatestIs DEF HasPart
  <2>2. CASE ~Exists(published, q.item)
    <3>1. q.item \notin Items
      BY <2>2 DEF SaveOK, ItemId, Items, Exists
    <3> QED
      BY <2>2, <3>1, NoPartsIsSeq DEF HasPart
  <2> QED
    BY <2>1, <2>2
<1>2. IsFiniteSet(DOMAIN q.body.parts)
  BY DEF SaveOK, PartsOK
<1>3. ASSUME NEW p \in DOMAIN q.body.parts
      PROVE  /\ q.body.parts[p] \in Part /\ q.body.parts[p].val > 0
             /\ q.body.parts[p].state = "new" => p \in Int
             /\ q.body.parts[p].state # "new" => p \in DOMAIN old
  <2>1. PartOK(p, q.body.parts[p], q.item, published, next) /\ q.body.parts[p].state # "backend"
    BY DEF SaveOK, PartsOK
  <2> QED
    BY <1>1, <2>1 DEF PartOK
<1> HIDE DEF old
<1>4. /\ new \in Seq(StoredPart)
      /\ \A p \in DOMAIN old : p \in DOMAIN new /\ (new[p].val = old[p].val \/ new[p].val > 0)
      /\ \A p \in DOMAIN q.body.parts : \E x \in DOMAIN new : new[x].val = q.body.parts[p].val
  BY <1>1, <1>2, <1>3, MergedIs
<1>5. c = [fields |-> q.body.fields, deleted |-> FALSE, parts |-> new]
  BY DEF Saved, old
<1> HIDE DEF new, c
<1>6. c \in Content
  BY <1>4, <1>5 DEF Content, SaveOK
<1>7. ASSUME Exists(published, q.item), NEW p, HasPart(published, q.item, p)
      PROVE  p \in DOMAIN c.parts /\ (c.parts[p].val = Newest(published, q.item).parts[p].val \/ c.parts[p].val > 0)
  <2>1. old = Newest(published, q.item).parts
    BY <1>7, LatestIs DEF old
  <2> QED
    BY <1>4, <1>5, <1>7, <2>1 DEF HasPart
<1>8. ASSUME NEW s \in q.had PROVE StoredIn(published, s) \/ s \in Stamps(c)
  <2>1. \/ StoredIn(published, s)
        \/ s = q.body.fields
        \/ \E p \in DOMAIN q.body.parts : s = q.body.parts[p].val
    BY DEF SaveOK
  <2>2. CASE s = q.body.fields
    BY <1>5, <2>2 DEF Stamps
  <2>3. ASSUME NEW p \in DOMAIN q.body.parts, s = q.body.parts[p].val PROVE s \in Stamps(c)
    <3>1. PICK x \in DOMAIN new : new[x].val = s
      BY <1>4, <2>3
    <3> QED
      BY <1>5, <3>1 DEF Stamps
  <2> QED
    BY <2>1, <2>2, <2>3
<1> QED
  BY <1>6, <1>7, <1>8 DEF c

\* The answer to a request
LEMMA AnsweredIs ==
    ASSUME NEW q, NEW answer, NEW pub, NEW ids, RequestOK(q, pub, ids), q.stage \in {"sent", "orphan"},
           \A t \in DOMAIN answer : Exists(pub, t) /\ answer[t] \in 1..Len(pub[t]),
           q.kind # "list" => DOMAIN answer # {},
           q.kind = "save" => \A s \in q.had : StoredIn(pub, s)
    PROVE  /\ q.stage = "orphan" => Answered(q, answer) = Idle
           /\ q.stage = "sent" =>
                /\ RequestOK(Answered(q, answer), pub, ids) /\ Answered(q, answer) # Idle
                /\ Answered(q, answer).kind = q.kind /\ Answered(q, answer).item = q.item
                /\ Answered(q, answer).stage = "answered"
<1> SUFFICES ASSUME q.stage = "sent"
    PROVE  /\ RequestOK(Answered(q, answer), pub, ids) /\ Answered(q, answer) # Idle
           /\ Answered(q, answer).kind = q.kind /\ Answered(q, answer).item = q.item
           /\ Answered(q, answer).stage = "answered"
  BY DEF Answered
<1> DEFINE a == Answered(q, answer)
<1>1. a = [k \in DOMAIN q \cup {"answer"} |->
             IF k = "answer" THEN answer ELSE IF k = "stage" THEN "answered" ELSE q[k]]
  BY DEF Answered
<1>2. {"stage", "kind", "item"} \subseteq DOMAIN q
  BY DEF RequestOK
<1> HIDE DEF a
<1>3. DOMAIN a = DOMAIN q \cup {"answer"}
  BY <1>1
<1>4. a.stage = "answered" /\ a.kind = q.kind /\ a.item = q.item /\ a.answer = answer
  BY <1>1, <1>2
<1>5. AnswerOK(a, pub)
  BY <1>3, <1>4 DEF AnswerOK
<1>6. a.kind = "save" => SaveOK(a, pub, ids)
  <2> SUFFICES ASSUME a.kind = "save" PROVE SaveOK(a, pub, ids)
    OBVIOUS
  <2>1. SaveOK(q, pub, ids)
    BY <1>4 DEF RequestOK
  <2>2. a.body = q.body /\ a.had = q.had
    BY <1>1, <2>1 DEF SaveOK
  <2> QED
    BY <1>3, <1>4, <2>1, <2>2 DEF SaveOK
<1>7. RequestOK(a, pub, ids)
  BY <1>2, <1>3, <1>4, <1>5, <1>6 DEF RequestOK
<1>8. a # Idle
  BY <1>4 DEF Idle
<1> QED
  BY <1>4, <1>7, <1>8 DEF a

\* When the server answers the save of a draft, the draft has become one item.
LEMMA AnsweredOnce ==
    ASSUME IInv, NEW r \in Slots, requests[r] # Idle, requests[r].stage \in {"sent", "orphan"},
           NEW a, requests' = [requests EXCEPT ![r] = a],
           requests[r].stage = "orphan" => a = Idle,
           requests[r].stage = "sent" =>
              a # Idle /\ a.kind = requests[r].kind /\ a.item = requests[r].item /\ a.stage = "answered",
           UNCHANGED <<draft, risky>>,
           \/ UNCHANGED bornFrom
           \/ /\ Saves(r) /\ requests[r].item < 0
              /\ \E u \in Items : bornFrom' = [bornFrom EXCEPT ![u] = requests[r].item]
    PROVE  (~risky => BirthOK)'
<1> SUFFICES ASSUME ~risky' PROVE BirthOK'
  OBVIOUS
<1> DEFINE i == requests[r].item
<1>1. BirthOK
  BY DEF IInv
<1>2. requests'[r] = a /\ \A s \in Slots : s # r => requests'[s] = requests[s]
  BY DEF IInv, RequestsOK
<1>3. Saves(r) => requests[r].stage = "sent"
  BY <1>1 DEF BirthOK, NoOrphans
<1>4. /\ Saves(r)' <=> Saves(r)
      /\ Saves(r) => requests'[r].item = i /\ requests'[r].stage = "answered"
  BY <1>2, <1>3 DEF Saves
<1>5. \A s \in Slots : s # r => (Saves(s)' <=> Saves(s))
  BY <1>2 DEF Saves
<1>6. \A t \in Items : bornFrom'[t] = bornFrom[t] \/ (bornFrom'[t] = i /\ Saves(r) /\ i < 0)
  BY DEF IInv, ServerOK
<1>7. NoOrphans' /\ OneSave'
  BY <1>1, <1>2, <1>4, <1>5 DEF BirthOK, NoOrphans, OneSave
<1>8. ASSUME NEW s \in Slots, NEW t \in Items, Saves(s)', requests'[s].item < 0, requests'[s].stage = "sent"
      PROVE  bornFrom'[t] # requests'[s].item
  <2>1. s # r
    BY <1>4, <1>8
  <2>2. requests'[s] = requests[s] /\ Saves(s)
    BY <1>2, <1>5, <1>8, <2>1
  <2>3. bornFrom[t] # requests[s].item
    BY <1>1, <1>8, <2>2 DEF BirthOK, SentIsUnborn
  <2>4. Saves(r) /\ i < 0 => requests[s].item # i
    BY <1>1, <2>1, <2>2 DEF BirthOK, OneSave
  <2> QED
    BY <1>6, <2>2, <2>3, <2>4
<1>9. ASSUME NEW t \in Items, bornFrom'[t] < 0, bornFrom'[t] \in DOMAIN draft'
      PROVE  \E s \in Slots : Saves(s)' /\ requests'[s].item = bornFrom'[t] /\ requests'[s].stage = "answered"
  <2>1. CASE bornFrom'[t] = i /\ Saves(r)
    BY <1>4, <2>1
  <2>2. CASE bornFrom'[t] = bornFrom[t]
    <3>1. PICK s \in Slots : Saves(s) /\ requests[s].item = bornFrom[t] /\ requests[s].stage = "answered"
      BY <1>1, <1>9, <2>2 DEF BirthOK, BornIsAnswered
    <3>2. s # r
      BY <3>1
    <3> QED
      BY <1>2, <1>5, <2>2, <3>1, <3>2
  <2> QED
    BY <1>6, <2>1, <2>2
<1>10. BornOnce'
  <2>1. CASE UNCHANGED bornFrom
    BY <1>1, <2>1 DEF BirthOK, BornOnce
  <2>2. ASSUME Saves(r), i < 0, NEW u \in Items, bornFrom' = [bornFrom EXCEPT ![u] = i]
        PROVE  BornOnce'
    <3>1. \A t \in Items : bornFrom[t] # i
      BY <1>1, <1>3, <2>2 DEF BirthOK, SentIsUnborn
    <3>2. \A t \in Items : bornFrom'[t] = IF t = u THEN i ELSE bornFrom[t]
      BY <2>2 DEF IInv, ServerOK
    <3> QED
      BY <1>1, <3>1, <3>2 DEF BirthOK, BornOnce
  <2> QED
    BY <2>1, <2>2
<1> QED
  BY <1>7, <1>8, <1>9, <1>10 DEF BirthOK, SentIsUnborn, BornIsAnswered

\* The item a create takes is the first that has no revision
LEMMA NewItemIs ==
    ASSUME NEW t \in Items, published[t] = <<>>
    PROVE  NewItem \in Items /\ published[NewItem] = <<>>
<1> DEFINE T == {u \in Items : published[u] = <<>>}
<1>1. T \in SUBSET Nat /\ T # {}
  BY DEF Items
<1>2. PICK x \in T : \A y \in T : x <= y
  <2> HIDE DEF T
  <2> DEFINE R == {p \in Nat \X Nat : p[1] < p[2]}
  <2>1. IsWellFoundedOn(R, Nat)
    BY NatLessThanWellFounded DEF OpToRel
  <2> HIDE DEF R
  <2>2. \E x \in T : \A y \in T : <<y, x>> \notin R
    BY <1>1, <2>1, WFMin, Zenon
  <2>3. ASSUME NEW x \in Nat, NEW y \in Nat, <<y, x>> \notin R PROVE x <= y
    BY <2>3 DEF R
  <2> QED
    BY <1>1, <2>2, <2>3
<1>3. \E u \in Items : published[u] = <<>> /\ \A y \in Items : published[y] = <<>> => u <= y
  BY <1>2
<1> QED
  BY <1>3 DEF NewItem

\* A request that publishes
LEMMA PublishAnswerStep ==
    ASSUME IInv, NEW r \in Slots, requests[r] # Idle, requests[r].stage \in {"sent", "orphan"},
           requests[r].kind \in {"save", "delete"},
           NEW t \in Items, NEW c \in Content, NEW from \in Int, Publish(t, c, from),
           requests' = [requests EXCEPT ![r] = Answered(requests[r], [x \in {t} |-> Len(published'[x])])],
           UNCHANGED <<focus, store, page, events, gap, risky>>,
           \/ Exists(published, t)
           \/ Saves(r) /\ requests[r].item < 0 /\ from = requests[r].item,
           \A p : HasPart(published, t, p) =>
              /\ p \in DOMAIN c.parts
              /\ c.parts[p].val = Newest(published, t).parts[p].val \/ c.parts[p].val > 0,
           Saves(r) => \A s \in requests[r].had : StoredIn(published, s) \/ s \in Stamps(c)
    PROVE  Good
<1> DEFINE q == requests[r]
           answer == [x \in {t} |-> Len(published'[x])]
<1>0. UNCHANGED <<group, known, draft, next>> /\ next' = next
  BY DEF store
<1>1. Adds(published, t, c, published')
  BY DEF Publish, Adds, KeepsParts, IInv, ServerOK
<1>2. /\ Grown(published, next, published', next) /\ Exists(published', t)
      /\ Len(published'[t]) \in 1..Len(published'[t]) /\ published'[t][Len(published'[t])] = c
  <2>1. next \in [item : Int, part : Int]
    BY DEF IInv, IdsOK
  <2>2. /\ Grown(published, next, published', next) /\ Exists(published', t)
        /\ published'[t][Len(published'[t])] = c
    BY ONLY <1>1, <2>1, RevisionAdded
  <2>3. Len(published'[t]) \in Nat /\ Len(published'[t]) > 0
    BY <2>2, NewestType DEF Grown
  <2> QED
    BY <2>2, <2>3
<1>3. Later
  BY <1>0, <1>2 DEF Later
<1>4. RequestOK(q, published', next)
  BY <1>2, RequestKeeps DEF IInv, RequestsOK
<1>5. q.kind = "save" => \A s \in q.had : StoredIn(published', s)
  <2>1. ASSUME NEW s, StoredIn(published, s) PROVE StoredIn(published', s)
    BY <1>2, <2>1, StoredKeeps
  <2>2. ASSUME NEW s \in Stamps(c) PROVE StoredIn(published', s)
    BY <1>2 DEF StoredIn, Exists
  <2> QED
    BY <2>1, <2>2 DEF Saves
<1>6. DOMAIN answer = {t} /\ answer[t] = Len(published'[t])
  OBVIOUS
<1> HIDE DEF answer
<1>7. \A x \in DOMAIN answer : Exists(published', x) /\ answer[x] \in 1..Len(published'[x])
  BY <1>2, <1>6
<1>8. /\ q.stage = "orphan" => Answered(q, answer) = Idle
      /\ q.stage = "sent" =>
           /\ RequestOK(Answered(q, answer), published', next) /\ Answered(q, answer) # Idle
           /\ Answered(q, answer).kind = q.kind /\ Answered(q, answer).item = q.item
           /\ Answered(q, answer).stage = "answered"
  BY <1>4, <1>5, <1>6, <1>7, AnsweredIs
<1> DEFINE a == Answered(q, answer)
<1>9. requests' = [requests EXCEPT ![r] = a]
  BY DEF answer
<1> HIDE DEF a
<1>10. a = Idle \/ RequestOK(a, published', next')
  BY <1>0, <1>8 DEF a
<1>11. RequestsOK'
  BY <1>3, <1>9, <1>10, OneRequest
<1>12. /\ q.stage = "orphan" => a = Idle
       /\ q.stage = "sent" => a # Idle /\ a.kind = q.kind /\ a.item = q.item /\ a.stage = "answered"
  BY <1>8 DEF a
<1>13. \/ UNCHANGED bornFrom
       \/ /\ Saves(r) /\ requests[r].item < 0
          /\ \E u \in Items : bornFrom' = [bornFrom EXCEPT ![u] = requests[r].item]
  <2>1. CASE Exists(published, t)
    BY <2>1 DEF Publish, Exists, IInv, ServerOK
  <2>2. CASE ~Exists(published, t)
    BY <2>2 DEF Publish, Exists
  <2> QED
    BY <2>1, <2>2
<1>14. (~risky => BirthOK)'
  BY <1>0, <1>9, <1>12, <1>13, AnsweredOnce
<1>15. Exists(published, t) \/ (next.item < from /\ from <= 0)
  BY DEF Saves, IInv, RequestsOK, RequestOK, SaveOK, ItemId
<1>16. events' \in 0..MaxEvents
  BY DEF IInv, PagesOK
<1> QED
  BY <1>0, <1>11, <1>14, <1>15, <1>16, PublishStep

\* Execute keeps the invariant and neither loses nor undoes an edit
LEMMA ExecuteStep == ASSUME IInv, NEW r \in Slots, Execute(r) PROVE Good
<1> DEFINE q == requests[r]
           target == IF q.kind = "save" /\ q.item < 0 THEN NewItem ELSE q.item
<1>1. /\ q # Idle /\ q.stage \in {"sent", "orphan"}
      /\ UNCHANGED <<focus, store, page, events, gap, risky>>
  BY DEF Execute
<1>2. RequestOK(q, published, next)
  BY <1>1 DEF IInv, RequestsOK
<1>3. q.kind \in {"list", "get", "save", "delete"}
  BY <1>2 DEF RequestOK
<1>4. CASE q.kind = "save"
  <2>1. Publish(target, Saved(q.item, q.body), q.item)
    BY <1>4 DEF Execute
  <2>2. requests' = [requests EXCEPT ![r] = Answered(q, [x \in {target} |-> Len(published'[x])])]
    BY <1>4 DEF Execute
  <2>3. SaveOK(q, published, next) /\ q.item \in Int
    BY <1>2, <1>4 DEF RequestOK, SaveOK, ItemId
  <2>4. /\ Saved(q.item, q.body) \in Content
        /\ Exists(published, q.item) => \A p : HasPart(published, q.item, p) =>
             /\ p \in DOMAIN Saved(q.item, q.body).parts
             /\ \/ Saved(q.item, q.body).parts[p].val = Newest(published, q.item).parts[p].val
                \/ Saved(q.item, q.body).parts[p].val > 0
        /\ \A s \in q.had : StoredIn(published, s) \/ s \in Stamps(Saved(q.item, q.body))
    BY <2>3, SavedIs
  <2>5. CASE q.item < 0
    <3>1. target \in Items /\ ~Exists(published, target)
      BY <1>4, <2>5, NewItemIs DEF Execute, Exists
    <3> HIDE DEF target
    <3> QED
      BY <1>1, <1>4, <2>1, <2>2, <2>3, <2>4, <2>5, <3>1, PublishAnswerStep DEF Saves, HasPart
  <2>6. CASE ~(q.item < 0)
    <3>1. target = q.item /\ Exists(published, target) /\ target \in Items
      BY <2>3, <2>6 DEF SaveOK, ItemId, Exists
    <3> HIDE DEF target
    <3> QED
      BY <1>1, <1>4, <2>1, <2>2, <2>3, <2>4, <3>1, PublishAnswerStep
  <2> QED
    BY <2>5, <2>6
<1>5. CASE q.kind = "delete"
  <2>1. /\ Publish(q.item, [Latest(q.item) EXCEPT !.deleted = TRUE], 0)
        /\ requests' = [requests EXCEPT ![r] = Answered(q, [x \in {q.item} |-> Len(published'[x])])]
    BY <1>5 DEF Execute
  <2>2. Exists(published, q.item) /\ q.item \in Items
    BY <1>2, <1>5 DEF RequestOK, Exists
  <2>3. Latest(q.item) \in Content /\ Latest(q.item) = Newest(published, q.item)
    BY <2>2, LatestIs
  <2> DEFINE c == [Latest(q.item) EXCEPT !.deleted = TRUE]
  <2>4. c \in Content /\ c.parts = Newest(published, q.item).parts
    BY <2>3 DEF Content
  <2> HIDE DEF c
  <2>5. \A p : HasPart(published, q.item, p) => p \in DOMAIN c.parts
    BY <2>4 DEF HasPart
  <2>6. Publish(q.item, c, 0) /\ ~Saves(r) /\ 0 \in Int
    BY <1>5, <2>1 DEF c, Saves
  <2>7. PICK t \in Items : t = q.item
    BY <2>2
  <2>8. \A p : HasPart(published, t, p) =>
           /\ p \in DOMAIN c.parts
           /\ c.parts[p].val = Newest(published, t).parts[p].val \/ c.parts[p].val > 0
    BY <2>4, <2>5, <2>7
  <2>9. requests' = [requests EXCEPT ![r] = Answered(q, [x \in {t} |-> Len(published'[x])])]
    BY <2>1, <2>7
  <2> QED
    BY <1>1, <1>5, <2>2, <2>4, <2>6, <2>7, <2>8, <2>9, PublishAnswerStep
<1>6. CASE q.kind \in {"list", "get"}
  <2> DEFINE answer == IF q.kind = "list" THEN [t \in Existing |-> Len(published[t])]
                       ELSE [t \in {q.item} |-> Len(published'[t])]
             a == Answered(q, answer)
  <2>1. UNCHANGED <<published, bornFrom, member, news>> /\ requests' = [requests EXCEPT ![r] = a]
    BY <1>6 DEF Execute, server
  <2>2. UNCHANGED <<group, known, draft, next>>
    BY <1>1 DEF store
  <2>3. q.kind = "get" => Exists(published, q.item)
    BY <1>2 DEF RequestOK
  <2>4. /\ \A t \in DOMAIN answer : Exists(published, t) /\ answer[t] = Len(published[t])
        /\ q.kind = "get" => DOMAIN answer = {q.item}
    BY <1>6, <2>1, <2>3 DEF Existing, Exists
  <2>5. \A t : Exists(published, t) => Len(published[t]) \in 1..Len(published[t])
    <3>1. ASSUME NEW t, Exists(published, t) PROVE Len(published[t]) \in 1..Len(published[t])
      <4>1. Len(published[t]) \in Nat /\ Len(published[t]) > 0
        BY <3>1, NewestType DEF IInv, ServerOK
      <4> QED
        BY <4>1
    <3> QED
      BY <3>1
  <2> HIDE DEF answer
  <2>6. \A t \in DOMAIN answer : Exists(published, t) /\ answer[t] \in 1..Len(published[t])
    BY <2>4, <2>5
  <2>7. (q.kind # "list" => DOMAIN answer # {}) /\ q.kind # "save"
    BY <1>6, <2>4
  <2>8. /\ q.stage = "orphan" => a = Idle
        /\ q.stage = "sent" => RequestOK(a, published, next) /\ a # Idle /\ a.kind = q.kind
                               /\ a.item = q.item /\ a.stage = "answered"
    BY <1>1, <1>2, <2>6, <2>7, AnsweredIs
  <2> HIDE DEF a
  <2>9. Later /\ published' = published /\ next' = next
    BY <2>1, <2>2, SamePublished DEF IInv, IdsOK
  <2>10. a = Idle \/ RequestOK(a, published', next')
    BY <1>1, <2>8, <2>9
  <2>11. RequestsOK'
    BY <2>1, <2>9, <2>10, OneRequest
  <2>12. (~risky => BirthOK)'
    BY <1>1, <2>1, <2>2, <2>8, AnsweredOnce
  <2>13. PagesOK'
    BY <1>1, <2>1, <2>2 DEF IInv, PagesOK, Existing
  <2> QED
    BY <1>1, <2>1, <2>2, <2>11, <2>12, <2>13, RequestsOnly
<1> QED
  BY <1>3, <1>4, <1>5, <1>6

\* OtherClient keeps the invariant and neither loses nor undoes an edit
LEMMA OtherClientStep == ASSUME IInv, NEW t \in Items, OtherClient(t) PROVE Good
<1> DEFINE now == Latest(t)
           value == -Stamp
<1>1. /\ events' \in 0..MaxEvents /\ Stamp \in Int
      /\ UNCHANGED <<focus, group, known, draft, next, requests, page, gap, risky>> /\ next' = next
  BY Counted DEF OtherClient, store
<1>2. Exists(published, t)
  BY DEF OtherClient, Existing, Exists
<1>3. now \in Content /\ now = Newest(published, t) /\ now.parts \in Seq(StoredPart)
  BY <1>2, LatestIs
<1>4. ASSUME NEW c, c \in Content, Publish(t, c, 0),
             \A p : HasPart(published, t, p) =>
                /\ p \in DOMAIN c.parts
                /\ c.parts[p].val = Newest(published, t).parts[p].val \/ c.parts[p].val = -Stamp
      PROVE  Good
  <2>1. Adds(published, t, c, published')
    BY <1>4 DEF Publish, Adds, KeepsParts, IInv, ServerOK
  <2>2. next \in [item : Int, part : Int]
    BY DEF IInv, IdsOK
  <2>3. Grown(published, next, published', next)
    BY ONLY <2>1, <2>2, RevisionAdded
  <2>4. Later
    BY <1>1, <2>3 DEF Later
  <2>5. RequestsOK'
    BY <1>1, <2>4, RequestsKeep
  <2>6. UNCHANGED bornFrom
    BY <1>2, <1>4 DEF Publish, Exists, IInv, ServerOK
  <2>7. (~risky => BirthOK)'
    BY <1>1, <2>6, BirthKeeps
  <2> QED
    BY <1>1, <1>2, <1>4, <2>5, <2>7, PublishStep
<1>5. CASE Publish(t, [now EXCEPT !.fields = value], 0)
  <2> DEFINE c == [now EXCEPT !.fields = value]
  <2>1. c \in Content /\ c.parts = Newest(published, t).parts
    BY <1>1, <1>3 DEF Content
  <2> HIDE DEF c
  <2>2. Publish(t, c, 0)
    BY <1>5 DEF c
  <2> QED
    BY <1>4, <2>1, <2>2 DEF HasPart
<1>6. CASE Publish(t, [now EXCEPT !.deleted = TRUE], 0)
  <2> DEFINE c == [now EXCEPT !.deleted = TRUE]
  <2>1. c \in Content /\ c.parts = Newest(published, t).parts
    BY <1>3 DEF Content
  <2> HIDE DEF c
  <2>2. Publish(t, c, 0)
    BY <1>6 DEF c
  <2> QED
    BY <1>4, <2>1, <2>2 DEF HasPart
<1>7. ASSUME NEW p \in DOMAIN now.parts, Publish(t, [now EXCEPT !.parts[p].val = value], 0)
      PROVE  Good
  <2> DEFINE part == [now.parts[p] EXCEPT !.val = value]
             parts == [now.parts EXCEPT ![p] = part]
             c == [now EXCEPT !.parts = parts]
  <2>1. now.parts[p] \in StoredPart
    BY <1>3, ElementOfSeq
  <2>2. part \in StoredPart /\ part.val = value
    BY <1>1, <2>1 DEF StoredPart
  <2> HIDE DEF part
  <2>3. p \in 1..Len(now.parts)
    BY <1>3
  <2> HIDE DEF now
  <2>4. parts \in Seq(StoredPart) /\ DOMAIN parts = DOMAIN now.parts /\ parts[p] = part
        /\ \A x \in DOMAIN now.parts : x # p => parts[x] = now.parts[x]
    BY <1>3, <2>2, <2>3, ExceptSeq
  <2> HIDE DEF parts
  <2>5. c \in Content /\ c.parts = parts
    BY <1>3, <2>4 DEF Content
  <2>6. c = [now EXCEPT !.parts[p].val = value]
    BY DEF parts, part
  <2> HIDE DEF c
  <2>7. Publish(t, c, 0)
    BY <1>7, <2>6
  <2>8. \A x : HasPart(published, t, x) =>
           /\ x \in DOMAIN c.parts
           /\ c.parts[x].val = Newest(published, t).parts[x].val \/ c.parts[x].val = -Stamp
    BY <1>3, <2>2, <2>4, <2>5 DEF HasPart
  <2> QED
    BY <1>4, <2>5, <2>7, <2>8
<1> QED
  BY <1>5, <1>6, <1>7 DEF OtherClient

-----------------------------------------------------------------------------
(* All steps. *)

LEMMA CreateStep == ASSUME IInv, Create \/ \E t : CopyAccount(t) PROVE Good
<1>1. Edit /\ NewDraft([fields |-> Stamp, deleted |-> FALSE, parts |-> NoParts])
  BY DEF Create, CopyAccount
<1> QED
  BY <1>1, NewDraftStep

\* What the pages of the web application offer for an item; what changes its
\* parts is offered for drafts only.
LEMMA WebPartsStep ==
    ASSUME IInv, NEW t, TransactionPositions(t) \/ FileGallery(t) \/ ImageUploadDialog(t)
    PROVE  Good
<1>1. t \in DOMAIN draft
  BY DEF TransactionPositions, FileGallery, ImageUploadDialog, Drafted
<1>2. AddPart(t) \/ \E p : EditPart(t, p) \/ DeletePart(t, p)
  BY DEF TransactionPositions, FileGallery, ImageUploadDialog, PositionTableRow
<1> QED
  BY <1>1, <1>2, AddPartStep, EditPartStep, DeletePartStep

\* TransactionPages keeps the invariant and neither loses nor undoes an edit
LEMMA TransactionPagesStep == ASSUME IInv, TransactionPages PROVE Good
<1>1. CASE TransactionList \/ AccountTransactionList
  BY <1>1, CreateStep DEF TransactionList, AccountTransactionList
<1>2. ASSUME NEW t, TransactionDetail(t) PROVE Good
  <2>1. CASE TransactionActions(t)
    BY <2>1, SaveActionStep, DiscardStep, StartEditStep, DeleteStep DEF TransactionActions
  <2>2. CASE TransactionMetadata(t)
    BY <2>2, EditFieldsStep DEF TransactionMetadata
  <2>3. CASE TransactionPositions(t) \/ FileGallery(t) \/ ImageUploadDialog(t)
    BY <2>3, WebPartsStep
  <2> QED
    BY <1>2, <2>1, <2>2, <2>3 DEF TransactionDetail
<1> QED
  BY <1>1, <1>2 DEF TransactionPages

\* AccountPages keeps the invariant and neither loses nor undoes an edit
LEMMA AccountPagesStep == ASSUME IInv, AccountPages PROVE Good
<1>1. CASE PersonalAccountList \/ ClearingAccountList
  BY <1>1, CreateStep DEF PersonalAccountList, ClearingAccountList
<1>2. ASSUME NEW t, AccountInfo(t) PROVE Good
  BY <1>2, SaveActionStep, DiscardStep, EditFieldsStep, StartEditStep DEF AccountInfo
<1>3. ASSUME NEW t, DeleteAccountModal(t) PROVE Good
  BY <1>3, DeleteStep DEF DeleteAccountModal
<1>4. ASSUME NEW t, PersonalAccountListItem(t) \/ ClearingAccountListItem(t) PROVE Good
  BY <1>4, StartEditStep, CreateStep DEF PersonalAccountListItem, ClearingAccountListItem
<1> QED
  BY <1>1, <1>2, <1>3, <1>4 DEF AccountPages

\* MobileTransaction keeps the invariant and neither loses nor undoes an edit
LEMMA MobileTransactionStep ==
    ASSUME IInv, focus.app = "mobile", MobileTransactionScreens
    PROVE  Good
<1>1. CASE MobileTransactionList
  BY <1>1, CreateStep, RefreshStep DEF MobileTransactionList
<1>2. ASSUME NEW t, MobileTransactionDetail(t) PROVE Good
  <2>1. CASE EditFields(t) \/ SubmitForm(t) \/ Discard(t) \/ Delete(t)
    BY <2>1, EditFieldsStep, SubmitFormStep, DiscardStep, DeleteStep
  <2>2. CASE PositionDialog(t) \/ PositionListItem(t)
    <3>1. AddPart(t) \/ \E p : EditPart(t, p) \/ DeletePart(t, p)
      BY <2>2 DEF PositionDialog, PositionListItem
    <3> QED
      BY <3>1, AddPartStep, EditPartStep, DeletePartStep
  <2> QED
    BY <1>2, <2>1, <2>2 DEF MobileTransactionDetail
<1> QED
  BY <1>1, <1>2 DEF MobileTransactionScreens

\* MobileAccount keeps the invariant and neither loses nor undoes an edit
LEMMA MobileAccountStep == ASSUME IInv, MobileAccountScreens PROVE Good
<1>1. CASE MobileAccountList
  BY <1>1, CreateStep, RefreshStep DEF MobileAccountList
<1>2. ASSUME NEW t, MobileAccountEdit(t) \/ MobileAccountDetail(t) PROVE Good
  BY <1>2, EditFieldsStep, SubmitFormStep, DiscardStep, DeleteStep DEF MobileAccountEdit, MobileAccountDetail
<1> QED
  BY <1>1, <1>2 DEF MobileAccountScreens

\* A stuttering step keeps the invariant
LEMMA StutterStep == ASSUME IInv, UNCHANGED vars PROVE Good
<1>1. /\ UNCHANGED <<focus, published, bornFrom, member, news, group, known, draft, next, requests, page,
                     events, gap, risky>>
      /\ next' = next /\ requests' = requests
  BY DEF vars, server, store
<1>2. Later
  BY <1>1, SamePublished DEF IInv, IdsOK
<1>3. RequestsOK'
  BY <1>1, <1>2, RequestsKeep
<1>4. PagesOK'
  BY <1>1 DEF IInv, PagesOK, Existing
<1>5. (~risky => BirthOK)'
  BY <1>1, BirthKeeps
<1> QED
  BY <1>1, <1>3, <1>4, <1>5, RequestsOnly

\* Every step keeps the invariant, and no save undoes or loses an edit
LEMMA EveryStep == IInv /\ [Next]_vars => Good
<1> SUFFICES ASSUME IInv, [Next]_vars PROVE Good
  OBVIOUS
<1>1. CASE TransactionPages
  BY <1>1, TransactionPagesStep
<1>2. CASE AccountPages
  BY <1>2, AccountPagesStep
<1>3. CASE Mobile("positions") /\ MobileTransactionScreens
  BY <1>3, MobileTransactionStep DEF Mobile
<1>4. CASE MobileAccountScreens
  BY <1>4, MobileAccountStep
<1>5. CASE OpenPage \/ Refresh
  BY <1>5, OpenPageStep, RefreshStep
<1>6. CASE Leave \/ Reload
  BY <1>6, LeaveStep, ReloadStep
<1>7. CASE \E t \in Items : Notified(t) \/ OtherClient(t)
  BY <1>7, NotifiedStep, OtherClientStep
<1>8. CASE \E r \in Slots : Execute(r) \/ ReceiveList(r) \/ Receive(r) \/ Reject(r)
  BY <1>8, ExecuteStep, ReceiveListStep, ReceiveStep, RejectStep
<1>9. CASE UNCHANGED vars
  BY <1>9, StutterStep
<1> QED
  BY <1>1, <1>2, <1>3, <1>4, <1>5, <1>6, <1>7, <1>8, <1>9 DEF Next, User, changeActiveGroup

\* The invariant holds in the empty store
LEMMA InitOK == Init => IInv
<1> SUFFICES ASSUME Init PROVE IInv
  OBVIOUS
<1> DEFINE one == [val |-> 0, deleted |-> FALSE]
           first == [fields |-> 0, deleted |-> FALSE,
                     parts |-> IF focus.slice = "accounts" THEN NoParts ELSE [p \in {1} |-> one]]
<1>1. [p \in {1} |-> one] \in Seq(StoredPart)
  <2>1. [p \in {1} |-> one] = [p \in 1..1 |-> one]
    OBVIOUS
  <2>2. [p \in 1..1 |-> one] \in [1..1 -> StoredPart] /\ 1 \in Nat
    BY DEF StoredPart
  <2> QED
    BY <2>1, <2>2, SeqDef
<1>2. first \in Content
  BY <1>1, NoPartsIsSeq DEF Content
<1>3. published = [t \in Items |-> IF t # 1 THEN <<>> ELSE <<first>>]
  BY DEF Init
<1>4. /\ focus \in Focuses /\ news = {} /\ group = [present |-> FALSE, status |-> "none"]
       /\ known = NoParts /\ draft = NoParts /\ next = [item |-> -1, part |-> -1]
       /\ requests = [r \in Slots |-> Idle] /\ bornFrom = [t \in Items |-> 0]
       /\ page = FALSE /\ member = TRUE /\ gap = FALSE /\ risky = FALSE /\ events = 0
  BY DEF Init
<1> HIDE DEF first, one
<1>5. published \in [Items -> Seq(Content)]
  <2>1. <<first>> \in Seq(Content) /\ <<>> \in Seq(Content)
    BY <1>2
  <2>2. \A t \in Items : published[t] \in Seq(Content)
    BY <1>3, <2>1
  <2> QED
    BY <1>3, <2>2
<1>6. \A t : Exists(published, t) => published[t] = <<first>> /\ Len(published[t]) = 1
  BY <1>3 DEF Exists
<1>7. History(published)
  <2>1. ASSUME NEW t \in Items, NEW n \in 1..Len(published[t]), NEW p \in DOMAIN published[t][n].parts
        PROVE  HasPart(published, t, p)
    <3>1. Exists(published, t)
      BY <1>3 DEF Exists
    <3>2. published[t] = <<first>> /\ Len(published[t]) = 1
      BY <1>6, <3>1
    <3>3. n = 1
      BY <3>2
    <3> QED
      BY <3>1, <3>2, <3>3 DEF HasPart, Newest
  <2> QED
    BY <2>1 DEF History
<1>8. IdsOK(next)
  BY <1>4 DEF IdsOK
<1>9. ServerOK
  <2>1. bornFrom \in [Items -> Int] /\ next.item = -1 /\ \A t \in Items : bornFrom[t] = 0
    BY <1>4
  <2> QED
    BY <1>5, <1>7, <2>1 DEF ServerOK
<1>10. DOMAIN known = {} /\ DOMAIN draft = {}
  BY <1>4 DEF NoParts
<1>11. KnownOK /\ DraftOK /\ KnownComesFromServer
  BY <1>10, <1>4 DEF KnownOK, DraftOK, KnownComesFromServer
<1>12. RequestsOK /\ \A r \in Slots : ~Saves(r)
  BY <1>4 DEF RequestsOK, Saves
<1>13. PagesOK
  <2>1. 0 \in 0..MaxEvents
    BY StoreBounds
  <2>2. group \in [present : BOOLEAN, status : {"none", "loading", "initialized", "failed"}]
    BY <1>4
  <2> QED
    BY <1>4, <2>1, <2>2 DEF PagesOK
<1>14. BirthOK
  BY <1>12, <1>4 DEF BirthOK, NoOrphans, OneSave, SentIsUnborn, BornIsAnswered, BornOnce
<1> QED
  BY <1>8, <1>9, <1>11, <1>12, <1>13, <1>14 DEF IInv

\* The inductive invariant holds in every state
LEMMA Inductive == Spec => []IInv
<1>1. IInv /\ [Next]_vars => IInv'
  BY EveryStep DEF Good
<1> QED
  BY <1>1, InitOK, PTL DEF Spec

-----------------------------------------------------------------------------
(* Lists of ids. *)

\* Appending an id adds it to those of the list, which names none twice if it was new
LEMMA AppendedIs ==
    ASSUME NEW s \in Seq(Int), NEW e \in Int
    PROVE  /\ Append(s, e) \in Seq(Int) /\ SeqSet(Append(s, e)) = SeqSet(s) \cup {e}
           /\ HasNoTwice(s) /\ e \notin SeqSet(s) => HasNoTwice(Append(s, e))
<1> DEFINE a == Append(s, e)
<1>1. Len(s) \in Nat /\ \A i \in 1..Len(s) : s[i] \in Int
  BY ElementOfSeq
<1>2. a \in Seq(Int) /\ Len(a) = Len(s) + 1 /\ a[Len(a)] = e /\ \A i \in 1..Len(s) : a[i] = s[i]
  BY <1>1, AppendProperties
<1> HIDE DEF a
<1>3. \A i \in 1..Len(a) : i \in 1..Len(s) \/ i = Len(a)
  BY <1>1, <1>2
<1>4. 1..Len(s) \subseteq 1..Len(a) /\ Len(a) \in 1..Len(a)
  BY <1>1, <1>2
<1>5. SeqSet(a) = SeqSet(s) \cup {e}
  BY <1>2, <1>3, <1>4 DEF SeqSet
<1>6. ASSUME HasNoTwice(s), e \notin SeqSet(s), NEW i \in 1..Len(a), NEW j \in 1..Len(a), a[i] = a[j]
      PROVE  i = j
  <2>1. CASE i \in 1..Len(s) /\ j \in 1..Len(s)
    BY <1>2, <1>6, <2>1 DEF HasNoTwice
  <2>2. \A x \in 1..Len(s) : a[x] # e
    BY <1>2, <1>6 DEF SeqSet
  <2> QED
    BY <1>2, <1>3, <1>6, <2>1, <2>2
<1>7. HasNoTwice(s) /\ e \notin SeqSet(s) => HasNoTwice(a)
  BY <1>6 DEF HasNoTwice
<1> QED
  BY <1>2, <1>5, <1>7 DEF a

\* Appending an id twice adds it to those of the list
LEMMA AppendedTwice ==
    ASSUME NEW s \in Seq(Int), NEW e \in Int
    PROVE  s \o <<e, e>> \in Seq(Int) /\ SeqSet(s \o <<e, e>>) = SeqSet(s) \cup {e}
<1> DEFINE a == s \o <<e, e>>
<1>1. Len(s) \in Nat /\ <<e, e>> \in Seq(Int) /\ Len(<<e, e>>) = 2
  OBVIOUS
<1>2. /\ a \in Seq(Int) /\ Len(a) = Len(s) + 2
      /\ \A i \in 1..Len(a) : a[i] = IF i <= Len(s) THEN s[i] ELSE <<e, e>>[i - Len(s)]
  BY <1>1, ConcatProperties
<1> HIDE DEF a
<1>3. ASSUME NEW i \in 1..Len(a), ~(i <= Len(s)) PROVE a[i] = e
  <2>1. i - Len(s) \in 1..2
    BY <1>1, <1>2, <1>3
  <2>2. \A x \in 1..2 : <<e, e>>[x] = e
    OBVIOUS
  <2> QED
    BY <1>2, <1>3, <2>1, <2>2
<1>4. \A i \in 1..Len(s) : i \in 1..Len(a) /\ a[i] = s[i]
  BY <1>1, <1>2
<1>5. Len(s) + 1 \in 1..Len(a) /\ ~(Len(s) + 1 <= Len(s))
  BY <1>1, <1>2
<1>6. \A i \in 1..Len(a) : i \in 1..Len(s) \/ ~(i <= Len(s))
  BY <1>1, <1>2
<1>7. SeqSet(a) = SeqSet(s) \cup {e}
  BY <1>3, <1>4, <1>5, <1>6 DEF SeqSet
<1> QED
  BY <1>2, <1>7 DEF a

\* The rank of a place of a list among some of its places, from the first on
PlaceOf(F, i) == Cardinality({j \in F : j <= i})

\* The places are ranked 1, 2, ... without gaps
LEMMA Places ==
    ASSUME NEW F, F \subseteq Int, IsFiniteSet(F)
    PROVE  /\ Cardinality(F) \in Nat
           /\ \A i \in F : PlaceOf(F, i) \in 1..Cardinality(F)
           /\ \A i, j \in F : PlaceOf(F, i) = PlaceOf(F, j) => i = j
           /\ \A k \in 1..Cardinality(F) : \E i \in F : PlaceOf(F, i) = k
<1> DEFINE Below(p) == {q \in F : q <= p}
           k == Cardinality(F)
           rank == [p \in F |-> PlaceOf(F, p)]
<1>1. k \in Nat
  BY FS_CardinalityType
<1>2. ASSUME NEW p \in F
      PROVE  /\ IsFiniteSet(Below(p)) /\ Cardinality(Below(p)) \in Nat
             /\ Cardinality(Below(p)) # 0 /\ Cardinality(Below(p)) <= k
  <2>1. Below(p) \in SUBSET F /\ p \in Below(p)
    OBVIOUS
  <2> HIDE DEF Below
  <2>2. IsFiniteSet(Below(p)) /\ Cardinality(Below(p)) <= k
    BY <2>1, FS_Subset
  <2> QED
    BY <2>1, <2>2, FS_CardinalityType, FS_EmptySet
<1>3. ASSUME NEW p \in F, NEW q \in F, p < q PROVE Cardinality(Below(p)) # Cardinality(Below(q))
  <2>1. Below(p) \in SUBSET Below(q) /\ q \in Below(q) /\ q \notin Below(p)
    <3>1. p \in Int /\ q \in Int /\ q <= q /\ ~(q <= p)
      BY <1>3
    <3>2. ASSUME NEW x \in F, x <= p PROVE x <= q
      <4>1. x \in Int
        OBVIOUS
      <4> QED
        BY <1>3, <3>1, <3>2, <4>1
    <3> QED
      BY <3>1, <3>2
  <2> HIDE DEF Below
  <2> QED
    BY <1>2, <2>1, FS_Subset
<1>4. \A p \in F : rank[p] = Cardinality(Below(p)) /\ rank[p] = PlaceOf(F, p)
  BY DEF PlaceOf
<1>5. rank \in [F -> {rank[p] : p \in F}]
  OBVIOUS
<1> HIDE DEF Below, rank
<1>6. \A p \in F : rank[p] \in 1..k
  BY <1>1, <1>2, <1>4
<1>7. \A p, q \in F : rank[p] = rank[q] => p = q
  BY <1>3, <1>4
<1>8. rank \in Injection(F, 1..k)
  BY <1>6, <1>7, <1>5 DEF Injection, IsInjective
<1>9. IsFiniteSet(1..k) /\ Cardinality(1..k) = k
  BY <1>1, FS_Interval
<1>10. rank \in Surjection(F, 1..k)
  BY <1>8, <1>9, FS_Injection
<1> QED
  BY <1>1, <1>4, <1>6, <1>7, <1>10 DEF Surjection

\* What is filtered has the ids of the list that are in the set, none more often
LEMMA FilteredIs ==
    ASSUME NEW s \in Seq(Int), NEW S
    PROVE  /\ Filtered(s, S) \in Seq(Int) /\ SeqSet(Filtered(s, S)) = SeqSet(s) \cap S
           /\ HasNoTwice(s) => HasNoTwice(Filtered(s, S))
<1> DEFINE at == {i \in DOMAIN s : s[i] \in S}
           n == Cardinality(at)
           Nth(k) == CHOOSE i \in at : PlaceOf(at, i) = k
           f == Filtered(s, S)
<1>1. Len(s) \in Nat /\ DOMAIN s = 1..Len(s) /\ \A i \in 1..Len(s) : s[i] \in Int
  BY ElementOfSeq
<1>2. IsFiniteSet(at) /\ at \subseteq Int
  <2>1. at \in SUBSET (1..Len(s)) /\ at \subseteq Int
    BY <1>1
  <2>2. IsFiniteSet(1..Len(s))
    BY <1>1, FS_Interval
  <2> HIDE DEF at
  <2> QED
    BY <2>1, <2>2, FS_Subset
<1>3. /\ n \in Nat /\ \A i \in at : PlaceOf(at, i) \in 1..n
      /\ \A i, j \in at : PlaceOf(at, i) = PlaceOf(at, j) => i = j
      /\ \A k \in 1..n : \E i \in at : PlaceOf(at, i) = k
  BY <1>2, Places
<1>4. f = [k \in 1..n |-> s[Nth(k)]]
  BY DEF Filtered, PlaceOf
<1>5. \A i : i \in at <=> i \in 1..Len(s) /\ s[i] \in S
  BY <1>1
<1> HIDE DEF at, f, n
<1>6. \A k \in 1..n : Nth(k) \in at /\ PlaceOf(at, Nth(k)) = k
  BY <1>3
<1> HIDE DEF Nth
<1>7. f \in [1..n -> Int] /\ \A k \in 1..n : f[k] = s[Nth(k)]
  BY <1>1, <1>4, <1>5, <1>6
<1>8. f \in Seq(Int) /\ Len(f) = n
  BY <1>3, <1>7, SeqDef, LenProperties
<1>9. SeqSet(f) = SeqSet(s) \cap S
  <2>1. ASSUME NEW k \in 1..n PROVE f[k] \in SeqSet(s) \cap S
    BY <1>5, <1>6, <1>7 DEF SeqSet
  <2>2. ASSUME NEW i \in 1..Len(s), s[i] \in S PROVE \E k \in 1..n : f[k] = s[i]
    <3>1. i \in at
      BY <1>5, <2>2
    <3>2. PICK k \in 1..n : k = PlaceOf(at, i)
      BY <1>3, <3>1
    <3>3. Nth(k) = i
      BY <1>3, <1>6, <3>1, <3>2
    <3> QED
      BY <1>7, <3>3
  <2> QED
    BY <1>8, <2>1, <2>2 DEF SeqSet
<1>10. ASSUME HasNoTwice(s) PROVE HasNoTwice(f)
  <2>1. ASSUME NEW k \in 1..n, NEW m \in 1..n, f[k] = f[m] PROVE k = m
    <3>1. Nth(k) = Nth(m)
      BY <1>5, <1>6, <1>7, <1>10, <2>1 DEF HasNoTwice
    <3> QED
      BY <1>6, <3>1
  <2> QED
    BY <1>8, <2>1 DEF HasNoTwice
<1> QED
  BY <1>8, <1>9, <1>10 DEF f

-----------------------------------------------------------------------------
(* The second invariant: lists of ids, maps of items and balance effects go  *)
(* together.  A deletion leaves the effect of its item behind, so it has to  *)
(* be known that what answers a deletion is deleted.                         *)

\* Effect, with the slice as a parameter
EffectOf(slice, c) ==
    [fields |-> c.fields,
     parts |-> IF slice = "positions"
               THEN {<<p, c.parts[p].val>> : p \in {q \in DOMAIN c.parts : ~c.parts[q].deleted}}
               ELSE {}]

KnownIndex ==
    /\ knownIds \in Seq(Int) /\ SeqSet(knownIds) = DOMAIN known /\ HasNoTwice(knownIds)
    /\ focus.app = "web" =>
         \A t \in DOMAIN known : ~known[t].deleted =>
            t \in DOMAIN knownEffect /\ knownEffect[t] = EffectOf(focus.slice, known[t])

DraftIndex ==
    /\ draftIds \in Seq(Int) /\ SeqSet(draftIds) = DOMAIN draft
    /\ DOMAIN draftEffect \subseteq DOMAIN draft
    /\ \A t \in DOMAIN draftEffect : draftEffect[t] = EffectOf(focus.slice, draft[t])
    /\ focus.app = "web" => HasNoTwice(draftIds)

DeletionAnswered(q, pub) ==
    q # Idle /\ q.stage = "answered" /\ q.kind = "delete" =>
       \A t \in DOMAIN q.answer : pub[t][q.answer[t]].deleted

DeletionsOK == \A r \in Slots : DeletionAnswered(requests[r], published)

IndexOK == KnownIndex /\ DraftIndex /\ DeletionsOK

\* The effects are those the actions compute
LEMMA EffectIs == \A c : Effect(c) = EffectOf(focus.slice, c)
  BY DEF Effect, EffectOf

\* The second invariant says that the indexes agree
LEMMA IndexesFollow == IndexOK => IndexesAgree
  BY EffectIs DEF IndexOK, KnownIndex, DraftIndex, IndexesAgree

\* What the index of the known items says stays true while they stay
LEMMA KnownIndexKeeps ==
    ASSUME KnownIndex, UNCHANGED <<focus, known, knownIds, knownEffect>>
    PROVE  KnownIndex'
  BY DEF KnownIndex

\* What the index of the drafts says stays true while they stay
LEMMA DraftIndexKeeps ==
    ASSUME DraftIndex, UNCHANGED <<focus, draft, draftIds, draftEffect>>
    PROVE  DraftIndex'
  BY DEF DraftIndex

\* Published revisions stay, so what has answered a deletion stays deleted, whatever
\* becomes of other requests
LEMMA DeletionsKeep ==
    ASSUME IInv, DeletionsOK,
           \A t \in Items : \A n \in 1..Len(published[t]) : published'[t][n] = published[t][n],
           \A r \in Slots : \/ requests'[r] = requests[r]
                            \/ DeletionAnswered(requests'[r], published')
    PROVE  DeletionsOK'
<1>1. ASSUME NEW r \in Slots, requests'[r] = requests[r]
      PROVE  DeletionAnswered(requests'[r], published')
  <2> DEFINE q == requests[r]
  <2>1. SUFFICES ASSUME q # Idle, q.stage = "answered", q.kind = "delete", NEW t \in DOMAIN q.answer
                 PROVE  published'[t][q.answer[t]].deleted
    BY <1>1 DEF DeletionAnswered
  <2>2. t \in Items /\ q.answer[t] \in 1..Len(published[t])
    BY <2>1 DEF IInv, RequestsOK, RequestOK, AnswerOK, Exists
  <2>3. published[t][q.answer[t]].deleted
    BY <2>1 DEF DeletionsOK, DeletionAnswered
  <2> QED
    BY <2>2, <2>3
<1> QED
  BY <1>1 DEF DeletionsOK

\* An idle slot has no deletion to answer, nor has a request on its way
LEMMA NothingAnswered ==
    ASSUME NEW q, NEW pub, q = Idle \/ q.stage # "answered" \/ q.kind # "delete"
    PROVE  DeletionAnswered(q, pub)
  BY DEF DeletionAnswered

\* What is sent has not been answered
LEMMA SentKeeps ==
    ASSUME IInv, DeletionsOK, UNCHANGED published, NEW q, q.stage = "sent", Send(q)
    PROVE  DeletionsOK'
<1>1. PICK s \in Slots : requests' = [requests EXCEPT ![s] = q]
  BY DEF Send
<1>2. \A r \in Slots : requests'[r] = requests[r] \/ requests'[r] = q
  BY <1>1 DEF IInv, RequestsOK
<1>3. DeletionAnswered(q, published')
  BY NothingAnswered
<1> QED
  BY <1>2, <1>3, DeletionsKeep

\* A slot is emptied
LEMMA EmptiedKeeps ==
    ASSUME IInv, DeletionsOK, UNCHANGED published, NEW r \in Slots, requests' = [requests EXCEPT ![r] = Idle]
    PROVE  DeletionsOK'
<1>1. \A s \in Slots : requests'[s] = requests[s] \/ requests'[s] = Idle
  BY DEF IInv, RequestsOK
<1>2. DeletionAnswered(Idle, published')
  BY NothingAnswered
<1> QED
  BY <1>1, <1>2, DeletionsKeep

\* One draft is written: its id is in the list, twice when the reducer that changes
\* it has started it, and its effect is that of the draft, or is not kept.
LEMMA DraftPut ==
    ASSUME DraftIndex, UNCHANGED focus, NEW t \in Int, NEW c, draft' = With(draft, t, c),
           \/ draftIds' = AddId(draftIds, draft, t)
           \/ focus.app # "web" /\ t \notin DOMAIN draft /\ draftIds' = draftIds \o <<t, t>>,
           \/ draftEffect' = With(draftEffect, t, EffectOf(focus.slice, c))
           \/ /\ UNCHANGED draftEffect
              /\ t \in DOMAIN draft => EffectOf(focus.slice, draft[t]) = EffectOf(focus.slice, c)
    PROVE  DraftIndex'
<1>1. /\ DOMAIN draft' = DOMAIN draft \cup {t} /\ draft'[t] = c
      /\ \A x \in DOMAIN draft : x # t => draft'[x] = draft[x]
  BY DEF With
<1>2. /\ draftIds' \in Seq(Int) /\ SeqSet(draftIds') = DOMAIN draft'
      /\ focus.app = "web" => HasNoTwice(draftIds')
  <2>1. CASE t \in DOMAIN draft
    <3>1. draftIds' = draftIds
      BY <2>1 DEF AddId
    <3> QED
      BY <1>1, <2>1, <3>1 DEF DraftIndex
  <2>2. CASE t \notin DOMAIN draft
    <3>1. draftIds' = Append(draftIds, t) \/ (focus.app # "web" /\ draftIds' = draftIds \o <<t, t>>)
      BY <2>2 DEF AddId
    <3>2. draftIds \in Seq(Int) /\ SeqSet(draftIds) = DOMAIN draft /\ (focus.app = "web" => HasNoTwice(draftIds))
      BY DEF DraftIndex
    <3>3. CASE draftIds' = Append(draftIds, t)
      BY <1>1, <2>2, <3>2, <3>3, AppendedIs
    <3>4. CASE focus.app # "web" /\ draftIds' = draftIds \o <<t, t>>
      BY <1>1, <3>2, <3>4, AppendedTwice
    <3> QED
      BY <3>1, <3>3, <3>4
  <2> QED
    BY <2>1, <2>2
<1>3. /\ DOMAIN draftEffect' \subseteq DOMAIN draft'
      /\ \A x \in DOMAIN draftEffect' : draftEffect'[x] = EffectOf(focus.slice, draft'[x])
  <2>1. CASE draftEffect' = With(draftEffect, t, EffectOf(focus.slice, c))
    <3>1. /\ DOMAIN draftEffect' = DOMAIN draftEffect \cup {t}
          /\ draftEffect'[t] = EffectOf(focus.slice, c)
          /\ \A x \in DOMAIN draftEffect : x # t => draftEffect'[x] = draftEffect[x]
      BY <2>1 DEF With
    <3> QED
      BY <1>1, <3>1 DEF DraftIndex
  <2>2. CASE UNCHANGED draftEffect /\ (t \in DOMAIN draft => EffectOf(focus.slice, draft[t]) = EffectOf(focus.slice, c))
    BY <1>1, <2>2 DEF DraftIndex
  <2> QED
    BY <2>1, <2>2
<1> QED
  BY <1>2, <1>3 DEF DraftIndex

\* A draft is removed with its id and its effect
LEMMA DraftDropped ==
    ASSUME DraftIndex, UNCHANGED focus, NEW t, RemoveDraft(t)
    PROVE  DraftIndex'
<1>1. /\ DOMAIN draft' = DOMAIN draft \ {t} /\ \A x \in DOMAIN draft' : draft'[x] = draft[x]
      /\ DOMAIN draftEffect' = DOMAIN draftEffect \ {t}
      /\ \A x \in DOMAIN draftEffect' : draftEffect'[x] = draftEffect[x]
      /\ draftIds' = DropId(draftIds, draft, t)
  BY DEF RemoveDraft, Without
<1>2. draftIds \in Seq(Int) /\ SeqSet(draftIds) = DOMAIN draft /\ (focus.app = "web" => HasNoTwice(draftIds))
  BY DEF DraftIndex
<1>3. /\ draftIds' \in Seq(Int) /\ SeqSet(draftIds') = DOMAIN draft'
      /\ focus.app = "web" => HasNoTwice(draftIds')
  <2>1. CASE t \in DOMAIN draft
    <3>1. draftIds' = Filtered(draftIds, Int \ {t})
      BY <1>1, <2>1 DEF DropId
    <3>2. SeqSet(draftIds) \subseteq Int
      BY <1>2, ElementOfSeq DEF SeqSet
    <3> QED
      BY <1>1, <1>2, <3>1, <3>2, FilteredIs
  <2>2. CASE t \notin DOMAIN draft
    BY <1>1, <1>2, <2>2 DEF DropId
  <2> QED
    BY <2>1, <2>2
<1> QED
  BY <1>1, <1>3 DEF DraftIndex

-----------------------------------------------------------------------------
(* The steps keep the second invariant. *)

\* A step that leaves requests and revisions alone
LEMMA QuietStep ==
    ASSUME IInv, IndexOK, UNCHANGED <<published, requests>>, KnownIndex', DraftIndex'
    PROVE  IndexOK'
<1>1. DeletionsOK'
  BY DeletionsKeep DEF IndexOK
<1> QED
  BY <1>1 DEF IndexOK

\* A step that leaves the known items and the drafts alone
LEMMA SameIndexes ==
    ASSUME IndexOK, UNCHANGED <<focus, known, knownIds, knownEffect, draft, draftIds, draftEffect>>
    PROVE  KnownIndex' /\ DraftIndex'
  BY KnownIndexKeeps, DraftIndexKeeps DEF IndexOK

\* The create forms keep the indexes
LEMMA CreateIndex == ASSUME IInv, IndexOK, Create \/ \E t : CopyAccount(t) PROVE IndexOK'
<1> DEFINE c == [fields |-> Stamp, deleted |-> FALSE, parts |-> NoParts]
<1>1. Edit /\ NewDraft(c)
  BY DEF Create, CopyAccount
<1>2. /\ UNCHANGED <<focus, published, known, knownIds, knownEffect, requests>>
      /\ draft' = With(draft, next.item, c) /\ draftIds' = AddId(draftIds, draft, next.item)
      /\ draftEffect' = With(draftEffect, next.item, Effect(c))
  BY <1>1 DEF Edit, server, NewDraft
<1> HIDE DEF c
<1>3. draftEffect' = With(draftEffect, next.item, EffectOf(focus.slice, c))
  BY <1>2, EffectIs
<1>4. PICK t \in Int : t = next.item
  BY DEF IInv, IdsOK
<1>5. DraftIndex'
  BY <1>2, <1>3, <1>4, DraftPut DEF IndexOK
<1> QED
  BY <1>2, <1>5, KnownIndexKeeps, QuietStep DEF IndexOK

\* StartEdit keeps the indexes: it writes the draft and leaves its effect out
LEMMA StartEditIndex == ASSUME IInv, IndexOK, NEW t, StartEdit(t) PROVE IndexOK'
<1>1. /\ UNCHANGED <<focus, published, known, knownIds, knownEffect, requests, draftEffect>>
      /\ draft' = With(draft, t, Base(t)) /\ draftIds' = Append(draftIds, t)
      /\ t \in Visible /\ t \notin DOMAIN draft
  BY DEF StartEdit, server
<1>2. t \in Int
  BY <1>1, BaseOK DEF ItemId
<1>3. draftIds' = AddId(draftIds, draft, t)
  BY <1>1 DEF AddId
<1>4. DraftIndex'
  BY <1>1, <1>2, <1>3, DraftPut DEF IndexOK
<1> QED
  BY <1>1, <1>4, KnownIndexKeeps, QuietStep DEF IndexOK

\* What updateTransaction makes of the drafts
LEMMA UpdateIndex ==
    ASSUME IInv, IndexOK, NEW t \in Visible, NEW fields, UpdateDraft(t, fields), UNCHANGED focus,
           focus.app = "web" => t \in DOMAIN draft
    PROVE  DraftIndex'
<1> DEFINE c == [Base(t) EXCEPT !.fields = fields]
<1>1. t \in Int
  BY BaseOK DEF ItemId
<1>2. /\ draft' = With(draft, t, c)
      /\ draftIds' = IF t \in DOMAIN draft THEN draftIds ELSE draftIds \o <<t, t>>
      /\ draftEffect' = With(draftEffect, t, Effect(draft'[t]))
  BY DEF UpdateDraft
<1> HIDE DEF c
<1>3. draft'[t] = c
  BY <1>2 DEF With
<1>4. draftEffect' = With(draftEffect, t, EffectOf(focus.slice, c))
  BY <1>2, <1>3, EffectIs
<1>5. \/ draftIds' = AddId(draftIds, draft, t)
      \/ focus.app # "web" /\ t \notin DOMAIN draft /\ draftIds' = draftIds \o <<t, t>>
  BY <1>2 DEF AddId
<1> QED
  BY <1>1, <1>2, <1>4, <1>5, DraftPut DEF IndexOK

\* EditFields keeps the indexes
LEMMA EditFieldsIndex ==
    ASSUME IInv, IndexOK, NEW t, EditFields(t), focus.app = "web" => t \in DOMAIN draft
    PROVE  IndexOK'
<1>1. /\ t \in Visible /\ UpdateDraft(t, Stamp)
      /\ UNCHANGED <<focus, published, known, knownIds, knownEffect, requests>>
  BY DEF EditFields, Edit, server
<1>2. DraftIndex'
  BY <1>1, UpdateIndex
<1> QED
  BY <1>1, <1>2, KnownIndexKeeps, QuietStep DEF IndexOK

\* Changing parts keeps the indexes.  Of positions the effect is computed anew;
\* files have no effect.
LEMMA ChangePartsIndex ==
    ASSUME IInv, IndexOK, Edit, NEW t \in Visible, NEW parts, ChangeParts(t, parts),
           focus.app = "web" => t \in DOMAIN draft
    PROVE  IndexOK'
<1> DEFINE c == [Base(t) EXCEPT !.parts = parts]
<1>1. UNCHANGED <<focus, published, knownIds, knownEffect, requests>>
  BY DEF Edit, server
<1>2. /\ draft' = With(draft, t, c) /\ draftIds' = AddId(draftIds, draft, t)
      /\ known' = IF t \in DOMAIN draft THEN known ELSE [known EXCEPT ![t].parts = parts]
      /\ draftEffect' = IF focus.slice = "positions"
                        THEN With(draftEffect, t, Effect(draft'[t])) ELSE draftEffect
  BY DEF ChangeParts
<1>3. t \in Int /\ ItemOK(Base(t), t, published, next)
  BY BaseOK DEF ItemId
<1>4. c.fields = Base(t).fields
  BY <1>3 DEF ItemOK
<1> HIDE DEF c
<1>5. draft'[t] = c
  BY <1>2 DEF With
<1>6. \/ draftEffect' = With(draftEffect, t, EffectOf(focus.slice, c))
      \/ /\ UNCHANGED draftEffect
         /\ t \in DOMAIN draft => EffectOf(focus.slice, draft[t]) = EffectOf(focus.slice, c)
  <2>1. CASE focus.slice = "positions"
    BY <1>2, <1>5, <2>1, EffectIs
  <2>2. CASE focus.slice # "positions"
    BY <1>2, <1>4, <2>2 DEF EffectOf, Base
  <2> QED
    BY <2>1, <2>2
<1>7. DraftIndex'
  BY <1>1, <1>2, <1>3, <1>6, DraftPut DEF IndexOK
<1>8. KnownIndex'
  <2>1. CASE focus.app = "web"
    BY <1>1, <1>2, <2>1, KnownIndexKeeps DEF IndexOK
  <2>2. CASE focus.app # "web"
    <3>1. DOMAIN known' = DOMAIN known
      BY <1>2
    <3> QED
      BY <1>1, <2>2, <3>1 DEF IndexOK, KnownIndex
  <2> QED
    BY <2>1, <2>2
<1> QED
  BY <1>1, <1>7, <1>8, QuietStep

\* The reducers of positions and files keep the indexes
LEMMA PartsIndex ==
    ASSUME IInv, IndexOK, NEW t, focus.app = "web" => t \in DOMAIN draft,
           AddPart(t) \/ \E p : EditPart(t, p) \/ DeletePart(t, p)
    PROVE  IndexOK'
<1>1. Edit /\ t \in Visible /\ \E parts : ChangeParts(t, parts)
  BY DEF AddPart, EditPart, DeletePart
<1> QED
  BY <1>1, ChangePartsIndex

\* Discard keeps the indexes
LEMMA DiscardIndex == ASSUME IInv, IndexOK, NEW t, Discard(t) PROVE IndexOK'
<1>1. RemoveDraft(t) /\ UNCHANGED <<focus, published, known, knownIds, knownEffect, requests>>
  BY DEF Discard, server
<1>2. DraftIndex'
  BY <1>1, DraftDropped DEF IndexOK
<1> QED
  BY <1>1, <1>2, KnownIndexKeeps, QuietStep DEF IndexOK

\* A step that sends a request and may write a draft
LEMMA SendIndex ==
    ASSUME IInv, IndexOK, NEW q, q.stage = "sent", Send(q), DraftIndex',
           UNCHANGED <<focus, published, known, knownIds, knownEffect>>
    PROVE  IndexOK'
<1>1. DeletionsOK'
  BY SentKeeps DEF IndexOK
<1> QED
  BY <1>1, KnownIndexKeeps DEF IndexOK

\* Sending a save keeps the indexes
LEMMA SendSaveIndex ==
    ASSUME IInv, IndexOK, NEW t, SendSave(t), DraftIndex'
    PROVE  IndexOK'
<1> DEFINE q == SaveRequest(t, draft'[t])
<1>1. Send(q) /\ UNCHANGED <<focus, published, known, knownIds, knownEffect>>
  BY DEF SendSave, server
<1>2. q.stage = "sent"
  BY DEF SaveRequest
<1> HIDE DEF q
<1> QED
  BY <1>1, <1>2, SendIndex

\* Save and SubmitForm keep the indexes; forms are submitted on mobile screens only
LEMMA SaveIndex ==
    ASSUME IInv, IndexOK, NEW t, Save(t) \/ (focus.app # "web" /\ SubmitForm(t))
    PROVE  IndexOK'
<1>1. CASE Save(t)
  <2>1. SendSave(t) /\ UNCHANGED <<focus, draft, draftIds, draftEffect>>
    BY <1>1 DEF Save, SendSave
  <2> QED
    BY <2>1, DraftIndexKeeps, SendSaveIndex DEF IndexOK
<1>2. CASE focus.app # "web" /\ SubmitForm(t)
  <2>1. t \in Visible /\ UpdateDraft(t, Base(t).fields) /\ SendSave(t) /\ UNCHANGED focus
    BY <1>2 DEF SubmitForm, SendSave
  <2>2. DraftIndex'
    BY <1>2, <2>1, UpdateIndex
  <2> QED
    BY <2>1, <2>2, SendSaveIndex
<1> QED
  BY <1>1, <1>2

\* A request without a body is sent
LEMMA AskIndex ==
    ASSUME IInv, IndexOK, NEW kind, NEW t, Send(Request(kind, t)),
           UNCHANGED <<focus, published, known, knownIds, knownEffect, draft, draftIds, draftEffect>>
    PROVE  IndexOK'
<1>1. Request(kind, t).stage = "sent"
  BY DEF Request
<1> QED
  BY <1>1, SameIndexes, SendIndex

\* Delete keeps the indexes: it asks the server, or removes what is only local
LEMMA DeleteIndex == ASSUME IInv, IndexOK, NEW t, Delete(t) PROVE IndexOK'
<1>1. UNCHANGED <<focus, published, known, knownIds, knownEffect>>
  BY DEF Delete, server
<1>2. CASE t \in DOMAIN known
  <2>1. Send(Request("delete", t)) /\ UNCHANGED <<draft, draftIds, draftEffect>>
    BY <1>2 DEF Delete
  <2> QED
    BY <1>1, <2>1, AskIndex
<1>3. CASE t \notin DOMAIN known
  <2>1. RemoveDraft(t) /\ UNCHANGED requests
    BY <1>3 DEF Delete
  <2>2. DraftIndex'
    BY <1>1, <2>1, DraftDropped DEF IndexOK
  <2> QED
    BY <1>1, <2>1, <2>2, KnownIndexKeeps, QuietStep DEF IndexOK
<1> QED
  BY <1>2, <1>3

\* Fetching keeps the indexes
LEMMA FetchIndex ==
    ASSUME IInv, IndexOK, OpenPage \/ Refresh \/ \E t : Notified(t)
    PROVE  IndexOK'
<1>1. /\ Send(Request("list", 0)) \/ \E t : Send(Request("get", t))
      /\ UNCHANGED <<focus, published, known, knownIds, knownEffect, draft, draftIds, draftEffect>>
  BY DEF OpenPage, Refresh, Notified, FetchList, server, store
<1> QED
  BY <1>1, AskIndex

\* Leaving drops all lists and maps together
LEMMA LeaveIndex == ASSUME IInv, IndexOK, Leave PROVE IndexOK'
<1>1. /\ UNCHANGED <<published, requests>>
      /\ DOMAIN known' = {} /\ DOMAIN draft' = {} /\ DOMAIN draftEffect' = {}
      /\ knownIds' = <<>> /\ draftIds' = <<>>
  BY DEF Leave, NoParts
<1>2. <<>> \in Seq(Int) /\ SeqSet(<<>>) = {} /\ HasNoTwice(<<>>)
  BY DEF SeqSet, HasNoTwice
<1>3. KnownIndex' /\ DraftIndex'
  BY <1>1, <1>2 DEF KnownIndex, DraftIndex
<1> QED
  BY <1>1, <1>3, QuietStep

\* A restart keeps the store, and no request that was answered
LEMMA ReloadIndex == ASSUME IInv, IndexOK, Reload PROVE IndexOK'
<1>1. UNCHANGED <<focus, published, known, knownIds, knownEffect, draft, draftIds, draftEffect>>
  BY DEF Reload, server, store
<1>2. ASSUME NEW r \in Slots PROVE DeletionAnswered(requests'[r], published')
  <2>1. CASE requests'[r] = Idle
    BY <2>1, NothingAnswered
  <2>2. CASE requests'[r] = requests[r] /\ requests[r].stage = "orphan"
    BY <2>2, NothingAnswered
  <2>3. CASE requests'[r] = [requests[r] EXCEPT !.stage = "orphan"] /\ requests[r] # Idle
    <3>1. "stage" \in DOMAIN requests[r]
      BY <2>3 DEF IInv, RequestsOK, RequestOK
    <3>2. requests'[r].stage = "orphan"
      BY <2>3, <3>1
    <3> QED
      BY <3>2, NothingAnswered
  <2> QED
    BY <2>1, <2>2, <2>3 DEF Reload
<1>3. DeletionsOK'
  BY <1>2 DEF DeletionsOK
<1> QED
  BY <1>1, <1>3, SameIndexes DEF IndexOK

\* Reject keeps the indexes
LEMMA RejectIndex == ASSUME IInv, IndexOK, NEW r \in Slots, Reject(r) PROVE IndexOK'
<1>1. /\ UNCHANGED <<focus, published, known, knownIds, knownEffect, draft, draftIds, draftEffect>>
      /\ requests' = [requests EXCEPT ![r] = Idle]
  BY DEF Reject, server
<1> QED
  BY <1>1, SameIndexes, EmptiedKeeps DEF IndexOK

\* ReceiveList enters all items at once, with their ids and effects
LEMMA ReceiveListIndex == ASSUME IInv, IndexOK, NEW r \in Slots, ReceiveList(r) PROVE IndexOK'
<1> DEFINE answer == requests[r].answer
           all == [i \in Items |-> i]
<1>1. /\ requests[r] # Idle /\ requests[r].stage = "answered"
      /\ requests' = [requests EXCEPT ![r] = Idle]
      /\ UNCHANGED <<focus, published, draft, draftIds, draftEffect>>
  BY DEF ReceiveList, server
<1>2. DraftIndex' /\ DeletionsOK'
  BY <1>1, DraftIndexKeeps, EmptiedKeeps DEF IndexOK
<1>3. DOMAIN answer \subseteq Items
  BY <1>1 DEF IInv, RequestsOK, RequestOK, AnswerOK, Exists
<1>4. all \in Seq(Int) /\ SeqSet(all) = Items /\ HasNoTwice(all)
  <2>1. 1 + MaxEvents \in Nat
    BY StoreBounds
  <2>2. all \in [1..(1 + MaxEvents) -> Int]
    BY DEF Items
  <2>3. all \in Seq(Int) /\ Len(all) = 1 + MaxEvents /\ \A i \in 1..(1 + MaxEvents) : all[i] = i
    BY <2>1, <2>2, SeqDef, LenProperties DEF Items
  <2> HIDE DEF all
  <2> QED
    BY <2>3 DEF SeqSet, HasNoTwice, Items
<1> HIDE DEF all
<1>5. CASE group.present \/ focus.slice = "accounts"
  <2>1. /\ DOMAIN known' = DOMAIN answer /\ knownIds' = Filtered(all, DOMAIN answer)
        /\ knownEffect' = [t \in DOMAIN known' |-> Effect(known'[t])]
    BY <1>5 DEF ReceiveList, all
  <2>2. knownIds' \in Seq(Int) /\ SeqSet(knownIds') = DOMAIN known' /\ HasNoTwice(knownIds')
    <3> DEFINE f == Filtered(all, DOMAIN answer)
    <3>1. f \in Seq(Int) /\ SeqSet(f) = Items \cap DOMAIN answer /\ HasNoTwice(f)
      BY <1>4, FilteredIs
    <3>2. Items \cap DOMAIN answer = DOMAIN answer
      BY <1>3
    <3>3. knownIds' = f /\ DOMAIN known' = DOMAIN answer
      BY <2>1
    <3> HIDE DEF f
    <3> QED
      BY <3>1, <3>2, <3>3
  <2>3. \A t \in DOMAIN known' : t \in DOMAIN knownEffect' /\ knownEffect'[t] = EffectOf(focus.slice, known'[t])
    BY <2>1, EffectIs
  <2>4. KnownIndex'
    BY <1>1, <2>2, <2>3 DEF KnownIndex
  <2> QED
    BY <1>2, <2>4 DEF IndexOK
<1>6. CASE ~(group.present \/ focus.slice = "accounts")
  <2>1. UNCHANGED <<focus, known, knownIds, knownEffect>>
    BY <1>1, <1>6 DEF ReceiveList
  <2> QED
    BY <1>2, <2>1, KnownIndexKeeps DEF IndexOK
<1> QED
  BY <1>5, <1>6

\* One item is entered: its effect is that of the item, or the item is deleted
LEMMA KnownPut ==
    ASSUME KnownIndex, UNCHANGED focus, NEW t \in Int, NEW c, known' = With(known, t, c),
           knownIds' = AddId(knownIds, known, t),
           \/ knownEffect' = With(knownEffect, t, EffectOf(focus.slice, c))
           \/ UNCHANGED knownEffect /\ c.deleted
    PROVE  KnownIndex'
<1>1. /\ DOMAIN known' = DOMAIN known \cup {t} /\ known'[t] = c
      /\ \A x \in DOMAIN known : x # t => known'[x] = known[x]
  BY DEF With
<1>2. knownIds \in Seq(Int) /\ SeqSet(knownIds) = DOMAIN known /\ HasNoTwice(knownIds)
  BY DEF KnownIndex
<1>3. knownIds' \in Seq(Int) /\ SeqSet(knownIds') = DOMAIN known' /\ HasNoTwice(knownIds')
  <2>1. CASE t \in DOMAIN known
    BY <1>1, <1>2, <2>1 DEF AddId
  <2>2. CASE t \notin DOMAIN known
    <3>1. knownIds' = Append(knownIds, t)
      BY <2>2 DEF AddId
    <3> QED
      BY <1>1, <1>2, <2>2, <3>1, AppendedIs
  <2> QED
    BY <2>1, <2>2
<1>4. ASSUME focus.app = "web", NEW x \in DOMAIN known', ~known'[x].deleted
      PROVE  x \in DOMAIN knownEffect' /\ knownEffect'[x] = EffectOf(focus.slice, known'[x])
  <2>1. CASE knownEffect' = With(knownEffect, t, EffectOf(focus.slice, c))
    <3>1. /\ DOMAIN knownEffect' = DOMAIN knownEffect \cup {t}
          /\ knownEffect'[t] = EffectOf(focus.slice, c)
          /\ \A y \in DOMAIN knownEffect : y # t => knownEffect'[y] = knownEffect[y]
      BY <2>1 DEF With
    <3> QED
      BY <1>1, <1>4, <3>1 DEF KnownIndex
  <2>2. CASE UNCHANGED knownEffect /\ c.deleted
    BY <1>1, <1>4, <2>2 DEF KnownIndex
  <2> QED
    BY <2>1, <2>2
<1> QED
  BY <1>3, <1>4 DEF KnownIndex

\* Receive enters the item that was answered and removes the draft
LEMMA ReceiveIndex == ASSUME IInv, IndexOK, NEW r \in Slots, Receive(r) PROVE IndexOK'
<1> DEFINE q == requests[r]
           t == CHOOSE u \in DOMAIN q.answer : TRUE
           item == FromServer(t, q.answer[t])
<1>1. /\ q # Idle /\ q.stage = "answered" /\ q.kind # "list"
      /\ requests' = [requests EXCEPT ![r] = Idle]
      /\ UNCHANGED <<focus, published>>
  BY DEF Receive, server
<1>2. DeletionsOK'
  BY <1>1, EmptiedKeeps DEF IndexOK
<1>3. AnswerOK(q, published)
  BY <1>1 DEF IInv, RequestsOK, RequestOK
<1>4. t \in DOMAIN q.answer
  BY <1>1, <1>3 DEF AnswerOK
<1>5. t \in Int /\ (q.kind = "delete" => item.deleted)
  <2>1. t \in Int
    BY <1>3, <1>4 DEF AnswerOK, Exists, Items
  <2>2. q.kind = "delete" => published[t][q.answer[t]].deleted
    BY <1>1, <1>4 DEF IndexOK, DeletionsOK, DeletionAnswered
  <2>3. item.deleted = published[t][q.answer[t]].deleted
    BY DEF FromServer
  <2> QED
    BY <2>1, <2>2, <2>3
<1>6. group.present =>
         /\ known' = With(known, t, item) /\ knownIds' = AddId(knownIds, known, t)
         /\ knownEffect' = IF q.kind = "delete" THEN knownEffect ELSE With(knownEffect, t, Effect(item))
         /\ IF q.kind = "get" THEN UNCHANGED <<draft, draftIds, draftEffect>> ELSE RemoveDraft(q.item)
  BY DEF Receive, DraftOf
<1>7. ~group.present => UNCHANGED <<known, knownIds, knownEffect, draft, draftIds, draftEffect>>
  BY DEF Receive
<1> HIDE DEF t, item
<1>8. CASE group.present
  <2>1. \/ knownEffect' = With(knownEffect, t, EffectOf(focus.slice, item))
        \/ UNCHANGED knownEffect /\ item.deleted
    BY <1>5, <1>6, <1>8, EffectIs
  <2>2. KnownIndex'
    BY <1>1, <1>5, <1>6, <1>8, <2>1, KnownPut DEF IndexOK
  <2>3. DraftIndex'
    BY <1>1, <1>6, <1>8, DraftIndexKeeps, DraftDropped DEF IndexOK
  <2> QED
    BY <1>2, <2>2, <2>3 DEF IndexOK
<1>9. CASE ~group.present
  BY <1>1, <1>2, <1>7, <1>9, SameIndexes DEF IndexOK
<1> QED
  BY <1>8, <1>9

\* Publishing keeps all revisions and adds the one published
LEMMA RevisionsStay ==
    ASSUME IInv, NEW t \in Items, NEW c, NEW from, Publish(t, c, from)
    PROVE  /\ \A u \in Items : \A n \in 1..Len(published[u]) : published'[u][n] = published[u][n]
           /\ published'[t][Len(published'[t])] = c
<1>1. published \in [Items -> Seq(Content)] /\ published' = [published EXCEPT ![t] = Append(@, c)]
  BY DEF Publish, IInv, ServerOK
<1>2. published[t] \in Seq(Content \cup {c}) /\ Len(published[t]) \in Nat
  BY <1>1
<1>3. published'[t] = Append(published[t], c) /\ \A u \in Items : u # t => published'[u] = published[u]
  BY <1>1
<1>4. /\ Len(published'[t]) = Len(published[t]) + 1 /\ published'[t][Len(published'[t])] = c
      /\ \A n \in 1..Len(published[t]) : published'[t][n] = published[t][n]
  BY <1>2, <1>3, AppendProperties
<1> QED
  BY <1>3, <1>4

\* Execute touches no index, and what answers a deletion is deleted
LEMMA ExecuteIndex == ASSUME IInv, IndexOK, NEW r \in Slots, Execute(r) PROVE IndexOK'
<1> DEFINE q == requests[r]
           target == IF q.kind = "save" /\ q.item < 0 THEN NewItem ELSE q.item
           answer == IF q.kind = "list" THEN [t \in Existing |-> Len(published[t])]
                     ELSE [t \in {target} |-> Len(published'[t])]
           a == Answered(q, answer)
<1>1. /\ q # Idle /\ q.stage \in {"sent", "orphan"}
      /\ UNCHANGED <<focus, known, knownIds, knownEffect, draft, draftIds, draftEffect>>
      /\ requests' = [requests EXCEPT ![r] = a]
  BY DEF Execute, store
<1>2. RequestOK(q, published, next)
  BY <1>1 DEF IInv, RequestsOK
<1>3. \A s \in Slots : requests'[s] = requests[s] \/ requests'[s] = a
  BY <1>1 DEF IInv, RequestsOK
<1>4. a = Idle \/ (a.kind = q.kind /\ a.answer = answer)
  <2>1. CASE q.stage = "orphan"
    BY <2>1 DEF Answered
  <2>2. CASE q.stage # "orphan"
    <3>1. a = [k \in DOMAIN q \cup {"answer"} |->
                 IF k = "answer" THEN answer ELSE IF k = "stage" THEN "answered" ELSE q[k]]
      BY <2>2 DEF Answered
    <3> HIDE DEF a
    <3> QED
      BY <1>2, <3>1 DEF RequestOK
  <2> QED
    BY <2>1, <2>2
<1>5. q.kind = "delete" => target = q.item /\ answer = [t \in {q.item} |-> Len(published'[t])]
  OBVIOUS
<1>6. CASE q.kind \in {"save", "delete"}
  <2>1. \E c, from : Publish(target, c, from) /\ (q.kind = "delete" => c = [Latest(q.item) EXCEPT !.deleted = TRUE])
    BY <1>5, <1>6 DEF Execute
  <2>2. target \in Items
    <3>1. q.kind = "save" /\ q.item < 0 => NewItem \in Items
      BY NewItemIs DEF Execute
    <3>2. ~(q.kind = "save" /\ q.item < 0) => q.item \in Items
      BY <1>2, <1>6 DEF RequestOK, SaveOK, ItemId, Exists
    <3> QED
      BY <3>1, <3>2
  <2> HIDE DEF target, answer, a
  <2>3. PICK c, from : Publish(target, c, from) /\ (q.kind = "delete" => c = [Latest(q.item) EXCEPT !.deleted = TRUE])
    BY <2>1
  <2>4. /\ \A u \in Items : \A n \in 1..Len(published[u]) : published'[u][n] = published[u][n]
        /\ published'[target][Len(published'[target])] = c
    BY <2>2, <2>3, RevisionsStay
  <2>5. DeletionAnswered(a, published')
    <3>1. SUFFICES ASSUME a # Idle, a.kind = "delete", NEW t \in DOMAIN a.answer
                   PROVE  published'[t][a.answer[t]].deleted
      BY DEF DeletionAnswered
    <3>2. q.kind = "delete" /\ t = target /\ a.answer[t] = Len(published'[t])
      BY <1>4, <1>5, <3>1
    <3>3. Latest(q.item) \in Content
      BY <1>2, <3>2, LatestIs DEF RequestOK
    <3>4. c.deleted
      BY <2>3, <3>2, <3>3 DEF Content
    <3> QED
      BY <2>4, <3>2, <3>4
  <2>6. DeletionsOK'
    BY <1>3, <2>4, <2>5, DeletionsKeep DEF IndexOK
  <2> QED
    BY <1>1, <2>6, SameIndexes DEF IndexOK
<1>7. CASE q.kind \notin {"save", "delete"}
  <2>1. UNCHANGED published
    BY <1>7 DEF Execute, server
  <2> HIDE DEF a
  <2>2. DeletionAnswered(a, published')
    BY <1>4, <1>7, NothingAnswered
  <2>3. DeletionsOK'
    BY <1>3, <2>1, <2>2, DeletionsKeep DEF IndexOK
  <2> QED
    BY <1>1, <2>3, SameIndexes DEF IndexOK
<1> QED
  BY <1>6, <1>7

\* OtherClient touches no index and only adds revisions
LEMMA OtherClientIndex == ASSUME IInv, IndexOK, NEW t \in Items, OtherClient(t) PROVE IndexOK'
<1>1. UNCHANGED <<focus, known, knownIds, knownEffect, draft, draftIds, draftEffect, requests>>
  BY DEF OtherClient, store
<1>2. \E c : Publish(t, c, 0)
  BY DEF OtherClient
<1>3. PICK c : Publish(t, c, 0)
  BY <1>2
<1>4. \A u \in Items : \A n \in 1..Len(published[u]) : published'[u][n] = published[u][n]
  BY <1>3, RevisionsStay
<1>5. DeletionsOK'
  BY <1>1, <1>4, DeletionsKeep DEF IndexOK
<1> QED
  BY <1>1, <1>5, SameIndexes DEF IndexOK

\* What the web pages of transactions offer keeps the indexes
LEMMA TransactionPagesIndex == ASSUME IInv, IndexOK, TransactionPages PROVE IndexOK'
<1>1. CASE TransactionList \/ AccountTransactionList
  BY <1>1, CreateIndex DEF TransactionList, AccountTransactionList
<1>2. ASSUME NEW t, TransactionDetail(t) PROVE IndexOK'
  <2>1. CASE TransactionActions(t)
    BY <2>1, SaveIndex, DiscardIndex, StartEditIndex, DeleteIndex DEF TransactionActions
  <2>2. CASE TransactionMetadata(t)
    BY <2>2, EditFieldsIndex DEF TransactionMetadata, Drafted
  <2>3. CASE TransactionPositions(t) \/ FileGallery(t) \/ ImageUploadDialog(t)
    <3>1. t \in DOMAIN draft
      BY <2>3 DEF TransactionPositions, FileGallery, ImageUploadDialog, Drafted
    <3>2. AddPart(t) \/ \E p : EditPart(t, p) \/ DeletePart(t, p)
      BY <2>3 DEF TransactionPositions, FileGallery, ImageUploadDialog, PositionTableRow
    <3> QED
      BY <3>1, <3>2, PartsIndex
  <2> QED
    BY <1>2, <2>1, <2>2, <2>3 DEF TransactionDetail
<1> QED
  BY <1>1, <1>2 DEF TransactionPages

\* What the web pages of accounts offer keeps the indexes
LEMMA AccountPagesIndex == ASSUME IInv, IndexOK, AccountPages PROVE IndexOK'
<1>1. CASE PersonalAccountList \/ ClearingAccountList
  BY <1>1, CreateIndex DEF PersonalAccountList, ClearingAccountList
<1>2. ASSUME NEW t, AccountInfo(t) PROVE IndexOK'
  BY <1>2, SaveIndex, DiscardIndex, EditFieldsIndex, StartEditIndex DEF AccountInfo, Drafted
<1>3. ASSUME NEW t, DeleteAccountModal(t) PROVE IndexOK'
  BY <1>3, DeleteIndex DEF DeleteAccountModal
<1>4. ASSUME NEW t, PersonalAccountListItem(t) \/ ClearingAccountListItem(t) PROVE IndexOK'
  BY <1>4, StartEditIndex, CreateIndex DEF PersonalAccountListItem, ClearingAccountListItem
<1> QED
  BY <1>1, <1>2, <1>3, <1>4 DEF AccountPages

\* What the mobile screens offer keeps the indexes
LEMMA MobileIndex ==
    ASSUME IInv, IndexOK, focus.app = "mobile", MobileTransactionScreens \/ MobileAccountScreens
    PROVE  IndexOK'
<1>1. CASE MobileTransactionList \/ MobileAccountList
  BY <1>1, CreateIndex, FetchIndex DEF MobileTransactionList, MobileAccountList
<1>2. ASSUME NEW t, EditFields(t) \/ SubmitForm(t) \/ Discard(t) \/ Delete(t) PROVE IndexOK'
  BY <1>2, EditFieldsIndex, SaveIndex, DiscardIndex, DeleteIndex
<1>3. ASSUME NEW t, PositionDialog(t) \/ PositionListItem(t) PROVE IndexOK'
  <2>1. AddPart(t) \/ \E p : EditPart(t, p) \/ DeletePart(t, p)
    BY <1>3 DEF PositionDialog, PositionListItem
  <2> QED
    BY <2>1, PartsIndex
<1> QED
  BY <1>1, <1>2, <1>3 DEF MobileTransactionScreens, MobileAccountScreens, MobileTransactionDetail,
                           MobileAccountEdit, MobileAccountDetail

\* Every step keeps the second invariant
LEMMA EveryIndexStep == IInv /\ IndexOK /\ [Next]_vars => IndexOK'
<1> SUFFICES ASSUME IInv, IndexOK, [Next]_vars PROVE IndexOK'
  OBVIOUS
<1>1. CASE TransactionPages \/ AccountPages
  BY <1>1, TransactionPagesIndex, AccountPagesIndex
<1>2. CASE focus.app = "mobile" /\ (MobileTransactionScreens \/ MobileAccountScreens)
  BY <1>2, MobileIndex
<1>3. CASE OpenPage \/ Refresh \/ Leave \/ Reload
  BY <1>3, FetchIndex, LeaveIndex, ReloadIndex
<1>4. CASE \E t \in Items : Notified(t) \/ OtherClient(t)
  BY <1>4, FetchIndex, OtherClientIndex
<1>5. CASE \E r \in Slots : Execute(r) \/ ReceiveList(r) \/ Receive(r) \/ Reject(r)
  BY <1>5, ExecuteIndex, ReceiveListIndex, ReceiveIndex, RejectIndex
<1>6. CASE UNCHANGED vars
  <2>1. UNCHANGED <<focus, published, requests, known, knownIds, knownEffect, draft, draftIds, draftEffect>>
    BY <1>6 DEF vars, server, store
  <2> QED
    BY <2>1, SameIndexes, QuietStep
<1> QED
  BY <1>1, <1>2, <1>3, <1>4, <1>5, <1>6 DEF Next, User, changeActiveGroup, Mobile

\* The empty store has empty lists and maps
LEMMA InitIndex == Init => IndexOK
<1> SUFFICES ASSUME Init PROVE IndexOK
  OBVIOUS
<1>1. /\ DOMAIN known = {} /\ DOMAIN draft = {} /\ DOMAIN draftEffect = {}
      /\ knownIds = <<>> /\ draftIds = <<>> /\ requests = [r \in Slots |-> Idle]
  BY DEF Init, NoParts
<1>2. <<>> \in Seq(Int) /\ SeqSet(<<>>) = {} /\ HasNoTwice(<<>>)
  BY DEF SeqSet, HasNoTwice
<1>3. DeletionsOK
  BY <1>1, NothingAnswered DEF DeletionsOK
<1> QED
  BY <1>1, <1>2, <1>3 DEF IndexOK, KnownIndex, DraftIndex

\* The second invariant holds in every state
LEMMA IndexInductive == Spec => []IndexOK
  BY Inductive, InitIndex, EveryIndexStep, PTL DEF Spec

-----------------------------------------------------------------------------
(* The theorems. *)

\* What the store knows, drafts, and has under way is always of its type:
\* items of the server have positive ids and local ones negative ids, and a known
\* item is at a revision the server has.
THEOREM TypeCorrect == Spec => []TypeOK
  BY Inductive, InvariantsFollow, PTL

\* No draft, request, position or file ever has the local id that is handed out
\* next, over reloads and lost answers too (advanceNextLocalTransactionId).
THEOREM LocalIdsStayFresh == Spec => []LocalIdsAreFresh
  BY Inductive, InvariantsFollow, PTL

\* The web application never shows an unsaved edit as coming from the server:
\* its reducers change a draft, and the pages change drafts only.
THEOREM KnownIsFromServer == Spec => []KnownComesFromServer
  BY Inductive, InvariantsFollow, PTL

\* However requests, answers and edits interleave, a draft becomes at most one
\* item, unless two saves of it overlapped or an answer was lost.
THEOREM DraftsBecomeOneItem == Spec => []OneItemPerDraft
  BY Inductive, InvariantsFollow, PTL

\* Whatever was in a draft when its save was sent is stored by the time the
\* answer removes the draft (saveTransaction, update_transaction).
THEOREM SavesKeepEdits == Spec => SavesLoseNoEarlierEdit
<1>1. IInv /\ [Next]_vars => SaveStep
  BY EveryStep DEF Good
<1>2. SaveStep =>
        [\A t \in DOMAIN draft \ DOMAIN draft', r \in Slots :
           SavedBy(r, t) => \A stamp \in requests[r].had : Stored(stamp)]_vars
  BY DEF SaveStep
<1> QED
  BY <1>1, <1>2, Inductive, PTL DEF Spec, SavesLoseNoEarlierEdit

\* A save changes no position of the server that its user has not changed, whoever
\* changed it since the draft was started (only what is_changed is sent).
THEOREM SavesUndoNobody == Spec => NobodysPartIsUndone
<1>1. IInv /\ [Next]_vars => PartStep
  BY EveryStep DEF Good
<1>2. PartStep =>
        [\A t \in Existing : \A p \in DOMAIN Latest(t).parts :
           LET now == published'[t][Len(published'[t])].parts[p].val
           IN now # Latest(t).parts[p].val => now > 0 \/ now = -Stamp]_vars
  BY DEF PartStep
<1> QED
  BY <1>1, <1>2, Inductive, PTL DEF Spec, NobodysPartIsUndone

\* However answers, drafts and deletions interleave, the lists of ids name the items
\* the maps have, each once on the web, and the balance effects of drafts, on the web
\* those of known items too, are computed from what the items are now (addEntity,
\* removeEntity, moveTransactionToWip, updateTransactionBalanceEffect).
THEOREM IndexesAlwaysAgree == Spec => []IndexesAgree
  BY IndexInductive, IndexesFollow, PTL
=============================================================================
