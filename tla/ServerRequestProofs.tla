-------------------------- MODULE ServerRequestProofs --------------------------
(***************************************************************************)
(* Proofs about ServerRequest for any number of clients, links, keys and   *)
(* requests: references are counted truly and nothing points to a deleted  *)
(* session, an answer finds its own request although the keys come round,  *)
(* and the keys a client has queued are those of its open requests.        *)
(***************************************************************************)
EXTENDS ServerRequest, FiniteSetTheorems, SequenceTheorems, TLAPS

(***************************************************************************)
(* The inductive invariant. The number n of a request tells it apart from  *)
(* every other, so the invariant says that key and number go together.     *)
(***************************************************************************)

\* The requests of the table t are whole, and were issued.
Whole(t, max) ==
    \A k \in Keys : t[k] # Free =>
        /\ t[k].src \in Clients /\ t[k].dst \in Links
        /\ t[k].left \in 1 .. Duration /\ t[k].n \in 1 .. max

TableOK == Whole(table, issued)

\* The request of message m has its key in the table t, and no other has.
Match(t, m) ==
    \A k \in Keys : t[k] # Free =>
        /\ t[k].n = m.n <=> k = m.key
        /\ k = m.key => t[k].src = m.src

Sending == thread.at = "sending"

\* A request is sent for a client whose session is there.
SenderOK ==
    /\ thread.at \in {"idle", "sending", "crashed"}
    /\ ~Sending => thread.src = None
    /\ Sending => thread.src \in Clients /\ thread.via \in Links /\ state[thread.src] # "freed"

\* Requests and answers are those of clients.
ClientsAsk == \A m \in InFlight : m.src \in Clients

\* A session that was deleted is neither referred to nor in the slot.
FreedOK ==
    /\ \A d \in Dispatches : state[d] = "freed" => refs[d] = 0
    /\ \A c \in Clients : state[c] = "freed" => ~client[c].character
    /\ slot # None => Served(slot) /\ slot \in loggedIn

\* First part: the references.
Books ==
    /\ TypeOK /\ TableOK /\ SenderOK /\ ClientsAsk
    /\ RefsAccounted /\ FreedOK /\ EmptyAfterRemoveAll

\* The process thread is about to send the newest request. The main thread may have
\* removed it, but then its client is known to have lost one.
NewestOK == Sending =>
    /\ thread.n = issued /\ issued # 0 /\ thread.kind # "deposit"
    /\ Match(table, thread)
    /\ thread.src \notin unordered => Pending(thread.key)

\* A number that was sent: while a request is being sent, all but the newest.
Numbered(n) == n \in 1 .. issued /\ (Sending => n # issued)

MessageOK ==
    /\ \A m \in InFlight : Numbered(m.n) /\ Match(table, m)
    /\ \A m \in asked : m.kind # "deposit" /\ m.via \in Links

\* Two answers to one request are the two to a login.
OneAnswer ==
    /\ \A p, q \in asked : p.n = q.n => p = q
    /\ \A l \in Links : \A i \in DOMAIN answers[l] :
          /\ \A m \in asked : m.n # answers[l][i].n
          /\ \A h \in Links : \A j \in DOMAIN answers[h] :
                answers[l][i].n = answers[h][j].n
                    => answers[l][i].kind \in {"login", "deposit"} \/ (h = l /\ j = i)

\* Second part: keys and numbers of the requests under way.
Mail == NewestOK /\ MessageOK /\ OneAnswer

Waits(c) == {waiting[c][i] : i \in DOMAIN waiting[c]}

\* The deposit comes behind the login, which ends the waiting.
LoginFirst ==
    \A l \in Links : \A i \in DOMAIN answers[l] : answers[l][i].kind = "deposit" =>
        \/ answers[l][i].n \notin Waits(answers[l][i].src)
        \/ \E j \in DOMAIN answers[l] :
              j < i /\ answers[l][j].n = answers[l][i].n /\ answers[l][j].kind = "login"

\* keys are those of the requests that c waits for, w, in the table t.
InStep(t, c, keys, w) ==
    /\ Len(keys) = Len(w)
    /\ \A i \in 1 .. Len(keys) : t[keys[i]].src = c /\ t[keys[i]].n = w[i]

\* What is under way for n, if anything, is a move.
IsMove(n) == \A m \in InFlight : m.n = n => m.kind = "move"

WaitOK(c) ==
    /\ \A i \in DOMAIN waiting[c] : Numbered(waiting[c][i])
    /\ \A i, j \in DOMAIN waiting[c] : i < j => waiting[c][i] < waiting[c][j]
    /\ c \in unordered => waiting[c] = <<>>
    /\ c \notin unordered =>
          /\ InStep(table, c, client[c].keys, waiting[c])
          /\ "MOVEZONE_PROCESSED" \in client[c].flags => \E n \in Waits(c) : IsMove(n)

\* Third part: what clients wait for.
Turns == LoginFirst /\ \A c \in Clients : WaitOK(c)

IInv == Books /\ Mail /\ Turns

-----------------------------------------------------------------------------
(* Counting the requests of a session.                                       *)

Srcs(t, c) == {k \in Keys : t[k].src = c}
Dsts(t, l) == {k \in Keys : t[k].dst = l}

\* What RefsAccounted says of the table t, the references r, the requests p that were
\* answered and the link s in the slot.
Counts(t, r, p, s) ==
    /\ \A c \in Clients : r[c] = Cardinality(Srcs(t, c))
    /\ \A l \in Links : r[l] = Cardinality(Dsts(t, l)) + p[l] + IF l = s THEN 1 ELSE 0

\* A set of keys is finite.
LEMMA KeysAreFinite ==
    ASSUME NEW K \in SUBSET Keys
    PROVE  IsFiniteSet(K) /\ Cardinality(K) \in Nat
<1>1. IsFiniteSet(Keys)
    BY RequestAssumption, FS_Interval DEF Keys
<1>. QED BY <1>1, FS_Subset, FS_CardinalityType

\* A client is the source of its requests, and a link the destination.
LEMMA RequestsCounted ==
    ASSUME TableOK
    PROVE  RefsAccounted <=> Counts(table, refs, popped, slot)
<1>1. ASSUME NEW c \in Clients
      PROVE  Requests(c) = Cardinality(Srcs(table, c))
    <2>1. {k \in Keys : Pending(k) /\ c \in {table[k].src, table[k].dst}} = Srcs(table, c)
        BY RequestAssumption DEF TableOK, Whole, Pending, Srcs, Free
    <2>. QED BY <2>1 DEF Requests
<1>2. ASSUME NEW l \in Links
      PROVE  Requests(l) = Cardinality(Dsts(table, l))
    <2>1. {k \in Keys : Pending(k) /\ l \in {table[k].src, table[k].dst}} = Dsts(table, l)
        BY RequestAssumption DEF TableOK, Whole, Pending, Dsts, Free
    <2>. QED BY <2>1 DEF Requests
<1>. QED BY <1>1, <1>2 DEF RefsAccounted, Counts

\* The same, of the next state.
LEMMA NextCounted ==
    ASSUME TableOK'
    PROVE  RefsAccounted' <=> Counts(table', refs', popped', slot')
<1>1. (TableOK => (RefsAccounted <=> Counts(table, refs, popped, slot)))'
    BY RequestsCounted, PTL
<1>. QED BY <1>1

\* A request more.
LEMMA OneMore ==
    ASSUME NEW t \in [Keys -> Entry], NEW k \in Keys, t[k] = Free, NEW e \in Entry,
           e.src # None, e.dst # None
    PROVE  LET u == [t EXCEPT ![k] = e]
           IN  /\ \A d \in Dispatches : Cardinality(Srcs(u, d)) =
                     Cardinality(Srcs(t, d)) + IF d = e.src THEN 1 ELSE 0
               /\ \A d \in Dispatches : Cardinality(Dsts(u, d)) =
                     Cardinality(Dsts(t, d)) + IF d = e.dst THEN 1 ELSE 0
<1>. DEFINE u == [t EXCEPT ![k] = e]
<1>1. /\ u[k] = e /\ t[k].src = None /\ t[k].dst = None
      /\ \A j \in Keys \ {k} : u[j] = t[j]
    BY DEF Free
<1>. HIDE DEF u
<1>2. ASSUME NEW d \in Dispatches
      PROVE  Cardinality(Srcs(u, d)) = Cardinality(Srcs(t, d)) + IF d = e.src THEN 1 ELSE 0
    <2>0. Srcs(t, d) \in SUBSET Keys /\ k \notin Srcs(t, d)
        BY <1>1, RequestAssumption DEF Srcs, Dispatches
    <2>1. CASE d = e.src
        <3>1. Srcs(u, d) = Srcs(t, d) \union {k}
            BY <1>1, <2>1 DEF Srcs
        <3>. QED BY <2>0, <2>1, <3>1, KeysAreFinite, FS_AddElement
    <2>2. CASE d # e.src
        <3>1. Srcs(u, d) = Srcs(t, d)
            BY <1>1, <2>0, <2>2 DEF Srcs
        <3>. QED BY <2>0, <2>2, <3>1, KeysAreFinite
    <2>. QED BY <2>1, <2>2
<1>3. ASSUME NEW d \in Dispatches
      PROVE  Cardinality(Dsts(u, d)) = Cardinality(Dsts(t, d)) + IF d = e.dst THEN 1 ELSE 0
    <2>0. Dsts(t, d) \in SUBSET Keys /\ k \notin Dsts(t, d)
        BY <1>1, RequestAssumption DEF Dsts, Dispatches
    <2>1. CASE d = e.dst
        <3>1. Dsts(u, d) = Dsts(t, d) \union {k}
            BY <1>1, <2>1 DEF Dsts
        <3>. QED BY <2>0, <2>1, <3>1, KeysAreFinite, FS_AddElement
    <2>2. CASE d # e.dst
        <3>1. Dsts(u, d) = Dsts(t, d)
            BY <1>1, <2>0, <2>2 DEF Dsts
        <3>. QED BY <2>0, <2>2, <3>1, KeysAreFinite
    <2>. QED BY <2>1, <2>2
<1>. QED BY <1>2, <1>3 DEF u

\* The requests K less.
LEMMA ManyLess ==
    ASSUME TypeOK, NEW K \in SUBSET Keys, NEW d \in Dispatches
    PROVE  /\ Cardinality(Srcs(Removed(K), d)) =
                 Cardinality(Srcs(table, d)) - Cardinality({k \in K : table[k].src = d})
           /\ Cardinality(Dsts(Removed(K), d)) =
                 Cardinality(Dsts(table, d)) - Cardinality({k \in K : table[k].dst = d})
<1>1. d # None /\ Free.src = None /\ Free.dst = None
    BY RequestAssumption DEF Free, Dispatches
<1>2. ASSUME NEW S \in SUBSET Keys, NEW T \in SUBSET S
      PROVE  Cardinality(S \ T) = Cardinality(S) - Cardinality(T)
    <2>1. IsFiniteSet(S) /\ S \intersect T = T
        BY <1>2, KeysAreFinite
    <2>2. Cardinality(S \ T) = Cardinality(S) - Cardinality(S \intersect T)
        BY <2>1, FS_Difference
    <2>. QED BY <2>1, <2>2
<1>3. Srcs(Removed(K), d) = Srcs(table, d) \ {k \in K : table[k].src = d}
    BY <1>1 DEF Srcs, Removed
<1>4. Dsts(Removed(K), d) = Dsts(table, d) \ {k \in K : table[k].dst = d}
    BY <1>1 DEF Dsts, Removed
<1>5. /\ {k \in K : table[k].src = d} \in SUBSET Srcs(table, d) /\ Srcs(table, d) \in SUBSET Keys
      /\ {k \in K : table[k].dst = d} \in SUBSET Dsts(table, d) /\ Dsts(table, d) \in SUBSET Keys
    BY DEF Srcs, Dsts
<1>. QED BY <1>2, <1>3, <1>4, <1>5

\* ProcessRemove gives back what the requests hold, whichever they are.
LEMMA CountsRemoved ==
    ASSUME TypeOK, Counts(table, refs, popped, slot), NEW K \in SUBSET Keys
    PROVE  Counts(Removed(K), Released(K), popped, slot)
<1>1. ASSUME NEW c \in Clients
      PROVE  Released(K)[c] = Cardinality(Srcs(Removed(K), c))
    <2>1. {k \in K : table[k].dst = c} = {}
        BY RequestAssumption DEF TypeOK, Entry
    <2>2. Released(K)[c] = refs[c] - Cardinality({k \in K : table[k].src = c}) - 0
        BY <2>1, FS_EmptySet DEF Released, Dispatches
    <2>3. Cardinality({k \in K : table[k].src = c}) \in Nat /\ refs[c] \in Nat
        BY KeysAreFinite DEF TypeOK, Dispatches
    <2>4. Cardinality(Srcs(Removed(K), c)) =
             Cardinality(Srcs(table, c)) - Cardinality({k \in K : table[k].src = c})
        BY ManyLess DEF Dispatches
    <2>. QED BY <2>2, <2>3, <2>4 DEF Counts
<1>2. ASSUME NEW l \in Links
      PROVE  Released(K)[l] = Cardinality(Dsts(Removed(K), l)) + popped[l] + IF l = slot THEN 1 ELSE 0
    <2>1. {k \in K : table[k].src = l} = {}
        BY RequestAssumption DEF TypeOK, Entry
    <2>2. Released(K)[l] = refs[l] - 0 - Cardinality({k \in K : table[k].dst = l})
        BY <2>1, FS_EmptySet DEF Released, Dispatches
    <2>3. /\ Cardinality({k \in K : table[k].dst = l}) \in Nat /\ refs[l] \in Nat /\ popped[l] \in Nat
          /\ Cardinality(Dsts(table, l)) \in Nat
        BY KeysAreFinite DEF TypeOK, Dispatches, Dsts
    <2>4. Cardinality(Dsts(Removed(K), l)) =
             Cardinality(Dsts(table, l)) - Cardinality({k \in K : table[k].dst = l})
        BY ManyLess DEF Dispatches
    <2>5. refs[l] = Cardinality(Dsts(table, l)) + popped[l] + IF l = slot THEN 1 ELSE 0
        BY DEF Counts
    <2>. QED BY <2>2, <2>3, <2>4, <2>5
<1>. QED BY <1>1, <1>2 DEF Counts

\* PopRequest gives back the client's reference only, and the count of popped requests
\* says so.
LEMMA CountsPopped ==
    ASSUME TypeOK, TableOK, Counts(table, refs, popped, slot), NEW k \in Keys, Pending(k)
    PROVE  Counts(Removed({k}), [refs EXCEPT ![table[k].src] = @ - 1],
                  [popped EXCEPT ![table[k].dst] = @ + 1], slot)
<1>. DEFINE s == table[k].src
            e == table[k].dst
            r == [refs EXCEPT ![s] = @ - 1]
            p == [popped EXCEPT ![e] = @ + 1]
<1>1. s \in Clients /\ e \in Links /\ refs \in [Dispatches -> Nat] /\ popped \in [Links -> Nat]
    BY DEF TableOK, Whole, Pending, TypeOK
<1>2. /\ \A d \in Dispatches : r[d] = IF d = s THEN refs[d] - 1 ELSE refs[d]
      /\ \A l \in Links : p[l] = IF l = e THEN popped[l] + 1 ELSE popped[l]
    BY <1>1 DEF Dispatches
<1>3. ASSUME NEW d \in Dispatches
      PROVE  /\ Cardinality({j \in {k} : table[j].src = d}) = IF d = s THEN 1 ELSE 0
             /\ Cardinality({j \in {k} : table[j].dst = d}) = IF d = e THEN 1 ELSE 0
    <2>1. /\ {j \in {k} : table[j].src = d} = IF d = s THEN {k} ELSE {}
          /\ {j \in {k} : table[j].dst = d} = IF d = e THEN {k} ELSE {}
        OBVIOUS
    <2>. QED BY <2>1, FS_EmptySet, FS_Singleton
<1>4. ASSUME NEW d \in Dispatches
      PROVE  /\ Cardinality(Srcs(Removed({k}), d)) = Cardinality(Srcs(table, d)) - IF d = s THEN 1 ELSE 0
             /\ Cardinality(Dsts(Removed({k}), d)) = Cardinality(Dsts(table, d)) - IF d = e THEN 1 ELSE 0
    <2>. HIDE DEF s, e
    <2>1. {k} \in SUBSET Keys
        OBVIOUS
    <2>. QED BY <1>3, <2>1, ManyLess
<1>. HIDE DEF s, e, r, p
<1>5. ASSUME NEW c \in Clients
      PROVE  r[c] = Cardinality(Srcs(Removed({k}), c))
    <2>1. c \in Dispatches /\ refs[c] \in Nat /\ refs[c] = Cardinality(Srcs(table, c))
        BY <1>1 DEF Counts, Dispatches
    <2>2. r[c] = IF c = s THEN refs[c] - 1 ELSE refs[c]
        BY <1>2, <2>1
    <2>3. Cardinality(Srcs(Removed({k}), c)) = Cardinality(Srcs(table, c)) - IF c = s THEN 1 ELSE 0
        BY <1>4, <2>1
    <2>. QED BY <2>1, <2>2, <2>3
<1>6. ASSUME NEW l \in Links
      PROVE  r[l] = Cardinality(Dsts(Removed({k}), l)) + p[l] + IF l = slot THEN 1 ELSE 0
    <2>1. /\ l \in Dispatches /\ refs[l] \in Nat /\ popped[l] \in Nat /\ l # s
          /\ refs[l] = Cardinality(Dsts(table, l)) + popped[l] + IF l = slot THEN 1 ELSE 0
          /\ Cardinality(Dsts(table, l)) \in Nat
        BY <1>1, RequestAssumption, KeysAreFinite DEF Counts, Dispatches, Dsts
    <2>2. r[l] = refs[l]
        BY <1>2, <2>1
    <2>3. Cardinality(Dsts(Removed({k}), l)) = Cardinality(Dsts(table, l)) - IF l = e THEN 1 ELSE 0
        BY <1>4, <2>1
    <2>4. p[l] = popped[l] + IF l = e THEN 1 ELSE 0
        BY <1>2, <2>1
    <2>. QED BY <2>1, <2>2, <2>3, <2>4
<1>. QED BY <1>5, <1>6 DEF Counts, s, e, r, p

\* A request that is added holds its client and the link in the slot.
LEMMA CountsAdded ==
    ASSUME NEW t \in [Keys -> Entry], NEW r \in [Dispatches -> Int], NEW p \in [Links -> Nat],
           Counts(t, r, p, slot), slot \in Links, NEW c \in Clients, NEW k \in Keys, t[k] = Free,
           NEW e \in Entry, e.src = c, e.dst = slot
    PROVE  Counts([t EXCEPT ![k] = e], [r EXCEPT ![c] = @ + 1, ![slot] = @ + 1], p, slot)
<1>. DEFINE u == [t EXCEPT ![k] = e]
            q == [r EXCEPT ![c] = @ + 1, ![slot] = @ + 1]
<1>1. c # slot /\ c # None /\ slot # None /\ slot \notin Clients
    BY RequestAssumption
<1>2. \A d \in Dispatches : q[d] = IF d = c \/ d = slot THEN r[d] + 1 ELSE r[d]
    BY <1>1 DEF Dispatches
<1>3. \A d \in Dispatches :
         /\ Cardinality(Srcs(u, d)) = Cardinality(Srcs(t, d)) + IF d = c THEN 1 ELSE 0
         /\ Cardinality(Dsts(u, d)) = Cardinality(Dsts(t, d)) + IF d = slot THEN 1 ELSE 0
    BY <1>1, OneMore
<1>. HIDE DEF u, q
<1>4. ASSUME NEW d \in Clients
      PROVE  q[d] = Cardinality(Srcs(u, d))
    <2>1. d \in Dispatches /\ d # slot /\ r[d] = Cardinality(Srcs(t, d)) /\ r[d] \in Int
        BY <1>1 DEF Dispatches, Counts
    <2>. QED BY <1>2, <1>3, <2>1
<1>5. ASSUME NEW l \in Links
      PROVE  q[l] = Cardinality(Dsts(u, l)) + p[l] + IF l = slot THEN 1 ELSE 0
    <2>1. /\ l \in Dispatches /\ l # c /\ r[l] \in Int /\ p[l] \in Nat
          /\ r[l] = Cardinality(Dsts(t, l)) + p[l] + IF l = slot THEN 1 ELSE 0
          /\ Cardinality(Dsts(t, l)) \in Nat
        BY RequestAssumption, KeysAreFinite DEF Dispatches, Counts, Dsts
    <2>2. Cardinality(Dsts(u, l)) = Cardinality(Dsts(t, l)) + IF l = slot THEN 1 ELSE 0
        BY <1>3, <2>1
    <2>3. q[l] = IF l = slot THEN r[l] + 1 ELSE r[l]
        BY <1>2, <2>1
    <2>. QED BY <2>1, <2>2, <2>3
<1>. QED BY <1>4, <1>5 DEF Counts, u, q

\* Only the sources and the destinations count.
LEMMA CountsSame ==
    ASSUME NEW t, NEW u, NEW r, NEW p, NEW s, Counts(t, r, p, s),
           \A k \in Keys : u[k].src = t[k].src /\ u[k].dst = t[k].dst
    PROVE  Counts(u, r, p, s)
<1>1. \A d : Srcs(u, d) = Srcs(t, d) /\ Dsts(u, d) = Dsts(t, d)
    BY DEF Srcs, Dsts
<1>. QED BY <1>1 DEF Counts

\* References that are counted are not below zero.
LEMMA CountsAreNat ==
    ASSUME NEW t, NEW r \in [Dispatches -> Int], NEW p \in [Links -> Nat], NEW s, Counts(t, r, p, s)
    PROVE  r \in [Dispatches -> Nat]
<1>1. ASSUME NEW d \in Dispatches
      PROVE  r[d] \in Nat
    <2>1. Cardinality(Srcs(t, d)) \in Nat /\ Cardinality(Dsts(t, d)) \in Nat
        BY KeysAreFinite DEF Srcs, Dsts
    <2>2. CASE d \in Clients
        BY <2>1, <2>2 DEF Counts
    <2>3. CASE d \in Links
        BY <2>1, <2>3 DEF Counts
    <2>. QED BY <2>2, <2>3 DEF Dispatches
<1>. QED BY <1>1

-----------------------------------------------------------------------------
(* The constructor of CDBRequest, seen from the handler that calls it.       *)

NewEntry(c) == [src |-> c, dst |-> slot, left |-> Duration, n |-> issued + 1]

NotAdded(t, r) ==
    table' = t /\ refs' = r /\ thread' = Idle /\ issued' = issued /\ counter' \in Keys

Added(t, r, c, via, kind, k) ==
    /\ slot # None /\ main = "running" /\ t[k] = Free /\ k # 0 /\ counter' \in Keys
    /\ table' = [t EXCEPT ![k] = NewEntry(c)]
    /\ refs' = [r EXCEPT ![c] = @ + 1, ![slot] = @ + 1]
    /\ issued' = issued + 1
    /\ thread' = [at |-> "sending", key |-> k, src |-> c, n |-> issued + 1, kind |-> kind, via |-> via]

\* Either a request is added under the next key, or nothing is but for the counter.
LEMMA AddsOrNot ==
    ASSUME TypeOK, NEW t, NEW r, NEW c, NEW via, NEW kind, AddRequest(t, r, c, via, kind)
    PROVE  /\ NextKey \in Keys
           /\ NotAdded(t, r) \/ Added(t, r, c, via, kind, NextKey)
<1>1. counter \in 0 .. Width - 1 /\ Width \in Nat \ {0, 1}
    BY RequestAssumption DEF TypeOK, Keys
<1>2. NextKey \in Keys /\ NextKey # 0 /\ (NextKey + 1) % Width \in Keys
    BY <1>1 DEF NextKey, Keys
<1>. HIDE DEF NextKey
<1>3. CASE slot = None \/ main # "running"
    BY <1>2, <1>3 DEF AddRequest, NotAdded, TypeOK
<1>4. CASE slot # None /\ main = "running" /\ t[NextKey] # Free
    BY <1>2, <1>4 DEF AddRequest, NotAdded
<1>5. CASE slot # None /\ main = "running" /\ t[NextKey] = Free
    BY <1>2, <1>5 DEF AddRequest, Added, NewEntry
<1>. QED BY <1>2, <1>3, <1>4, <1>5 DEF TypeOK

-----------------------------------------------------------------------------
(* First part of the invariant: the references.                              *)

\* The table t is the table after a tick, or without some of its requests.
Lesser(t) ==
    /\ t \in [Keys -> Entry]
    /\ \A k \in Keys : t[k] # Free =>
          /\ Pending(k) /\ t[k].left \in 1 .. Duration
          /\ t[k].src = table[k].src /\ t[k].dst = table[k].dst /\ t[k].n = table[k].n

\* Such a table is whole.
LEMMA LesserIsWhole ==
    ASSUME TypeOK, TableOK, NEW t, Lesser(t)
    PROVE  t[0] = Free /\ Whole(t, issued)
<1>1. 0 \in Keys
    BY RequestAssumption DEF Keys
<1>. QED BY <1>1 DEF TypeOK, TableOK, Whole, Lesser, Pending

\* Requests are removed, ...
LEMMA RemovedIsLesser ==
    ASSUME TypeOK, TableOK, NEW K \in SUBSET Keys
    PROVE  Lesser(Removed(K))
<1>1. Free \in Entry
    BY RequestAssumption DEF Free, Entry
<1>. QED BY <1>1 DEF TypeOK, TableOK, Whole, Lesser, Pending, Removed

\* ... or the time of the others is counted down.
LEMMA TickIsLesser ==
    ASSUME TypeOK, TableOK, Tick
    PROVE  Lesser(table')
<1>. DEFINE over == {k \in Keys : Pending(k) /\ table[k].left = 1}
<1>1. Free \in Entry
    BY RequestAssumption DEF Free, Entry
<1>2. table' = [k \in Keys |-> IF Pending(k) /\ k \notin over
                               THEN [table[k] EXCEPT !.left = @ - 1] ELSE Free]
    BY DEF Tick
<1>3. ASSUME NEW k \in Keys, Pending(k), k \notin over
      PROVE  LET e == [table[k] EXCEPT !.left = @ - 1]
             IN  /\ e \in Entry /\ e.left \in 1 .. Duration
                 /\ e.src = table[k].src /\ e.dst = table[k].dst /\ e.n = table[k].n
    <2>1. /\ table[k] \in Entry /\ table[k].left \in 1 .. Duration /\ table[k].left # 1
          /\ Duration \in Nat
        BY <1>3, RequestAssumption DEF TypeOK, TableOK, Whole, Pending
    <2>2. table[k].left - 1 \in 1 .. Duration /\ table[k].left - 1 \in 0 .. Duration
        BY <2>1
    <2>. QED BY <2>1, <2>2 DEF Entry
<1>. HIDE DEF over
<1>4. \A k \in Keys : table'[k] = IF Pending(k) /\ k \notin over
                                  THEN [table[k] EXCEPT !.left = @ - 1] ELSE Free
    BY <1>2
<1>5. table' \in [Keys -> Entry]
    BY <1>1, <1>2, <1>3
<1>. QED BY <1>3, <1>4, <1>5 DEF Lesser

\* The references that are left are numbers.
LEMMA ReleasedIsInt ==
    ASSUME TypeOK, NEW K \in SUBSET Keys
    PROVE  Released(K) \in [Dispatches -> Int]
<1>1. ASSUME NEW d \in Dispatches
      PROVE  /\ Cardinality({k \in K : table[k].src = d}) \in Nat
             /\ Cardinality({k \in K : table[k].dst = d}) \in Nat
    BY KeysAreFinite
<1>2. refs \in [Dispatches -> Nat]
    BY DEF TypeOK
<1>3. ASSUME NEW d \in Dispatches
      PROVE  refs[d] - Cardinality({k \in K : table[k].src = d})
                     - Cardinality({k \in K : table[k].dst = d}) \in Int
    BY <1>1, <1>2
<1>. QED BY <1>3 DEF Released

\* Both ends of a request have a reference.
LEMMA PendingIsHeld ==
    ASSUME Books, NEW k \in Keys, Pending(k)
    PROVE  /\ table[k].src \in Clients /\ refs[table[k].src] # 0 /\ state[table[k].src] # "freed"
           /\ table[k].dst \in Links /\ refs[table[k].dst] # 0 /\ state[table[k].dst] # "freed"
<1>1. table[k].src \in Clients /\ table[k].dst \in Links
    BY DEF Books, TableOK, Whole, Pending
<1>2. Counts(table, refs, popped, slot)
    BY RequestsCounted DEF Books
<1>3. ASSUME NEW S \in SUBSET Keys, k \in S
      PROVE  Cardinality(S) # 0 /\ Cardinality(S) \in Nat
    BY <1>3, KeysAreFinite, FS_EmptySet
<1>4. refs[table[k].src] # 0
    <2>1. Cardinality(Srcs(table, table[k].src)) # 0
        BY <1>3 DEF Srcs
    <2>. QED BY <1>1, <1>2, <2>1 DEF Counts
<1>5. refs[table[k].dst] # 0
    <2>. DEFINE l == table[k].dst
    <2>1. Cardinality(Dsts(table, l)) # 0 /\ Cardinality(Dsts(table, l)) \in Nat
        BY <1>3 DEF Dsts
    <2>2. refs[l] = Cardinality(Dsts(table, l)) + popped[l] + IF l = slot THEN 1 ELSE 0
        BY <1>1, <1>2 DEF Counts
    <2>3. popped[l] \in Nat
        BY <1>1 DEF Books, TypeOK
    <2>. HIDE DEF l
    <2>. QED BY <2>1, <2>2, <2>3 DEF l
<1>. QED BY <1>1, <1>4, <1>5 DEF Books, FreedOK, Dispatches

\* What is true of the messages under way stays true when some of them go.
MailShrinks ==
    /\ asked' \subseteq asked
    /\ \A l \in Links : \/ answers'[l] = answers[l] \/ answers'[l] = <<>>
                        \/ answers[l] # <<>> /\ answers'[l] = Tail(answers[l])

\* What is left of a queue that loses its head, ...
LEMMA TailKeeps ==
    ASSUME NEW S, NEW q \in Seq(S), q # <<>>
    PROVE  /\ Tail(q) \in Seq(S) /\ Head(q) = q[1] /\ 1 \in DOMAIN q /\ Head(q) \in S
           /\ \A i \in DOMAIN Tail(q) : i + 1 \in DOMAIN q /\ Tail(q)[i] = q[i + 1]
    OBVIOUS

\* ... and of the messages under way.
LEMMA FlightShrinks ==
    ASSUME TypeOK, MailShrinks
    PROVE  /\ InFlight' \subseteq InFlight
           /\ asked' \subseteq Message
           /\ \A l \in Links : answers'[l] \in Seq(Message)
<1>1. ASSUME NEW l \in Links
      PROVE  /\ answers'[l] \in Seq(Message)
             /\ \A i \in DOMAIN answers'[l] : \E j \in DOMAIN answers[l] : answers'[l][i] = answers[l][j]
    <2>1. answers[l] \in Seq(Message)
        BY DEF TypeOK
    <2>2. CASE answers'[l] = answers[l]
        BY <2>1, <2>2
    <2>3. CASE answers'[l] = <<>>
        BY <2>3
    <2>4. CASE answers[l] # <<>> /\ answers'[l] = Tail(answers[l])
        BY <2>1, <2>4, TailKeeps
    <2>. QED BY <2>2, <2>3, <2>4 DEF MailShrinks
<1>2. \A l \in Links : {answers'[l][i] : i \in DOMAIN answers'[l]}
                          \subseteq {answers[l][i] : i \in DOMAIN answers[l]}
    BY <1>1
<1>. QED BY <1>1, <1>2 DEF MailShrinks, TypeOK, InFlight

\* The process thread at rest, or stopped by a null pointer.
LEMMA RestIsMessage ==
    /\ Idle \in Message /\ Idle.at = "idle" /\ Idle.src = None
    /\ [Idle EXCEPT !.at = "crashed"] \in Message
    /\ [Idle EXCEPT !.at = "crashed"].at = "crashed" /\ [Idle EXCEPT !.at = "crashed"].src = None
<1>1. 0 \in Keys
    BY RequestAssumption DEF Keys
<1>. QED BY <1>1 DEF Idle, Message, Kinds

\* Requests are removed with their references.
LEMMA RemovalBooks ==
    ASSUME Books, NEW K \in SUBSET Keys, Lesser(table'),
           \A k \in Keys : table'[k].src = Removed(K)[k].src /\ table'[k].dst = Removed(K)[k].dst,
           refs' = Released(K), UNCHANGED <<slot, loggedIn, state, client, popped, issued>>
    PROVE  /\ table'[0] = Free /\ TableOK' /\ refs' \in [Dispatches -> Nat]
           /\ RefsAccounted' /\ FreedOK' /\ (main' = main => EmptyAfterRemoveAll')
<1>1. TypeOK /\ TableOK /\ RefsAccounted
    BY DEF Books
<1>2. table'[0] = Free /\ TableOK'
    BY <1>1, LesserIsWhole DEF TableOK
<1>3. Counts(Removed(K), refs', popped, slot)
    BY <1>1, RequestsCounted, CountsRemoved
<1>4. Counts(table', refs', popped', slot')
    BY <1>3, CountsSame
<1>5. refs' \in [Dispatches -> Nat]
    BY <1>1, <1>3, ReleasedIsInt, CountsAreNat DEF TypeOK
<1>6. RefsAccounted'
    BY <1>2, <1>4, NextCounted
<1>7. ASSUME NEW d \in Dispatches, state[d] = "freed"
      PROVE  refs'[d] = 0
    <2>1. /\ Cardinality({k \in K : table[k].src = d}) \in Nat
          /\ Cardinality({k \in K : table[k].dst = d}) \in Nat
        BY KeysAreFinite
    <2>2. refs'[d] = 0 - Cardinality({k \in K : table[k].src = d})
                       - Cardinality({k \in K : table[k].dst = d})
        BY <1>7 DEF Released, Books, FreedOK
    <2>. QED BY <1>5, <2>1, <2>2
<1>8. FreedOK'
    BY <1>7 DEF Books, FreedOK, Served
<1>9. main' = main => EmptyAfterRemoveAll'
    BY DEF Books, EmptyAfterRemoveAll, Pending, Lesser
<1>. QED BY <1>2, <1>5, <1>6, <1>8, <1>9

\* A request is added for a client whose session is there, behind the removal of another.
LEMMA AdditionBooks ==
    ASSUME Books, NEW t, Lesser(t), NEW r \in [Dispatches -> Int], popped' \in [Links -> Nat],
           Counts(t, r, popped', slot), \A d \in Dispatches : state[d] = "freed" => r[d] = 0,
           NEW c \in Clients, state[c] # "freed", NEW via \in Links \union {slot},
           NEW kind \in Kinds, NEW k \in Keys, Added(t, r, c, via, kind, k),
           issued < MaxIssued, UNCHANGED <<slot, state, main>>
    PROVE  /\ table' \in [Keys -> Entry] /\ table'[0] = Free /\ TableOK'
           /\ thread' \in Message /\ SenderOK'
           /\ refs' \in [Dispatches -> Nat] /\ RefsAccounted'
           /\ \A d \in Dispatches : state[d] = "freed" => refs'[d] = 0
           /\ issued' \in 0 .. MaxIssued /\ counter' \in Keys /\ EmptyAfterRemoveAll'
<1>1. TypeOK /\ TableOK
    BY DEF Books
<1>2. /\ slot \in Links /\ main = "running" /\ t[k] = Free /\ k # 0 /\ counter' \in Keys
      /\ table' = [t EXCEPT ![k] = NewEntry(c)]
      /\ refs' = [r EXCEPT ![c] = @ + 1, ![slot] = @ + 1]
      /\ issued' = issued + 1
      /\ thread' = [at |-> "sending", key |-> k, src |-> c, n |-> issued + 1, kind |-> kind, via |-> via]
    BY <1>1 DEF Added, TypeOK
<1>3. issued \in Nat /\ issued' \in 0 .. MaxIssued /\ issued + 1 \in Nat /\ Duration \in Nat \ {0}
    BY <1>1, <1>2, RequestAssumption DEF TypeOK
<1>4. NewEntry(c) \in Entry /\ NewEntry(c).src = c /\ NewEntry(c).dst = slot
      /\ NewEntry(c).left \in 1 .. Duration /\ NewEntry(c).n = issued + 1
    BY <1>2, <1>3 DEF NewEntry, Entry
<1>5. t \in [Keys -> Entry] /\ t[0] = Free /\ Whole(t, issued)
    BY <1>1, LesserIsWhole DEF Lesser
<1>6. table' \in [Keys -> Entry] /\ table'[0] = Free /\ TableOK'
    <2>1. \A j \in Keys : table'[j] = IF j = k THEN NewEntry(c) ELSE t[j]
        BY <1>2, <1>5
    <2>2. table' \in [Keys -> Entry] /\ table'[0] = Free
        BY <1>2, <1>4, <1>5
    <2>. QED BY <1>2, <1>3, <1>4, <1>5, <2>1, <2>2 DEF TableOK, Whole
<1>7. thread' \in Message /\ SenderOK'
    <2>1. via \in Links
        BY <1>2
    <2>. QED BY <1>2, <1>3, <2>1 DEF Message, SenderOK, Sending
<1>8. refs' \in [Dispatches -> Int]
    BY <1>2 DEF Dispatches
<1>9. Counts(table', refs', popped', slot')
    BY <1>2, <1>4, <1>5, CountsAdded
<1>10. refs' \in [Dispatches -> Nat] /\ RefsAccounted'
    BY <1>6, <1>8, <1>9, CountsAreNat, NextCounted
<1>11. \A d \in Dispatches : state[d] = "freed" => refs'[d] = 0
    <2>1. state[slot] # "freed"
        BY DEF Books, FreedOK, Served, Added
    <2>2. \A d \in Dispatches : d # c /\ d # slot => refs'[d] = r[d]
        BY <1>2
    <2>. QED BY <2>1, <2>2
<1>. QED BY <1>2, <1>3, <1>6, <1>7, <1>10, <1>11 DEF EmptyAfterRemoveAll

\* The messages under way when neither the agent nor the link moves.
LEMMA FlightStays ==
    ASSUME UNCHANGED <<asked, answers>>
    PROVE  InFlight' = InFlight
    BY DEF InFlight

\* A client asks.
LEMMA AskBooks ==
    ASSUME Books, NEW c \in Clients, NEW kind \in {"login", "move", "zone"}, Ask(c, kind)
    PROVE  Books'
<1>. USE DEF Ask
<1>1. TypeOK /\ TableOK /\ Lesser(table) /\ kind \in Kinds
    BY DEF Books, Lesser, TypeOK, TableOK, Whole, Pending, Kinds
<1>2. UNCHANGED <<main, slot, loggedIn, state, client, asked, answers, popped, waiting, unordered>>
    OBVIOUS
<1>3. ClientsAsk'
    BY <1>2, FlightStays DEF Books, ClientsAsk
<1>4. NextKey \in Keys /\ (NotAdded(table, refs) \/ Added(table, refs, c, slot, kind, NextKey))
    BY <1>1, AddsOrNot
<1>. HIDE DEF Ask
<1>5. CASE NotAdded(table, refs)
    <2>1. TypeOK'
        BY <1>1, <1>2, <1>5, RestIsMessage DEF NotAdded, TypeOK
    <2>2. TableOK' /\ EmptyAfterRemoveAll' /\ RefsAccounted' /\ FreedOK'
        BY <1>1, <1>2, <1>5 DEF Books, NotAdded, TableOK, Whole, EmptyAfterRemoveAll, Pending,
           RefsAccounted, Requests, FreedOK, Served
    <2>3. SenderOK'
        BY <1>5, RestIsMessage DEF NotAdded, SenderOK, Sending
    <2>. QED BY <1>3, <2>1, <2>2, <2>3 DEF Books
<1>6. CASE Added(table, refs, c, slot, kind, NextKey)
    <2>1. /\ refs \in [Dispatches -> Int] /\ popped' \in [Links -> Nat]
          /\ Counts(table, refs, popped', slot)
          /\ state[c] # "freed" /\ issued < MaxIssued
        BY <1>1, <1>2, RequestsCounted DEF Books, TypeOK, Ask, Served
    <2>2. \A d \in Dispatches : state[d] = "freed" => refs[d] = 0
        BY DEF Books, FreedOK
    <2>3. /\ table' \in [Keys -> Entry] /\ table'[0] = Free /\ TableOK'
          /\ thread' \in Message /\ SenderOK'
          /\ refs' \in [Dispatches -> Nat] /\ RefsAccounted'
          /\ \A d \in Dispatches : state[d] = "freed" => refs'[d] = 0
          /\ issued' \in 0 .. MaxIssued /\ counter' \in Keys /\ EmptyAfterRemoveAll'
        BY <1>1, <1>2, <1>4, <1>6, <2>1, <2>2, AdditionBooks
    <2>4. TypeOK'
        BY <1>1, <1>2, <2>3 DEF TypeOK
    <2>5. FreedOK'
        BY <1>2, <2>3 DEF Books, FreedOK, Served
    <2>. QED BY <1>3, <2>3, <2>4, <2>5 DEF Books
<1>. QED BY <1>4, <1>5, <1>6


\* What the dispatch of a client keeps.
Character == [keys : Seq(Keys), character : BOOLEAN,
              flags : SUBSET {"MOVEZONE_PROCESSED", "SERVERZONE_PROCESSED"}]

LEMMA CharacterTyped ==
    ASSUME TypeOK
    PROVE  client \in [Clients -> Character]
    BY DEF TypeOK, Character

\* The request is sent, or is not.
LEMMA SendingBooks ==
    ASSUME Books, Sent \/ SendFails
    PROVE  Books'
<1>1. /\ TypeOK /\ TableOK /\ Sending /\ thread.src \in Clients /\ thread \in Message
      /\ thread.key \in Keys
    BY DEF Books, Sent, SendFails, Sending, SenderOK, TypeOK, Message
<1>2. thread' = Idle /\ SenderOK'
    BY RestIsMessage DEF Sent, SendFails, SenderOK, Sending
<1>3. CASE Sent
    <2>. DEFINE m == [thread EXCEPT !.at = "asked"]
    <2>1. m \in Message /\ m.src = thread.src /\ thread.n \in Nat /\ Flag(thread.kind) \subseteq
             {"MOVEZONE_PROCESSED", "SERVERZONE_PROCESSED"}
        BY <1>1 DEF Message, Flag
    <2>2. /\ UNCHANGED <<table, counter, main, slot, loggedIn, state, refs, answers, issued, popped,
                         unordered>>
          /\ asked' = asked \union {m}
          /\ client' = [client EXCEPT ![thread.src].keys = Append(@, thread.key),
                                      ![thread.src].flags = @ \union Flag(thread.kind)]
          /\ waiting' = IF thread.src \in unordered THEN waiting
                        ELSE [waiting EXCEPT ![thread.src] = Append(@, thread.n)]
        BY <1>3 DEF Sent
    <2>. HIDE DEF m
    <2>3. \A c \in Clients : client'[c].character = client[c].character
        BY <1>1, <2>2 DEF TypeOK
    <2>4. client' \in [Clients -> Character]
        <3>. DEFINE e == [client[thread.src] EXCEPT !.keys = Append(@, thread.key),
                                                    !.flags = @ \union Flag(thread.kind)]
        <3>1. client[thread.src] \in Character
            BY <1>1, CharacterTyped
        <3>2. Append(client[thread.src].keys, thread.key) \in Seq(Keys)
            BY <1>1, <3>1 DEF Character
        <3>3. e \in Character
            BY <2>1, <3>1, <3>2 DEF Character
        <3>4. client' = [client EXCEPT ![thread.src] = e]
            BY <2>2
        <3>. HIDE DEF e
        <3>. QED BY <1>1, <3>3, <3>4, CharacterTyped
    <2>5. waiting' \in [Clients -> Seq(Nat)]
        BY <1>1, <2>1, <2>2 DEF TypeOK
    <2>6. InFlight' = InFlight \union {m}
        BY <2>2 DEF InFlight
    <2>7. TypeOK'
        BY <1>1, <1>2, <2>1, <2>2, <2>4, <2>5, RestIsMessage DEF TypeOK, Character
    <2>8. ClientsAsk'
        BY <1>1, <2>1, <2>6 DEF Books, ClientsAsk
    <2>9. TableOK' /\ EmptyAfterRemoveAll' /\ RefsAccounted' /\ FreedOK'
        BY <2>2, <2>3 DEF Books, TableOK, Whole, EmptyAfterRemoveAll, Pending,
           RefsAccounted, Requests, FreedOK, Served
    <2>. QED BY <1>2, <2>7, <2>8, <2>9 DEF Books
<1>4. CASE SendFails
    <2>1. /\ UNCHANGED <<counter, main, slot, loggedIn, state, client, asked, answers, issued,
                         popped, waiting, unordered>>
          /\ refs' = Released({thread.key}) /\ table' = Removed({thread.key})
        BY <1>4 DEF SendFails
    <2>2. Lesser(table') /\ {thread.key} \in SUBSET Keys
        BY <1>1, <2>1, RemovedIsLesser
    <2>3. /\ table'[0] = Free /\ TableOK' /\ refs' \in [Dispatches -> Nat]
          /\ RefsAccounted' /\ FreedOK' /\ EmptyAfterRemoveAll'
        BY <2>1, <2>2, RemovalBooks
    <2>4. TypeOK'
        BY <1>1, <1>2, <2>1, <2>2, <2>3, RestIsMessage DEF TypeOK, Lesser
    <2>5. ClientsAsk'
        BY <2>1, FlightStays DEF Books, ClientsAsk
    <2>. QED BY <1>2, <2>3, <2>4, <2>5 DEF Books
<1>. QED BY <1>3, <1>4

\* Requests end with the time or with the server.
LEMMA EndingBooks ==
    ASSUME Books, Tick \/ RemoveAllRequest \/ RequestOff
    PROVE  Books'
<1>1. TypeOK /\ TableOK
    BY DEF Books
<1>2. /\ UNCHANGED <<counter, slot, loggedIn, state, client, thread, asked, answers, issued, popped>>
      /\ ClientsAsk' /\ SenderOK'
    <2>1. UNCHANGED <<counter, slot, loggedIn, state, client, thread, asked, answers, issued, popped>>
        BY DEF Tick, RemoveAllRequest, RequestOff
    <2>. QED BY <2>1, FlightStays DEF Books, ClientsAsk, SenderOK, Sending
<1>3. ASSUME NEW K \in SUBSET Keys, \A k \in K : Pending(k), Lesser(table'),
             \A k \in Keys : table'[k].src = Removed(K)[k].src /\ table'[k].dst = Removed(K)[k].dst,
             Remove(K), main' \in {"running", "off", "removed"},
             main' = main \/ \A k \in Keys : table'[k] = Free
      PROVE  Books'
    <2>1. /\ table'[0] = Free /\ TableOK' /\ refs' \in [Dispatches -> Nat]
          /\ RefsAccounted' /\ FreedOK' /\ (main' = main => EmptyAfterRemoveAll')
        BY <1>2, <1>3, RemovalBooks DEF Remove
    <2>2. unordered' \subseteq Clients
        BY <1>1, <1>3 DEF Remove, Unordered, TypeOK, TableOK, Whole, Pending
    <2>3. waiting' \in [Clients -> Seq(Nat)]
        BY <1>1, <1>3 DEF Remove, Forgotten, TypeOK
    <2>4. TypeOK'
        BY <1>1, <1>2, <1>3, <2>1, <2>2, <2>3 DEF TypeOK, Lesser
    <2>5. EmptyAfterRemoveAll'
        BY <1>3, <2>1 DEF EmptyAfterRemoveAll, Pending
    <2>. QED BY <1>2, <2>1, <2>4, <2>5 DEF Books
<1>4. CASE Tick
    <2>. DEFINE over == {k \in Keys : Pending(k) /\ table[k].left = 1}
    <2>1. Lesser(table') /\ Remove(over) /\ main' = main
        BY <1>1, <1>4, TickIsLesser DEF Tick
    <2>2. \A k \in Keys : /\ table'[k].src = Removed(over)[k].src
                          /\ table'[k].dst = Removed(over)[k].dst
        <3>1. table' = [k \in Keys |-> IF Pending(k) /\ k \notin over
                                       THEN [table[k] EXCEPT !.left = @ - 1] ELSE Free]
            BY <1>4 DEF Tick
        <3>2. \A k \in Keys : table[k] \in Entry
            BY <1>1 DEF TypeOK
        <3>3. ASSUME NEW k \in Keys, Pending(k), k \notin over
              PROVE  /\ table'[k].src = Removed(over)[k].src
                     /\ table'[k].dst = Removed(over)[k].dst
            <4>1. table'[k] = [table[k] EXCEPT !.left = @ - 1] /\ Removed(over)[k] = table[k]
                BY <3>1, <3>3 DEF Removed
            <4>. QED BY <3>2, <4>1 DEF Entry
        <3>4. ASSUME NEW k \in Keys, ~Pending(k) \/ k \in over
              PROVE  table'[k] = Removed(over)[k]
            BY <3>1, <3>4 DEF Removed, Pending
        <3>. QED BY <3>3, <3>4
    <2>3. over \in SUBSET Keys /\ \A k \in over : Pending(k)
        OBVIOUS
    <2>. HIDE DEF over
    <2>. QED BY <1>1, <1>3, <2>1, <2>2, <2>3 DEF TypeOK
<1>5. CASE RemoveAllRequest
    <2>. DEFINE all == {k \in Keys : Pending(k)}
    <2>1. /\ table' = [k \in Keys |-> Free] /\ main' = "removed" /\ Remove(all)
        BY <1>5 DEF RemoveAllRequest
    <2>2. table' = Removed(all)
        BY <2>1 DEF Removed, Pending
    <2>3. all \in SUBSET Keys /\ (\A k \in all : Pending(k)) /\ \A k \in Keys : table'[k] = Free
        BY <2>1
    <2>. HIDE DEF all
    <2>4. Lesser(table')
        BY <1>1, <2>2, <2>3, RemovedIsLesser
    <2>. QED BY <1>3, <2>1, <2>2, <2>3, <2>4
<1>6. CASE RequestOff
    <2>1. UNCHANGED <<table, refs, waiting, unordered>> /\ main' = "off"
        BY <1>6 DEF RequestOff
    <2>2. TypeOK'
        BY <1>1, <1>2, <2>1 DEF TypeOK
    <2>3. TableOK' /\ EmptyAfterRemoveAll' /\ RefsAccounted' /\ FreedOK'
        BY <1>2, <2>1 DEF Books, TableOK, Whole, EmptyAfterRemoveAll,
           RefsAccounted, Requests, FreedOK, Served, Pending
    <2>. QED BY <1>2, <2>2, <2>3 DEF Books
<1>. QED BY <1>4, <1>5, <1>6


\* The answers q to the request m.
Answering(m, q) ==
    /\ q \in Seq(Message)
    /\ \A i \in DOMAIN q : q[i].key = m.key /\ q[i].src = m.src /\ q[i].n = m.n
    /\ \/ Len(q) = 1 /\ q[1].kind = m.kind
       \/ Len(q) = 2 /\ m.kind = "login" /\ q[1].kind = "login" /\ q[2].kind = "deposit"
    /\ answers' = [answers EXCEPT ![m.via] = @ \o q]

\* What the agent answers.
LEMMA AgentAnswersSo ==
    ASSUME TypeOK, NEW m \in asked, AgentAnswers(m)
    PROVE  /\ \E q : Answering(m, q)
           /\ asked' = asked \ {m} /\ m \in Message
           /\ UNCHANGED <<table, counter, main, slot, loggedIn, state, refs, client, thread,
                          issued, popped, waiting, unordered>>
<1>. DEFINE Answer(at, kind) == [m EXCEPT !.at = at, !.kind = kind]
            Pair == <<Answer("granted", "login"), Answer("granted", "deposit")>>
<1>1. m \in Message
    BY DEF TypeOK
<1>2. ASSUME NEW at \in {"granted", "refused"}, NEW kind \in Kinds
      PROVE  /\ Answer(at, kind) \in Message
             /\ Answer(at, kind).key = m.key /\ Answer(at, kind).src = m.src
             /\ Answer(at, kind).n = m.n /\ Answer(at, kind).kind = kind
    BY <1>1 DEF Message
<1>3. m.kind \in Kinds /\ "login" \in Kinds /\ "deposit" \in Kinds
    BY <1>1 DEF Message, Kinds
<1>4. \/ answers' = [answers EXCEPT ![m.via] = Append(@, Answer("refused", m.kind))]
      \/ m.kind = "login" /\ answers' = [answers EXCEPT ![m.via] = @ \o Pair]
      \/ m.kind # "login" /\ answers' = [answers EXCEPT ![m.via] = @ \o <<Answer("granted", m.kind)>>]
    BY DEF AgentAnswers
<1>. HIDE DEF Answer
<1>5. ASSUME NEW at \in {"granted", "refused"},
             answers' = [answers EXCEPT ![m.via] = @ \o <<Answer(at, m.kind)>>]
      PROVE  Answering(m, <<Answer(at, m.kind)>>)
    BY <1>2, <1>3, <1>5 DEF Answering
<1>. SUFFICES \E q : Answering(m, q)
    BY <1>1 DEF AgentAnswers
<1>6. CASE answers' = [answers EXCEPT ![m.via] = Append(@, Answer("refused", m.kind))]
    <2>1. [answers EXCEPT ![m.via] = Append(@, Answer("refused", m.kind))]
             = [answers EXCEPT ![m.via] = @ \o <<Answer("refused", m.kind)>>]
        <3>1. CASE m.via \in Links
            <4>1. answers[m.via] \in Seq(Message) /\ Answer("refused", m.kind) \in Message
                BY <1>2, <1>3, <3>1 DEF TypeOK
            <4>2. Append(answers[m.via], Answer("refused", m.kind))
                     = answers[m.via] \o <<Answer("refused", m.kind)>>
                BY <4>1, AppendIsConcat
            <4>. QED BY <4>2
        <3>2. CASE m.via \notin Links
            BY <3>2 DEF TypeOK
        <3>. QED BY <3>1, <3>2
    <2>2. Answering(m, <<Answer("refused", m.kind)>>)
        BY <1>5, <1>6, <2>1
    <2>. QED BY <2>2
<1>7. CASE m.kind = "login" /\ answers' = [answers EXCEPT ![m.via] = @ \o Pair]
    <2>1. Answering(m, Pair)
        <3>1. /\ Answer("granted", "login") \in Message /\ Answer("granted", "deposit") \in Message
              /\ Answer("granted", "login").kind = "login" /\ Answer("granted", "deposit").kind = "deposit"
            BY <1>2, <1>3
        <3>2. Pair \in Seq(Message) /\ Len(Pair) = 2 /\ DOMAIN Pair = {1, 2}
              /\ Pair[1] = Answer("granted", "login") /\ Pair[2] = Answer("granted", "deposit")
            BY <3>1
        <3>. HIDE DEF Pair
        <3>. QED BY <1>2, <1>3, <1>7, <3>1, <3>2 DEF Answering
    <2>. QED BY <2>1
<1>8. CASE /\ m.kind # "login"
           /\ answers' = [answers EXCEPT ![m.via] = @ \o <<Answer("granted", m.kind)>>]
    <2>1. Answering(m, <<Answer("granted", m.kind)>>)
        BY <1>5, <1>8
    <2>. QED BY <2>1
<1>. QED BY <1>4, <1>6, <1>7, <1>8

\* Where they are then: behind the answers that are there.
LEMMA AnswersGrow ==
    ASSUME TypeOK, NEW m \in asked, NEW q, Answering(m, q), NEW l \in Links
    PROVE  /\ answers'[l] \in Seq(Message)
           /\ l # m.via => answers'[l] = answers[l]
           /\ l = m.via => /\ Len(answers'[l]) = Len(answers[l]) + Len(q)
                           /\ \A i \in DOMAIN answers[l] :
                                 i \in DOMAIN answers'[l] /\ answers'[l][i] = answers[l][i]
                           /\ \A i \in DOMAIN answers'[l] \ DOMAIN answers[l] :
                                 /\ i - Len(answers[l]) \in DOMAIN q
                                 /\ answers'[l][i] = q[i - Len(answers[l])]
<1>1. answers[l] \in Seq(Message) /\ q \in Seq(Message)
    BY DEF TypeOK, Answering
<1>2. answers'[l] = IF l = m.via THEN answers[l] \o q ELSE answers[l]
    BY DEF Answering, TypeOK
<1>3. /\ answers[l] \o q \in Seq(Message) /\ Len(answers[l] \o q) = Len(answers[l]) + Len(q)
      /\ \A i \in 1 .. Len(answers[l]) + Len(q) :
            (answers[l] \o q)[i] = IF i <= Len(answers[l]) THEN answers[l][i]
                                                          ELSE q[i - Len(answers[l])]
    BY <1>1, ConcatProperties
<1>. QED BY <1>1, <1>2, <1>3


\* The agent answers.
LEMMA AgentBooks ==
    ASSUME Books, NEW m \in asked, AgentAnswers(m)
    PROVE  Books'
<1>1. TypeOK
    BY DEF Books
<1>2. PICK q : Answering(m, q)
    BY <1>1, AgentAnswersSo
<1>3. /\ asked' = asked \ {m} /\ m \in Message
      /\ UNCHANGED <<table, counter, main, slot, loggedIn, state, refs, client, thread,
                     issued, popped, waiting, unordered>>
    BY <1>1, AgentAnswersSo
<1>4. TypeOK'
    <2>1. \A l \in Links : answers'[l] \in Seq(Message)
        BY <1>1, <1>2, AnswersGrow
    <2>2. answers' \in [Links -> Seq(Message)]
        BY <1>1, <1>2, <2>1 DEF TypeOK, Answering
    <2>. QED BY <1>1, <1>3, <2>2 DEF TypeOK
<1>5. m.src \in Clients
    BY DEF Books, ClientsAsk, InFlight
<1>6. ASSUME NEW l \in Links, NEW i \in DOMAIN answers'[l]
      PROVE  answers'[l][i].src \in Clients
    <2>1. CASE i \in DOMAIN answers[l] /\ answers'[l][i] = answers[l][i]
        BY <2>1 DEF Books, ClientsAsk, InFlight
    <2>2. CASE l = m.via /\ i - Len(answers[l]) \in DOMAIN q
                         /\ answers'[l][i] = q[i - Len(answers[l])]
        BY <1>2, <1>5, <2>2 DEF Answering
    <2>. QED BY <1>1, <1>2, <2>1, <2>2, AnswersGrow
<1>7. ClientsAsk'
    <2>1. \A a \in asked' : a.src \in Clients
        BY <1>3 DEF Books, ClientsAsk, InFlight
    <2>. QED BY <1>6, <2>1 DEF ClientsAsk, InFlight
<1>8. TableOK' /\ EmptyAfterRemoveAll' /\ RefsAccounted' /\ FreedOK' /\ SenderOK'
    BY <1>3 DEF Books, TableOK, Whole, EmptyAfterRemoveAll, Pending, RefsAccounted, Requests,
       FreedOK, Served, SenderOK, Sending
<1>. QED BY <1>4, <1>7, <1>8 DEF Books

\* The answer that a link handles.
LEMMA FirstIs ==
    ASSUME TypeOK, NEW l \in Links, NEW m \in FirstOf(l)
    PROVE  /\ answers[l] # <<>> /\ 1 \in DOMAIN answers[l] /\ m = answers[l][1]
           /\ m \in Message /\ m \in InFlight /\ m.key \in Keys
<1>1. answers[l] # <<>> /\ m = Head(answers[l]) /\ answers[l] \in Seq(Message)
    BY DEF FirstOf, TypeOK
<1>2. 1 \in DOMAIN answers[l] /\ m = answers[l][1] /\ m \in Message
    BY <1>1, TailKeeps
<1>. QED BY <1>1, <1>2 DEF InFlight, Message

\* It is the only message that goes.
LEMMA ReceivesShrinks ==
    ASSUME TypeOK, NEW l \in Links, NEW m \in FirstOf(l), NEW kinds, Receives(l, m, kinds)
    PROVE  /\ MailShrinks /\ InFlight' \subseteq InFlight /\ answers' \in [Links -> Seq(Message)]
           /\ Ready /\ m.kind \in kinds
           /\ answers' = [answers EXCEPT ![l] = Tail(@)]
           /\ UNCHANGED <<main, slot, loggedIn, state, asked>>
<1>1. /\ Ready /\ m.kind \in kinds
      /\ answers' = [answers EXCEPT ![l] = Tail(@)]
      /\ UNCHANGED <<main, slot, loggedIn, state, asked>>
    BY DEF Receives
<1>2. answers[l] # <<>> /\ answers \in [Links -> Seq(Message)]
    BY FirstIs DEF TypeOK
<1>3. MailShrinks
    BY <1>1, <1>2 DEF MailShrinks
<1>4. answers' \in [Links -> Seq(Message)]
    BY <1>1, <1>2, TailKeeps
<1>. QED BY <1>1, <1>3, <1>4, FlightShrinks

\* An answer takes requests out of what clients wait for.
LEMMA AnsweredTyped ==
    ASSUME TypeOK, NEW m, m.src \in Clients, Answered(m)
    PROVE  unordered' \subseteq Clients /\ waiting' \in [Clients -> Seq(Nat)]
<1>1. waiting[m.src] \in Seq(Nat) /\ (waiting[m.src] # <<>> => Tail(waiting[m.src]) \in Seq(Nat))
    BY DEF TypeOK
<1>2. <<>> \in Seq(Nat)
    OBVIOUS
<1>. QED BY <1>1, <1>2 DEF Answered, TypeOK

\* A key is popped.
LEMMA PopTyped ==
    ASSUME NEW keys \in Seq(Keys)
    PROVE  PopRequestKey(keys) \in Seq(Keys)
    BY DEF PopRequestKey

\* What PopRequest leaves.
LEMMA PoppedBooks ==
    ASSUME Books, NEW k \in Keys, Pending(k)
    PROVE  LET t == Removed({k})
               r == [refs EXCEPT ![table[k].src] = @ - 1]
               p == [popped EXCEPT ![table[k].dst] = @ + 1]
           IN  /\ Lesser(t) /\ r \in [Dispatches -> Nat] /\ p \in [Links -> Nat]
               /\ Counts(t, r, p, slot)
               /\ \A d \in Dispatches : state[d] = "freed" => r[d] = 0
<1>. DEFINE t == Removed({k})
            r == [refs EXCEPT ![table[k].src] = @ - 1]
            p == [popped EXCEPT ![table[k].dst] = @ + 1]
<1>1. TypeOK /\ TableOK /\ Counts(table, refs, popped, slot)
    BY RequestsCounted DEF Books
<1>2. Lesser(t)
    BY <1>1, RemovedIsLesser
<1>3. table[k].src \in Clients /\ table[k].dst \in Links
    BY PendingIsHeld
<1>4. r \in [Dispatches -> Int] /\ p \in [Links -> Nat]
    BY <1>1, <1>3 DEF TypeOK, Dispatches
<1>5. Counts(t, r, p, slot)
    BY <1>1, CountsPopped
<1>6. r \in [Dispatches -> Nat]
    <2>. HIDE DEF t, r, p
    <2>. QED BY <1>4, <1>5, CountsAreNat
<1>7. \A d \in Dispatches : state[d] = "freed" => r[d] = 0
    BY <1>1, PendingIsHeld DEF TypeOK, Books, FreedOK
<1>. QED BY <1>2, <1>4, <1>5, <1>6, <1>7

\* A login and a deposit are answered.
LEMMA LoginBooks ==
    ASSUME Books, NEW l \in Links, HandleUpdate(l) \/ HandleDeposit(l)
    PROVE  Books'
<1>1. TypeOK /\ TableOK
    BY DEF Books
<1>2. CASE HandleUpdate(l)
    <2>1. PICK m \in FirstOf(l) :
             /\ Receives(l, m, {"login"})
             /\ UNCHANGED <<table, counter, refs, thread, issued, popped>>
             /\ IF ~Pending(m.key) THEN UNCHANGED <<client, waiting, unordered>>
                ELSE LET c == table[m.key].src
                         keys == client[c].keys
                     IN  /\ Answered(m)
                         /\ \/ client' = [client EXCEPT ![c].keys = PopRequestKey(keys)]
                            \/ /\ m.at = "granted"
                               /\ keys # <<>> /\ Head(keys) = m.key
                               /\ client' = [client EXCEPT ![c] =
                                       [NoCharacter EXCEPT !.keys = Tail(keys), !.character = TRUE]]
        BY <1>2 DEF HandleUpdate
    <2>2. /\ InFlight' \subseteq InFlight /\ answers' \in [Links -> Seq(Message)]
          /\ m.src \in Clients /\ m.key \in Keys
          /\ UNCHANGED <<main, slot, loggedIn, state, asked, table, counter, refs, thread, issued, popped>>
        BY <1>1, <2>1, ReceivesShrinks, FirstIs DEF Books, ClientsAsk
    <2>3. unordered' \subseteq Clients /\ waiting' \in [Clients -> Seq(Nat)]
        BY <1>1, <2>1, <2>2, AnsweredTyped DEF TypeOK
    <2>4. /\ client' \in [Clients -> Character]
          /\ \A c \in Clients : state[c] = "freed" => ~client'[c].character
        <3>1. CASE ~Pending(m.key)
            BY <1>1, <2>1, <3>1, CharacterTyped DEF Books, FreedOK
        <3>2. CASE Pending(m.key)
            <4>. DEFINE c == table[m.key].src
            <4>1. c \in Clients /\ state[c] # "freed" /\ client[c] \in Character
                BY <1>1, <2>2, <3>2, PendingIsHeld, CharacterTyped
            <4>2. PICK e \in Character : client' = [client EXCEPT ![c] = e]
                <5>1. CASE client' = [client EXCEPT ![c].keys = PopRequestKey(client[c].keys)]
                    <6>. DEFINE e == [client[c] EXCEPT !.keys = PopRequestKey(client[c].keys)]
                    <6>1. e \in Character
                        BY <4>1, PopTyped DEF Character
                    <6>. QED BY <5>1, <6>1
                <5>2. CASE /\ client[c].keys # <<>>
                           /\ client' = [client EXCEPT ![c] = [NoCharacter EXCEPT
                                    !.keys = Tail(client[c].keys), !.character = TRUE]]
                    <6>. DEFINE e == [NoCharacter EXCEPT !.keys = Tail(client[c].keys), !.character = TRUE]
                    <6>1. client[c].keys \in Seq(Keys) /\ Tail(client[c].keys) \in Seq(Keys)
                        BY <4>1, <5>2, TailKeeps DEF Character
                    <6>2. e \in Character
                        BY <6>1 DEF Character, NoCharacter
                    <6>. QED BY <5>2, <6>2
                <5>. QED BY <2>1, <3>2, <5>1, <5>2
            <4>. HIDE DEF c
            <4>. QED BY <1>1, <4>1, <4>2, CharacterTyped DEF Books, FreedOK
        <3>. QED BY <3>1, <3>2
    <2>5. TypeOK'
        BY <1>1, <2>2, <2>3, <2>4 DEF TypeOK, Character
    <2>6. TableOK' /\ EmptyAfterRemoveAll' /\ RefsAccounted' /\ FreedOK' /\ SenderOK' /\ ClientsAsk'
        BY <2>2, <2>4 DEF Books, TableOK, Whole, EmptyAfterRemoveAll, Pending,
           RefsAccounted, Requests, FreedOK, Served, SenderOK, Sending, ClientsAsk
    <2>. QED BY <2>5, <2>6 DEF Books
<1>3. CASE HandleDeposit(l)
    <2>1. PICK m \in FirstOf(l) :
             /\ Receives(l, m, {"deposit"})
             /\ UNCHANGED <<counter, client, thread, issued, waiting, unordered>>
             /\ IF Pending(m.key) THEN Popped(m) ELSE UNCHANGED <<table, refs, popped>>
        BY <1>3 DEF HandleDeposit
    <2>2. /\ InFlight' \subseteq InFlight /\ answers' \in [Links -> Seq(Message)] /\ m.key \in Keys
          /\ UNCHANGED <<main, slot, loggedIn, state, asked, counter, client, thread, issued,
                         waiting, unordered>>
        BY <1>1, <2>1, ReceivesShrinks, FirstIs
    <2>3. SenderOK' /\ ClientsAsk'
        BY <2>2 DEF Books, SenderOK, Sending, ClientsAsk
    <2>4. CASE ~Pending(m.key)
        <3>1. UNCHANGED <<table, refs, popped>>
            BY <2>1, <2>4
        <3>2. TypeOK'
            BY <1>1, <2>2, <3>1 DEF TypeOK
        <3>3. TableOK' /\ EmptyAfterRemoveAll' /\ RefsAccounted' /\ FreedOK'
            BY <2>2, <3>1 DEF Books, TableOK, Whole, EmptyAfterRemoveAll, Pending,
               RefsAccounted, Requests, FreedOK, Served
        <3>. QED BY <2>3, <3>2, <3>3 DEF Books
    <2>5. CASE Pending(m.key)
        <3>1. /\ table' = Removed({m.key})
              /\ refs' = [refs EXCEPT ![table[m.key].src] = @ - 1]
              /\ popped' = [popped EXCEPT ![table[m.key].dst] = @ + 1]
            BY <2>1, <2>5 DEF Popped
        <3>2. /\ Lesser(table') /\ refs' \in [Dispatches -> Nat] /\ popped' \in [Links -> Nat]
              /\ Counts(table', refs', popped', slot')
              /\ \A d \in Dispatches : state[d] = "freed" => refs'[d] = 0
            BY <2>2, <2>5, <3>1, PoppedBooks
        <3>3. TypeOK' /\ TableOK'
            BY <1>1, <2>2, <3>2, LesserIsWhole DEF TypeOK, Lesser, TableOK
        <3>4. RefsAccounted'
            BY <3>2, <3>3, NextCounted
        <3>5. EmptyAfterRemoveAll' /\ FreedOK'
            BY <2>2, <3>2 DEF Books, EmptyAfterRemoveAll, Pending, Lesser, FreedOK, Served
        <3>. QED BY <2>3, <3>3, <3>4, <3>5 DEF Books
    <2>. QED BY <2>4, <2>5
<1>. QED BY <1>2, <1>3


\* A move or a change of the zone is answered.
LEMMA ZoneBooks ==
    ASSUME Books, NEW l \in Links, HandleZone(l)
    PROVE  Books'
<1>1. TypeOK /\ TableOK
    BY DEF Books
<1>2. PICK m \in FirstOf(l) :
         /\ Receives(l, m, {"move", "zone", "zoneend"})
         /\ IF ~Pending(m.key)
            THEN /\ thread' = [Idle EXCEPT !.at = "crashed"]
                 /\ UNCHANGED <<table, counter, refs, client, issued, popped, waiting, unordered>>
            ELSE LET c == table[m.key].src
                 IN  /\ Answered(m)
                     /\ client' = [client EXCEPT ![c].keys = PopRequestKey(@),
                                                 ![c].flags = EndsMove(m, @)]
                     /\ \/ /\ Popped(m)
                           /\ UNCHANGED <<counter, thread, issued>>
                        \/ /\ m.kind = "zone" /\ m.at = "granted"
                           /\ issued < MaxIssued /\ KeyIsFresh
                           /\ popped' = [popped EXCEPT ![table[m.key].dst] = @ + 1]
                           /\ AddRequest(Removed({m.key}), [refs EXCEPT ![c] = @ - 1], c, l, "zoneend")
    BY DEF HandleZone
<1>3. /\ InFlight' \subseteq InFlight /\ answers' \in [Links -> Seq(Message)]
      /\ m.key \in Keys /\ m.src \in Clients
      /\ UNCHANGED <<main, slot, loggedIn, state, asked>>
    BY <1>1, <1>2, ReceivesShrinks, FirstIs DEF Books, ClientsAsk
<1>4. ClientsAsk'
    BY <1>3 DEF Books, ClientsAsk
<1>5. CASE ~Pending(m.key)
    <2>1. /\ thread' = [Idle EXCEPT !.at = "crashed"]
          /\ UNCHANGED <<table, counter, refs, client, issued, popped, waiting, unordered>>
        BY <1>2, <1>5
    <2>2. TypeOK' /\ SenderOK'
        BY <1>1, <1>3, <2>1, RestIsMessage DEF TypeOK, SenderOK, Sending
    <2>3. TableOK' /\ EmptyAfterRemoveAll' /\ RefsAccounted' /\ FreedOK'
        BY <1>3, <2>1 DEF Books, TableOK, Whole, EmptyAfterRemoveAll, Pending,
           RefsAccounted, Requests, FreedOK, Served
    <2>. QED BY <1>4, <2>2, <2>3 DEF Books
<1>6. CASE Pending(m.key)
    <2>. DEFINE c == table[m.key].src
                t == Removed({m.key})
                r == [refs EXCEPT ![c] = @ - 1]
    <2>1. c \in Clients /\ state[c] # "freed" /\ client[c] \in Character
        BY <1>1, <1>3, <1>6, PendingIsHeld, CharacterTyped, SMTT(30)
    <2>2. unordered' \subseteq Clients /\ waiting' \in [Clients -> Seq(Nat)]
        BY <1>1, <1>2, <1>3, <1>6, AnsweredTyped
    <2>3. /\ client' \in [Clients -> Character]
          /\ \A d \in Clients : client'[d].character = client[d].character
        <3>. DEFINE e == [client[c] EXCEPT !.keys = PopRequestKey(@), !.flags = EndsMove(m, @)]
        <3>1. client[c].flags \in SUBSET {"MOVEZONE_PROCESSED", "SERVERZONE_PROCESSED"}
                 /\ client[c].keys \in Seq(Keys)
            BY <2>1 DEF Character
        <3>2. /\ PopRequestKey(client[c].keys) \in Seq(Keys)
              /\ EndsMove(m, client[c].flags) \in SUBSET {"MOVEZONE_PROCESSED", "SERVERZONE_PROCESSED"}
            BY <3>1, PopTyped DEF EndsMove
        <3>3. e \in Character /\ e.character = client[c].character
            BY <2>1, <3>2 DEF Character
        <3>4. client' = [client EXCEPT ![c] = e]
            BY <1>2, <1>6
        <3>. HIDE DEF e, c
        <3>. QED BY <1>1, <2>1, <3>3, <3>4, CharacterTyped
    <2>4. /\ Lesser(t) /\ r \in [Dispatches -> Nat]
          /\ [popped EXCEPT ![table[m.key].dst] = @ + 1] \in [Links -> Nat]
          /\ Counts(t, r, [popped EXCEPT ![table[m.key].dst] = @ + 1], slot)
          /\ \A d \in Dispatches : state[d] = "freed" => r[d] = 0
        BY <1>3, <1>6, PoppedBooks
    <2>5. popped' = [popped EXCEPT ![table[m.key].dst] = @ + 1]
        BY <1>2, <1>6 DEF Popped
    <2>6. ASSUME table' \in [Keys -> Entry], table'[0] = Free, TableOK', thread' \in Message, SenderOK',
                 refs' \in [Dispatches -> Nat], RefsAccounted',
                 \A d \in Dispatches : state[d] = "freed" => refs'[d] = 0,
                 issued' \in 0 .. MaxIssued, counter' \in Keys, EmptyAfterRemoveAll'
          PROVE  Books'
        <3>1. TypeOK'
            BY <1>1, <1>3, <2>2, <2>3, <2>4, <2>5, <2>6 DEF TypeOK, Character
        <3>2. FreedOK'
            BY <1>3, <2>3, <2>6 DEF Books, FreedOK, Served
        <3>. QED BY <1>4, <2>6, <3>1, <3>2 DEF Books
    <2>7. ASSUME table' = t, refs' = r, issued' = issued, counter' \in Keys, thread' \in Message, SenderOK'
          PROVE  Books'
        <3>1. table'[0] = Free /\ TableOK'
            BY <1>1, <2>4, <2>7, LesserIsWhole DEF TableOK
        <3>2. RefsAccounted'
            BY <1>3, <2>4, <2>5, <2>7, <3>1, NextCounted
        <3>3. EmptyAfterRemoveAll'
            BY <1>3, <2>4, <2>7 DEF Books, EmptyAfterRemoveAll, Pending, Lesser
        <3>4. issued' \in 0 .. MaxIssued /\ table' \in [Keys -> Entry]
            BY <1>1, <2>4, <2>7 DEF TypeOK, Lesser
        <3>. HIDE DEF t, r
        <3>. QED BY <2>4, <2>6, <2>7, <3>1, <3>2, <3>3, <3>4
    <2>8. CASE Popped(m) /\ UNCHANGED <<counter, thread, issued>>
        <3>1. table' = t /\ refs' = r
            BY <2>8 DEF Popped
        <3>2. thread' \in Message /\ counter' \in Keys /\ SenderOK'
            BY <1>1, <1>3, <2>8 DEF TypeOK, Books, SenderOK, Sending
        <3>. HIDE DEF t, r
        <3>. QED BY <2>7, <2>8, <3>1, <3>2
    <2>9. CASE issued < MaxIssued /\ AddRequest(t, r, c, l, "zoneend")
        <3>1. NextKey \in Keys /\ (NotAdded(t, r) \/ Added(t, r, c, l, "zoneend", NextKey))
            BY <1>1, <2>9, AddsOrNot
        <3>. HIDE DEF t, r, c
        <3>2. CASE NotAdded(t, r)
            <4>1. thread' \in Message /\ SenderOK'
                BY <3>2, RestIsMessage DEF NotAdded, SenderOK, Sending
            <4>. QED BY <2>7, <3>2, <4>1 DEF NotAdded
        <3>3. CASE Added(t, r, c, l, "zoneend", NextKey)
            <4>1. r \in [Dispatches -> Int] /\ "zoneend" \in Kinds /\ l \in Links \union {slot}
                BY <2>4 DEF Kinds
            <4>2. /\ table' \in [Keys -> Entry] /\ table'[0] = Free /\ TableOK'
                  /\ thread' \in Message /\ SenderOK'
                  /\ refs' \in [Dispatches -> Nat] /\ RefsAccounted'
                  /\ \A d \in Dispatches : state[d] = "freed" => refs'[d] = 0
                  /\ issued' \in 0 .. MaxIssued /\ counter' \in Keys /\ EmptyAfterRemoveAll'
                BY <1>3, <2>1, <2>4, <2>5, <2>9, <3>1, <3>3, <4>1, AdditionBooks
            <4>. QED BY <2>6, <4>2
        <3>. QED BY <3>1, <3>2, <3>3
    <2>. QED BY <1>2, <1>6, <2>8, <2>9
<1>. QED BY <1>5, <1>6

\* A link logs in and takes the slot over.
LEMMA ServerLoginBooks ==
    ASSUME Books, NEW l \in Links, ServerLogin(l)
    PROVE  Books'
<1>1. TypeOK /\ TableOK /\ FreedOK
    BY DEF Books
<1>2. /\ l \notin loggedIn /\ loggedIn' = loggedIn \union {l} /\ slot' = l /\ Served(l)
      /\ state' = [d \in Dispatches |->
                      IF d = slot /\ state[d] = "open" THEN "closed" ELSE state[d]]
      /\ refs' = [d \in Dispatches |-> IF d = slot THEN refs[d] - 1
                                       ELSE IF d = l THEN refs[d] + 1 ELSE refs[d]]
      /\ UNCHANGED <<table, counter, main, client, thread, asked, answers, issued, popped,
                     waiting, unordered>>
    BY DEF ServerLogin
<1>3. slot # l /\ l \in Dispatches /\ (slot \in Links \/ slot = None)
    BY <1>1, <1>2, RequestAssumption DEF FreedOK, TypeOK, Dispatches
<1>4. \A d \in Dispatches : (state'[d] = "freed" <=> state[d] = "freed")
    BY <1>2 DEF Served
<1>5. Counts(table', refs', popped', slot')
    <2>1. Counts(table, refs, popped, slot)
        BY <1>1, RequestsCounted DEF Books
    <2>2. ASSUME NEW c \in Clients
          PROVE  refs'[c] = Cardinality(Srcs(table, c))
        BY <1>2, <1>3, <2>1, RequestAssumption DEF Counts, Dispatches
    <2>3. ASSUME NEW k \in Links
          PROVE  refs'[k] = Cardinality(Dsts(table, k)) + popped[k] + IF k = l THEN 1 ELSE 0
        <3>1. /\ k \in Dispatches /\ popped[k] \in Nat /\ Cardinality(Dsts(table, k)) \in Nat
              /\ refs[k] = Cardinality(Dsts(table, k)) + popped[k] + IF k = slot THEN 1 ELSE 0
            BY <1>1, <2>1, KeysAreFinite DEF TypeOK, Counts, Dispatches, Dsts
        <3>2. refs'[k] = IF k = slot THEN refs[k] - 1 ELSE IF k = l THEN refs[k] + 1 ELSE refs[k]
            BY <1>2, <3>1
        <3>. QED BY <1>3, <3>1, <3>2
    <2>. QED BY <1>2, <2>2, <2>3 DEF Counts
<1>6. refs' \in [Dispatches -> Nat]
    <2>1. refs' \in [Dispatches -> Int]
        BY <1>1, <1>2 DEF TypeOK
    <2>. QED BY <1>1, <1>2, <1>5, <2>1, CountsAreNat DEF TypeOK
<1>7. state' \in [Dispatches -> {"open", "closed", "gone", "freed"}]
    BY <1>1, <1>2 DEF TypeOK
<1>8. TypeOK'
    BY <1>1, <1>2, <1>6, <1>7 DEF TypeOK
<1>9. TableOK' /\ RefsAccounted'
    <2>1. TableOK'
        BY <1>1, <1>2 DEF TableOK, Whole
    <2>. QED BY <1>5, <2>1, NextCounted
<1>10. FreedOK'
    <2>1. \A d \in Dispatches : state[d] = "freed" => refs'[d] = 0
        BY <1>1, <1>2, <1>3, RequestAssumption DEF FreedOK, Served, Dispatches
    <2>2. Served(l)'
        BY <1>2, <1>3 DEF Served
    <2>. QED BY <1>1, <1>2, <1>4, <2>1, <2>2 DEF FreedOK, Dispatches, Served
<1>11. SenderOK' /\ ClientsAsk' /\ EmptyAfterRemoveAll'
    BY <1>2, <1>4, FlightStays DEF Books, SenderOK, Sending, ClientsAsk, EmptyAfterRemoveAll,
       Pending, Dispatches
<1>. QED BY <1>8, <1>9, <1>10, <1>11 DEF Books


\* A session is closed, a character leaves the game, a link or a client is disconnected,
\* or a session is deleted.
LEMMA SessionBooks ==
    ASSUME Books,
           \/ \E c \in Clients : Logout(c)
           \/ \E d \in Dispatches : CloseSession(d) \/ Disconnected(d) \/ Eliminate(d)
    PROVE  Books'
<1>1. TypeOK /\ TableOK /\ FreedOK /\ SenderOK /\ ClientsAsk
    BY DEF Books
<1>2. /\ UNCHANGED <<table, counter, main, loggedIn, thread, issued, popped, unordered>>
      /\ TableOK' /\ EmptyAfterRemoveAll'
    <2>1. UNCHANGED <<table, counter, main, loggedIn, thread, issued, popped, unordered>>
        BY DEF Logout, CloseSession, Disconnected, Eliminate
    <2>. QED BY <2>1 DEF Books, TableOK, Whole, EmptyAfterRemoveAll, Pending
<1>3. NoCharacter \in Character /\ ~NoCharacter.character
    BY DEF NoCharacter, Character
<1>4. CASE \E c \in Clients : Logout(c)
    <2>1. PICK c \in Clients : Logout(c)
        BY <1>4
    <2>2. /\ UNCHANGED <<slot, refs, asked, answers, waiting>> /\ Served(c)
          /\ client' = [client EXCEPT ![c] = [client[c] EXCEPT !.character = FALSE, !.flags = {}]]
          /\ state' \in {state, [state EXCEPT ![c] = "closed"]}
        BY <2>1 DEF Logout
    <2>3. [client[c] EXCEPT !.character = FALSE, !.flags = {}] \in Character
        BY <1>1, CharacterTyped DEF Character
    <2>4. /\ client' \in [Clients -> Character]
          /\ \A d \in Clients : ~client[d].character => ~client'[d].character
        BY <1>1, <2>2, <2>3, CharacterTyped DEF Character
    <2>5. \A d \in Dispatches : (state'[d] = "freed" <=> state[d] = "freed") /\ (Served(d) => Served(d)')
        BY <1>1, <2>2 DEF Served, TypeOK, Dispatches
    <2>6. state' \in [Dispatches -> {"open", "closed", "gone", "freed"}]
        BY <1>1, <2>2 DEF TypeOK
    <2>7. TypeOK'
        BY <1>1, <1>2, <2>2, <2>4, <2>6 DEF TypeOK, Character
    <2>8. FreedOK'
        BY <1>1, <1>2, <2>2, <2>4, <2>5 DEF FreedOK, Dispatches, TypeOK
    <2>9. RefsAccounted' /\ SenderOK' /\ ClientsAsk'
        BY <1>1, <1>2, <2>2, <2>5, FlightStays DEF Books, RefsAccounted, Requests, Pending, SenderOK,
           Sending, Dispatches, ClientsAsk
    <2>. QED BY <1>2, <2>7, <2>8, <2>9 DEF Books
<1>5. CASE \E d \in Dispatches : CloseSession(d)
    <2>1. PICK d \in Dispatches : CloseSession(d)
        BY <1>5
    <2>2. /\ UNCHANGED <<slot, refs, client, asked, answers, waiting>> /\ state[d] = "open"
          /\ state' = [state EXCEPT ![d] = "closed"]
        BY <2>1 DEF CloseSession
    <2>3. \A e \in Dispatches : (state'[e] = "freed" <=> state[e] = "freed") /\ (Served(e) => Served(e)')
        BY <1>1, <2>2 DEF Served, TypeOK
    <2>4. TypeOK'
        BY <1>1, <1>2, <2>2 DEF TypeOK
    <2>5. FreedOK'
        BY <1>1, <1>2, <2>2, <2>3 DEF FreedOK, Dispatches, TypeOK
    <2>6. RefsAccounted' /\ SenderOK' /\ ClientsAsk'
        BY <1>1, <1>2, <2>2, <2>3, FlightStays DEF Books, RefsAccounted, Requests, Pending, SenderOK,
           Sending, Dispatches, ClientsAsk
    <2>. QED BY <1>2, <2>4, <2>5, <2>6 DEF Books
<1>6. CASE \E d \in Dispatches : Disconnected(d)
    <2>1. PICK d \in Dispatches : Disconnected(d)
        BY <1>6
    <2>2. /\ Ready /\ state[d] = "closed" /\ state' = [state EXCEPT ![d] = "gone"]
          /\ slot' = IF d = slot THEN None ELSE slot
          /\ refs' = IF d = slot THEN [refs EXCEPT ![d] = @ - 1] ELSE refs
          /\ client' = [c \in Clients |-> IF c = d
                           THEN [NoCharacter EXCEPT !.keys = client[c].keys] ELSE client[c]]
          /\ answers' = [l \in Links |-> IF l = d THEN <<>> ELSE answers[l]]
          /\ asked' = {m \in asked : m.via # d}
          /\ waiting' = waiting
        BY <2>1 DEF Disconnected
    <2>3. \A c \in Clients : /\ [NoCharacter EXCEPT !.keys = client[c].keys] \in Character
                             /\ [NoCharacter EXCEPT !.keys = client[c].keys].character = FALSE
        BY <1>1, CharacterTyped DEF Character, NoCharacter
    <2>4. /\ client' \in [Clients -> Character]
          /\ \A c \in Clients : ~client[c].character => ~client'[c].character
        BY <1>1, <2>2, <2>3, CharacterTyped DEF Character
    <2>5. MailShrinks
        BY <2>2 DEF MailShrinks
    <2>6. InFlight' \subseteq InFlight /\ asked' \subseteq Message /\ answers' \in [Links -> Seq(Message)]
        BY <1>1, <2>2, <2>5, FlightShrinks
    <2>7. Counts(table', refs', popped', slot')
        <3>1. Counts(table, refs, popped, slot)
            BY <1>1, RequestsCounted DEF Books
        <3>2. CASE d # slot
            BY <1>2, <2>2, <3>1, <3>2
        <3>3. CASE d = slot
            <4>1. d \in Links /\ d \notin Clients
                BY <1>1, <3>3, RequestAssumption DEF TypeOK, Dispatches
            <4>2. \A e \in Dispatches : refs'[e] = IF e = d THEN refs[e] - 1 ELSE refs[e]
                BY <1>1, <2>2, <3>3 DEF TypeOK
            <4>3. \A c \in Clients : refs'[c] = Cardinality(Srcs(table, c))
                BY <3>1, <4>1, <4>2 DEF Counts, Dispatches
            <4>4. ASSUME NEW k \in Links
                  PROVE  refs'[k] = Cardinality(Dsts(table, k)) + popped[k] + IF k = None THEN 1 ELSE 0
                <5>1. /\ k \in Dispatches /\ k # None /\ popped[k] \in Nat
                      /\ Cardinality(Dsts(table, k)) \in Nat
                      /\ refs[k] = Cardinality(Dsts(table, k)) + popped[k] + IF k = d THEN 1 ELSE 0
                    BY <1>1, <3>1, <3>3, KeysAreFinite, RequestAssumption DEF TypeOK, Counts,
                       Dispatches, Dsts
                <5>. QED BY <4>2, <5>1
            <4>. QED BY <1>2, <2>2, <3>3, <4>3, <4>4 DEF Counts
        <3>. QED BY <3>2, <3>3
    <2>8. refs' \in [Dispatches -> Nat]
        <3>1. refs' \in [Dispatches -> Int]
            BY <1>1, <2>2 DEF TypeOK
        <3>. QED BY <1>1, <1>2, <2>7, <3>1, CountsAreNat DEF TypeOK
    <2>9. TypeOK'
        BY <1>1, <1>2, <2>2, <2>4, <2>6, <2>8 DEF TypeOK, Character
    <2>10. RefsAccounted'
        BY <1>2, <2>7, NextCounted
    <2>11. FreedOK'
        <3>1. \A e \in Dispatches : (state'[e] = "freed" <=> state[e] = "freed")
                                    /\ (Served(e) /\ e # d => Served(e)')
            BY <1>1, <2>2 DEF Served, TypeOK
        <3>2. \A e \in Dispatches : state[e] = "freed" => refs'[e] = 0
            BY <1>1, <2>2 DEF FreedOK, TypeOK
        <3>3. slot' # None => Served(slot)' /\ slot' \in loggedIn
            BY <1>1, <2>2, <3>1 DEF FreedOK, Served, TypeOK, Dispatches
        <3>. QED BY <1>1, <1>2, <2>4, <3>1, <3>2, <3>3 DEF FreedOK, Dispatches
    <2>12. SenderOK' /\ ClientsAsk'
        BY <1>1, <1>2, <2>2, <2>6 DEF SenderOK, Sending, ClientsAsk, Ready
    <2>. QED BY <1>2, <2>9, <2>10, <2>11, <2>12 DEF Books
<1>7. CASE \E d \in Dispatches : Eliminate(d)
    <2>1. PICK d \in Dispatches : Eliminate(d)
        BY <1>7
    <2>2. /\ Ready /\ state[d] = "gone" /\ refs[d] = 0
          /\ state' = [state EXCEPT ![d] = "freed"]
          /\ client' = [c \in Clients |-> IF c = d THEN NoCharacter ELSE client[c]]
          /\ waiting' = [c \in Clients |-> IF c = d THEN <<>> ELSE waiting[c]]
          /\ UNCHANGED <<slot, refs, asked, answers>>
        BY <2>1 DEF Eliminate
    <2>3. client' \in [Clients -> Character] /\ waiting' \in [Clients -> Seq(Nat)]
        BY <1>1, <1>3, <2>2, CharacterTyped DEF TypeOK
    <2>4. TypeOK'
        BY <1>1, <1>2, <2>2, <2>3 DEF TypeOK, Character
    <2>5. FreedOK'
        BY <1>1, <1>2, <1>3, <2>2 DEF FreedOK, Served, TypeOK, Dispatches
    <2>6. RefsAccounted' /\ SenderOK' /\ ClientsAsk'
        BY <1>1, <1>2, <2>2, FlightStays DEF Books, RefsAccounted, Requests, Pending, SenderOK,
           Sending, ClientsAsk, Ready
    <2>. QED BY <1>2, <2>4, <2>5, <2>6 DEF Books
<1>. QED BY <1>4, <1>5, <1>6, <1>7

\* The first part holds in the beginning, ...
LEMMA InitBooks ==
    ASSUME Init
    PROVE  Books
<1>1. 0 \in Keys /\ Free \in Entry /\ NoCharacter \in Character /\ ~NoCharacter.character
    BY RequestAssumption DEF Keys, Free, Entry, NoCharacter, Character
<1>2. TypeOK
    BY <1>1, RestIsMessage, RequestAssumption DEF Init, TypeOK, Character
<1>3. TableOK /\ EmptyAfterRemoveAll /\ FreedOK /\ SenderOK /\ ClientsAsk
    <2>1. TableOK /\ EmptyAfterRemoveAll
        BY DEF Init, TableOK, Whole, EmptyAfterRemoveAll
    <2>2. FreedOK
        BY DEF Init, FreedOK, Dispatches
    <2>3. SenderOK
        BY RestIsMessage DEF Init, SenderOK, Sending
    <2>4. InFlight = {}
        BY DEF Init, InFlight
    <2>. QED BY <2>1, <2>2, <2>3, <2>4 DEF ClientsAsk
<1>4. RefsAccounted
    <2>1. ASSUME NEW d \in Dispatches
          PROVE  Requests(d) = 0 /\ refs[d] = 0
        <3>1. {k \in Keys : Pending(k) /\ d \in {table[k].src, table[k].dst}} = {}
            BY DEF Init, Pending
        <3>. QED BY <3>1, FS_EmptySet DEF Requests, Init
    <2>2. \A l \in Links : popped[l] = 0 /\ l # slot
        BY RequestAssumption DEF Init
    <2>. QED BY <2>1, <2>2 DEF RefsAccounted, Dispatches
<1>. QED BY <1>2, <1>3, <1>4 DEF Books

\* ... and every step keeps it.
LEMMA NextBooks ==
    ASSUME Books, [Next]_vars
    PROVE  Books'
<1>1. CASE UNCHANGED vars
    BY <1>1 DEF vars, Books, TypeOK, TableOK, Whole, SenderOK, Sending, ClientsAsk, InFlight,
       RefsAccounted, Requests, Pending, FreedOK, Served, EmptyAfterRemoveAll
<1>2. CASE \E c \in Clients : ClientStep(c)
    BY <1>2, AskBooks, SessionBooks DEF ClientStep
<1>3. CASE \E l \in Links : LinkStep(l)
    BY <1>3, ServerLoginBooks, LoginBooks, ZoneBooks DEF LinkStep
<1>4. CASE \E d \in Dispatches : SessionStep(d)
    BY <1>4, SessionBooks DEF SessionStep
<1>5. CASE \E m \in asked : AgentAnswers(m)
    BY <1>5, AgentBooks
<1>6. CASE Sent \/ SendFails \/ Tick \/ RequestOff \/ RemoveAllRequest
    BY <1>6, SendingBooks, EndingBooks
<1>. QED BY <1>1, <1>2, <1>3, <1>4, <1>5, <1>6 DEF Next

\* The references are in order at all times.
LEMMA AlwaysBooks == Spec => []Books
    BY InitBooks, NextBooks, PTL DEF Spec

\* Every variable of the table of requests, of its ends and of the messages between them
\* has its type, for any number of clients, links, keys and requests: no reference count
\* goes below zero, whichever thread takes a request away first.
THEOREM TypeCorrect == Spec => []TypeOK
<1>1. Books => TypeOK
    BY DEF Books
<1>. QED BY <1>1, AlwaysBooks, PTL

\* The reference count of a session is what the requests in the table and the slot hold of
\* it, and for a link one more for each request that PopRequest took out.
THEOREM ReferencesAreCounted == Spec => []RefsAccounted
<1>1. Books => RefsAccounted
    BY DEF Books
<1>. QED BY <1>1, AlwaysBooks, PTL

\* No request, no slot, no half-made request and no character in the game points to a
\* session that the session manager has deleted.
THEOREM NothingDangles == Spec => []NoDangling
<1>1. ASSUME Books
      PROVE  NoDangling
    <2>1. ASSUME NEW d \in Dispatches, state[d] = "freed"
          PROVE  /\ slot # d /\ thread.src # d
                 /\ \A k \in Keys : Pending(k) => d \notin {table[k].src, table[k].dst}
                 /\ d \in Clients => ~client[d].character
        <3>1. slot # d /\ (d \in Clients => ~client[d].character)
            BY <1>1, <2>1, RequestAssumption DEF Books, FreedOK, Served, Dispatches
        <3>2. thread.src # d
            BY <1>1, <2>1, RequestAssumption DEF Books, SenderOK, Dispatches
        <3>3. \A k \in Keys : Pending(k) => d \notin {table[k].src, table[k].dst}
            BY <1>1, <2>1, PendingIsHeld
        <3>. QED BY <3>1, <3>2, <3>3
    <2>. QED BY <2>1 DEF NoDangling
<1>. QED BY <1>1, AlwaysBooks, PTL

\* Once the main thread has emptied the table nothing is left in it and nothing comes into
\* it any more, although the process thread still runs its handlers.
THEOREM TableStaysEmpty == Spec => []EmptyAfterRemoveAll
<1>1. Books => EmptyAfterRemoveAll
    BY DEF Books
<1>. QED BY <1>1, AlwaysBooks, PTL


-----------------------------------------------------------------------------
(* Second part of the invariant: keys and numbers of the requests under way. *)

\* A queue of answers as it was, empty, or without its head.
LEMMA QueueMoves ==
    ASSUME TypeOK, MailShrinks, NEW l \in Links
    PROVE  /\ answers'[l] \in Seq(Message)
           /\ \E s \in {0, 1} : \A i \in DOMAIN answers'[l] :
                 i + s \in DOMAIN answers[l] /\ answers'[l][i] = answers[l][i + s]
<1>1. answers[l] \in Seq(Message)
    BY DEF TypeOK
<1>2. CASE answers'[l] = answers[l]
    <2>1. \A i \in DOMAIN answers'[l] :
             i + 0 \in DOMAIN answers[l] /\ answers'[l][i] = answers[l][i + 0]
        BY <1>1, <1>2
    <2>. QED BY <1>1, <1>2, <2>1
<1>3. CASE answers'[l] = <<>>
    BY <1>3
<1>4. CASE answers[l] # <<>> /\ answers'[l] = Tail(answers[l])
    BY <1>1, <1>4, TailKeeps
<1>. QED BY <1>2, <1>3, <1>4 DEF MailShrinks

\* What is in the table of a message's request is there of it, or nothing is.
LEMMA LesserMatches ==
    ASSUME NEW t, Lesser(t), NEW m, Match(table, m)
    PROVE  Match(t, m)
    BY DEF Lesser, Match, Pending

\* A key that is used again is not that of another message.
LEMMA AddedMatches ==
    ASSUME NEW t, Lesser(t), NEW m, Match(table, m), m.n \in 1 .. issued, issued \in Nat,
           NEW k \in Keys, m.key # k, NEW e, e.n = issued + 1,
           table' = [t EXCEPT ![k] = e]
    PROVE  Match(table', m)
<1>1. \A j \in Keys : table'[j] = IF j = k THEN e ELSE t[j]
    BY DEF Lesser
<1>2. Match(t, m) /\ e.n # m.n
    BY LesserMatches
<1>. QED BY <1>1, <1>2 DEF Match

\* Fewer answers are no more than one to a request.
LEMMA OneAnswerShrinks ==
    ASSUME TypeOK, MailShrinks, OneAnswer
    PROVE  OneAnswer'
<1>1. \A p, q \in asked' : p.n = q.n => p = q
    BY DEF MailShrinks, OneAnswer
<1>2. ASSUME NEW l \in Links, NEW i \in DOMAIN answers'[l]
      PROVE  /\ \A m \in asked' : m.n # answers'[l][i].n
             /\ \A h \in Links : \A j \in DOMAIN answers'[h] :
                   answers'[l][i].n = answers'[h][j].n
                       => answers'[l][i].kind \in {"login", "deposit"} \/ (h = l /\ j = i)
    <2>1. PICK s \in {0, 1} : \A x \in DOMAIN answers'[l] :
                x + s \in DOMAIN answers[l] /\ answers'[l][x] = answers[l][x + s]
        BY QueueMoves
    <2>2. \A m \in asked' : m.n # answers'[l][i].n
        BY <2>1 DEF MailShrinks, OneAnswer
    <2>3. ASSUME NEW h \in Links, NEW j \in DOMAIN answers'[h], answers'[l][i].n = answers'[h][j].n,
                 answers'[l][i].kind \notin {"login", "deposit"}
          PROVE  h = l /\ j = i
        <3>1. PICK z \in {0, 1} : \A x \in DOMAIN answers'[h] :
                    x + z \in DOMAIN answers[h] /\ answers'[h][x] = answers[h][x + z]
            BY QueueMoves
        <3>2. h = l /\ j + z = i + s
            BY <2>1, <2>3, <3>1 DEF OneAnswer
        <3>3. i + s \in DOMAIN answers[l] /\ answers[l][i + s].n = answers[l][j + s].n
                 /\ j + s \in DOMAIN answers[l]
            BY <2>1, <2>3, <3>2
        <3>4. j + s = i + s
            BY <2>1, <2>3, <3>2, <3>3 DEF OneAnswer
        <3>5. answers'[l] \in Seq(Message)
            BY QueueMoves
        <3>. QED BY <3>2, <3>4, <3>5
    <2>. QED BY <2>2, <2>3
<1>. QED BY <1>1, <1>2 DEF OneAnswer

\* Messages and requests go and none comes.
LEMMA MailKept ==
    ASSUME Books, Mail, MailShrinks, Lesser(table'), issued' = issued,
           Sending' => /\ thread' = thread
                       /\ thread.src \notin unordered' => /\ thread.src \notin unordered
                                                          /\ table'[thread.key] = table[thread.key]
    PROVE  Mail'
<1>1. TypeOK /\ InFlight' \subseteq InFlight
    BY FlightShrinks DEF Books
<1>2. Sending' => Sending
    BY DEF Sending
<1>3. NewestOK'
    BY <1>2, LesserMatches DEF Mail, NewestOK, Pending
<1>4. MessageOK'
    <2>1. ASSUME NEW m \in InFlight'
          PROVE  Numbered(m.n)' /\ Match(table', m)
        BY <1>1, <1>2, <2>1, LesserMatches DEF Mail, MessageOK, Numbered
    <2>2. asked' \subseteq asked
        BY DEF MailShrinks
    <2>. QED BY <2>1, <2>2 DEF Mail, MessageOK
<1>. QED BY <1>1, <1>3, <1>4, OneAnswerShrinks DEF Mail

\* A request is added under a key that no message has.
LEMMA MailAdded ==
    ASSUME Books, Mail, MailShrinks, NEW t, Lesser(t), NEW r, NEW c, NEW via, NEW kind, NEW k \in Keys,
           Added(t, r, c, via, kind, k), ~Sending, kind # "deposit",
           \A m \in InFlight' : m.key # k
    PROVE  Mail'
<1>1. TypeOK /\ InFlight' \subseteq InFlight /\ issued \in Nat /\ Whole(t, issued)
    BY FlightShrinks, LesserIsWhole DEF Books, TypeOK
<1>2. /\ table' = [t EXCEPT ![k] = NewEntry(c)] /\ issued' = issued + 1
      /\ thread'.n = issued + 1 /\ thread'.key = k /\ thread'.src = c /\ thread'.kind = kind
      /\ Sending' /\ NewEntry(c).n = issued + 1 /\ NewEntry(c).src = c
    BY DEF Added, NewEntry, Sending
<1>3. \A j \in Keys : table'[j] = IF j = k THEN NewEntry(c) ELSE t[j]
    BY <1>2 DEF Lesser
<1>4. NewestOK'
    <2>1. Match(table', thread')
        BY <1>1, <1>2, <1>3 DEF Match, Whole
    <2>2. NewEntry(c) # Free
        BY <1>1, <1>2 DEF Free
    <2>. QED BY <1>1, <1>2, <1>3, <2>1, <2>2 DEF NewestOK, Pending
<1>5. MessageOK'
    <2>1. ASSUME NEW m \in InFlight'
          PROVE  Numbered(m.n)' /\ Match(table', m)
        <3>1. m.n \in 1 .. issued /\ Match(table, m) /\ m.key # k
            BY <1>1, <2>1 DEF Mail, MessageOK, Numbered
        <3>2. Numbered(m.n)'
            BY <1>1, <1>2, <3>1 DEF Numbered
        <3>3. Match(table', m)
            BY <1>1, <1>2, <3>1, AddedMatches
        <3>. QED BY <3>2, <3>3
    <2>2. asked' \subseteq asked
        BY DEF MailShrinks
    <2>. QED BY <2>1, <2>2 DEF Mail, MessageOK
<1>. QED BY <1>1, <1>4, <1>5, OneAnswerShrinks DEF Mail

\* The request is sent.
LEMMA SentMail ==
    ASSUME Books, Mail, Sent
    PROVE  Mail'
<1>. DEFINE m == [thread EXCEPT !.at = "asked"]
<1>1. /\ Sending /\ thread' = Idle /\ ~Sending' /\ thread \in Message
      /\ asked' = asked \union {m}
      /\ UNCHANGED <<table, answers, issued>>
    BY RestIsMessage DEF Sent, Sending, Books, TypeOK
<1>2. /\ m.n = thread.n /\ m.key = thread.key /\ m.src = thread.src /\ m.kind = thread.kind
      /\ m.via = thread.via
    BY <1>1 DEF Message
<1>. HIDE DEF m
<1>3. /\ m.n = issued /\ issued # 0 /\ issued \in Nat /\ Match(table, m) /\ m.kind # "deposit"
      /\ m.via \in Links
    BY <1>1, <1>2 DEF Mail, NewestOK, Match, Books, SenderOK, TypeOK
<1>4. InFlight' = InFlight \union {m}
    BY <1>1 DEF InFlight
<1>5. \A a \in InFlight : a.n # m.n
    BY <1>1, <1>3 DEF Mail, MessageOK, Numbered
<1>6. MessageOK'
    BY <1>1, <1>3, <1>4 DEF Mail, MessageOK, Numbered
<1>7. OneAnswer'
    <2>1. \A a \in asked : a \in InFlight
        BY DEF InFlight
    <2>2. \A l \in Links : \A i \in DOMAIN answers[l] : answers[l][i] \in InFlight
        BY DEF InFlight
    <2>3. \A p, q \in asked' : p.n = q.n => p = q
        BY <1>1, <1>5, <2>1 DEF Mail, OneAnswer
    <2>4. \A l \in Links : \A i \in DOMAIN answers[l] : \A a \in asked' : a.n # answers[l][i].n
        BY <1>1, <1>5, <2>2 DEF Mail, OneAnswer
    <2>. QED BY <1>1, <2>3, <2>4 DEF Mail, OneAnswer
<1>. QED BY <1>1, <1>6, <1>7 DEF Mail, NewestOK

\* The agent answers.
LEMMA AgentMail ==
    ASSUME Books, Mail, NEW m \in asked, AgentAnswers(m)
    PROVE  Mail'
<1>1. TypeOK
    BY DEF Books
<1>2. PICK q : Answering(m, q)
    BY <1>1, AgentAnswersSo
<1>3. asked' = asked \ {m} /\ UNCHANGED <<table, thread, issued, unordered>>
    BY <1>1, AgentAnswersSo
<1>4. ASSUME NEW l \in Links, NEW i \in DOMAIN answers'[l]
      PROVE  \/ i \in DOMAIN answers[l] /\ answers'[l][i] = answers[l][i]
             \/ /\ l = m.via /\ i - Len(answers[l]) \in DOMAIN q
                /\ answers'[l][i] = q[i - Len(answers[l])]
                /\ answers'[l][i].n = m.n /\ answers'[l][i].key = m.key /\ answers'[l][i].src = m.src
    BY <1>1, <1>2, AnswersGrow, SMTT(30) DEF Answering
<1>5. \A a \in InFlight' : \E b \in InFlight : a.n = b.n /\ a.key = b.key /\ a.src = b.src
    <2>1. \A l \in Links : \A i \in DOMAIN answers'[l] : \E b \in InFlight :
             answers'[l][i].n = b.n /\ answers'[l][i].key = b.key /\ answers'[l][i].src = b.src
        BY <1>4 DEF InFlight
    <2>2. \A a \in asked' : a \in InFlight
        BY <1>3 DEF InFlight
    <2>. QED BY <2>1, <2>2 DEF InFlight
<1>6. MessageOK'
    <2>1. ASSUME NEW a \in InFlight'
          PROVE  Numbered(a.n)' /\ Match(table', a)
        <3>1. PICK b \in InFlight : a.n = b.n /\ a.key = b.key /\ a.src = b.src
            BY <1>5
        <3>. QED BY <1>3, <3>1 DEF Mail, MessageOK, Numbered, Match, Sending
    <2>. QED BY <1>3, <2>1 DEF Mail, MessageOK
<1>7. ASSUME NEW l \in Links, NEW i \in DOMAIN answers'[l]
      PROVE  /\ \A a \in asked' : a.n # answers'[l][i].n
             /\ \A h \in Links : \A j \in DOMAIN answers'[h] :
                   answers'[l][i].n = answers'[h][j].n
                       => answers'[l][i].kind \in {"login", "deposit"} \/ (h = l /\ j = i)
    <2>1. \A a \in asked' : a.n # answers'[l][i].n
        BY <1>3, <1>4 DEF Mail, OneAnswer
    <2>2. ASSUME NEW h \in Links, NEW j \in DOMAIN answers'[h], answers'[l][i].n = answers'[h][j].n,
                 answers'[l][i].kind \notin {"login", "deposit"}
          PROVE  h = l /\ j = i
        <3>1. CASE /\ i \in DOMAIN answers[l] /\ answers'[l][i] = answers[l][i]
                   /\ j \in DOMAIN answers[h] /\ answers'[h][j] = answers[h][j]
            BY <2>2, <3>1 DEF Mail, OneAnswer
        <3>2. CASE answers'[l][i].n = m.n
            <4>1. ~(i \in DOMAIN answers[l] /\ answers'[l][i] = answers[l][i])
                BY <3>2 DEF Mail, OneAnswer
            <4>2. ASSUME j \in DOMAIN answers[h], answers'[h][j] = answers[h][j]
                  PROVE  FALSE
                <5>1. answers[h][j].n # m.n
                    BY <4>2 DEF Mail, OneAnswer
                <5>. QED BY <2>2, <3>2, <4>2, <5>1
            <4>3. /\ l = m.via /\ i - Len(answers[l]) \in DOMAIN q
                  /\ answers'[l][i] = q[i - Len(answers[l])]
                BY <1>4, <4>1
            <4>4. h = m.via /\ j - Len(answers[h]) \in DOMAIN q
                BY <1>4, <4>2
            <4>5. q \in Seq(Message) /\ DOMAIN q \in {{1}, {1, 2}} /\ Len(answers[l]) \in Nat
                     /\ (DOMAIN q = {1, 2} => q[1].kind = "login" /\ q[2].kind = "deposit")
                <5>1. q \in Seq(Message) /\ (Len(q) = 1 \/ (Len(q) = 2 /\ q[1].kind = "login" /\ q[2].kind = "deposit"))
                    BY <1>2 DEF Answering
                <5>2. answers[l] \in Seq(Message)
                    BY <1>1 DEF TypeOK
                <5>3. Len(answers[l]) \in Nat
                    BY <5>2
                <5>4. DOMAIN q = 1 .. Len(q)
                    BY <5>1
                <5>5. DOMAIN q = {1} \/ (DOMAIN q = {1, 2} /\ q[1].kind = "login" /\ q[2].kind = "deposit")
                    BY <5>1, <5>4
                <5>. QED BY <5>1, <5>3, <5>5
            <4>6. answers'[l] \in Seq(Message) /\ i \in Nat /\ answers'[h] \in Seq(Message) /\ j \in Nat
                BY <1>1, <1>2, AnswersGrow
            <4>7. DOMAIN q = {1}
                BY <2>2, <4>3, <4>5
            <4>. DEFINE z == Len(answers[l])
            <4>8. h = l
                BY <4>3, <4>4
            <4>9. i - z = 1 /\ j - z = 1
                BY <4>3, <4>4, <4>7, <4>8
            <4>10. z \in Nat
                BY <4>5
            <4>. HIDE DEF z
            <4>11. i = j
                BY <4>6, <4>9, <4>10
            <4>. QED BY <4>8, <4>11
        <3>. QED BY <1>4, <2>2, <3>1, <3>2
    <2>. QED BY <2>1, <2>2
<1>8. OneAnswer'
    BY <1>3, <1>7 DEF Mail, OneAnswer
<1>9. NewestOK'
    BY <1>3 DEF Mail, NewestOK, Sending, Match, Pending
<1>. QED BY <1>6, <1>8, <1>9 DEF Mail


\* Nothing comes when neither the agent nor a link moves.
LEMMA MailStays ==
    ASSUME UNCHANGED <<asked, answers>>
    PROVE  MailShrinks
    BY DEF MailShrinks

\* The table is less than it was when it has not changed.
LEMMA SameIsLesser ==
    ASSUME Books
    PROVE  Lesser(table)
    BY DEF Books, TypeOK, TableOK, Whole, Lesser, Pending

\* A client asks.
LEMMA AskMail ==
    ASSUME Books, Mail, NEW c \in Clients, NEW kind \in {"login", "move", "zone"}, Ask(c, kind)
    PROVE  Mail'
<1>1. /\ TypeOK /\ ~Sending /\ KeyIsFresh /\ AddRequest(table, refs, c, slot, kind)
      /\ UNCHANGED <<asked, answers>>
    BY DEF Books, Ask, Ready, Sending
<1>2. NextKey \in Keys /\ (NotAdded(table, refs) \/ Added(table, refs, c, slot, kind, NextKey))
    BY <1>1, AddsOrNot
<1>3. MailShrinks /\ Lesser(table) /\ InFlight' = InFlight
    BY <1>1, MailStays, SameIsLesser, FlightStays
<1>4. CASE NotAdded(table, refs)
    <2>1. table' = table /\ issued' = issued /\ ~Sending'
        BY <1>4, RestIsMessage DEF NotAdded, Sending
    <2>2. Lesser(table')
        BY <1>3, <2>1
    <2>. QED BY <1>3, <2>1, <2>2, MailKept
<1>5. CASE Added(table, refs, c, slot, kind, NextKey)
    <2>1. \A m \in InFlight' : m.key # NextKey
        BY <1>1, <1>3, <1>5 DEF KeyIsFresh, Pending, Added
    <2>. QED BY <1>1, <1>2, <1>3, <1>5, <2>1, MailAdded
<1>. QED BY <1>2, <1>4, <1>5

\* Nothing is under way any more for a move or a zone that is handled.
LEMMA HandledAlone ==
    ASSUME TypeOK, OneAnswer, NEW l \in Links, NEW m \in FirstOf(l), NEW kinds, Receives(l, m, kinds),
           m.kind \notin {"login", "deposit"}
    PROVE  \A a \in InFlight' : a.n # m.n
<1>1. /\ answers[l] \in Seq(Message) /\ answers[l] # <<>> /\ 1 \in DOMAIN answers[l]
      /\ m = answers[l][1]
    BY FirstIs DEF TypeOK
<1>2. answers' = [answers EXCEPT ![l] = Tail(@)] /\ asked' = asked
    BY ReceivesShrinks
<1>3. \A a \in asked' : a.n # m.n
    BY <1>1, <1>2 DEF OneAnswer
<1>4. ASSUME NEW h \in Links, NEW j \in DOMAIN answers'[h]
      PROVE  answers'[h][j].n # m.n
    <2>1. CASE h = l
        <3>1. /\ j + 1 \in DOMAIN answers[l] /\ answers'[h][j] = answers[l][j + 1]
              /\ j + 1 # 1
            BY <1>1, <1>2, <1>4, <2>1, TailKeeps DEF TypeOK
        <3>. QED BY <1>1, <3>1 DEF OneAnswer
    <2>2. CASE h # l
        <3>1. answers'[h] = answers[h]
            BY <1>2, <2>2 DEF TypeOK
        <3>. QED BY <1>1, <2>2, <3>1 DEF OneAnswer
    <2>. QED BY <2>1, <2>2
<1>. QED BY <1>3, <1>4 DEF InFlight

\* A link handles an answer.
LEMMA LinkMail ==
    ASSUME Books, Mail, NEW l \in Links, HandleUpdate(l) \/ HandleDeposit(l) \/ HandleZone(l)
    PROVE  Mail'
<1>1. TypeOK /\ TableOK
    BY DEF Books
<1>2. CASE HandleUpdate(l) \/ HandleDeposit(l)
    <2>1. PICK m \in FirstOf(l) :
             /\ \E kinds : Receives(l, m, kinds)
             /\ UNCHANGED <<thread, issued>> /\ (table' = table \/ table' = Removed({m.key}))
        BY <1>2 DEF HandleUpdate, HandleDeposit, Popped
    <2>2. MailShrinks /\ Ready /\ m.key \in Keys
        BY <1>1, <2>1, ReceivesShrinks, FirstIs
    <2>3. Lesser(table') /\ ~Sending'
        BY <1>1, <2>1, <2>2, SameIsLesser, RemovedIsLesser DEF Ready, Sending
    <2>. QED BY <2>1, <2>2, <2>3, MailKept
<1>3. CASE HandleZone(l)
    <2>1. PICK m \in FirstOf(l) :
             /\ Receives(l, m, {"move", "zone", "zoneend"})
             /\ \/ ~Pending(m.key) /\ thread' = [Idle EXCEPT !.at = "crashed"]
                   /\ table' = table /\ issued' = issued
                \/ Pending(m.key) /\ Popped(m) /\ UNCHANGED <<thread, issued>>
                \/ /\ Pending(m.key) /\ m.kind = "zone" /\ KeyIsFresh
                   /\ AddRequest(Removed({m.key}), [refs EXCEPT ![table[m.key].src] = @ - 1],
                                 table[m.key].src, l, "zoneend")
        BY <1>3 DEF HandleZone
    <2>2. MailShrinks /\ InFlight' \subseteq InFlight /\ Ready /\ m.key \in Keys /\ m \in InFlight
        BY <1>1, <2>1, ReceivesShrinks, FirstIs
    <2>3. Lesser(table) /\ Lesser(Removed({m.key}))
        BY <1>1, <2>2, SameIsLesser, RemovedIsLesser
    <2>4. CASE thread' = [Idle EXCEPT !.at = "crashed"] /\ table' = table /\ issued' = issued
        BY <2>2, <2>3, <2>4, RestIsMessage, MailKept DEF Sending
    <2>5. CASE Popped(m) /\ UNCHANGED <<thread, issued>>
        BY <2>2, <2>3, <2>5, MailKept DEF Popped, Ready, Sending
    <2>6. CASE /\ Pending(m.key) /\ m.kind = "zone" /\ KeyIsFresh
               /\ AddRequest(Removed({m.key}), [refs EXCEPT ![table[m.key].src] = @ - 1],
                             table[m.key].src, l, "zoneend")
        <3>. DEFINE t == Removed({m.key})
                    r == [refs EXCEPT ![table[m.key].src] = @ - 1]
                    c == table[m.key].src
        <3>1. NextKey \in Keys /\ (NotAdded(t, r) \/ Added(t, r, c, l, "zoneend", NextKey))
            BY <1>1, <2>6, AddsOrNot
        <3>. HIDE DEF r, c
        <3>2. CASE NotAdded(t, r)
            <4>1. table' = t /\ issued' = issued /\ ~Sending'
                BY <3>2, RestIsMessage DEF NotAdded, Sending
            <4>. QED BY <2>2, <2>3, <4>1, MailKept
        <3>3. CASE Added(t, r, c, l, "zoneend", NextKey)
            <4>1. t[NextKey] = Free /\ (NextKey # m.key => ~Pending(NextKey))
                BY <3>1, <3>3 DEF Added, Removed, Pending
            <4>2. ASSUME NEW a \in InFlight', a.key = NextKey
                  PROVE  FALSE
                <5>1. NextKey = m.key
                    BY <2>2, <2>6, <4>1, <4>2 DEF KeyIsFresh
                <5>2. Match(table, a) /\ Match(table, m)
                    BY <2>2 DEF Mail, MessageOK
                <5>3. a.n = m.n
                    BY <2>2, <2>6, <4>2, <5>1, <5>2 DEF Match, Pending
                <5>. QED BY <1>1, <2>1, <2>6, <5>3, HandledAlone DEF Mail
            <4>. HIDE DEF t
            <4>3. ~Sending
                BY <2>2 DEF Ready, Sending
            <4>. QED BY <2>2, <2>3, <3>1, <3>3, <4>2, <4>3, MailAdded DEF t
        <3>. QED BY <3>1, <3>2, <3>3
    <2>. QED BY <2>1, <2>4, <2>5, <2>6
<1>. QED BY <1>2, <1>3

\* A request is not sent, or ends with the time or with the server.
LEMMA EndingMail ==
    ASSUME Books, Mail, SendFails \/ Tick \/ RequestOff \/ RemoveAllRequest
    PROVE  Mail'
<1>1. TypeOK /\ TableOK
    BY DEF Books
<1>2. MailShrinks /\ issued' = issued
    BY MailStays DEF SendFails, Tick, RequestOff, RemoveAllRequest
<1>3. CASE SendFails
    <2>1. thread.key \in Keys /\ table' = Removed({thread.key}) /\ thread' = Idle
        BY <1>1, <1>3 DEF SendFails, TypeOK, Message
    <2>2. Lesser(table') /\ ~Sending'
        BY <1>1, <2>1, RemovedIsLesser, RestIsMessage DEF Sending
    <2>. QED BY <1>2, <2>2, MailKept
<1>4. CASE Tick
    <2>1. Lesser(table')
        BY <1>1, <1>4, TickIsLesser
    <2>2. ~Sending'
        BY <1>4 DEF Tick, Ready, Sending
    <2>. QED BY <1>2, <2>1, <2>2, MailKept
<1>5. CASE RequestOff
    <2>1. UNCHANGED <<table, thread, unordered>>
        BY <1>5 DEF RequestOff
    <2>2. Lesser(table')
        BY <2>1, SameIsLesser
    <2>. QED BY <1>2, <2>1, <2>2, MailKept
<1>6. CASE RemoveAllRequest
    <2>. DEFINE all == {k \in Keys : Pending(k)}
    <2>1. /\ table' = [k \in Keys |-> Free] /\ thread' = thread
          /\ unordered' = unordered \union {table[k].src : k \in all}
        BY <1>6 DEF RemoveAllRequest, Remove, Unordered
    <2>2. Lesser(table')
        <3>1. Free \in Entry
            BY RequestAssumption DEF Free, Entry
        <3>. QED BY <2>1, <3>1 DEF Lesser
    <2>3. Sending => thread.src \in unordered'
        <3>1. SUFFICES ASSUME Sending, thread.src \notin unordered
              PROVE  thread.src \in unordered'
            BY <2>1
        <3>2. Pending(thread.key) /\ Match(table, thread) /\ thread.key \in Keys
            BY <1>1, <3>1 DEF Mail, NewestOK, TypeOK, Message
        <3>3. table[thread.key].src = thread.src /\ thread.key \in all
            BY <3>2 DEF Match, Pending
        <3>. QED BY <2>1, <3>3
    <2>4. Sending' => Sending
        BY <2>1 DEF Sending
    <2>. QED BY <1>2, <2>1, <2>2, <2>3, <2>4, MailKept
<1>. QED BY <1>3, <1>4, <1>5, <1>6

\* Sessions come and go.
LEMMA SessionMail ==
    ASSUME Books, Mail,
           \/ \E c \in Clients : Logout(c)
           \/ \E l \in Links : ServerLogin(l)
           \/ \E d \in Dispatches : CloseSession(d) \/ Disconnected(d) \/ Eliminate(d)
    PROVE  Mail'
<1>1. UNCHANGED <<table, thread, unordered, issued>>
    BY DEF Logout, ServerLogin, CloseSession, Disconnected, Eliminate
<1>2. MailShrinks
    <2>1. CASE UNCHANGED <<asked, answers>>
        BY <2>1, MailStays
    <2>2. CASE \E d \in Dispatches : Disconnected(d)
        <3>1. PICK d \in Dispatches :
                 /\ answers' = [l \in Links |-> IF l = d THEN <<>> ELSE answers[l]]
                 /\ asked' = {m \in asked : m.via # d}
            BY <2>2 DEF Disconnected
        <3>. QED BY <3>1 DEF MailShrinks
    <2>. QED BY <2>1, <2>2 DEF Logout, ServerLogin, CloseSession, Eliminate
<1>3. Lesser(table')
    BY <1>1, SameIsLesser
<1>. QED BY <1>1, <1>2, <1>3, MailKept

\* The second part holds in the beginning, ...
LEMMA InitMail ==
    ASSUME Init
    PROVE  Mail
<1>1. InFlight = {} /\ asked = {} /\ \A l \in Links : answers[l] = <<>>
    BY DEF Init, InFlight
<1>2. ~Sending
    BY RestIsMessage DEF Init, Sending
<1>. QED BY <1>1, <1>2 DEF Mail, NewestOK, MessageOK, OneAnswer

\* ... and every step keeps it.
LEMMA NextMail ==
    ASSUME Books, Mail, [Next]_vars
    PROVE  Mail'
<1>1. CASE UNCHANGED vars
    <2>1. MailShrinks /\ Lesser(table') /\ UNCHANGED <<table, issued, thread, unordered>>
        BY <1>1, MailStays, SameIsLesser DEF vars
    <2>. QED BY <2>1, MailKept
<1>2. CASE \E c \in Clients : ClientStep(c)
    BY <1>2, AskMail, SessionMail DEF ClientStep
<1>3. CASE \E l \in Links : LinkStep(l)
    BY <1>3, LinkMail, SessionMail DEF LinkStep
<1>4. CASE \E d \in Dispatches : SessionStep(d)
    BY <1>4, SessionMail DEF SessionStep
<1>5. CASE \E m \in asked : AgentAnswers(m)
    BY <1>5, AgentMail
<1>6. CASE Sent \/ SendFails \/ Tick \/ RequestOff \/ RemoveAllRequest
    BY <1>6, SentMail, EndingMail
<1>. QED BY <1>1, <1>2, <1>3, <1>4, <1>5, <1>6 DEF Next

\* Keys and numbers go together at all times.
LEMMA AlwaysMail == Spec => []Mail
<1>1. Init => Mail
    BY InitMail
<1>2. Books /\ Mail /\ [Next]_vars => Mail'
    BY NextMail
<1>. QED BY <1>1, <1>2, AlwaysBooks, PTL DEF Spec

\* An answer finds in the table the request it is the answer to, or nothing: not a later
\* request of the same key, although the counter comes round, the main thread, the time and
\* the links take requests away under it, and a handler puts a new request where the one it
\* answers has just been.
THEOREM AnswersFindTheirs == Spec => []AnswerFindsItsRequest
<1>1. ASSUME Books, Mail
      PROVE  AnswerFindsItsRequest
    <2>1. \A m \in InFlight : m \in Message
        BY <1>1 DEF Books, TypeOK, InFlight
    <2>2. ASSUME NEW m \in InFlight, Pending(m.key)
          PROVE  table[m.key].n = m.n /\ table[m.key].src = m.src
        <3>1. m.key \in Keys /\ Match(table, m)
            BY <1>1, <2>1 DEF Mail, MessageOK, Message
        <3>. QED BY <2>2, <3>1 DEF Match, Pending
    <2>. QED BY <2>2 DEF AnswerFindsItsRequest
<1>. QED BY <1>1, AlwaysBooks, AlwaysMail, PTL


-----------------------------------------------------------------------------
(* Third part of the invariant: what clients wait for.                       *)

\* Requests that were sent stay so.
LEMMA NumberedStays ==
    ASSUME issued \in Nat,
           \/ issued' = issued /\ (Sending' => Sending)
           \/ issued' = issued + 1 /\ ~Sending,
           NEW n, Numbered(n)
    PROVE  Numbered(n)'
    BY DEF Numbered

\* A client whose keys are still those of its open requests.
LEMMA WaitKept ==
    ASSUME NEW c \in Clients, WaitOK(c), waiting'[c] = waiting[c], c \in unordered' <=> c \in unordered,
           \A n : Numbered(n) => Numbered(n)',
           c \notin unordered =>
              /\ InStep(table', c, client'[c].keys, waiting[c])
              /\ "MOVEZONE_PROCESSED" \in client'[c].flags => "MOVEZONE_PROCESSED" \in client[c].flags
              /\ \A n \in Waits(c) : IsMove(n) => IsMove(n)'
    PROVE  WaitOK(c)'
    BY DEF WaitOK, Waits

\* A client that is known to have lost a request.
LEMMA WaitLost ==
    ASSUME NEW c \in Clients, waiting'[c] = <<>>, c \in unordered'
    PROVE  WaitOK(c)'
    BY DEF WaitOK

\* The keys stay in step when their entries stay.
LEMMA InStepStays ==
    ASSUME NEW t, NEW u, NEW c, NEW keys, NEW w, InStep(t, c, keys, w),
           \A i \in 1 .. Len(keys) : t[keys[i]].src = c =>
               u[keys[i]].src = t[keys[i]].src /\ u[keys[i]].n = t[keys[i]].n
    PROVE  InStep(u, c, keys, w)
    BY DEF InStep

\* What is known of the queues of a client in step.
LEMMA QueuesTyped ==
    ASSUME TypeOK, NEW c \in Clients
    PROVE  /\ waiting[c] \in Seq(Nat) /\ client[c].keys \in Seq(Keys)
           /\ DOMAIN waiting[c] = 1 .. Len(waiting[c])
           /\ \A i \in 1 .. Len(client[c].keys) : client[c].keys[i] \in Keys
<1>1. client[c] \in Character
    BY CharacterTyped
<1>. QED BY <1>1 DEF Character, TypeOK

\* The request that a client waits for is in the table if it is the request of a message.
LEMMA WaitsMatch ==
    ASSUME TypeOK, NEW d \in Clients, WaitOK(d), NEW m, Match(table, m), m.n \in Waits(d)
    PROVE  d \notin unordered /\ Pending(m.key) /\ table[m.key].src = d
<1>1. PICK i \in DOMAIN waiting[d] : waiting[d][i] = m.n
    BY DEF Waits
<1>2. d \notin unordered
    BY <1>1 DEF WaitOK
<1>3. i \in 1 .. Len(client[d].keys) /\ client[d].keys[i] \in Keys
    BY <1>1, <1>2, QueuesTyped DEF WaitOK, InStep
<1>4. table[client[d].keys[i]].src = d /\ table[client[d].keys[i]].n = m.n
    BY <1>1, <1>2, <1>3 DEF WaitOK, InStep
<1>5. table[client[d].keys[i]] # Free
    BY <1>4, RequestAssumption DEF Free
<1>6. client[d].keys[i] = m.key
    BY <1>3, <1>4, <1>5 DEF Match
<1>. QED BY <1>2, <1>4, <1>5, <1>6 DEF Pending

\* Messages that go leave what is a move one.
LEMMA MovesStay ==
    ASSUME InFlight' \subseteq InFlight, NEW n, IsMove(n)
    PROVE  IsMove(n)'
    BY DEF IsMove

\* The logins that are still to be handled come first.
LEMMA LoginFirstKept ==
    ASSUME Books, LoginFirst, \A c \in Clients : Waits(c)' \subseteq Waits(c),
           \A l \in Links :
              \/ answers'[l] = answers[l] \/ answers'[l] = <<>>
              \/ /\ answers[l] # <<>> /\ answers'[l] = Tail(answers[l])
                 /\ answers[l][1].kind = "login" =>
                       \A c \in Clients : answers[l][1].n \notin Waits(c)'
    PROVE  LoginFirst'
<1>1. TypeOK
    BY DEF Books
<1>2. ASSUME NEW l \in Links, NEW i \in DOMAIN answers'[l], answers'[l][i].kind = "deposit",
             NEW c, c = answers'[l][i].src, answers'[l][i].n \in Waits(c)'
      PROVE  \E j \in DOMAIN answers'[l] :
                j < i /\ answers'[l][j].n = answers'[l][i].n /\ answers'[l][j].kind = "login"
    <2>1. CASE answers'[l] = answers[l]
        <3>1. c \in Clients
            BY <1>2, <2>1 DEF Books, ClientsAsk, InFlight
        <3>2. answers[l][i].n \in Waits(c)
            BY <1>2, <2>1, <3>1
        <3>. QED BY <1>2, <2>1, <3>2 DEF LoginFirst
    <2>2. CASE /\ answers[l] # <<>> /\ answers'[l] = Tail(answers[l])
               /\ answers[l][1].kind = "login" =>
                     \A d \in Clients : answers[l][1].n \notin Waits(d)'
        <3>1. /\ answers[l] \in Seq(Message) /\ Tail(answers[l]) \in Seq(Message)
              /\ \A x \in DOMAIN Tail(answers[l]) :
                    x + 1 \in DOMAIN answers[l] /\ Tail(answers[l])[x] = answers[l][x + 1]
            BY <1>1, <2>2, TailKeeps DEF TypeOK
        <3>2. i + 1 \in DOMAIN answers[l] /\ answers'[l][i] = answers[l][i + 1]
            BY <1>2, <2>2, <3>1
        <3>3. c \in Clients /\ answers[l][i + 1].n \in Waits(c)
            <4>1. c \in Clients
                BY <1>2, <3>2 DEF Books, ClientsAsk, InFlight
            <4>. QED BY <1>2, <3>2, <4>1
        <3>4. PICK j \in DOMAIN answers[l] :
                 j < i + 1 /\ answers[l][j].n = answers[l][i + 1].n /\ answers[l][j].kind = "login"
            BY <1>2, <3>2, <3>3 DEF LoginFirst
        <3>5. j # 1
            BY <1>2, <2>2, <3>2, <3>3, <3>4
        <3>6. /\ Len(Tail(answers[l])) = Len(answers[l]) - 1 /\ Len(answers[l]) \in Nat
              /\ DOMAIN answers[l] = 1 .. Len(answers[l]) /\ i \in Nat
              /\ DOMAIN Tail(answers[l]) = 1 .. Len(Tail(answers[l]))
            BY <1>2, <2>2, <3>1
        <3>7. j - 1 \in DOMAIN Tail(answers[l]) /\ (j - 1) + 1 = j /\ j - 1 < i
            BY <3>4, <3>5, <3>6
        <3>. QED BY <2>2, <3>1, <3>2, <3>4, <3>7
    <2>3. CASE answers'[l] = <<>>
        BY <1>2, <2>3
    <2>. QED BY <2>1, <2>2, <2>3
<1>. QED BY <1>2, Zenon DEF LoginFirst

\* No login is handled and nothing more is waited for.
LEMMA LoginFirstStays ==
    ASSUME Books, LoginFirst, waiting' = waiting,
           \A l \in Links : answers'[l] = answers[l] \/ answers'[l] = <<>>
    PROVE  LoginFirst'
    BY LoginFirstKept DEF Waits

\* A client asks.
LEMMA AskTurns ==
    ASSUME Books, Mail, Turns, NEW c \in Clients, NEW kind \in {"login", "move", "zone"}, Ask(c, kind)
    PROVE  Turns'
<1>1. /\ TypeOK /\ ~Sending /\ AddRequest(table, refs, c, slot, kind)
      /\ UNCHANGED <<client, asked, answers, waiting, unordered>>
    BY DEF Books, Ask, Ready, Sending
<1>2. NextKey \in Keys /\ (NotAdded(table, refs) \/ Added(table, refs, c, slot, kind, NextKey))
    BY <1>1, AddsOrNot
<1>3. LoginFirst'
    BY <1>1, LoginFirstStays DEF Turns
<1>4. issued \in Nat
    BY <1>1 DEF TypeOK
<1>5. \A n : Numbered(n) => Numbered(n)'
    <2>1. \/ issued' = issued /\ (Sending' => Sending)
          \/ issued' = issued + 1 /\ ~Sending
        BY <1>1, <1>2, RestIsMessage DEF NotAdded, Added, Sending
    <2>. QED BY <1>4, <2>1, NumberedStays
<1>6. \A k \in Keys : table'[k] = table[k] \/ table[k] = Free
    BY <1>1, <1>2 DEF NotAdded, Added, TypeOK
<1>7. ASSUME NEW d \in Clients
      PROVE  WaitOK(d)'
    <2>1. WaitOK(d) /\ InFlight' = InFlight
        BY <1>1, FlightStays DEF Turns
    <2>2. \A k \in Keys : table[k].src = d => table'[k] = table[k]
        BY <1>6, RequestAssumption DEF Free
    <2>3. d \notin unordered => InStep(table', d, client'[d].keys, waiting[d])
        BY <1>1, <2>1, <2>2, QueuesTyped, InStepStays DEF WaitOK
    <2>4. \A n : IsMove(n) => IsMove(n)'
        BY <2>1, MovesStay
    <2>. QED BY <1>1, <1>5, <2>1, <2>3, <2>4, WaitKept
<1>. QED BY <1>3, <1>7 DEF Turns

\* The request is sent, and waited for by a client in step.
LEMMA SentTurns ==
    ASSUME Books, Mail, Turns, Sent
    PROVE  Turns'
<1>. DEFINE m == [thread EXCEPT !.at = "asked"]
<1>0. PICK s \in Clients : s = thread.src
    BY DEF Sent, Sending, Books, SenderOK
<1>1. /\ TypeOK /\ Sending /\ ~Sending' /\ thread \in Message /\ thread.key \in Keys
      /\ thread.n = issued /\ issued \in Nat /\ issued # 0
      /\ Match(table, thread) /\ (s \notin unordered => Pending(thread.key))
    BY <1>0, RestIsMessage DEF Sent, Sending, Books, SenderOK, TypeOK, Mail, NewestOK, Message
<1>2. /\ UNCHANGED <<table, answers, issued, unordered>>
      /\ asked' = asked \union {m}
      /\ client' = [client EXCEPT ![s].keys = Append(@, thread.key),
                                  ![s].flags = @ \union Flag(thread.kind)]
      /\ waiting' = IF s \in unordered THEN waiting ELSE [waiting EXCEPT ![s] = Append(@, thread.n)]
    BY <1>0 DEF Sent
<1>3. m.n = issued /\ m.kind = thread.kind
    BY <1>1 DEF Message
<1>4. /\ \A d \in Clients : d # s => client'[d] = client[d] /\ waiting'[d] = waiting[d]
      /\ client'[s].keys = Append(client[s].keys, thread.key)
      /\ client'[s].flags = client[s].flags \union Flag(thread.kind)
      /\ waiting'[s] = IF s \in unordered THEN waiting[s] ELSE Append(waiting[s], issued)
    <2>1. client[s] \in Character
        BY <1>1, CharacterTyped
    <2>. QED BY <1>1, <1>2, <2>1, CharacterTyped DEF Character, TypeOK
<1>. HIDE DEF m
<1>5. InFlight' = InFlight \union {m} /\ \A a \in InFlight : a.n # issued
    BY <1>1, <1>2 DEF InFlight, Mail, MessageOK, Numbered
<1>6. \A n : Numbered(n) => Numbered(n)' /\ n # issued
    BY <1>1, <1>2 DEF Numbered
<1>7. ASSUME NEW n, IsMove(n), n # issued
      PROVE  IsMove(n)'
    BY <1>3, <1>5, <1>7 DEF IsMove
<1>8. \A d \in Clients : \A n \in Waits(d) : n # issued
    BY <1>6 DEF Turns, WaitOK, Waits
<1>9. ASSUME NEW d \in Clients, d # s \/ s \in unordered
      PROVE  WaitOK(d)'
    <2>1. WaitOK(d) /\ waiting'[d] = waiting[d]
        BY <1>4, <1>9 DEF Turns
    <2>2. d \notin unordered => client'[d] = client[d] /\ InStep(table', d, client'[d].keys, waiting[d])
        BY <1>2, <1>4, <1>9, <2>1 DEF WaitOK
    <2>3. \A n \in Waits(d) : IsMove(n) => IsMove(n)'
        BY <1>7, <1>8
    <2>. QED BY <1>2, <1>6, <2>1, <2>2, <2>3, WaitKept
<1>10. ASSUME s \notin unordered
       PROVE  WaitOK(s)'
    <2>1. /\ WaitOK(s) /\ waiting[s] \in Seq(Nat) /\ client[s].keys \in Seq(Keys)
          /\ DOMAIN waiting[s] = 1 .. Len(waiting[s])
        BY <1>1, QueuesTyped DEF Turns
    <2>2. InStep(table, s, client[s].keys, waiting[s])
        BY <1>10, <2>1 DEF WaitOK
    <2>3. /\ waiting'[s] \in Seq(Nat) /\ Len(waiting'[s]) = Len(waiting[s]) + 1
          /\ \A i \in 1 .. Len(waiting[s]) : waiting'[s][i] = waiting[s][i]
          /\ waiting'[s][Len(waiting[s]) + 1] = issued
        BY <1>1, <1>4, <1>10, <2>1, AppendProperties
    <2>4. /\ Len(client'[s].keys) = Len(client[s].keys) + 1 /\ Len(client[s].keys) \in Nat
          /\ \A i \in 1 .. Len(client[s].keys) : client'[s].keys[i] = client[s].keys[i]
          /\ client'[s].keys[Len(client[s].keys) + 1] = thread.key
        BY <1>1, <1>4, <2>1, AppendProperties, SMTT(30)
    <2>5. DOMAIN waiting'[s] = 1 .. Len(waiting[s]) + 1 /\ Len(waiting[s]) \in Nat
        BY <2>1, <2>3
    <2>6. table[thread.key].src = s /\ table[thread.key].n = issued
        BY <1>0, <1>1, <1>10 DEF Match, Pending
    <2>7. InStep(table', s, client'[s].keys, waiting'[s])
        <3>1. Len(client[s].keys) = Len(waiting[s])
            BY <2>2 DEF InStep
        <3>2. ASSUME NEW i \in 1 .. Len(client'[s].keys)
              PROVE  table[client'[s].keys[i]].src = s /\ table[client'[s].keys[i]].n = waiting'[s][i]
            <4>1. CASE i \in 1 .. Len(client[s].keys)
                BY <2>2, <2>3, <2>4, <3>1, <4>1 DEF InStep
            <4>2. CASE i = Len(client[s].keys) + 1
                BY <2>3, <2>4, <2>6, <3>1, <4>2
            <4>. QED BY <2>4, <3>2, <4>1, <4>2, SMTT(30)
        <3>. QED BY <1>2, <2>3, <2>4, <3>1, <3>2 DEF InStep
    <2>8. \A i \in DOMAIN waiting[s] : waiting[s][i] \in 1 .. issued /\ waiting[s][i] < issued
        BY <1>1, <2>1 DEF WaitOK, Numbered
    <2>9. /\ \A i \in DOMAIN waiting'[s] : waiting'[s][i] \in 1 .. issued
          /\ \A i, j \in DOMAIN waiting'[s] : i < j => waiting'[s][i] < waiting'[s][j]
        <3>2. \A i \in DOMAIN waiting'[s] : i \in DOMAIN waiting[s] \/ i = Len(waiting[s]) + 1
            BY <2>1, <2>5
        <3>3. \A i \in DOMAIN waiting'[s] : waiting'[s][i] \in 1 .. issued
            <4>1. issued \in 1 .. issued
                BY <1>1
            <4>. QED BY <2>1, <2>3, <2>8, <3>2, <4>1
        <3>4. ASSUME NEW i \in DOMAIN waiting'[s], NEW j \in DOMAIN waiting'[s], i < j
              PROVE  waiting'[s][i] < waiting'[s][j]
            <4>1. i \in DOMAIN waiting[s]
                BY <2>1, <2>5, <3>4
            <4>2. CASE j \in DOMAIN waiting[s]
                BY <2>1, <2>3, <3>4, <4>1, <4>2 DEF WaitOK
            <4>3. CASE j = Len(waiting[s]) + 1
                BY <2>1, <2>3, <2>8, <4>1, <4>3
            <4>. QED BY <3>2, <4>2, <4>3
        <3>. QED BY <3>3, <3>4
    <2>10. issued \in Waits(s)' /\ Waits(s) \subseteq Waits(s)'
        <3>1. /\ Len(waiting[s]) + 1 \in DOMAIN waiting'[s]
              /\ \A i \in DOMAIN waiting[s] : i \in DOMAIN waiting'[s]
            BY <2>1, <2>5
        <3>2. \A i \in DOMAIN waiting[s] : waiting'[s][i] = waiting[s][i]
            BY <2>1, <2>3
        <3>. QED BY <2>3, <3>1, <3>2, Zenon DEF Waits
    <2>11. ASSUME "MOVEZONE_PROCESSED" \in client'[s].flags
           PROVE  \E n \in Waits(s)' : IsMove(n)'
        <3>1. CASE "MOVEZONE_PROCESSED" \in client[s].flags
            <4>1. PICK n \in Waits(s) : IsMove(n)
                BY <1>10, <2>1, <3>1 DEF WaitOK
            <4>. QED BY <1>1, <1>7, <1>8, <2>10, <4>1
        <3>2. CASE "MOVEZONE_PROCESSED" \in Flag(thread.kind)
            <4>1. thread.kind = "move"
                BY <3>2 DEF Flag
            <4>2. IsMove(issued)'
                BY <1>2, <1>3, <1>5, <4>1 DEF IsMove
            <4>. QED BY <1>2, <2>10, <4>2
        <3>. QED BY <1>4, <2>11, <3>1, <3>2
    <2>. QED BY <1>1, <1>2, <1>10, <2>7, <2>9, <2>11 DEF WaitOK, Numbered
<1>11. LoginFirst'
    <2>1. ASSUME NEW l \in Links, NEW i \in DOMAIN answers[l], NEW d \in Clients,
                 answers[l][i].n \notin Waits(d)
          PROVE  answers[l][i].n \notin Waits(d)'
        <3>1. answers[l][i].n # issued
            BY <1>5 DEF InFlight
        <3>2. \A x \in DOMAIN waiting'[d] : waiting'[d][x] = issued \/ waiting'[d][x] \in Waits(d)
            <4>1. waiting[d] \in Seq(Nat)
                BY <1>1 DEF TypeOK
            <4>2. CASE waiting'[d] = waiting[d]
                BY <4>2 DEF Waits
            <4>3. CASE waiting'[d] = Append(waiting[d], issued)
                BY <1>1, <4>1, <4>3, AppendProperties DEF Waits
            <4>. QED BY <1>4, <4>2, <4>3
        <3>. QED BY <2>1, <3>1, <3>2 DEF Waits
    <2>2. \A l \in Links : \A i \in DOMAIN answers[l] : answers[l][i].src \in Clients
        BY DEF Books, ClientsAsk, InFlight
    <2>. QED BY <1>2, <2>1, <2>2 DEF Turns, LoginFirst
<1>. QED BY <1>1, <1>9, <1>10, <1>11 DEF Turns


\* A request gets its first answer: its key and its number leave their queues together, or
\* the client is known to be out of order.
LEMMA AnsweredWaits ==
    ASSUME Books, Mail, Turns, NEW m \in InFlight, Pending(m.key), Answered(m),
           NEW c, c = table[m.key].src,
           client'[c].keys = PopRequestKey(client[c].keys),
           "MOVEZONE_PROCESSED" \in client'[c].flags =>
               "MOVEZONE_PROCESSED" \in client[c].flags /\ m.kind # "move",
           \A d \in Clients : d # c => client'[d] = client[d],
           \A k \in Keys : k # m.key /\ Pending(k) =>
               table'[k].src = table[k].src /\ table'[k].n = table[k].n,
           InFlight' \subseteq InFlight, \A n : Numbered(n) => Numbered(n)'
    PROVE  \A d \in Clients : WaitOK(d)' /\ Waits(d)' \subseteq Waits(d) /\ m.n \notin Waits(d)'
<1>. DEFINE w == waiting[c]
            keys == client[c].keys
<1>1. /\ TypeOK /\ c \in Clients /\ m.src = c /\ m.key \in Keys /\ Match(table, m)
      /\ table[m.key].n = m.n
    <2>1. m \in Message /\ Match(table, m) /\ TypeOK
        BY DEF Books, TypeOK, InFlight, Mail, MessageOK
    <2>2. m.key \in Keys
        BY <2>1 DEF Message
    <2>3. c \in Clients
        BY <2>2, PendingIsHeld
    <2>. QED BY <2>1, <2>2, <2>3 DEF Match, Pending
<1>2. \A k \in Keys : table[k].src \in Clients => Pending(k)
    BY RequestAssumption, SMTT(30) DEF Pending, Free
<1>3. /\ \A d \in Clients : d # c => waiting'[d] = waiting[d] /\ (d \in unordered' <=> d \in unordered)
      /\ w # <<>> /\ Head(w) = m.n => unordered' = unordered /\ waiting'[c] = Tail(w)
      /\ ~(w # <<>> /\ Head(w) = m.n) => c \in unordered' /\ waiting'[c] = <<>>
    BY <1>1 DEF Answered, TypeOK
<1>4. ASSUME NEW d \in Clients, d # c
      PROVE  WaitOK(d)' /\ Waits(d)' \subseteq Waits(d) /\ m.n \notin Waits(d)'
    <2>1. WaitOK(d) /\ waiting'[d] = waiting[d] /\ client'[d] = client[d]
          /\ (d \in unordered' <=> d \in unordered)
        BY <1>3, <1>4 DEF Turns
    <2>2. d \notin unordered => InStep(table', d, client'[d].keys, waiting[d])
        <3>1. \A k \in Keys : table[k].src = d =>
                 table'[k].src = table[k].src /\ table'[k].n = table[k].n
            BY <1>2, <1>4
        <3>. QED BY <1>1, <2>1, <3>1, QueuesTyped, InStepStays DEF WaitOK
    <2>3. WaitOK(d)'
        BY <2>1, <2>2, MovesStay, WaitKept
    <2>4. m.n \notin Waits(d)
        BY <1>1, <1>4, <2>1, WaitsMatch
    <2>. QED BY <2>1, <2>3, <2>4 DEF Waits
<1>5. CASE ~(w # <<>> /\ Head(w) = m.n)
    BY <1>1, <1>3, <1>4, <1>5, WaitLost DEF Waits
<1>6. CASE w # <<>> /\ Head(w) = m.n
    <2>1. /\ w \in Seq(Nat) /\ keys \in Seq(Keys) /\ DOMAIN w = 1 .. Len(w)
          /\ \A i \in 1 .. Len(keys) : keys[i] \in Keys
        BY <1>1, QueuesTyped, SMTT(30)
    <2>2. /\ WaitOK(c) /\ c \notin unordered /\ c \notin unordered'
        BY <1>1, <1>3, <1>6 DEF Turns, WaitOK
    <2>3. InStep(table, c, keys, w) /\ keys # <<>>
        <3>1. InStep(table, c, keys, w)
            BY <2>2 DEF WaitOK
        <3>2. Len(w) # 0
            BY <1>6, <2>1, SMTT(30)
        <3>. HIDE DEF w, keys
        <3>. QED BY <2>1, <3>1, <3>2 DEF InStep
    <2>4. /\ waiting'[c] = Tail(w) /\ Tail(w) \in Seq(Nat) /\ w[1] = m.n /\ 1 \in DOMAIN w
          /\ Len(Tail(w)) = Len(w) - 1 /\ Len(w) \in Nat
          /\ DOMAIN Tail(w) = 1 .. Len(w) - 1
          /\ \A i \in DOMAIN Tail(w) : i + 1 \in DOMAIN w /\ Tail(w)[i] = w[i + 1]
        BY <1>3, <1>6, <2>1, TailKeeps, SMTT(30)
    <2>5. /\ client'[c].keys = Tail(keys) /\ Len(Tail(keys)) = Len(keys) - 1 /\ Len(keys) \in Nat
          /\ \A i \in 1 .. Len(keys) - 1 : i + 1 \in 1 .. Len(keys) /\ Tail(keys)[i] = keys[i + 1]
        <3>1. client'[c].keys = Tail(keys)
            BY <2>3 DEF PopRequestKey
        <3>. HIDE DEF keys
        <3>2. Len(Tail(keys)) = Len(keys) - 1 /\ Len(keys) \in Nat /\ Tail(keys) \in Seq(Keys)
            BY <2>1, <2>3
        <3>. QED BY <2>1, <2>3, <3>1, <3>2, TailKeeps
    <2>6. \A i, j \in DOMAIN w : i < j => w[i] < w[j]
        BY <2>2 DEF WaitOK
    <2>. HIDE DEF w, keys
    <2>7. \A i \in DOMAIN w : w[i] \in Nat /\ (i # 1 => w[i] # m.n)
        <3>1. \A i \in DOMAIN w : w[i] \in Nat /\ (i # 1 => 1 < i)
            BY <2>1
        <3>. QED BY <2>4, <2>6, <3>1, SMTT(30)
    <2>8. InStep(table', c, client'[c].keys, waiting'[c])
        <3>1. ASSUME NEW i \in 1 .. Len(Tail(keys))
              PROVE  table'[Tail(keys)[i]].src = c /\ table'[Tail(keys)[i]].n = Tail(w)[i]
            <4>1. /\ i + 1 \in 1 .. Len(keys) /\ Tail(keys)[i] = keys[i + 1] /\ keys[i + 1] \in Keys
                  /\ Len(keys) = Len(w) /\ i \in DOMAIN Tail(w) /\ i + 1 # 1
                BY <2>1, <2>3, <2>4, <2>5 DEF InStep
            <4>2. table[keys[i + 1]].src = c /\ table[keys[i + 1]].n = w[i + 1]
                BY <2>3, <4>1 DEF InStep
            <4>3. keys[i + 1] # m.key
                BY <1>1, <2>4, <2>7, <4>1, <4>2
            <4>. QED BY <1>1, <1>2, <2>4, <4>1, <4>2, <4>3
        <3>2. Len(Tail(keys)) = Len(Tail(w))
            BY <2>3, <2>4, <2>5 DEF InStep
        <3>. QED BY <2>4, <2>5, <3>1, <3>2 DEF InStep
    <2>9. /\ \A i \in DOMAIN waiting'[c] : Numbered(w[i + 1])
          /\ \A i, j \in DOMAIN waiting'[c] : i < j => waiting'[c][i] < waiting'[c][j]
        <3>1. \A i \in DOMAIN w : Numbered(w[i])
            BY <2>2 DEF WaitOK, w
        <3>2. \A i, j \in DOMAIN Tail(w) : i < j => i + 1 < j + 1
            BY <2>4
        <3>. QED BY <2>4, <2>6, <3>1, <3>2
    <2>10. ASSUME "MOVEZONE_PROCESSED" \in client'[c].flags
           PROVE  \E n \in Waits(c)' : IsMove(n)'
        <3>1. PICK i \in DOMAIN w : IsMove(w[i])
            BY <2>2, <2>10 DEF WaitOK, Waits, w
        <3>2. i # 1
            BY <2>4, <2>10, <3>1 DEF IsMove
        <3>3. i - 1 \in DOMAIN Tail(w) /\ Tail(w)[i - 1] = w[i]
            <4>1. i - 1 \in DOMAIN Tail(w) /\ (i - 1) + 1 = i
                BY <2>1, <2>4, <3>2
            <4>. QED BY <2>4, <4>1
        <3>4. PICK n : n = w[i]
            OBVIOUS
        <3>5. n \in Waits(c)'
            BY <2>4, <3>3, <3>4 DEF Waits
        <3>. QED BY <3>1, <3>4, <3>5, MovesStay, SMTT(30)
    <2>11. \A i \in DOMAIN waiting'[c] : Numbered(waiting[c][i])'
        <3>1. ASSUME NEW i \in DOMAIN waiting'[c], NEW n, n = waiting'[c][i]
              PROVE  Numbered(n)'
            BY <2>4, <2>9, <3>1
        <3>. QED BY <3>1 DEF Numbered
    <2>12. WaitOK(c)'
        BY <2>2, <2>8, <2>9, <2>10, <2>11 DEF WaitOK
    <2>13. Waits(c)' \subseteq Waits(c)
        <3>1. ASSUME NEW n \in Waits(c)'
              PROVE  \E i \in DOMAIN w : w[i] = n
            <4>1. PICK i \in DOMAIN waiting'[c] : waiting'[c][i] = n
                BY <3>1 DEF Waits
            <4>. QED BY <2>4, <4>1
        <3>2. ASSUME NEW n, \E i \in DOMAIN w : w[i] = n
              PROVE  n \in Waits(c)
            BY <3>2 DEF Waits, w
        <3>. QED BY <3>1, <3>2
    <2>14. m.n \notin Waits(c)'
        <3>1. \A i \in DOMAIN Tail(w) : i + 1 # 1
            BY <2>4
        <3>. QED BY <2>4, <2>7, <3>1 DEF Waits
    <2>. QED BY <1>4, <2>12, <2>13, <2>14
<1>. QED BY <1>5, <1>6


\* The request is not sent: its client does not wait for it yet.
LEMMA SendFailsTurns ==
    ASSUME Books, Mail, Turns, SendFails
    PROVE  Turns'
<1>1. /\ TypeOK /\ Sending /\ thread.n = issued /\ Match(table, thread) /\ thread.key \in Keys
      /\ table' = Removed({thread.key}) /\ ~Sending'
      /\ UNCHANGED <<client, asked, answers, issued, waiting, unordered>>
    BY RestIsMessage DEF SendFails, Sending, Books, Mail, NewestOK, TypeOK, Message
<1>2. InFlight' = InFlight /\ LoginFirst'
    BY <1>1, FlightStays, LoginFirstStays DEF Turns
<1>3. \A n : Numbered(n) => Numbered(n)'
    BY <1>1 DEF Numbered
<1>4. ASSUME NEW c \in Clients
      PROVE  WaitOK(c)'
    <2>1. WaitOK(c)
        BY DEF Turns
    <2>2. ASSUME c \notin unordered
          PROVE  InStep(table', c, client'[c].keys, waiting[c])
        <3>. DEFINE keys == client[c].keys
        <3>1. InStep(table, c, keys, waiting[c])
            BY <2>1, <2>2 DEF WaitOK
        <3>2. ASSUME NEW i \in 1 .. Len(keys)
              PROVE  keys[i] \in Keys /\ keys[i] # thread.key
            <4>1. keys[i] \in Keys /\ i \in DOMAIN waiting[c]
                BY <1>1, <3>1, QueuesTyped DEF InStep
            <4>2. table[keys[i]].src = c /\ table[keys[i]].n = waiting[c][i]
                BY <3>1 DEF InStep
            <4>3. table[keys[i]] # Free /\ waiting[c][i] # issued
                BY <1>1, <2>1, <4>1, <4>2, RequestAssumption DEF WaitOK, Numbered, Free
            <4>. QED BY <1>1, <4>1, <4>2, <4>3 DEF Match
        <3>3. \A i \in 1 .. Len(keys) : table'[keys[i]] = table[keys[i]]
            BY <1>1, <3>2 DEF Removed
        <3>4. InStep(table', c, keys, waiting[c])
            BY <3>1, <3>3, InStepStays
        <3>. QED BY <1>1, <3>4
    <2>3. \A n : IsMove(n) => IsMove(n)'
        BY <1>2, MovesStay
    <2>. QED BY <1>1, <1>3, <2>1, <2>2, <2>3, WaitKept
<1>. QED BY <1>2, <1>4 DEF Turns

\* The agent answers: a deposit comes behind its login, and what was a move is one.
LEMMA AgentTurns ==
    ASSUME Books, Mail, Turns, NEW m \in asked, AgentAnswers(m)
    PROVE  Turns'
<1>1. TypeOK
    BY DEF Books
<1>2. PICK q : Answering(m, q)
    BY <1>1, AgentAnswersSo
<1>3. /\ asked' = asked \ {m} /\ m \in InFlight /\ m.kind # "deposit"
      /\ UNCHANGED <<table, client, thread, issued, waiting, unordered>>
    BY <1>1, AgentAnswersSo DEF Mail, MessageOK, InFlight
<1>4. ASSUME NEW l \in Links, NEW i \in DOMAIN answers'[l]
      PROVE  \/ i \in DOMAIN answers[l] /\ answers'[l][i] = answers[l][i]
             \/ /\ l = m.via /\ i - Len(answers[l]) \in DOMAIN q
                /\ answers'[l][i] = q[i - Len(answers[l])]
                /\ answers'[l][i].n = m.n
    BY <1>1, <1>2, AnswersGrow DEF Answering
<1>5. /\ q \in Seq(Message) /\ DOMAIN q \in {{1}, {1, 2}} /\ q[1].kind = m.kind /\ q[1].n = m.n
      /\ DOMAIN q = {1, 2} => m.kind = "login"
    BY <1>2 DEF Answering
<1>6. ASSUME NEW n, IsMove(n)
      PROVE  IsMove(n)'
    <2>1. m.n = n => m.kind = "move" /\ DOMAIN q = {1}
        BY <1>3, <1>5, <1>6 DEF IsMove
    <2>2. ASSUME NEW l \in Links, NEW i \in DOMAIN answers'[l], answers'[l][i].n = n
          PROVE  answers'[l][i].kind = "move"
        BY <1>4, <1>5, <1>6, <2>1, <2>2 DEF IsMove, InFlight
    <2>3. \A a \in asked' : a.n = n => a.kind = "move"
        BY <1>3, <1>6 DEF IsMove, InFlight
    <2>. QED BY <2>2, <2>3 DEF IsMove, InFlight
<1>7. ASSUME NEW c \in Clients
      PROVE  WaitOK(c)'
    <2>1. WaitOK(c) /\ \A n : Numbered(n) => Numbered(n)'
        BY <1>3 DEF Turns, Numbered, Sending
    <2>2. c \notin unordered => InStep(table', c, client'[c].keys, waiting[c])
        BY <1>3, <2>1 DEF WaitOK
    <2>. QED BY <1>3, <1>6, <2>1, <2>2, WaitKept
<1>8. LoginFirst'
    <2>1. ASSUME NEW l \in Links, NEW i \in DOMAIN answers'[l], answers'[l][i].kind = "deposit",
                 NEW c, c = answers'[l][i].src, answers'[l][i].n \in Waits(c)'
          PROVE  \E j \in DOMAIN answers'[l] :
                    j < i /\ answers'[l][j].n = answers'[l][i].n /\ answers'[l][j].kind = "login"
        <3>1. /\ answers[l] \in Seq(Message) /\ answers'[l] \in Seq(Message)
              /\ DOMAIN answers[l] = 1 .. Len(answers[l]) /\ Len(answers[l]) \in Nat
              /\ i \in Nat
            BY <1>1, <1>2, AnswersGrow DEF TypeOK
        <3>2. CASE i \in DOMAIN answers[l] /\ answers'[l][i] = answers[l][i]
            <4>1. answers[l][i].n \in Waits(c)
                BY <1>3, <2>1, <3>2 DEF Waits
            <4>2. PICK j \in DOMAIN answers[l] :
                     j < i /\ answers[l][j].n = answers[l][i].n /\ answers[l][j].kind = "login"
                BY <2>1, <3>2, <4>1 DEF Turns, LoginFirst
            <4>3. j \in DOMAIN answers'[l] /\ answers'[l][j] = answers[l][j]
                BY <1>1, <1>2, AnswersGrow
            <4>. QED BY <3>2, <4>2, <4>3
        <3>3. CASE /\ l = m.via /\ i - Len(answers[l]) \in DOMAIN q
                   /\ answers'[l][i] = q[i - Len(answers[l])]
                   /\ answers'[l][i].n = m.n
            <4>1. i - Len(answers[l]) = 2 /\ m.kind = "login" /\ Len(q) = 2
                BY <1>3, <1>5, <2>1, <3>3
            <4>. DEFINE j == Len(answers[l]) + 1
            <4>2. Len(answers'[l]) = Len(answers[l]) + Len(q)
                BY <1>1, <1>2, <3>3, AnswersGrow, SMTT(30)
            <4>3. j \in DOMAIN answers'[l] /\ j \notin DOMAIN answers[l] /\ j < i /\ j - Len(answers[l]) = 1
                BY <3>1, <4>1, <4>2
            <4>4. answers'[l][j] = q[1]
                BY <1>1, <1>2, <3>3, <4>3, AnswersGrow
            <4>. QED BY <1>5, <3>3, <4>1, <4>3, <4>4
        <3>. QED BY <1>4, <3>2, <3>3
    <2>. QED BY <2>1, Zenon DEF LoginFirst
<1>. QED BY <1>7, <1>8 DEF Turns

\* A login is answered.
LEMMA UpdateTurns ==
    ASSUME Books, Mail, Turns, NEW l \in Links, HandleUpdate(l)
    PROVE  Turns'
<1>1. TypeOK /\ TableOK
    BY DEF Books
<1>2. PICK m \in FirstOf(l) :
         /\ Receives(l, m, {"login"})
         /\ UNCHANGED <<table, counter, refs, thread, issued, popped>>
         /\ IF ~Pending(m.key) THEN UNCHANGED <<client, waiting, unordered>>
            ELSE LET c == table[m.key].src
                     keys == client[c].keys
                 IN  /\ Answered(m)
                     /\ \/ client' = [client EXCEPT ![c].keys = PopRequestKey(keys)]
                        \/ /\ m.at = "granted"
                           /\ keys # <<>> /\ Head(keys) = m.key
                           /\ client' = [client EXCEPT ![c] =
                                   [NoCharacter EXCEPT !.keys = Tail(keys), !.character = TRUE]]
    BY DEF HandleUpdate
<1>3. /\ InFlight' \subseteq InFlight /\ m \in InFlight /\ m.key \in Keys /\ Match(table, m)
      /\ m = answers[l][1] /\ m.kind = "login" /\ answers[l] # <<>>
      /\ answers' = [answers EXCEPT ![l] = Tail(@)]
    BY <1>1, <1>2, ReceivesShrinks, FirstIs DEF Mail, MessageOK
<1>4. \A n : Numbered(n) => Numbered(n)'
    BY <1>2 DEF Numbered, Sending
<1>5. ASSUME \A d \in Clients : WaitOK(d)' /\ Waits(d)' \subseteq Waits(d) /\ m.n \notin Waits(d)'
      PROVE  Turns'
    <2>1. \A h \in Links : \/ answers'[h] = answers[h]
                           \/ h = l /\ answers'[h] = Tail(answers[h])
        BY <1>1, <1>3 DEF TypeOK
    <2>2. LoginFirst'
        BY <1>3, <1>5, <2>1, LoginFirstKept DEF Turns
    <2>. QED BY <1>5, <2>2 DEF Turns
<1>6. CASE ~Pending(m.key)
    <2>1. UNCHANGED <<client, waiting, unordered, table>>
        BY <1>2, <1>6
    <2>2. ASSUME NEW d \in Clients
          PROVE  WaitOK(d)' /\ Waits(d)' \subseteq Waits(d) /\ m.n \notin Waits(d)'
        <3>1. WaitOK(d) /\ Waits(d)' = Waits(d)
            BY <2>1 DEF Turns, Waits
        <3>2. m.n \notin Waits(d)
            BY <1>1, <1>3, <1>6, <3>1, WaitsMatch
        <3>3. d \notin unordered => InStep(table', d, client'[d].keys, waiting[d])
            BY <2>1, <3>1 DEF WaitOK
        <3>4. \A n : IsMove(n) => IsMove(n)'
            BY <1>3, MovesStay
        <3>5. WaitOK(d)'
            BY <1>4, <2>1, <3>1, <3>3, <3>4, WaitKept
        <3>. QED BY <3>1, <3>2, <3>5
    <2>. QED BY <1>5, <2>2
<1>7. CASE Pending(m.key)
    <2>1. PICK c \in Clients : c = table[m.key].src
        BY <1>1, <1>3, <1>7 DEF TableOK, Whole, Pending
    <2>2. client[c] \in Character /\ NoCharacter \in Character /\ client \in [Clients -> Character]
        BY <1>1, CharacterTyped, SMTT(30) DEF Character, NoCharacter
    <2>3. /\ client'[c].keys = PopRequestKey(client[c].keys)
          /\ "MOVEZONE_PROCESSED" \in client'[c].flags => "MOVEZONE_PROCESSED" \in client[c].flags
          /\ \A d \in Clients : d # c => client'[d] = client[d]
        <3>1. CASE client' = [client EXCEPT ![c].keys = PopRequestKey(client[c].keys)]
            BY <2>2, <3>1 DEF Character
        <3>2. CASE /\ client[c].keys # <<>>
                   /\ client' = [client EXCEPT ![c] = [NoCharacter EXCEPT
                            !.keys = Tail(client[c].keys), !.character = TRUE]]
            BY <2>2, <3>2, SMTT(30) DEF Character, NoCharacter, PopRequestKey
        <3>. QED BY <1>2, <1>7, <2>1, <3>1, <3>2
    <2>4. \A d \in Clients : WaitOK(d)' /\ Waits(d)' \subseteq Waits(d) /\ m.n \notin Waits(d)'
        <3>1. Answered(m) /\ m.kind # "move"
            BY <1>2, <1>3, <1>7
        <3>2. \A k \in Keys : table'[k] = table[k]
            BY <1>2
        <3>. QED BY <1>3, <1>4, <1>7, <2>1, <2>3, <3>1, <3>2, AnsweredWaits
    <2>. QED BY <1>5, <2>4
<1>. QED BY <1>6, <1>7


\* A deposit is answered: its client does not wait for it any more.
LEMMA DepositTurns ==
    ASSUME Books, Mail, Turns, NEW l \in Links, HandleDeposit(l)
    PROVE  Turns'
<1>1. TypeOK /\ TableOK
    BY DEF Books
<1>2. PICK m \in FirstOf(l) :
         /\ Receives(l, m, {"deposit"})
         /\ UNCHANGED <<counter, client, thread, issued, waiting, unordered>>
         /\ table' = table \/ table' = Removed({m.key})
    BY DEF HandleDeposit, Popped
<1>3. /\ InFlight' \subseteq InFlight /\ m \in InFlight /\ m.key \in Keys /\ Match(table, m)
      /\ answers[l] \in Seq(Message) /\ 1 \in DOMAIN answers[l]
      /\ m = answers[l][1] /\ m.kind = "deposit" /\ answers[l] # <<>>
      /\ answers' = [answers EXCEPT ![l] = Tail(@)]
    BY <1>1, <1>2, ReceivesShrinks, FirstIs DEF Mail, MessageOK, TypeOK
<1>4. m.n \notin Waits(m.src)
    <2>1. ~ \E j \in DOMAIN answers[l] : j < 1
        BY <1>3
    <2>. QED BY <1>3, <2>1 DEF Turns, LoginFirst
<1>5. ASSUME NEW c \in Clients
      PROVE  WaitOK(c)'
    <2>1. WaitOK(c) /\ \A n : Numbered(n) => Numbered(n)'
        BY <1>2 DEF Turns, Numbered, Sending
    <2>2. ASSUME c \notin unordered
          PROVE  InStep(table', c, client'[c].keys, waiting[c])
        <3>. DEFINE keys == client[c].keys
        <3>1. InStep(table, c, keys, waiting[c])
            BY <2>1, <2>2 DEF WaitOK
        <3>2. ASSUME NEW i \in 1 .. Len(keys)
              PROVE  keys[i] \in Keys /\ keys[i] # m.key
            <4>1. keys[i] \in Keys /\ i \in DOMAIN waiting[c]
                BY <1>1, <3>1, QueuesTyped DEF InStep
            <4>2. table[keys[i]].src = c /\ table[keys[i]].n = waiting[c][i]
                BY <3>1 DEF InStep
            <4>3. table[keys[i]] # Free /\ waiting[c][i] \in Waits(c)
                BY <4>1, <4>2, RequestAssumption DEF Waits, Free
            <4>. QED BY <1>3, <1>4, <4>1, <4>2, <4>3 DEF Match
        <3>3. \A i \in 1 .. Len(keys) : table'[keys[i]] = table[keys[i]]
            BY <1>2, <3>2 DEF Removed
        <3>4. InStep(table', c, keys, waiting[c])
            BY <3>1, <3>3, InStepStays
        <3>. QED BY <1>2, <3>4
    <2>3. \A n : IsMove(n) => IsMove(n)'
        BY <1>3, MovesStay
    <2>. QED BY <1>2, <2>1, <2>2, <2>3, WaitKept
<1>6. LoginFirst'
    <2>1. \A h \in Links : answers'[h] = answers[h] \/ (h = l /\ answers'[h] = Tail(answers[h]))
        BY <1>1, <1>3 DEF TypeOK
    <2>2. \A c \in Clients : Waits(c)' \subseteq Waits(c)
        BY <1>2, SMTT(30) DEF Waits
    <2>. QED BY <1>3, <2>1, <2>2, LoginFirstKept DEF Turns
<1>. QED BY <1>5, <1>6 DEF Turns

\* A move or a change of the zone is answered.
LEMMA ZoneTurns ==
    ASSUME Books, Mail, Turns, NEW l \in Links, HandleZone(l)
    PROVE  Turns'
<1>1. TypeOK /\ TableOK
    BY DEF Books
<1>2. PICK m \in FirstOf(l) :
         /\ Receives(l, m, {"move", "zone", "zoneend"})
         /\ IF ~Pending(m.key)
            THEN /\ thread' = [Idle EXCEPT !.at = "crashed"]
                 /\ UNCHANGED <<table, counter, refs, client, issued, popped, waiting, unordered>>
            ELSE LET c == table[m.key].src
                 IN  /\ Answered(m)
                     /\ client' = [client EXCEPT ![c].keys = PopRequestKey(@),
                                                 ![c].flags = EndsMove(m, @)]
                     /\ \/ /\ Popped(m)
                           /\ UNCHANGED <<counter, thread, issued>>
                        \/ /\ m.kind = "zone" /\ m.at = "granted"
                           /\ issued < MaxIssued /\ KeyIsFresh
                           /\ popped' = [popped EXCEPT ![table[m.key].dst] = @ + 1]
                           /\ AddRequest(Removed({m.key}), [refs EXCEPT ![c] = @ - 1], c, l, "zoneend")
    BY DEF HandleZone
<1>3. /\ InFlight' \subseteq InFlight /\ m \in InFlight /\ m.key \in Keys /\ ~Sending
      /\ m = answers[l][1] /\ m.kind # "login" /\ answers[l] # <<>>
      /\ answers' = [answers EXCEPT ![l] = Tail(@)]
    BY <1>1, <1>2, ReceivesShrinks, FirstIs, SMTT(30) DEF Ready, Sending
<1>4. ASSUME \A d \in Clients : WaitOK(d)' /\ Waits(d)' \subseteq Waits(d)
      PROVE  Turns'
    <2>1. \A h \in Links : \/ answers'[h] = answers[h]
                           \/ h = l /\ answers'[h] = Tail(answers[h])
        BY <1>1, <1>3 DEF TypeOK
    <2>2. LoginFirst'
        BY <1>3, <1>4, <2>1, LoginFirstKept DEF Turns
    <2>. QED BY <1>4, <2>2 DEF Turns
<1>5. CASE ~Pending(m.key)
    <2>1. UNCHANGED <<client, waiting, unordered, table, issued>> /\ ~Sending'
        BY <1>2, <1>5, RestIsMessage DEF Sending
    <2>2. \A n : Numbered(n) => Numbered(n)'
        BY <2>1 DEF Numbered
    <2>3. ASSUME NEW d \in Clients
          PROVE  WaitOK(d)' /\ Waits(d)' \subseteq Waits(d)
        <3>1. WaitOK(d) /\ Waits(d)' = Waits(d)
            BY <2>1 DEF Turns, Waits
        <3>2. d \notin unordered => InStep(table', d, client'[d].keys, waiting[d])
            BY <2>1, <3>1 DEF WaitOK
        <3>3. \A n : IsMove(n) => IsMove(n)'
            BY <1>3, MovesStay
        <3>4. WaitOK(d)'
            BY <2>1, <2>2, <3>1, <3>2, <3>3, WaitKept
        <3>. QED BY <3>1, <3>4
    <2>. QED BY <1>4, <2>3
<1>6. CASE Pending(m.key)
    <2>1. PICK c \in Clients : c = table[m.key].src
        BY <1>1, <1>3, <1>6 DEF TableOK, Whole, Pending
    <2>. DEFINE t == Removed({m.key})
                r == [refs EXCEPT ![c] = @ - 1]
    <2>2. /\ client'[c].keys = PopRequestKey(client[c].keys)
          /\ "MOVEZONE_PROCESSED" \in client'[c].flags =>
                 "MOVEZONE_PROCESSED" \in client[c].flags /\ m.kind # "move"
          /\ \A d \in Clients : d # c => client'[d] = client[d]
        <3>1. client[c] \in Character /\ client \in [Clients -> Character]
            BY <1>1, CharacterTyped, SMTT(30)
        <3>2. client' = [client EXCEPT ![c].keys = PopRequestKey(@), ![c].flags = EndsMove(m, @)]
            BY <1>2, <1>6, <2>1
        <3>3. client'[c].keys = PopRequestKey(client[c].keys)
                 /\ client'[c].flags = EndsMove(m, client[c].flags)
            BY <3>1, <3>2 DEF Character
        <3>4. \A d \in Clients : d # c => client'[d] = client[d]
            BY <3>1, <3>2
        <3>. QED BY <3>3, <3>4 DEF EndsMove
    <2>3. \A n : Numbered(n) => Numbered(n)'
        <3>1. \/ issued' = issued /\ (Sending' => Sending)
              \/ issued' = issued + 1 /\ ~Sending
            <4>1. CASE UNCHANGED <<thread, issued>>
                BY <4>1 DEF Sending
            <4>2. CASE AddRequest(t, r, c, l, "zoneend")
                <5>1. NotAdded(t, r) \/ Added(t, r, c, l, "zoneend", NextKey)
                    BY <1>1, <4>2, AddsOrNot
                <5>2. (issued' = issued /\ ~Sending') \/ issued' = issued + 1
                    BY <5>1, RestIsMessage, SMTT(30) DEF NotAdded, Added, Sending
                <5>. QED BY <1>3, <5>2
            <4>. QED BY <1>2, <1>6, <2>1, <4>1, <4>2
        <3>. QED BY <1>1, <3>1, NumberedStays DEF TypeOK
    <2>4. \A k \in Keys : k # m.key /\ Pending(k) => table'[k] = table[k]
        <3>1. \A k \in Keys : k # m.key => t[k] = table[k]
            BY DEF Removed
        <3>2. CASE table' = t
            BY <3>1, <3>2
        <3>3. CASE AddRequest(t, r, c, l, "zoneend")
            <4>1. NextKey \in Keys /\ (NotAdded(t, r) \/ Added(t, r, c, l, "zoneend", NextKey))
                BY <1>1, <3>3, AddsOrNot
            <4>2. CASE NotAdded(t, r)
                BY <3>1, <4>2 DEF NotAdded
            <4>3. CASE Added(t, r, c, l, "zoneend", NextKey)
                <5>1. t[NextKey] = Free /\ table' = [t EXCEPT ![NextKey] = NewEntry(c)]
                         /\ t \in [Keys -> Entry]
                    BY <1>1, <1>3, <4>3, RemovedIsLesser, SMTT(30) DEF Added, Lesser
                <5>. HIDE DEF t, NextKey
                <5>. QED BY <3>1, <5>1 DEF Pending
            <4>. QED BY <4>1, <4>2, <4>3
        <3>. QED BY <1>2, <1>6, <2>1, <3>2, <3>3 DEF Popped
    <2>5. \A d \in Clients : WaitOK(d)' /\ Waits(d)' \subseteq Waits(d) /\ m.n \notin Waits(d)'
        <3>1. Answered(m)
            BY <1>2, <1>6
        <3>. QED BY <1>3, <1>6, <2>1, <2>2, <2>3, <2>4, <3>1, AnsweredWaits
    <2>. QED BY <1>4, <2>5
<1>. QED BY <1>5, <1>6

\* The queues are as they were.
LEMMA TurnsStay ==
    ASSUME Books, Turns,
           UNCHANGED <<table, client, thread, asked, answers, issued, waiting, unordered>>
    PROVE  Turns'
<1>1. InFlight' = InFlight /\ LoginFirst' /\ \A n : Numbered(n) => Numbered(n)'
    BY FlightStays, LoginFirstStays DEF Turns, Numbered, Sending
<1>2. ASSUME NEW c \in Clients
      PROVE  WaitOK(c)'
    <2>1. WaitOK(c) /\ \A n : IsMove(n) => IsMove(n)'
        BY <1>1, MovesStay DEF Turns
    <2>2. c \notin unordered => InStep(table', c, client'[c].keys, waiting[c])
        BY <2>1 DEF WaitOK
    <2>. QED BY <1>1, <2>1, <2>2, WaitKept
<1>. QED BY <1>1, <1>2 DEF Turns

\* Requests end with the time or with the server: their clients are known to have lost one.
LEMMA EndingTurns ==
    ASSUME Books, Mail, Turns, Tick \/ RemoveAllRequest \/ RequestOff
    PROVE  Turns'
<1>1. /\ TypeOK /\ UNCHANGED <<client, thread, asked, answers, issued>> /\ InFlight' = InFlight
      /\ \A n : Numbered(n) => Numbered(n)'
    <2>1. UNCHANGED <<client, thread, asked, answers, issued>>
        BY DEF Tick, RemoveAllRequest, RequestOff
    <2>. QED BY <2>1, FlightStays DEF Books, Numbered, Sending
<1>2. ASSUME NEW K \in SUBSET Keys, Remove(K),
             \A k \in Keys \ K : Pending(k) => table'[k].src = table[k].src /\ table'[k].n = table[k].n
      PROVE  Turns'
    <2>1. /\ unordered' = unordered \union {table[k].src : k \in K}
          /\ waiting' = [c \in Clients |-> IF c \in unordered' THEN <<>> ELSE waiting[c]]
        BY <1>2 DEF Remove, Unordered, Forgotten
    <2>2. ASSUME NEW c \in Clients
          PROVE  WaitOK(c)'
        <3>1. CASE c \in unordered'
            BY <2>1, <3>1, WaitLost
        <3>2. CASE c \notin unordered'
            <4>1. WaitOK(c) /\ waiting'[c] = waiting[c] /\ c \notin unordered
                BY <2>1, <3>2 DEF Turns
            <4>2. \A k \in Keys : table[k].src = c => k \notin K /\ Pending(k)
                BY <2>1, <3>2, RequestAssumption DEF Pending, Free
            <4>3. InStep(table', c, client'[c].keys, waiting[c])
                BY <1>1, <1>2, <4>1, <4>2, QueuesTyped, InStepStays DEF WaitOK
            <4>4. \A n : IsMove(n) => IsMove(n)'
                BY <1>1, MovesStay
            <4>. QED BY <1>1, <3>2, <4>1, <4>3, <4>4, WaitKept
        <3>. QED BY <3>1, <3>2
    <2>3. \A c \in Clients : Waits(c)' \subseteq Waits(c)
        BY <2>1 DEF Waits
    <2>4. LoginFirst'
        BY <1>1, <2>3, LoginFirstKept DEF Turns
    <2>. QED BY <2>2, <2>4 DEF Turns
<1>3. CASE Tick
    <2>. DEFINE over == {k \in Keys : Pending(k) /\ table[k].left = 1}
    <2>1. Remove(over) /\ table' = [k \in Keys |-> IF Pending(k) /\ k \notin over
                                    THEN [table[k] EXCEPT !.left = @ - 1] ELSE Free]
        BY <1>3 DEF Tick
    <2>. HIDE DEF over
    <2>2. \A k \in Keys \ over : Pending(k) => table'[k].src = table[k].src /\ table'[k].n = table[k].n
        <3>1. \A k \in Keys : table[k] \in Entry
            BY <1>1 DEF TypeOK
        <3>. QED BY <2>1, <3>1 DEF Entry
    <2>3. over \in SUBSET Keys
        BY DEF over
    <2>. QED BY <1>2, <2>1, <2>2, <2>3
<1>4. CASE RemoveAllRequest
    <2>1. Remove({k \in Keys : Pending(k)})
        BY <1>4 DEF RemoveAllRequest
    <2>. QED BY <1>2, <2>1
<1>5. CASE RequestOff
    BY <1>5, TurnsStay DEF RequestOff
<1>. QED BY <1>3, <1>4, <1>5


\* Sessions come and go: what a client has queued goes with its dispatch.
LEMMA SessionTurns ==
    ASSUME Books, Mail, Turns,
           \/ \E c \in Clients : Logout(c)
           \/ \E l \in Links : ServerLogin(l)
           \/ \E d \in Dispatches : CloseSession(d) \/ Disconnected(d) \/ Eliminate(d)
    PROVE  Turns'
<1>1. /\ TypeOK /\ UNCHANGED <<table, thread, unordered, issued>>
      /\ \A n : Numbered(n) => Numbered(n)'
    <2>1. UNCHANGED <<table, thread, unordered, issued>>
        BY DEF Logout, ServerLogin, CloseSession, Disconnected, Eliminate
    <2>. QED BY <2>1 DEF Books, Numbered, Sending
<1>2. /\ asked' \subseteq asked /\ InFlight' \subseteq InFlight
      /\ \A l \in Links : answers'[l] = answers[l] \/ answers'[l] = <<>>
    <2>1. /\ asked' \subseteq asked
          /\ \A l \in Links : answers'[l] = answers[l] \/ answers'[l] = <<>>
        BY DEF Logout, ServerLogin, CloseSession, Disconnected, Eliminate
    <2>. QED BY <1>1, <2>1, FlightShrinks DEF MailShrinks
<1>3. ASSUME NEW c \in Clients
      PROVE  \/ /\ waiting'[c] = waiting[c] /\ client'[c].keys = client[c].keys
                /\ client'[c].flags \subseteq client[c].flags
             \/ waiting'[c] = <<>> /\ client'[c] = NoCharacter
    <2>1. client \in [Clients -> Character] /\ waiting \in [Clients -> Seq(Nat)]
        BY <1>1, CharacterTyped DEF TypeOK
    <2>2. CASE UNCHANGED <<client, waiting>>
        BY <2>2
    <2>3. CASE \E d \in Clients : Logout(d)
        <3>1. PICK d \in Clients :
                 /\ client' = [client EXCEPT ![d].character = FALSE, ![d].flags = {}]
                 /\ waiting' = waiting
            BY <2>3 DEF Logout
        <3>. QED BY <2>1, <3>1 DEF Character
    <2>4. CASE \E d \in Dispatches : Disconnected(d)
        <3>1. PICK d \in Dispatches :
                 /\ client' = [e \in Clients |-> IF e = d
                        THEN [NoCharacter EXCEPT !.keys = client[e].keys] ELSE client[e]]
                 /\ waiting' = waiting
            BY <2>4 DEF Disconnected
        <3>. QED BY <2>1, <3>1 DEF NoCharacter
    <2>5. CASE \E d \in Dispatches : Eliminate(d)
        <3>1. PICK d \in Dispatches :
                 /\ client' = [e \in Clients |-> IF e = d THEN NoCharacter ELSE client[e]]
                 /\ waiting' = [e \in Clients |-> IF e = d THEN <<>> ELSE waiting[e]]
            BY <2>5 DEF Eliminate
        <3>. QED BY <3>1
    <2>. QED BY <2>2, <2>3, <2>4, <2>5 DEF ServerLogin, CloseSession
<1>4. ASSUME NEW c \in Clients
      PROVE  WaitOK(c)'
    <2>1. WaitOK(c) /\ \A n : IsMove(n) => IsMove(n)'
        BY <1>2, MovesStay DEF Turns
    <2>2. CASE /\ waiting'[c] = waiting[c] /\ client'[c].keys = client[c].keys
               /\ client'[c].flags \subseteq client[c].flags
        <3>1. c \notin unordered => InStep(table', c, client'[c].keys, waiting[c])
            BY <1>1, <2>1, <2>2 DEF WaitOK
        <3>. QED BY <1>1, <2>1, <2>2, <3>1, WaitKept
    <2>3. CASE waiting'[c] = <<>> /\ client'[c] = NoCharacter
        BY <2>3 DEF WaitOK, InStep, NoCharacter
    <2>. QED BY <1>3, <2>2, <2>3
<1>5. LoginFirst'
    <2>1. \A c \in Clients : Waits(c)' \subseteq Waits(c)
        BY <1>3 DEF Waits
    <2>. QED BY <1>2, <2>1, LoginFirstKept DEF Turns
<1>. QED BY <1>4, <1>5 DEF Turns

\* The third part holds in the beginning, ...
LEMMA InitTurns ==
    ASSUME Init
    PROVE  Turns
<1>1. \A c \in Clients : waiting[c] = <<>> /\ client[c].keys = <<>> /\ client[c].flags = {}
    BY DEF Init, NoCharacter
<1>2. \A c \in Clients : WaitOK(c)
    BY <1>1 DEF WaitOK, InStep
<1>3. LoginFirst
    BY DEF Init, LoginFirst
<1>. QED BY <1>2, <1>3 DEF Turns

\* ... and every step keeps it.
LEMMA NextTurns ==
    ASSUME Books, Mail, Turns, [Next]_vars
    PROVE  Turns'
<1>1. CASE UNCHANGED vars
    BY <1>1, TurnsStay DEF vars
<1>2. CASE \E c \in Clients : ClientStep(c)
    BY <1>2, AskTurns, SessionTurns DEF ClientStep
<1>3. CASE \E l \in Links : LinkStep(l)
    BY <1>3, UpdateTurns, DepositTurns, ZoneTurns, SessionTurns DEF LinkStep
<1>4. CASE \E d \in Dispatches : SessionStep(d)
    BY <1>4, SessionTurns DEF SessionStep
<1>5. CASE \E m \in asked : AgentAnswers(m)
    BY <1>5, AgentTurns
<1>6. CASE Sent \/ SendFails \/ Tick \/ RequestOff \/ RemoveAllRequest
    BY <1>6, SentTurns, SendFailsTurns, EndingTurns
<1>. QED BY <1>1, <1>2, <1>3, <1>4, <1>5, <1>6 DEF Next

\* The inductive invariant as a whole: references, keys and numbers, and the queues of the
\* clients are in order at all times, through timeouts, failed packets, links that are
\* replaced, clients that are deleted and a table that another thread empties.
THEOREM RequestsAreKept == Spec => []IInv
<1>1. Init => Turns
    BY InitTurns
<1>2. Books /\ Mail /\ Turns /\ [Next]_vars => Turns'
    BY NextTurns
<1>3. Spec => []Turns
    BY <1>1, <1>2, AlwaysBooks, AlwaysMail, PTL DEF Spec
<1>4. Books /\ Mail /\ Turns => IInv
    BY DEF IInv
<1>. QED BY <1>3, <1>4, AlwaysBooks, AlwaysMail, PTL

\* As long as no request of a client was lost and its answers come in order, the keys in
\* its queue are those of its open requests in the order of asking: no login is refused
\* because the keys differ.
THEOREM KeysAreInStep == Spec => []KeysInStep
<1>1. ASSUME IInv
      PROVE  KeysInStep
    <2>1. \A c \in Clients \ unordered : InStep(table, c, client[c].keys, waiting[c])
        BY <1>1 DEF IInv, Turns, WaitOK
    <2>. QED BY <2>1 DEF KeysInStep, InStep
<1>. QED BY <1>1, RequestsAreKept, PTL

\* A character that may not ask to move again has a request to wait for, or one that was
\* lost: every answer to a move, an error too, ends it.
THEOREM MovesEnd == Spec => []MoveEndsWithAnswer
<1>1. ASSUME IInv
      PROVE  MoveEndsWithAnswer
    <2>1. ASSUME NEW c \in Clients \ unordered, "MOVEZONE_PROCESSED" \in client[c].flags
          PROVE  waiting[c] # <<>>
        <3>1. \E n \in Waits(c) : IsMove(n)
            BY <1>1, <2>1 DEF IInv, Turns, WaitOK
        <3>. QED BY <3>1 DEF Waits
    <2>. QED BY <2>1 DEF MoveEndsWithAnswer
<1>. QED BY <1>1, RequestsAreKept, PTL
=============================================================================
