--------------------------- MODULE DataCacheProofs ---------------------------
(***************************************************************************)
(* Proofs about DataCache for any set of keys, any number of tables and of *)
(* failing writes: the data of a key is in memory once, and no change to   *)
(* it is lost.                                                             *)
(***************************************************************************)
EXTENDS DataCache, FiniteSetTheorems, TLAPS

(***************************************************************************)
(* OneCopy and NoLostUpdate need each other: a logout keeps the entry that *)
(* is in the logout map already, a newer one would be lost if there were   *)
(* both; and the types, since a copy that is no copy has no flags.         *)
(***************************************************************************)
IInv == TypeOK /\ OneCopy /\ NoLostUpdate

\* What holds of a copy, wherever it is, whose row is r, but for the lost parts L.
Good(c, r, L) ==
    Parts \ L \subseteq c.latest /\ Parts \ (L \union c.changed \union c.silent) \subseteq r

\* What holds of a row without a copy.
Whole(r, L) == Parts \ L \subseteq r

-----------------------------------------------------------------------------
(* The operators.                                                            *)

\* A rank is at most the number of keys, whatever the times are.
LEMMA RankBound ==
    ASSUME NEW rank \in [Keys -> Nat], NEW K \in SUBSET Keys
    PROVE  Later(rank, K) \in [Keys -> 0 .. Cardinality(Keys)]
<1> DEFINE n == Cardinality(Keys)
           time == [k \in Keys |-> rank[k] + IF k \in K THEN n + 1 ELSE 0]
           upTo(k) == {i \in Keys : time[i] \in 1 .. time[k]}
           times(k) == {time[j] : j \in upTo(k)}
<1>1. IsFiniteSet(Keys) /\ n \in Nat
  BY CacheAssumption, FS_CardinalityType
<1>2. ASSUME NEW k \in Keys
      PROVE  Cardinality(times(k)) \in 0 .. n
  <2>1. IsFiniteSet(upTo(k)) /\ Cardinality(upTo(k)) <= n /\ Cardinality(upTo(k)) \in Nat
    <3> upTo(k) \in SUBSET Keys
      OBVIOUS
    <3> HIDE DEF upTo, n
    <3>1. IsFiniteSet(upTo(k)) /\ Cardinality(upTo(k)) <= Cardinality(Keys)
      BY <1>1, FS_Subset
    <3> QED
      BY <3>1, FS_CardinalityType DEF n
  <2>2. [j \in upTo(k) |-> time[j]] \in Surjection(upTo(k), times(k))
    BY DEF Surjection
  <2>3. IsFiniteSet(times(k)) /\ Cardinality(times(k)) <= Cardinality(upTo(k))
    <3> HIDE DEF upTo, times
    <3> QED
      BY <2>1, <2>2, FS_Surjection
  <2>4. Cardinality(times(k)) \in Nat
    BY <2>3, FS_CardinalityType
  <2> QED
    <3> HIDE DEF upTo, times, n
    <3> QED
      BY <1>1, <2>1, <2>3, <2>4
<1>3. Later(rank, K) = [k \in Keys |-> Cardinality(times(k))]
  BY DEF Later
<1> QED
  <2> HIDE DEF times, n
  <2> QED
    BY <1>2, <1>3 DEF n

\* A write that stops at f keeps what is known of the copy: what it no longer marks
\* is in the row. If the copy leaves the memory then, what is not in the row is lost.
LEMMA WriteKeeps ==
    ASSUME NEW c \in Copy, NEW f \in Stops(c), NEW r \in SUBSET Parts, NEW L \in SUBSET Parts
    PROVE  /\ AfterWrite(c, f) \in Copy /\ Written(c, f, r) \in SUBSET Parts
           /\ Unwritten(c, f) \in SUBSET Parts
           /\ Good(c, r, L) => Good(AfterWrite(c, f), Written(c, f, r), L)
           /\ Good(c, r, L) => Whole(Written(c, f, r), L \union Unwritten(c, f))
<1>1. NumParts \in Nat /\ f \in 1 .. NumParts + 1
  BY CacheAssumption DEF Stops, Copy, Parts
<1>2. /\ AfterWrite(c, f) \in Copy /\ Written(c, f, r) \in SUBSET Parts
      /\ Unwritten(c, f) \in SUBSET Parts
  BY DEF AfterWrite, Written, Unwritten, Copy
<1>3. ASSUME Good(c, r, L), NEW p \in Parts \ L, p \notin c.silent,
             p \in c.changed => p < f
      PROVE  p \in Written(c, f, r)
  BY <1>3 DEF Good, Written, Copy
<1>4. ASSUME Good(c, r, L)
      PROVE  Whole(Written(c, f, r), L \union Unwritten(c, f))
  <2>1. \A p \in Parts : p \in Nat
    BY <1>1 DEF Parts
  <2> QED
    BY <1>1, <1>3, <1>4, <2>1 DEF Whole, Unwritten
<1>5. ASSUME Good(c, r, L)
      PROVE  Good(AfterWrite(c, f), Written(c, f, r), L)
  <2>1. CASE Succeeds(f)
    <3>1. /\ AfterWrite(c, f).latest = c.latest /\ AfterWrite(c, f).changed = {}
          /\ AfterWrite(c, f).silent = c.silent
      BY <2>1 DEF AfterWrite, Copy
    <3>2. \A p \in Parts : p < f
      BY <1>1, <2>1 DEF Succeeds, Parts
    <3> QED
      BY <1>3, <1>5, <3>1, <3>2 DEF Good
  <2>2. CASE ~Succeeds(f)
    BY <1>3, <1>5, <2>2 DEF Good, AfterWrite
  <2> QED
    BY <2>1, <2>2
<1> QED
  BY <1>2, <1>4, <1>5

\* A setter keeps the copy the newest, and marks what it changed.
LEMMA SetKeeps ==
    ASSUME NEW c \in Copy, NEW P \in SUBSET Parts, NEW r \in SUBSET Parts, NEW L \in SUBSET Parts
    PROVE  /\ Set(c, P) \in Copy
           /\ Good(c, r, L) => Good(Set(c, P), r \ P, L \ P)
BY DEF Set, Copy, Good

\* One that flags nothing keeps it the newest, too.
LEMMA SetUnflaggedKeeps ==
    ASSUME NEW c \in Copy, NEW p \in Parts, NEW r \in SUBSET Parts, NEW L \in SUBSET Parts
    PROVE  /\ SetUnflagged(c, p) \in Copy
           /\ Good(c, r, L) => Good(SetUnflagged(c, p), r \ {p}, L \ {p})
<1>1. SetUnflagged(c, p) \in Copy
  BY DEF SetUnflagged, Copy
<1>2. ASSUME Good(c, r, L)
      PROVE  Good(SetUnflagged(c, p), r \ {p}, L \ {p})
  <2>1. Parts \ (L \ {p}) \subseteq c.latest \union {p}
    BY <1>2 DEF Good
  <2>2. Parts \ ((L \ {p}) \union c.changed \union (c.silent \union ({p} \ c.changed))) \subseteq r \ {p}
    BY <1>2 DEF Good
  <2> QED
    BY <2>1, <2>2 DEF SetUnflagged, Good
<1> QED
  BY <1>1, <1>2

\* A copy that misses a change to p is the newest but for p, wherever the change is.
LEMMA OutdatedKeeps ==
    ASSUME NEW c \in Copy, NEW p \in Parts, NEW r \in SUBSET Parts, NEW L \in SUBSET Parts
    PROVE  /\ Outdated(c, p) \in Copy
           /\ Good(c, r, L) => /\ Good(Outdated(c, p), r \union {p}, L \union {p})
                              /\ Good(Outdated(c, p), r \ {p}, L \union {p})
<1>1. c # None
  BY CacheAssumption DEF Copy, Parts
<1>2. Outdated(c, p) = [latest |-> c.latest \ {p}, changed |-> c.changed, silent |-> c.silent]
  BY <1>1 DEF Outdated, Copy
<1> QED
  BY <1>2 DEF Copy, Good

\* What is read from a row that is the newest is so too.
LEMMA ReadIsGood ==
    ASSUME NEW k \in Keys, row[k] \in SUBSET Parts, NEW L \in SUBSET Parts
    PROVE  /\ GetFromDB(k) \in Copy
           /\ Whole(row[k], L) => Good(GetFromDB(k), row[k], L)
BY DEF GetFromDB, Copy, Good, Whole

LEMMA NoneIsNoCopy == None \notin Copy
BY CacheAssumption DEF Copy, Parts

\* The writes that fail are counted.
LEMMA FailedIsNat ==
    ASSUME NEW K \in SUBSET Keys, NEW T, NEW stops \in [K -> T]
    PROVE  Failed(stops) \in Nat
<1> DEFINE F == {k \in DOMAIN stops : ~Succeeds(stops[k])}
<1>1. F \in SUBSET Keys /\ IsFiniteSet(Keys)
  BY CacheAssumption
<1>2. IsFiniteSet(F)
  <2> HIDE DEF F
  <2> QED
    BY <1>1, FS_Subset
<1> QED
  BY <1>2, FS_CardinalityType DEF Failed

-----------------------------------------------------------------------------
(* The maps. Each action is first seen to keep the types, then to keep one   *)
(* copy, then the changes.                                                   *)

\* What the steps know of the state before them.
LEMMA Known ==
    ASSUME IInv
    PROVE  /\ login \in [Keys -> Copy \union {None}] /\ logout \in [Keys -> Copy \union {None}]
           /\ row \in [Keys -> SUBSET Parts] /\ lost \in [Keys -> SUBSET Parts]
           /\ \A k \in Keys : login[k] = None \/ logout[k] = None
           /\ \A k \in Keys :
                 /\ login[k] # None => login[k] \in Copy /\ Good(login[k], row[k], lost[k])
                 /\ logout[k] # None => logout[k] \in Copy /\ Good(logout[k], row[k], lost[k])
                 /\ login[k] = None /\ logout[k] = None => Whole(row[k], lost[k])
BY DEF IInv, TypeOK, OneCopy, NoLostUpdate, InStep, Good, Whole, Cached

\* It is enough to show the same for the state after a step.
LEMMA Kept ==
    ASSUME TypeOK',
           \A k \in Keys : login'[k] = None \/ logout'[k] = None,
           \A k \in Keys :
                 /\ login'[k] # None => Good(login'[k], row'[k], lost'[k])
                 /\ logout'[k] # None => Good(logout'[k], row'[k], lost'[k])
                 /\ login'[k] = None /\ logout'[k] = None => Whole(row'[k], lost'[k])
    PROVE  IInv'
BY DEF IInv, OneCopy, NoLostUpdate, InStep, Good, Whole, Cached

LEMMA RanksKept ==
    ASSUME TypeOK
    PROVE  /\ Cardinality(Keys) \in Nat
           /\ \A K \in SUBSET Keys : Later(updated, K) \in [Keys -> 0 .. Cardinality(Keys)]
           /\ \A K, L \in SUBSET Keys :
                 Later([k \in Keys |-> IF k \in L THEN 0 ELSE since[k]], K) \in [Keys -> 0 .. Cardinality(Keys)]
           /\ \A K \in SUBSET Keys : Later(since, K) \in [Keys -> 0 .. Cardinality(Keys)]
<1>1. Cardinality(Keys) \in Nat
  BY CacheAssumption, FS_CardinalityType
<1>2. updated \in [Keys -> Nat] /\ since \in [Keys -> Nat]
  BY <1>1 DEF TypeOK
<1>3. \A L \in SUBSET Keys : [k \in Keys |-> IF k \in L THEN 0 ELSE since[k]] \in [Keys -> Nat]
  BY <1>2
<1> QED
  BY <1>1, <1>2, <1>3, RankBound

LEMMA LoadKeeps ==
    ASSUME IInv, NEW k \in Keys, LoadData(k)
    PROVE  IInv'
<1>1. GetFromDB(k) \in Copy /\ (Whole(row[k], lost[k]) => Good(GetFromDB(k), row[k], lost[k]))
  BY Known, ReadIsGood
<1>2. Cardinality(Keys) \in Nat
  BY CacheAssumption, FS_CardinalityType
<1>3. TypeOK'
  BY <1>1, <1>2 DEF IInv, LoadData, TypeOK
<1> QED
  BY <1>1, <1>3, Known, Kept DEF LoadData

LEMMA UnloadKeeps ==
    ASSUME IInv, NEW k \in Keys, NEW f \in 1 .. NumParts + 1, UnloadData(k, f)
    PROVE  IInv'
<1> DEFINE c == login[k]
<1>1. /\ c \in Copy /\ f \in Stops(c) /\ logout[k] = None
      /\ row[k] \in SUBSET Parts /\ lost[k] \in SUBSET Parts
      /\ Good(c, row[k], lost[k])
  BY Known DEF UnloadData
<1>2. /\ AfterWrite(c, f) \in Copy /\ Written(c, f, row[k]) \in SUBSET Parts
      /\ Unwritten(c, f) \in SUBSET Parts
      /\ Good(AfterWrite(c, f), Written(c, f, row[k]), lost[k])
      /\ Whole(Written(c, f, row[k]), lost[k] \union Unwritten(c, f))
  <2> HIDE DEF c
  <2> QED
    BY <1>1, WriteKeeps
<1>3. /\ login' = [login EXCEPT ![k] = None]
      /\ row' = [row EXCEPT ![k] = Written(c, f, @)]
      /\ logout' = IF Succeeds(f) THEN [logout EXCEPT ![k] = AfterWrite(c, f)] ELSE logout
      /\ lost' = IF Succeeds(f) THEN lost ELSE [lost EXCEPT ![k] = @ \union Unwritten(c, f)]
  BY <1>1 DEF UnloadData
<1>4. TypeOK'
  <2>1. updated' \in [Keys -> 0 .. Cardinality(Keys)] /\ since' \in [Keys -> 0 .. Cardinality(Keys)]
    <3>1. TypeOK /\ {k} \in SUBSET Keys
      BY DEF IInv
    <3> QED
      BY <3>1, RanksKept DEF UnloadData, TypeOK
  <2>2. failures' \in 0 .. MaxFailures
    BY CacheAssumption DEF IInv, TypeOK, UnloadData
  <2> HIDE DEF c
  <2> QED
    BY <1>1, <1>2, <1>3, <2>1, <2>2, Known DEF TypeOK
<1>5. ASSUME NEW j \in Keys
      PROVE  /\ login'[j] # None => Good(login'[j], row'[j], lost'[j])
             /\ logout'[j] # None => Good(logout'[j], row'[j], lost'[j])
             /\ login'[j] = None /\ logout'[j] = None => Whole(row'[j], lost'[j])
  <2> HIDE DEF c
  <2>2. CASE j # k
    BY <1>3, <2>2, Known
  <2>3. CASE j = k
    BY <1>1, <1>2, <1>3, <2>3, Known, NoneIsNoCopy
  <2> QED
    BY <2>2, <2>3
<1>6. \A j \in Keys : login'[j] = None \/ logout'[j] = None
  BY <1>3, Known
<1> QED
  BY <1>4, <1>5, <1>6, Kept

LEMMA UpdateLoginKeeps ==
    ASSUME IInv, NEW k \in Keys, NEW p \in Parts, UpdateLogin(k, p)
    PROVE  IInv'
<1>1. /\ login[k] \in Copy /\ row[k] \in SUBSET Parts /\ lost[k] \in SUBSET Parts
      /\ {p} \in SUBSET Parts
  BY Known DEF UpdateLogin
<1>2. /\ Set(login[k], {p}) \in Copy
      /\ Good(login[k], row[k], lost[k]) => Good(Set(login[k], {p}), row[k] \ {p}, lost[k] \ {p})
  BY <1>1, SetKeeps
<1>3. TypeOK'
  BY <1>2 DEF IInv, UpdateLogin, TypeOK
<1> QED
  BY <1>1, <1>2, <1>3, Known, NoneIsNoCopy, Kept DEF UpdateLogin

LEMMA UpdateUnflaggedKeeps ==
    ASSUME IInv, NEW k \in Keys, NEW p \in Parts, UpdateUnflagged(k, p)
    PROVE  IInv'
<1>1. login[k] \in Copy /\ row[k] \in SUBSET Parts /\ lost[k] \in SUBSET Parts
  BY Known DEF UpdateUnflagged
<1>2. /\ SetUnflagged(login[k], p) \in Copy
      /\ Good(login[k], row[k], lost[k])
             => Good(SetUnflagged(login[k], p), row[k] \ {p}, lost[k] \ {p})
  BY <1>1, SetUnflaggedKeeps
<1>3. TypeOK'
  BY <1>2 DEF IInv, UpdateUnflagged, TypeOK
<1> QED
  BY <1>1, <1>2, <1>3, Known, NoneIsNoCopy, Kept DEF UpdateUnflagged

LEMMA UseLogoutKeeps ==
    ASSUME IInv, NEW k \in Keys, NEW P \in SUBSET Parts, UseLogoutData(k, P)
    PROVE  IInv'
<1> DEFINE c == GetLogoutData(k)
<1>1. GetFromDB(k) \in Copy /\ (Whole(row[k], lost[k]) => Good(GetFromDB(k), row[k], lost[k]))
  BY Known, ReadIsGood
<1>2. c \in Copy /\ login[k] = None /\ row[k] \in SUBSET Parts /\ lost[k] \in SUBSET Parts
  BY <1>1, Known DEF UseLogoutData, GetLogoutData
<1>3. Good(c, row[k], lost[k])
  BY <1>1, <1>2, Known DEF GetLogoutData
<1>4. Set(c, P) \in Copy /\ Good(Set(c, P), row[k] \ P, lost[k] \ P)
  <2> HIDE DEF c
  <2> QED
    BY <1>2, <1>3, SetKeeps
<1>5. /\ logout' = [logout EXCEPT ![k] = Set(c, P)] /\ row' = [row EXCEPT ![k] = @ \ P]
      /\ login' = login /\ lost' = [lost EXCEPT ![k] = @ \ P]
  BY DEF UseLogoutData
<1>6. TypeOK'
  <2>1. updated' \in [Keys -> 0 .. Cardinality(Keys)] /\ since' \in [Keys -> 0 .. Cardinality(Keys)]
    <3>1. TypeOK /\ {k} \in SUBSET Keys
      BY DEF IInv
    <3> QED
      BY <3>1, RanksKept DEF UseLogoutData, TypeOK
  <2>2. failures' = failures
    BY DEF UseLogoutData
  <2> HIDE DEF c
  <2> QED
    BY <1>2, <1>4, <1>5, <2>1, <2>2 DEF IInv, TypeOK
<1> HIDE DEF c
<1> QED
  BY <1>2, <1>4, <1>5, <1>6, Known, NoneIsNoCopy, Kept

\* A column written past the copy is in the row or lost; the copy, if there is one, is
\* known to miss it.
LEMMA WriteRowKeeps ==
    ASSUME IInv, NEW k \in Keys, NEW p \in Parts, WriteRow(k, p)
    PROVE  IInv'
<1>1. /\ login[k] = None
      /\ logout' = [logout EXCEPT ![k] = Outdated(logout[k], p)]
      /\ UNCHANGED <<login, updated, since>>
  BY DEF WriteRow
<1>2. \/ /\ row' = [row EXCEPT ![k] = row[k] \union {p}]
         /\ lost' = [lost EXCEPT ![k] = IF logout[k] = None THEN lost[k] \ {p} ELSE lost[k] \union {p}]
         /\ failures' = failures
      \/ /\ row' = [row EXCEPT ![k] = row[k] \ {p}]
         /\ lost' = [lost EXCEPT ![k] = lost[k] \union {p}]
         /\ failures < MaxFailures /\ failures' = failures + 1
  BY DEF WriteRow
<1>3. \A c \in Copy :
         /\ Outdated(c, p) \in Copy
         /\ Good(c, row[k], lost[k]) => /\ Good(Outdated(c, p), row[k] \union {p}, lost[k] \union {p})
                                       /\ Good(Outdated(c, p), row[k] \ {p}, lost[k] \union {p})
  BY Known, OutdatedKeeps
<1>4. Outdated(None, p) = None
  BY DEF Outdated
<1>5. TypeOK'
  <2>1. Outdated(logout[k], p) \in Copy \union {None}
    BY <1>3, <1>4, Known
  <2>2. logout' \in [Keys -> Copy \union {None}]
    BY <1>1, <2>1 DEF IInv, TypeOK
  <2>3. failures' \in 0 .. MaxFailures
    BY <1>2, CacheAssumption DEF IInv, TypeOK
  <2>4. row' \in [Keys -> SUBSET Parts] /\ lost' \in [Keys -> SUBSET Parts]
    BY <1>2, Known DEF IInv, TypeOK
  <2> QED
    BY <1>1, <2>2, <2>3, <2>4 DEF IInv, TypeOK
<1>6. ASSUME NEW j \in Keys
      PROVE  /\ login'[j] = None \/ logout'[j] = None
             /\ login'[j] # None => Good(login'[j], row'[j], lost'[j])
             /\ logout'[j] # None => Good(logout'[j], row'[j], lost'[j])
             /\ login'[j] = None /\ logout'[j] = None => Whole(row'[j], lost'[j])
  <2>1. CASE j # k
    BY <1>1, <1>2, <2>1, Known
  <2>2. CASE j = k /\ logout[k] = None
    <3>1. /\ Whole(row[k] \union {p}, lost[k] \ {p})
          /\ Whole(row[k] \ {p}, lost[k] \union {p})
      BY <1>1, <2>2, Known DEF Whole
    <3>2. login'[k] = None /\ logout'[k] = None
      BY <1>1, <1>4, <2>2, Known
    <3> QED
      BY <1>2, <2>2, <3>1, <3>2, Known
  <2>3. CASE j = k /\ logout[k] # None
    <3>1. login'[k] = None /\ logout'[k] = Outdated(logout[k], p) /\ logout'[k] # None
      BY <1>1, <1>3, <2>3, Known, NoneIsNoCopy
    <3>2. /\ lost'[k] = lost[k] \union {p}
          /\ row'[k] = row[k] \union {p} \/ row'[k] = row[k] \ {p}
      BY <1>2, <2>3, Known
    <3> QED
      BY <1>3, <2>3, <3>1, <3>2, Known
  <2> QED
    BY <2>1, <2>2, <2>3
<1> QED
  BY <1>5, <1>6, Kept

\* The parts of a deleted entry that the row does not have are known to be lost.
LEMMA DropKeeps ==
    ASSUME IInv, NEW K \in SUBSET Cached(logout), Drop(K),
           UNCHANGED <<login, row, updated, failures>>
    PROVE  IInv'
<1>1. K \in SUBSET Keys
  BY DEF Cached
<1>2. since' \in [Keys -> 0 .. Cardinality(Keys)]
  BY <1>1, RanksKept DEF Drop, IInv
<1>3. ASSUME NEW j \in K
      PROVE  /\ Unwritten(logout[j], 1) \in SUBSET Parts
             /\ Whole(row[j], lost[j] \union Unwritten(logout[j], 1))
  <2>1. logout[j] \in Copy /\ Good(logout[j], row[j], lost[j])
    BY <1>1, Known DEF Cached
  <2>2. Unwritten(logout[j], 1) = logout[j].changed \union logout[j].silent
    <3>1. \A p \in logout[j].changed : p >= 1
      BY <2>1, CacheAssumption DEF Copy, Parts
    <3> QED
      BY <3>1 DEF Unwritten
  <2> QED
    BY <2>1, <2>2 DEF Copy, Good, Whole
<1>4. TypeOK'
  BY <1>1, <1>2, <1>3 DEF IInv, TypeOK, Drop
<1>5. ASSUME NEW j \in Keys
      PROVE  /\ j \in K => login'[j] = None /\ logout'[j] = None /\ Whole(row'[j], lost'[j])
             /\ j \notin K => /\ login'[j] = login[j] /\ logout'[j] = logout[j]
                              /\ row'[j] = row[j] /\ lost'[j] = lost[j]
  BY <1>1, <1>3, Known DEF Drop, Cached
<1> QED
  BY <1>4, <1>5, Known, Kept

\* A pass changes an entry by writing it only, and the flags stay true whether or not
\* the write succeeds.
LEMMA PassKeeps ==
    ASSUME IInv, UpdateDBData
    PROVE  IInv'
<1>1. PICK W \in SUBSET Unsaved(login), U \in SUBSET Unsaved(logout) :
         \E stops \in [W \union U -> 1 .. NumParts + 1] :
              LET Of(k) == IF k \in W THEN login[k] ELSE logout[k]
              IN  /\ \A k \in W \union U : stops[k] \in Stops(Of(k))
                  /\ failures + Failed(stops) <= MaxFailures
                  /\ failures' = failures + Failed(stops)
                  /\ login' = [k \in Keys |-> IF k \in W THEN AfterWrite(login[k], stops[k]) ELSE login[k]]
                  /\ logout' = [k \in Keys |-> IF k \in U THEN AfterWrite(logout[k], stops[k]) ELSE logout[k]]
                  /\ row' = [k \in Keys |-> IF k \in W \union U THEN Written(Of(k), stops[k], row[k]) ELSE row[k]]
                  /\ updated' = Later(updated, {k \in W \union U : Stamps(Of(k), stops[k])})
  BY DEF UpdateDBData
<1> DEFINE Of(k) == IF k \in W THEN login[k] ELSE logout[k]
<1>2. PICK stops \in [W \union U -> 1 .. NumParts + 1] :
         /\ \A k \in W \union U : stops[k] \in Stops(Of(k))
         /\ failures + Failed(stops) <= MaxFailures
         /\ failures' = failures + Failed(stops)
         /\ login' = [k \in Keys |-> IF k \in W THEN AfterWrite(login[k], stops[k]) ELSE login[k]]
         /\ logout' = [k \in Keys |-> IF k \in U THEN AfterWrite(logout[k], stops[k]) ELSE logout[k]]
         /\ row' = [k \in Keys |-> IF k \in W \union U THEN Written(Of(k), stops[k], row[k]) ELSE row[k]]
         /\ updated' = Later(updated, {k \in W \union U : Stamps(Of(k), stops[k])})
  BY <1>1
<1>3. UNCHANGED <<since, lost>>
  BY DEF UpdateDBData
<1>4. /\ \A k \in W : k \in Keys /\ login[k] \in Copy /\ logout[k] = None
      /\ \A k \in U : k \in Keys /\ logout[k] \in Copy /\ login[k] = None
  BY Known DEF Unsaved, Cached
<1>5. ASSUME NEW k \in W \union U
      PROVE  /\ AfterWrite(Of(k), stops[k]) \in Copy /\ Written(Of(k), stops[k], row[k]) \in SUBSET Parts
             /\ Good(Of(k), row[k], lost[k])
                   => Good(AfterWrite(Of(k), stops[k]), Written(Of(k), stops[k], row[k]), lost[k])
  <2>1. /\ Of(k) \in Copy /\ stops[k] \in Stops(Of(k))
        /\ row[k] \in SUBSET Parts /\ lost[k] \in SUBSET Parts
    BY <1>2, <1>4, Known
  <2> HIDE DEF Of
  <2> QED
    BY <2>1, WriteKeeps
<1>6. TypeOK'
  <2>1. W \union U \in SUBSET Keys
    BY <1>4
  <2>2. updated' \in [Keys -> 0 .. Cardinality(Keys)]
    <3>1. TypeOK /\ {k \in W \union U : Stamps(Of(k), stops[k])} \in SUBSET Keys
      BY <2>1 DEF IInv
    <3> QED
      BY <1>2, <3>1, RanksKept
  <2>3. failures' \in 0 .. MaxFailures
    <3>1. Failed(stops) \in Nat
      BY <2>1, FailedIsNat
    <3>2. failures \in Nat /\ MaxFailures \in Nat
      BY CacheAssumption DEF IInv, TypeOK
    <3> QED
      BY <1>2, <3>1, <3>2
  <2>4. login' \in [Keys -> Copy \union {None}]
    BY <1>2, <1>5, Known
  <2>5. logout' \in [Keys -> Copy \union {None}]
    BY <1>2, <1>4, <1>5, Known
  <2>6. row' \in [Keys -> SUBSET Parts]
    <3> HIDE DEF Of
    <3> QED
      BY <1>2, <1>5, Known
  <2> QED
    BY <1>3, <2>2, <2>3, <2>4, <2>5, <2>6 DEF IInv, TypeOK
<1>7. ASSUME NEW k \in Keys
      PROVE  login'[k] = None \/ logout'[k] = None
  <2>1. CASE k \in W
    BY <1>2, <1>4, <2>1, NoneIsNoCopy
  <2>2. CASE k \notin W
    BY <1>2, <1>4, <2>2, Known
  <2> QED
    BY <2>1, <2>2
<1>8. ASSUME NEW k \in Keys
      PROVE  /\ login'[k] # None => Good(login'[k], row'[k], lost'[k])
             /\ logout'[k] # None => Good(logout'[k], row'[k], lost'[k])
             /\ login'[k] = None /\ logout'[k] = None => Whole(row'[k], lost'[k])
  <2>1. lost' = lost
    BY <1>3
  <2>2. CASE k \in W
    <3>1. login'[k] = AfterWrite(Of(k), stops[k]) /\ row'[k] = Written(Of(k), stops[k], row[k])
      BY <1>2, <2>2
    <3>2. k \notin U /\ logout'[k] = None /\ Good(Of(k), row[k], lost[k]) /\ login'[k] \in Copy
      BY <1>2, <1>4, <1>5, <2>1, <2>2, <3>1, Known, NoneIsNoCopy
    <3> QED
      BY <1>5, <2>1, <2>2, <3>1, <3>2, NoneIsNoCopy
  <2>3. CASE k \in U
    <3>1. k \notin W /\ Of(k) = logout[k]
      BY <1>4, <2>3, NoneIsNoCopy
    <3>2. logout'[k] = AfterWrite(Of(k), stops[k]) /\ row'[k] = Written(Of(k), stops[k], row[k])
      BY <1>2, <2>1, <2>3, <3>1
    <3>3. login'[k] = None /\ Good(Of(k), row[k], lost[k]) /\ logout'[k] \in Copy
      BY <1>2, <1>4, <1>5, <2>1, <2>3, <3>1, <3>2, Known, NoneIsNoCopy
    <3> QED
      BY <1>5, <2>1, <2>3, <3>2, <3>3, NoneIsNoCopy
  <2>4. CASE k \notin W \union U
    BY <1>2, <2>1, <2>4, Known
  <2> QED
    BY <2>2, <2>3, <2>4
<1> QED
  BY <1>6, <1>7, <1>8, Kept

LEMMA DestroyKeeps ==
    ASSUME IInv, Destroy
    PROVE  IInv'
<1> DEFINE Of(k) == IF login[k] # None THEN login[k] ELSE logout[k]
           K == Cached(login) \union Cached(logout)
<1>0. PICK stops \in [K -> 1 .. NumParts + 1] :
         LET J == DOMAIN stops
         IN  /\ \A k \in J : stops[k] \in Stops(Of(k))
             /\ failures + Failed(stops) <= MaxFailures
             /\ failures' = failures + Failed(stops)
             /\ row' = [k \in Keys |-> IF k \in J THEN Written(Of(k), stops[k], row[k]) ELSE row[k]]
             /\ lost' = [k \in Keys |->
                    IF k \in J THEN lost[k] \union Unwritten(Of(k), stops[k]) ELSE lost[k]]
             /\ login' = [k \in Keys |-> None] /\ logout' = [k \in Keys |-> None]
             /\ updated' = [k \in Keys |-> 0] /\ since' = [k \in Keys |-> 0]
  BY Zenon DEF Destroy
<1>1. /\ \A k \in K : stops[k] \in Stops(Of(k))
      /\ failures + Failed(stops) <= MaxFailures
      /\ failures' = failures + Failed(stops)
      /\ row' = [k \in Keys |-> IF k \in K THEN Written(Of(k), stops[k], row[k]) ELSE row[k]]
      /\ lost' = [k \in Keys |->
             IF k \in K THEN lost[k] \union Unwritten(Of(k), stops[k]) ELSE lost[k]]
      /\ login' = [k \in Keys |-> None] /\ logout' = [k \in Keys |-> None]
      /\ updated' = [k \in Keys |-> 0] /\ since' = [k \in Keys |-> 0]
  <2> DOMAIN stops = K
    OBVIOUS
  <2> HIDE DEF K, Of
  <2> QED
    BY <1>0
<1>2. /\ K \in SUBSET Keys
      /\ \A k \in K : /\ Of(k) \in Copy /\ Good(Of(k), row[k], lost[k])
                      /\ row[k] \in SUBSET Parts /\ lost[k] \in SUBSET Parts
  BY Known DEF Cached
<1>3. ASSUME NEW k \in K
      PROVE  /\ Written(Of(k), stops[k], row[k]) \in SUBSET Parts
             /\ Unwritten(Of(k), stops[k]) \in SUBSET Parts
             /\ Whole(Written(Of(k), stops[k], row[k]), lost[k] \union Unwritten(Of(k), stops[k]))
  <2>1. /\ Of(k) \in Copy /\ stops[k] \in Stops(Of(k)) /\ Good(Of(k), row[k], lost[k])
        /\ row[k] \in SUBSET Parts /\ lost[k] \in SUBSET Parts
    BY <1>1, <1>2
  <2> HIDE DEF Of, K
  <2> QED
    BY <2>1, WriteKeeps
<1>4. TypeOK'
  <2>1. failures' \in 0 .. MaxFailures
    <3>1. Failed(stops) \in Nat
      <4> HIDE DEF K
      <4> QED
        BY <1>2, FailedIsNat
    <3>2. failures \in Nat /\ MaxFailures \in Nat
      BY CacheAssumption DEF IInv, TypeOK
    <3> QED
      BY <1>1, <3>1, <3>2
  <2>2. row' \in [Keys -> SUBSET Parts]
    <3> HIDE DEF Of, K
    <3> QED
      BY <1>1, <1>3, Known
  <2>3. lost' \in [Keys -> SUBSET Parts]
    <3> HIDE DEF Of, K
    <3> QED
      BY <1>1, <1>2, <1>3, Known
  <2>4. Cardinality(Keys) \in Nat
    BY CacheAssumption, FS_CardinalityType
  <2> QED
    BY <1>1, <2>1, <2>2, <2>3, <2>4 DEF TypeOK
<1>5. ASSUME NEW k \in Keys
      PROVE  Whole(row'[k], lost'[k])
  <2>2. CASE k \in K
    <3> HIDE DEF Of, K
    <3> QED
      BY <1>1, <1>3, <2>2
  <2>3. CASE k \notin K
    BY <1>1, <2>3, Known DEF Cached
  <2> QED
    BY <2>2, <2>3
<1> QED
  BY <1>1, <1>4, <1>5, Kept

-----------------------------------------------------------------------------
(* The specification.                                                        *)

LEMMA InitHolds == Init => IInv
<1>1. Cardinality(Keys) \in Nat
  BY CacheAssumption, FS_CardinalityType
<1> QED
  BY <1>1, CacheAssumption DEF Init, IInv, TypeOK, OneCopy, NoLostUpdate, InStep, Cached

LEMMA StepKeeps ==
    ASSUME IInv, [Next]_vars
    PROVE  IInv'
<1>1. ASSUME NEW k \in Keys, LoadData(k)
      PROVE  IInv'
  BY <1>1, LoadKeeps
<1>2. ASSUME NEW k \in Keys, RemoveLogoutData(k)
      PROVE  IInv'
  <2>1. {k} \in SUBSET Cached(logout)
    BY <1>2 DEF RemoveLogoutData, Cached
  <2> QED
    BY <1>2, <2>1, DropKeeps DEF RemoveLogoutData
<1>4. ASSUME NEW k \in Keys, NEW f \in 1 .. NumParts + 1, UnloadData(k, f)
      PROVE  IInv'
  BY <1>4, UnloadKeeps
<1>5. ASSUME NEW k \in Keys, NEW p \in Parts, UpdateLogin(k, p)
      PROVE  IInv'
  BY <1>5, UpdateLoginKeeps
<1>11. ASSUME NEW k \in Keys, NEW p \in UnflaggedParts, UpdateUnflagged(k, p) \/ WriteRow(k, p)
      PROVE  IInv'
  <2>1. p \in Parts
    BY CacheAssumption DEF Parts
  <2> QED
    BY <1>11, <2>1, UpdateUnflaggedKeeps, WriteRowKeeps
<1>6. ASSUME NEW k \in Keys, NEW P \in {{}} \union {{p} : p \in OfflineParts}, UseLogoutData(k, P)
      PROVE  IInv'
  <2>1. P \in SUBSET Parts
    BY CacheAssumption DEF Parts
  <2> QED
    BY <1>6, <2>1, UseLogoutKeeps
<1>7. CASE ManageUnloadedData
  <2> DEFINE K == Cached(logout)
             Excess == Cardinality(K) - MaxData
             D == {k \in K : Cardinality({j \in K : since[j] < since[k]}) < Excess}
  <2>1. D \in SUBSET Cached(logout)
    OBVIOUS
  <2>2. Drop(D) /\ UNCHANGED <<login, row, updated, failures>>
    BY <1>7 DEF ManageUnloadedData
  <2> HIDE DEF D
  <2> QED
    BY <2>1, <2>2, DropKeeps
<1>8. CASE UpdateDBData
  BY <1>8, PassKeeps
<1>9. CASE Destroy
  BY <1>9, DestroyKeeps
<1>10. CASE UNCHANGED vars
  BY <1>10 DEF vars, IInv, TypeOK, OneCopy, NoLostUpdate, InStep, Cached
<1> QED
  BY <1>1, <1>2, <1>4, <1>5, <1>6, <1>7, <1>8, <1>9, <1>10, <1>11 DEF Next

\* The invariant of the cache holds in every state, whatever the database refuses.
THEOREM CacheIsKept == Spec => []IInv
<1>1. Init => IInv
  BY InitHolds
<1>2. IInv /\ [Next]_vars => IInv'
  BY StepKeeps
<1> QED
  BY <1>1, <1>2, PTL DEF Spec

\* Type correctness, the ranks of the times included.
THEOREM TypeCorrect == Spec => []TypeOK
<1>1. IInv => TypeOK
  BY DEF IInv
<1> QED
  BY <1>1, CacheIsKept, PTL

\* The data of a key is in the login map or in the logout map, never in both
\* (UnloadData and GetLogoutData).
THEOREM DataIsOnce == Spec => []OneCopy
<1>1. IInv => OneCopy
  BY DEF IInv
<1> QED
  BY <1>1, CacheIsKept, PTL

\* No change is lost but in the ways NoLostUpdate lists: the flags of a copy cover all
\* that the row does not have but the changes that no setter flagged, in whatever order
\* users come and go, and however writes stop.
THEOREM ChangesAreKept == Spec => []NoLostUpdate
<1>1. IInv => NoLostUpdate
  BY DEF IInv
<1> QED
  BY <1>1, CacheIsKept, PTL
=============================================================================
