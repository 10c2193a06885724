------------------------------ MODULE DataCache ------------------------------
(***************************************************************************)
(* The data cache of the DB agent (CDBDataMgr, with the two kinds of data  *)
(* it is made for: CStoreData and CCharacterData). The data of a key is    *)
(* read from its row in the database when a user logs in, kept in the      *)
(* login map while he is, and in the logout map afterwards, where guild    *)
(* gold, gifts and the operator's tool still change it. Changes are        *)
(* flagged part by part and written back later: a few in every pulse of    *)
(* the server, all of them at a logout and at the end. Some setters of     *)
(* CCharacterData flag nothing, and some columns are written to the row at *)
(* once.                                                                   *)
(*                                                                         *)
(* All of it runs on the process thread, so each operation is one step.    *)
(* Of the data the model keeps which parts of it hold the newest change.   *)
(***************************************************************************)
EXTENDS Integers, FiniteSets

CONSTANTS
    Keys,        \* UnifiedStoreKey or character id, in the order of the maps
    NumParts,    \* tables that the data of a key is spread over
    OfflineParts, \* those that are changed while a user is logged out
    UnflaggedParts, \* those with setters that flag nothing: m_CharInfoEx; none in CStoreData
    None,        \* no entry in a map
    Stamped,     \* a write sets m_dwLastDBUpdateTime: it does for CStoreData only
    MinUpdate,   \* MIN_UPDATE_NUM
    MaxData,     \* MAX_MANAGE_DATA_NUM
    MaxFailures  \* bound: writes to the database that fail

ASSUME CacheAssumption ==
    /\ IsFiniteSet(Keys) /\ Keys \subseteq Nat
    /\ {NumParts, MinUpdate, MaxData, MaxFailures} \subseteq Nat
    /\ OfflineParts \subseteq 1 .. NumParts /\ UnflaggedParts \subseteq 1 .. NumParts
    /\ None \notin Keys
    /\ None \notin [latest : SUBSET (1 .. NumParts), changed : SUBSET (1 .. NumParts),
                    silent : SUBSET (1 .. NumParts)]
    /\ Stamped \in BOOLEAN

VARIABLES
    login,      \* m_LoginMap
    logout,     \* m_LogoutMap
    row,        \* row[k]: the parts of k's row in the database that are the newest
    updated,    \* rank of m_dwLastDBUpdateTime, the latest highest, 0 for never
    since,      \* rank of the time at which k entered the logout map, 0 if it is not there
    failures,   \* writes that failed
    lost        \* lost[k]: the parts whose newest change is not kept, in a way the code has

vars == <<login, logout, row, updated, since, failures, lost>>

Parts == 1 .. NumParts

\* latest: the parts that hold the newest change; changed: m_dwUpdateData; silent: the
\* parts with a change that was never flagged, which the code does not know.
Copy == [latest : SUBSET Parts, changed : SUBSET Parts, silent : SUBSET Parts]

Cached(map) == {k \in Keys : map[k] # None}

Unsaved(map) == {k \in Cached(map) : map[k].changed # {}}

\* The ranks when the keys K get the time of now.
Later(rank, K) ==
    LET time == [k \in Keys |-> rank[k] + IF k \in K THEN Cardinality(Keys) + 1 ELSE 0]
    IN  [k \in Keys |-> Cardinality({time[j] : j \in {i \in Keys : time[i] \in 1 .. time[k]}})]

-----------------------------------------------------------------------------
(* CStoreData and CCharacterData.                                            *)

\* GetFromDB reads every part, after ClearData.
GetFromDB(k) == [latest |-> row[k], changed |-> {}, silent |-> {}]

\* Where a write of c may stop: at a part that the database refuses, at the first
\* if the data is found invalid (IsValidData), or nowhere.
Stops(c) == c.changed \union {1, NumParts + 1}

Succeeds(f) == f = NumParts + 1

\* The row once the parts before f are written.
Written(c, f, r) ==
    LET P == {p \in c.changed : p < f} IN (r \ P) \union (P \intersect c.latest)

\* Mutant: each part is unflagged as soon as it is tried.
AfterWriteUnflagged(c, f) == [c EXCEPT !.changed = {p \in @ : p > f}]

\* The flags are cleared when all parts are written, not before.
AfterWrite(c, f) == IF Succeeds(f) THEN [c EXCEPT !.changed = {}] ELSE c

\* CStoreData sets its time after each write; CCharacterData returns before it
\* does, unless there was nothing to write.
Stamps(c, f) == Succeeds(f) /\ (Stamped \/ c.changed = {})

Failed(stops) == Cardinality({k \in DOMAIN stops : ~Succeeds(stops[k])})

\* Setters: the parts P of a copy are the newest from now on, and flagged.
Set(c, P) ==
    [latest |-> c.latest \union P, changed |-> c.changed \union P, silent |-> c.silent \ P]

\* Those that flag nothing: the change is written if the part is flagged for another.
SetUnflagged(c, p) ==
    [latest |-> c.latest \union {p}, changed |-> c.changed,
     silent |-> c.silent \union ({p} \ c.changed)]

\* What is lost with a copy that leaves the memory after a write that stopped at f,
\* which is 1 if there was none.
Unwritten(c, f) == {p \in c.changed : p >= f} \union c.silent

-----------------------------------------------------------------------------
(* Logging in and out.                                                       *)

\* Data that is logged in already is refused, and a read that fails leaves all as it was.
LoadData(k) ==
    /\ login[k] = None
    /\ IF logout[k] # None
       THEN /\ login' = [login EXCEPT ![k] = logout[k]]
            /\ logout' = [logout EXCEPT ![k] = None]
            /\ since' = [since EXCEPT ![k] = 0]
            /\ updated' = updated
       ELSE /\ login' = [login EXCEPT ![k] = GetFromDB(k)]
            /\ updated' = [updated EXCEPT ![k] = 0]
            /\ UNCHANGED <<logout, since>>
    /\ UNCHANGED <<row, failures, lost>>

\* The data of a user that logs out is written and kept. If it could not be written
\* it is dumped to a file and is in no map any more.
UnloadData(k, f) ==
    LET c == login[k]
    IN  /\ c # None /\ f \in Stops(c)
        /\ ~Succeeds(f) => failures < MaxFailures
        /\ login' = [login EXCEPT ![k] = None]
        /\ row' = [row EXCEPT ![k] = Written(c, f, @)]
        /\ updated' = IF Stamps(c, f) THEN Later(updated, {k}) ELSE updated
        /\ IF Succeeds(f)
           THEN /\ logout' = IF logout[k] = None
                             THEN [logout EXCEPT ![k] = AfterWrite(c, f)] ELSE logout
                /\ since' = IF logout[k] = None THEN Later(since, {k}) ELSE since
                /\ UNCHANGED <<failures, lost>>
           ELSE /\ failures' = failures + 1
                /\ lost' = [lost EXCEPT ![k] = @ \union Unwritten(c, f)]
                /\ UNCHANGED <<logout, since>>

\* A packet of the game server changes part p of a user in the game.
UpdateLogin(k, p) ==
    /\ login[k] # None
    /\ login' = [login EXCEPT ![k] = Set(@, {p})]
    /\ row' = [row EXCEPT ![k] = @ \ {p}]
    /\ lost' = [lost EXCEPT ![k] = @ \ {p}]
    /\ UNCHANGED <<logout, updated, since, failures>>

\* The agent itself changes m_CharInfoEx of a session's data: the points and times of the
\* realm war when a character is selected and logged out, and the admin flag. So does
\* a war flag whose own statement fails, and one that succeeds leaves all as it was.
UpdateUnflagged(k, p) ==
    /\ login[k] # None
    /\ login' = [login EXCEPT ![k] = SetUnflagged(@, p)]
    /\ row' = [row EXCEPT ![k] = @ \ {p}]
    /\ lost' = [lost EXCEPT ![k] = @ \ {p}]
    /\ UNCHANGED <<logout, updated, since, failures>>

-----------------------------------------------------------------------------
(* Data of users that are not logged in.                                     *)

\* Mutant: the login map is not searched.
GetLogoutDataAlways(k) == IF logout[k] # None THEN logout[k] ELSE GetFromDB(k)

\* What GetLogoutData returns; it is in the logout map from then on.
GetLogoutData(k) ==
    IF logout[k] # None THEN logout[k]
    ELSE IF login[k] = None THEN GetFromDB(k) ELSE None

\* The null pointer is not used: the data is with a session then. A reader does
\* no more than load it, a writer (gold of a guild, gifts, parties, the
\* operator's tool) changes some of it.
UseLogoutData(k, P) ==
    LET c == GetLogoutData(k)
    IN  /\ c # None
        /\ logout' = [logout EXCEPT ![k] = Set(c, P)]
        /\ row' = [row EXCEPT ![k] = @ \ P]
        /\ lost' = [lost EXCEPT ![k] = @ \ P]
        /\ IF logout[k] = None
           THEN since' = Later(since, {k}) /\ updated' = [updated EXCEPT ![k] = 0]
           ELSE UNCHANGED <<since, updated>>
        /\ UNCHANGED <<login, failures>>

\* A copy that does not have the newest change to p any more.
Outdated(c, p) == IF c = None THEN None ELSE [c EXCEPT !.latest = @ \ {p}]

\* The war flag of a character without a session is written to the row, and not to a
\* copy in the logout map. Whether the statement succeeds is not looked at.
WriteRow(k, p) ==
    /\ login[k] = None
    /\ logout' = [logout EXCEPT ![k] = Outdated(@, p)]
    /\ \/ /\ row' = [row EXCEPT ![k] = @ \union {p}]
          /\ lost' = [lost EXCEPT ![k] = IF logout[k] = None THEN @ \ {p} ELSE @ \union {p}]
          /\ UNCHANGED failures
       \/ /\ failures < MaxFailures
          /\ failures' = failures + 1
          /\ row' = [row EXCEPT ![k] = @ \ {p}]
          /\ lost' = [lost EXCEPT ![k] = @ \union {p}]
    /\ UNCHANGED <<login, updated, since>>

\* Deletes the entries K of the logout map, saved or not.
Drop(K) ==
    /\ logout' = [k \in Keys |-> IF k \in K THEN None ELSE logout[k]]
    /\ since' = Later([k \in Keys |-> IF k \in K THEN 0 ELSE since[k]], {})
    /\ lost' = [k \in Keys |-> IF k \in K THEN lost[k] \union Unwritten(logout[k], 1) ELSE lost[k]]

RemoveLogoutData(k) ==
    /\ logout[k] # None
    /\ Drop({k})
    /\ UNCHANGED <<login, row, updated, failures>>

\* The entries that logged out first are deleted when there are too many.
ManageUnloadedData ==
    LET K == Cached(logout)
        Excess == Cardinality(K) - MaxData
    IN  /\ Excess > 0
        /\ Drop({k \in K : Cardinality({j \in K : since[j] < since[k]}) < Excess})
        /\ UNCHANGED <<login, row, updated, failures>>

-----------------------------------------------------------------------------
(* Writing back.                                                             *)

\* Mutant: the latest first.
LoopCoversLatest(W, K, rank) ==
    /\ W \subseteq K
    /\ W # K => /\ Cardinality(W) > MinUpdate
                /\ \A w \in W, k \in K \ W : rank[w] >= rank[k]

\* What one of the loops may cover of the changed entries K before it ends: all of
\* them, or the first in its order, more than the minimum. It ends early when the
\* time is not over.
LoopCovers(W, K, rank) ==
    /\ W \subseteq K
    /\ W # K => /\ Cardinality(W) > MinUpdate
                /\ \A w \in W, k \in K \ W : rank[w] <= rank[k]

\* A pass over the login map, oldest update first, and the logout map, in its order.
\* An entry is in one of the maps only.
UpdateDBData ==
    \E W \in SUBSET Unsaved(login), U \in SUBSET Unsaved(logout) :
        /\ LoopCovers(W, Unsaved(login), updated)
        /\ LoopCovers(U, Unsaved(logout), [k \in Keys |-> k])
        /\ \E stops \in [W \union U -> 1 .. NumParts + 1] :
              LET Of(k) == IF k \in W THEN login[k] ELSE logout[k]
              IN  /\ \A k \in W \union U : stops[k] \in Stops(Of(k))
                  /\ failures + Failed(stops) <= MaxFailures
                  /\ failures' = failures + Failed(stops)
                  /\ login' = [k \in Keys |-> IF k \in W THEN AfterWrite(login[k], stops[k]) ELSE login[k]]
                  /\ logout' = [k \in Keys |-> IF k \in U THEN AfterWrite(logout[k], stops[k]) ELSE logout[k]]
                  /\ row' = [k \in Keys |-> IF k \in W \union U THEN Written(Of(k), stops[k], row[k]) ELSE row[k]]
                  /\ updated' = Later(updated, {k \in W \union U : Stamps(Of(k), stops[k])})
        /\ UNCHANGED <<since, lost>>

\* The server ends: everything is written once more and deleted, and the next start
\* begins with empty maps.
Destroy ==
    \E stops \in [Cached(login) \union Cached(logout) -> 1 .. NumParts + 1] :
        LET Of(k) == IF login[k] # None THEN login[k] ELSE logout[k]
            K == DOMAIN stops
        IN  /\ K # {}
            /\ \A k \in K : stops[k] \in Stops(Of(k))
            /\ failures + Failed(stops) <= MaxFailures
            /\ failures' = failures + Failed(stops)
            /\ row' = [k \in Keys |-> IF k \in K THEN Written(Of(k), stops[k], row[k]) ELSE row[k]]
            /\ lost' = [k \in Keys |->
                   IF k \in K THEN lost[k] \union Unwritten(Of(k), stops[k]) ELSE lost[k]]
            /\ login' = [k \in Keys |-> None]
            /\ logout' = [k \in Keys |-> None]
            /\ updated' = [k \in Keys |-> 0]
            /\ since' = [k \in Keys |-> 0]

-----------------------------------------------------------------------------
Init ==
    /\ login = [k \in Keys |-> None]
    /\ logout = [k \in Keys |-> None]
    /\ row = [k \in Keys |-> Parts]
    /\ updated = [k \in Keys |-> 0]
    /\ since = [k \in Keys |-> 0]
    /\ failures = 0
    /\ lost = [k \in Keys |-> {}]

Next ==
    \/ \E k \in Keys :
          \/ LoadData(k) \/ RemoveLogoutData(k)
          \/ \E f \in 1 .. NumParts + 1 : UnloadData(k, f)
          \/ \E p \in Parts : UpdateLogin(k, p)
          \/ \E p \in UnflaggedParts : UpdateUnflagged(k, p) \/ WriteRow(k, p)
          \/ \E P \in {{}} \union {{p} : p \in OfflineParts} : UseLogoutData(k, P)
    \/ ManageUnloadedData \/ UpdateDBData \/ Destroy

Spec == Init /\ [][Next]_vars

\* Pulses with time left come again and again; the database fails finitely often.
LiveSpec == Spec /\ WF_vars(UpdateDBData)

-----------------------------------------------------------------------------
TypeOK ==
    /\ login \in [Keys -> Copy \union {None}]
    /\ logout \in [Keys -> Copy \union {None}]
    /\ row \in [Keys -> SUBSET Parts]
    /\ updated \in [Keys -> 0 .. Cardinality(Keys)]
    /\ since \in [Keys -> 0 .. Cardinality(Keys)]
    /\ failures \in 0 .. MaxFailures
    /\ lost \in [Keys -> SUBSET Parts]

\* The data of a key is in memory once: the comment at DBDataMgr.h:289 says that it
\* might be duplicated otherwise.
OneCopy == Cached(login) \intersect Cached(logout) = {}

\* The parts of k that are not lost, in whichever map they are, hold every change, and
\* what is not flagged is in the database or was never flagged.
InStep(map, k) ==
    LET kept == Parts \ lost[k]
    IN  map[k] # None => /\ kept \subseteq map[k].latest
                         /\ kept \ (map[k].changed \union map[k].silent) \subseteq row[k]

\* No change is lost but in the ways listed here, whatever the order of logins, logouts,
\* changes to users that are not logged in, deletions from the cache, restarts and
\* writes that fail half way: the data in memory is the newest and what it does not have
\* flagged is in the row; the row of a key that is not in memory is the newest. The
\* exceptions are, part by part and until the part is changed again (lost):
\*   - a write that fails when the data leaves the memory, from the part on at which it
\*     stops;
\*   - the flagged parts of an entry that is deleted from the logout map;
\*   - a change made by a setter that flags nothing, if the part is flagged for no other
\*     before the data leaves the memory: no write knows of it (silent);
\*   - a war flag of a character without a session, if the statement fails, or if an
\*     older copy is in the logout map: the next login takes that, and its next write of
\*     the part puts the old flag back.
NoLostUpdate ==
    \A k \in Keys :
        /\ InStep(login, k) /\ InStep(logout, k)
        /\ login[k] = None /\ logout[k] = None => Parts \ lost[k] \subseteq row[k]

\* No user in the game is passed over for ever: his changes are written in the end,
\* if the database does not fail for ever, although a pass that has time left stops
\* after MinUpdate + 1 entries and others change all the time. The comment at
\* DBDataMgr.h:385 says that the oldest are updated first. Those that log in again
\* and again do pass before him: data that is read anew has no time yet.
ChangeIsSaved ==
    \A k \in Keys :
        \/ []<><<\E j \in Keys : LoadData(j)>>_vars
        \/ k \in Unsaved(login) ~> k \notin Unsaved(login)

=============================================================================
