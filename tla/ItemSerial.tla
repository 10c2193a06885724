----------------------------- MODULE ItemSerial -----------------------------
(***************************************************************************)
(* The serial numbers of items. A game server numbers the items it makes   *)
(* (CItemFactory). The DB agent keeps the number it should go on with in   *)
(* memory, per link (CItemSerialMgr), and in the database (the row of      *)
(* ItemUID). Each character update raises both; the row is read again when *)
(* the game server logs in, and written when its link ends.                *)
(*                                                                         *)
(* Links come and go: a game server may connect again while the agent has  *)
(* not noticed that the last link is gone, or before the agent has         *)
(* answered the last login. The agent knows a server's link by the         *)
(* server's id (CMultiDispatch) and refuses a login under an id that is    *)
(* taken. Both processes may crash. Each handler is one step: those of a   *)
(* process run on one thread.                                              *)
(***************************************************************************)
EXTENDS Naturals, Sequences, FiniteSets

CONSTANTS
    Links,        \* connections between the game server and the agent
    None,         \* no link
    Base,         \* the first serial of a server: its zone and channel
    Margin,       \* what LoadItemSerial adds to the serial it has read
    MaxItems,     \* bound: items made
    MaxInFlight,  \* bound: packets on a link when another update is sent
    MaxCrashes,   \* bound: crashes of the two processes
    MaxFailures   \* bound: statements that the database fails

ASSUME SerialAssumption ==
    /\ {MaxItems, MaxInFlight, MaxCrashes, MaxFailures} \subseteq Nat
    /\ {Base, Margin} \subseteq Nat \ {0}
    /\ None \notin Links

VARIABLES
    \* The game server.
    uid,       \* m_nCurrentUID: the serial of the next item, 0 in a new process
    held,      \* items its characters hold that it has made
    current,   \* the link in CDBAgentDispatch's table
    far,       \* its end of each link
    \* The links.
    toAgent,   \* packets on their way to the agent
    ack,       \* the serial in a login's answer that is on its way, 0 if none
    \* The agent.
    near,      \* its end of each link
    table,     \* the link under the server's id in CGameDispatch's table
    mgr,       \* m_dwItemSerial of each link's dispatch
    \* The database.
    row,       \* the server's row of ItemUID, 0 if there is none
    stored,    \* items in the characters' and the chests' data
    \* History and bounds.
    made,      \* number of items made, which tells them apart
    unreported,\* items that came with a link's chests since its last character
    trouble,   \* what has happened that the numbers are not made for
    crashes, failures

game == <<uid, held, current, far, made>>
agent == <<near, table, mgr, unreported>>
database == <<row, stored, failures>>
vars == <<game, toAgent, ack, agent, database, trouble, crashes>>

-----------------------------------------------------------------------------
Item == [serial : Nat, nr : Nat]

Packet ==
    [type : {"login"}] \union [type : {"chest"}, items : SUBSET Item]
        \union [type : {"char"}, items : SUBSET Item, serial : Nat]

Larger(m, n) == IF m < n THEN n ELSE m

Init ==
    /\ uid = 0 /\ held = {} /\ current = None
    /\ far = [l \in Links |-> "none"]
    /\ toAgent = [l \in Links |-> <<>>]
    /\ ack = [l \in Links |-> 0]
    /\ near = [l \in Links |-> "none"]
    /\ table = None
    /\ mgr = [l \in Links |-> 0]
    /\ row = 0 /\ stored = {}
    /\ made = 0
    /\ unreported = [l \in Links |-> {}]
    /\ trouble = {}
    /\ crashes = 0 /\ failures = 0

-----------------------------------------------------------------------------
(* The game server.                                                          *)

(* CRylGameServer::ConnectToAgent, at the start and on a command. The table  *)
(* is set by the answer to the login, so that another connection is made     *)
(* while the answer is awaited.                                              *)
ConnectToAgent(l) ==
    /\ current = None
    /\ far[l] = "none"
    /\ far' = [far EXCEPT ![l] = "open"]
    /\ near' = [near EXCEPT ![l] = "open"]
    /\ toAgent' = [toAgent EXCEPT ![l] = <<[type |-> "login"]>>]
    /\ UNCHANGED <<uid, held, current, made, ack, table, mgr, unreported,
                   database, trouble, crashes>>

(* DBAgentPacketParse::ParseSysServerLogin.                                  *)
RaiseSerial(serial) == uid' = Larger(uid, serial)

LoginAck(l) ==
    /\ far[l] = "open" /\ ack[l] # 0
    /\ RaiseSerial(ack[l])
    /\ ack' = [ack EXCEPT ![l] = 0]
    /\ current' = l
    /\ far' = [k \in Links |-> IF k = current /\ k # l THEN "closed" ELSE far[k]]
    /\ UNCHANGED <<held, made, toAgent, agent, database, trouble, crashes>>

(* CDBAgentDispatch::Disconnected.                                           *)
LinkLost(l) ==
    /\ far[l] = "open"
    /\ far' = [far EXCEPT ![l] = "closed"]
    /\ current' = IF current = l THEN None ELSE current
    /\ UNCHANGED <<uid, held, made, toAgent, ack, agent, database, trouble, crashes>>

(* CItemFactory::CreateItem, for a character that has entered: not before    *)
(* the process has its first serial.                                         *)
CreateItem ==
    /\ uid # 0
    /\ made < MaxItems
    /\ held' = held \union {[serial |-> uid, nr |-> made]}
    /\ uid' = uid + 1
    /\ made' = made + 1
    /\ UNCHANGED <<current, far, toAgent, ack, agent, database, trouble, crashes>>

(* What DBUpdate sends of a character: with it goes the next serial.         *)
CharacterData(items) == [type |-> "char", items |-> items, serial |-> uid]

(* CCharacter::DBUpdate: the chest, when it is open, before the character.   *)
DBUpdate(chest) ==
    /\ current # None
    /\ Len(toAgent[current]) <= MaxInFlight
    /\ near[current] # "gone"
    /\ LET packets ==
               (IF chest = {} THEN <<>>
                ELSE <<[type |-> "chest", items |-> chest]>>)
               \o <<CharacterData(held \ chest)>>
       IN toAgent' = [toAgent EXCEPT ![current] = @ \o packets]
    /\ UNCHANGED <<game, ack, agent, database, trouble, crashes>>

GameCrash ==
    /\ crashes < MaxCrashes
    /\ uid' = 0 /\ held' = {} /\ current' = None
    /\ far' = [l \in Links |-> IF far[l] = "open" THEN "closed" ELSE far[l]]
    /\ crashes' = crashes + 1
    /\ UNCHANGED <<made, toAgent, ack, agent, database, trouble>>

-----------------------------------------------------------------------------
(* The agent: CItemSerialMgr. A statement of the database may fail.          *)

(* SetItemUID: the row is written over, if there is one.                     *)
SetItemUID(serial, ok) ==
    /\ ok \/ failures < MaxFailures
    /\ row' = IF ok /\ row # 0 THEN serial ELSE row
    /\ failures' = IF ok THEN failures ELSE failures + 1

(* Mutant: the margin is left out.                                           *)
LoadWithoutMargin(l) ==
    /\ row' = IF row = 0 THEN Base ELSE row
    /\ mgr' = [mgr EXCEPT ![l] = IF row = 0 THEN Base ELSE row]
    /\ UNCHANGED failures

(* CItemSerialMgr::LoadItemSerial. A server without a row gets one.          *)
LoadItemSerial(l) ==
    /\ row' = IF row = 0 THEN Base ELSE row
    /\ mgr' = [mgr EXCEPT ![l] = (IF row = 0 THEN Base ELSE row) + Margin]
    /\ UNCHANGED failures

(* The row cannot be read, or not be inserted: the first serial of the       *)
(* server is left in memory, and a row that exists is not inserted again.    *)
LoadFails(l) ==
    /\ failures < MaxFailures
    /\ failures' = failures + 1
    /\ mgr' = [mgr EXCEPT ![l] = Base]
    /\ UNCHANGED row

(* CItemSerialMgr::SetItemSerial with the SaveItemSerial that follows it     *)
(* when the serial has risen.                                                *)
SetItemSerial(l, serial) ==
    IF mgr[l] < serial
    THEN /\ mgr' = [mgr EXCEPT ![l] = serial]
         /\ \E ok \in BOOLEAN : SetItemUID(serial, ok)
    ELSE UNCHANGED <<mgr, row, failures>>

-----------------------------------------------------------------------------
(* The agent: CGameDispatch.                                                 *)

Receives(l, type) ==
    /\ near[l] \in {"open", "logged"}
    /\ toAgent[l] # <<>>
    /\ Head(toAgent[l]).type = type
    /\ toAgent' = [toAgent EXCEPT ![l] = Tail(@)]

(* CGameDispatch::ServerLogin.                                               *)
ServerLogin(l) ==
    /\ Receives(l, "login")
    /\ table = None
    /\ table' = l
    /\ \/ /\ LoadItemSerial(l)
          /\ near' = [near EXCEPT ![l] = "logged"]
          /\ ack' = [ack EXCEPT ![l] = mgr'[l]]
       \/ /\ LoadFails(l)
          /\ near' = [near EXCEPT ![l] = "closing"]
          /\ UNCHANGED ack
    /\ UNCHANGED <<game, unreported, stored, trouble, crashes>>

LoginRefused(l) ==
    /\ Receives(l, "login")
    /\ table # None
    /\ near' = [near EXCEPT ![l] = "closing"]
    /\ trouble' = trouble \union {"refused"}
    /\ UNCHANGED <<game, ack, table, mgr, unreported, database, crashes>>

(* ParseCharUpdate::UpdateDepositDB. Data of a user whose session is gone    *)
(* are not kept. The packet has no serial.                                   *)
UpdateDepositDB(l) ==
    /\ Receives(l, "chest")
    /\ \/ UNCHANGED <<stored, unreported>>
       \/ LET items == Head(toAgent[l]).items
          IN /\ stored' = stored \union items
             /\ unreported' = [unreported EXCEPT ![l] = @ \union items]
    /\ UNCHANGED <<game, ack, near, table, mgr, row, failures, trouble, crashes>>

(* ParseCharUpdate::CharUpdate, CharLogout and CharMoveZone: the serial is   *)
(* kept even when the data are not.                                          *)
CharUpdate(l) ==
    /\ Receives(l, "char")
    /\ \/ UNCHANGED stored
       \/ stored' = stored \union Head(toAgent[l]).items
    /\ SetItemSerial(l, Head(toAgent[l]).serial)
    /\ unreported' = [unreported EXCEPT ![l] = {}]
    /\ UNCHANGED <<game, ack, near, table, trouble, crashes>>

(* Whether links end with an item stored that the margin does not cover.     *)
Halved(ends) ==
    IF \E l \in ends : \E i \in unreported[l] : i.serial >= row' + Margin
    THEN {"chest"} ELSE {}

(* Mutant: a link that has not logged in empties the table too.              *)
EmptyTable(l) == table' = None

(* CMultiDispatch::RemoveDispatch under the server's id, which the dispatch  *)
(* has from its login on: whichever link it finds there.                     *)
RemoveDispatch(l) == table' = IF near[l] = "open" THEN table ELSE None

(* Mutant: the serial is written though it was never loaded.                 *)
SaveAnySerial(l) == \E ok \in BOOLEAN : SetItemUID(mgr[l], ok)

(* SaveItemSerial at the end of a link, for a serial that is not 0.          *)
SaveItemSerial(l) ==
    IF mgr[l] # 0
    THEN \E ok \in BOOLEAN : SetItemUID(mgr[l], ok)
    ELSE UNCHANGED <<row, failures>>

(* CGameDispatch::Disconnected, after CloseSession or when the end of the    *)
(* connection is noticed: what has not been handled by then is lost.         *)
Disconnected(l) ==
    /\ \/ near[l] = "closing"
       \/ near[l] \in {"open", "logged"} /\ far[l] = "closed"
    /\ near' = [near EXCEPT ![l] = "gone"]
    /\ toAgent' = [toAgent EXCEPT ![l] = <<>>]
    /\ RemoveDispatch(l)
    /\ SaveItemSerial(l)
    /\ trouble' = trouble \union Halved({l})
    /\ UNCHANGED <<game, ack, mgr, unreported, stored, crashes>>

(* The agent's process ends. What it has not written is lost.                *)
AgentCrash ==
    /\ crashes < MaxCrashes
    /\ near' = [l \in Links |-> IF near[l] = "none" THEN "none" ELSE "gone"]
    /\ toAgent' = [l \in Links |-> <<>>]
    /\ table' = None
    /\ UNCHANGED <<game, ack, mgr, unreported, database>>
    /\ trouble' = trouble \union Halved({l \in Links : near[l] = "logged"})
    /\ crashes' = crashes + 1

Next ==
    \/ CreateItem \/ GameCrash \/ AgentCrash
    \/ \E chest \in SUBSET held : DBUpdate(chest)
    \/ \E l \in Links :
          \/ ConnectToAgent(l) \/ LoginAck(l) \/ LinkLost(l)
          \/ ServerLogin(l) \/ LoginRefused(l)
          \/ UpdateDepositDB(l) \/ CharUpdate(l)
          \/ Disconnected(l)

Spec == Init /\ [][Next]_vars

-----------------------------------------------------------------------------
(* Properties.                                                               *)

TypeOK ==
    /\ uid \in Nat /\ held \subseteq Item /\ made \in Nat
    /\ current \in Links \union {None}
    /\ far \in [Links -> {"none", "open", "closed"}]
    /\ toAgent \in [Links -> Seq(Packet)]
    /\ ack \in [Links -> Nat]
    /\ near \in [Links -> {"none", "open", "logged", "closing", "gone"}]
    /\ table \in Links \union {None}
    /\ mgr \in [Links -> Nat]
    /\ row \in Nat /\ stored \subseteq Item
    /\ unreported \in [Links -> SUBSET Item]
    /\ trouble \subseteq {"refused", "chest"}
    /\ crashes \in 0 .. MaxCrashes /\ failures \in 0 .. MaxFailures

NoSerialTwice == \A i, j \in stored : i.serial = j.serial => i = j

(* Two items that are stored never have the same serial, whatever crashes    *)
(* and whichever packets are lost with a link: unless a login was refused,   *)
(* the database failed a statement on the serial, or a link was lost between *)
(* a chest and its character update with more than the margin unreported.    *)
SerialsUnique == trouble = {} /\ failures = 0 => NoSerialTwice

HeldLinkIsKnown ==
    \A l \in Links : current = l /\ near[l] = "logged" => table = l

(* While a game server uses a link that the agent has accepted, the agent    *)
(* has that link under the server's id and reaches the server with it: until *)
(* a login has been refused.                                                 *)
UsedLinkIsKnown == "refused" \notin trouble => HeldLinkIsKnown

(* The serial in the database never goes back, though it is written without  *)
(* a look at what it is: unless a login was refused or a statement failed.   *)
RowNeverFalls ==
    [][failures' = 0 /\ "refused" \notin trouble => row' >= row]_vars
=============================================================================
