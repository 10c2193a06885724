-------------------------- MODULE ItemSerialProofs --------------------------
(***************************************************************************)
(* Proofs about ItemSerial for any number of links, items, crashes and     *)
(* packets on a link, and any margin: while no login is refused and no     *)
(* statement fails, the link in use is in the table, the row never goes    *)
(* back, and, as long as no chest is cut off from its character, no two    *)
(* items that are stored have the same serial.                             *)
(***************************************************************************)
EXTENDS ItemSerial, SequenceTheorems, TLAPS

(***************************************************************************)
(* The inductive invariant.                                                *)
(***************************************************************************)

Login == [type |-> "login"]

\* What each end of a link knows of the other: before its login has been handled a
\* link carries nothing but that, and has neither an answer nor a serial.
LinksOK ==
    \A l \in Links :
        /\ far[l] = "none" => near[l] = "none"
        /\ near[l] \in {"none", "gone"} => toAgent[l] = <<>>
        /\ near[l] = "open" => toAgent[l] = <<Login>>
        /\ near[l] \in {"none", "open"} => ack[l] = 0 /\ current # l /\ mgr[l] = 0

\* A game server has a serial before it has a link to send it on, or items.
GameOK ==
    /\ current # None => uid # 0
    /\ uid = 0 => held = {}

\* At most one link has logged in, and it is the one in the table.
TableOK ==
    "refused" \notin trouble =>
        \A l \in Links : near[l] \in {"logged", "closing"} => table = l

\* The serial in memory is not behind the row, nor more than the margin before it.
RowOK ==
    "refused" \notin trouble /\ failures = 0 =>
        \A l \in Links :
            /\ near[l] # "closing"
            /\ near[l] = "logged" => row # 0 /\ row <= mgr[l] /\ mgr[l] <= row + Margin

Calm == trouble = {} /\ failures = 0

ItemsIn(q) ==
    {i \in Item : \E n \in 1 .. Len(q) : q[n].type # "login" /\ i \in q[n].items}

\* All items there are: stored, held or on their way.
Items == {i \in Item : i \in stored \/ i \in held \/ \E l \in Links : i \in ItemsIn(toAgent[l])}

Unique == \A i, j \in Items : i.serial = j.serial => i = j

\* Every item is below the serial that the game server uses next, or will when it
\* has the answer to its login.
Counted ==
    /\ uid # 0 => \A i \in Items : i.serial < uid
    /\ \A l \in Links : ack[l] # 0 /\ far[l] = "open" /\ uid = 0 =>
          \A i \in Items : i.serial < ack[l]

\* Every stored item is below what the next login starts from, but for those that
\* came in a chest and whose character is still to come.
Covered ==
    /\ \A l \in Links : unreported[l] \subseteq stored
    /\ \A i \in stored :
          \/ i.serial < row + Margin
          \/ \E l \in Links : near[l] = "logged" /\ i \in unreported[l]

\* A character's packet has a serial above what was sent with it and before it.
Follows(q, n, items) ==
    q[n].type = "char" =>
        /\ \A i \in items : i.serial < q[n].serial
        /\ \A m \in 1 .. n : q[m].type # "login" =>
              \A i \in q[m].items : i.serial < q[n].serial

Reported ==
    \A l \in Links : \A n \in 1 .. Len(toAgent[l]) : Follows(toAgent[l], n, unreported[l])

NumbersOK == Calm => Unique /\ Counted /\ Covered /\ Reported

IInv == TypeOK /\ LinksOK /\ GameOK /\ TableOK /\ RowOK /\ NumbersOK

LEMMA Constants ==
    /\ MaxFailures \in Nat /\ MaxCrashes \in Nat /\ None \notin Links
    /\ Base \in Nat /\ Base # 0 /\ Margin \in Nat /\ Margin # 0
BY SerialAssumption

-----------------------------------------------------------------------------
(* Queues of packets.                                                        *)

\* A packet has what its type says.
LEMMA Packets ==
    ASSUME NEW p \in Packet
    PROVE  /\ p.type \in {"login", "chest", "char"}
           /\ p.type = "login" => p = Login
           /\ p.type # "login" => p.items \in SUBSET Item
           /\ p.type = "char" => p.serial \in Nat
BY DEF Packet, Login

\* What is left of a queue when its head has been taken.
LEMMA Tails ==
    ASSUME NEW q \in Seq(Packet), q # <<>>
    PROVE  /\ Head(q) = q[1] /\ Head(q) \in Packet /\ 1 \in 1 .. Len(q)
           /\ Tail(q) \in Seq(Packet) /\ Len(Tail(q)) = Len(q) - 1
           /\ \A n \in 1 .. Len(Tail(q)) : n + 1 \in 1 .. Len(q) /\ Tail(q)[n] = q[n + 1]
<1>1. Len(q) \in Nat /\ Len(q) # 0
  BY EmptySeq
<1>2. /\ Tail(q) \in Seq(Packet) /\ Len(Tail(q)) = Len(q) - 1
      /\ \A n \in 1 .. Len(Tail(q)) : Tail(q)[n] = q[n + 1]
  BY HeadTailProperties
<1>3. Head(q) = q[1] /\ Head(q) \in Packet
  BY HeadTailProperties
<1> QED
  BY <1>1, <1>2, <1>3

\* The items in what is left were in the queue, and those of its head.
LEMMA TailItems ==
    ASSUME NEW q \in Seq(Packet), q # <<>>
    PROVE  /\ ItemsIn(Tail(q)) \subseteq ItemsIn(q)
           /\ Head(q).type # "login" => Head(q).items \subseteq ItemsIn(q)
<1>1. ItemsIn(Tail(q)) \subseteq ItemsIn(q)
  BY Tails DEF ItemsIn
<1>2. ASSUME Head(q).type # "login", NEW i \in Head(q).items
      PROVE  i \in ItemsIn(q)
  <2>1. i \in Item
    BY <1>2, Tails, Packets
  <2> QED
    BY <1>2, <2>1, Tails DEF ItemsIn
<1> QED
  BY <1>1, <1>2

LEMMA NoItems == ItemsIn(<<>>) = {} /\ ItemsIn(<<Login>>) = {}
<1>1. Len(<<Login>>) = 1 /\ <<Login>>[1].type = "login"
  BY DEF Login
<1> QED
  BY <1>1 DEF ItemsIn

\* What DBUpdate sends.
Sent(chest) ==
    (IF chest = {} THEN <<>> ELSE <<[type |-> "chest", items |-> chest]>>)
    \o <<CharacterData(held \ chest)>>

\* It ends with the character, and all of its items were held.
LEMMA SentPackets ==
    ASSUME TypeOK, NEW chest \in SUBSET held
    PROVE  /\ Sent(chest) \in Seq(Packet) /\ Len(Sent(chest)) \in {1, 2}
           /\ \A n \in 1 .. Len(Sent(chest)) :
                 /\ Sent(chest)[n].type = "char" => n = Len(Sent(chest)) /\ Sent(chest)[n].serial = uid
                 /\ Sent(chest)[n].items \subseteq held
<1> DEFINE char == CharacterData(held \ chest)
           box == [type |-> "chest", items |-> chest]
<1>1. /\ char \in Packet /\ char.type = "char" /\ char.serial = uid /\ char.items \subseteq held
      /\ box \in Packet /\ box.type = "chest" /\ box.items \subseteq held
  BY DEF TypeOK, Packet, CharacterData
<1> HIDE DEF char, box
<1>2. CASE chest = {}
  <2>1. Sent(chest) = <<>> \o <<char>>
    BY <1>2 DEF Sent, char
  <2>2. <<>> \o <<char>> = <<char>>
    BY <1>1, ConcatEmptySeq
  <2> QED
    BY <1>1, <2>1, <2>2
<1>3. CASE chest # {}
  <2>1. Sent(chest) = <<box>> \o <<char>>
    BY <1>3 DEF Sent, char, box
  <2>2. <<box>> \in Seq(Packet) /\ <<char>> \in Seq(Packet) /\ Len(<<box>>) = 1 /\ Len(<<char>>) = 1
    BY <1>1
  <2>3. /\ <<box>> \o <<char>> \in Seq(Packet) /\ Len(<<box>> \o <<char>>) = 2
        /\ \A n \in 1 .. 2 : (<<box>> \o <<char>>)[n] = IF n <= 1 THEN <<box>>[n] ELSE <<char>>[n - 1]
    <3> HIDE DEF Packet
    <3>1. Len(<<box>>) + Len(<<char>>) = 2
      BY <2>2
    <3> QED
      BY <2>2, <3>1, ConcatProperties
  <2>4. (<<box>> \o <<char>>)[1] = box /\ (<<box>> \o <<char>>)[2] = char
    BY <2>3
  <2> QED
    BY <1>1, <2>1, <2>3, <2>4
<1> QED
  BY <1>2, <1>3

-----------------------------------------------------------------------------
(* What is received, and what the statements on the row leave behind.        *)

\* A packet that is received is taken from the head of its queue.
LEMMA Received ==
    ASSUME TypeOK, NEW l \in Links, NEW type \in {"login", "chest", "char"}, Receives(l, type)
    PROVE  /\ toAgent[l] \in Seq(Packet) /\ toAgent[l] # <<>> /\ near[l] \in {"open", "logged"}
           /\ Head(toAgent[l]) \in Packet /\ Head(toAgent[l]).type = type
           /\ toAgent' = [toAgent EXCEPT ![l] = Tail(toAgent[l])]
           /\ toAgent' \in [Links -> Seq(Packet)]
<1>1. toAgent[l] \in Seq(Packet) /\ toAgent[l] # <<>>
  BY DEF TypeOK, Receives
<1>2. Head(toAgent[l]) \in Packet /\ Tail(toAgent[l]) \in Seq(Packet)
  BY <1>1, Tails
<1> QED
  BY <1>1, <1>2 DEF TypeOK, Receives

\* A statement that fails is counted, and one that succeeds writes the serial.
LEMMA RowIsSet ==
    ASSUME TypeOK, NEW serial \in Nat, NEW ok \in BOOLEAN, SetItemUID(serial, ok)
    PROVE  /\ row' \in Nat /\ failures' \in 0 .. MaxFailures
           /\ failures' = 0 => failures = 0 /\ row' = IF row # 0 THEN serial ELSE row
<1>1. failures \in 0 .. MaxFailures /\ row \in Nat /\ MaxFailures \in Nat
  BY Constants DEF TypeOK
<1>2. CASE ok
  BY <1>1, <1>2 DEF SetItemUID
<1>3. CASE ~ok
  BY <1>1, <1>3 DEF SetItemUID
<1> QED
  BY <1>2, <1>3

LEMMA SerialIsSet ==
    ASSUME TypeOK, NEW l \in Links, NEW serial \in Nat, SetItemSerial(l, serial)
    PROVE  /\ row' \in Nat /\ failures' \in 0 .. MaxFailures
           /\ mgr' = [mgr EXCEPT ![l] = Larger(mgr[l], serial)] /\ mgr' \in [Links -> Nat]
           /\ failures' = 0 =>
                 failures = 0 /\ row' = IF mgr[l] < serial /\ row # 0 THEN serial ELSE row
<1>1. mgr \in [Links -> Nat]
  BY DEF TypeOK
<1>2. CASE mgr[l] < serial
  <2>1. mgr' = [mgr EXCEPT ![l] = serial] /\ \E ok \in BOOLEAN : SetItemUID(serial, ok)
    BY <1>2 DEF SetItemSerial
  <2> QED
    BY <1>1, <1>2, <2>1, RowIsSet DEF Larger
<1>3. CASE ~(mgr[l] < serial)
  <2>1. UNCHANGED <<mgr, row, failures>>
    BY <1>3 DEF SetItemSerial
  <2>2. mgr' = [mgr EXCEPT ![l] = mgr[l]]
    BY <1>1, <2>1
  <2> QED
    BY <1>1, <1>3, <2>1, <2>2 DEF Larger, TypeOK
<1> QED
  BY <1>2, <1>3

LEMMA SerialIsSaved ==
    ASSUME TypeOK, NEW l \in Links, SaveItemSerial(l)
    PROVE  /\ row' \in Nat /\ failures' \in 0 .. MaxFailures
           /\ failures' = 0 =>
                 failures = 0 /\ row' = IF mgr[l] # 0 /\ row # 0 THEN mgr[l] ELSE row
<1>1. mgr[l] \in Nat
  BY DEF TypeOK
<1>2. CASE mgr[l] # 0
  BY <1>1, <1>2, RowIsSet DEF SaveItemSerial
<1>3. CASE mgr[l] = 0
  BY <1>3 DEF SaveItemSerial, TypeOK
<1> QED
  BY <1>2, <1>3

-----------------------------------------------------------------------------
(* Types.                                                                    *)

LEMMA TypeHolds ==
    ASSUME TypeOK, Next
    PROVE  TypeOK'
<1> USE Constants
<1>1. CASE CreateItem
  <2>1. held' \subseteq Item /\ uid' \in Nat /\ made' \in Nat
    BY <1>1 DEF TypeOK, CreateItem, Item
  <2> QED
    BY <1>1, <2>1 DEF TypeOK, CreateItem, agent, database
<1>2. CASE GameCrash
  BY <1>2 DEF TypeOK, GameCrash, agent, database
<1>3. CASE AgentCrash
  BY <1>3 DEF TypeOK, AgentCrash, game, database, Halved
<1>4. ASSUME NEW chest \in SUBSET held, DBUpdate(chest)
      PROVE  TypeOK'
  <2>1. current \in Links /\ toAgent[current] \in Seq(Packet)
    BY <1>4 DEF DBUpdate, TypeOK
  <2>2. toAgent[current] \o Sent(chest) \in Seq(Packet)
    BY <2>1, SentPackets, ConcatProperties
  <2>3. toAgent' = [toAgent EXCEPT ![current] = toAgent[current] \o Sent(chest)]
    BY <1>4 DEF DBUpdate, Sent
  <2> QED
    <3>1. toAgent' \in [Links -> Seq(Packet)]
      BY <2>1, <2>2, <2>3 DEF TypeOK
    <3> QED
      BY <1>4, <3>1 DEF TypeOK, DBUpdate, game, agent, database
<1>5. ASSUME NEW l \in Links, ConnectToAgent(l)
      PROVE  TypeOK'
  <2>1. <<[type |-> "login"]>> \in Seq(Packet)
    BY DEF Packet
  <2>2. toAgent' \in [Links -> Seq(Packet)]
    BY <1>5, <2>1 DEF TypeOK, ConnectToAgent
  <2> QED
    BY <1>5, <2>2 DEF TypeOK, ConnectToAgent, database
<1>6. ASSUME NEW l \in Links, LoginAck(l)
      PROVE  TypeOK'
  BY <1>6 DEF TypeOK, LoginAck, RaiseSerial, Larger, agent, database
<1>7. ASSUME NEW l \in Links, LinkLost(l)
      PROVE  TypeOK'
  BY <1>7 DEF TypeOK, LinkLost, agent, database
<1>8. ASSUME NEW l \in Links, ServerLogin(l)
      PROVE  TypeOK'
  <2>1. toAgent' \in [Links -> Seq(Packet)]
    BY <1>8, Received DEF ServerLogin
  <2>2. CASE LoadItemSerial(l) /\ near' = [near EXCEPT ![l] = "logged"] /\ ack' = [ack EXCEPT ![l] = mgr'[l]]
    <3>1. row' \in Nat /\ mgr' \in [Links -> Nat] /\ ack' \in [Links -> Nat]
      BY <2>2 DEF TypeOK, LoadItemSerial
    <3> QED
      BY <1>8, <2>1, <2>2, <3>1 DEF TypeOK, ServerLogin, LoadItemSerial, game
  <2>3. CASE LoadFails(l) /\ near' = [near EXCEPT ![l] = "closing"] /\ UNCHANGED ack
    <3>1. mgr' \in [Links -> Nat] /\ failures' \in 0 .. MaxFailures
      BY <2>3 DEF TypeOK, LoadFails
    <3> QED
      BY <1>8, <2>1, <2>3, <3>1 DEF TypeOK, ServerLogin, LoadFails, game
  <2> QED
    BY <1>8, <2>2, <2>3 DEF ServerLogin
<1>9. ASSUME NEW l \in Links, LoginRefused(l)
      PROVE  TypeOK'
  <2>1. toAgent' \in [Links -> Seq(Packet)]
    BY <1>9, Received DEF LoginRefused
  <2> QED
    BY <1>9, <2>1 DEF TypeOK, LoginRefused, game, database
<1>10. ASSUME NEW l \in Links, UpdateDepositDB(l)
       PROVE  TypeOK'
  <2>1. toAgent' \in [Links -> Seq(Packet)] /\ Head(toAgent[l]).items \in SUBSET Item
    BY <1>10, Received, Packets DEF UpdateDepositDB
  <2> QED
    BY <1>10, <2>1 DEF TypeOK, UpdateDepositDB, game
<1>11. ASSUME NEW l \in Links, CharUpdate(l)
       PROVE  TypeOK'
  <2>1. /\ toAgent' \in [Links -> Seq(Packet)]
        /\ Head(toAgent[l]).items \in SUBSET Item /\ Head(toAgent[l]).serial \in Nat
    BY <1>11, Received, Packets DEF CharUpdate
  <2>2. mgr' \in [Links -> Nat] /\ row' \in Nat /\ failures' \in 0 .. MaxFailures
    BY <1>11, <2>1, SerialIsSet DEF CharUpdate
  <2>3. stored' \subseteq Item /\ unreported' \in [Links -> SUBSET Item]
    BY <1>11, <2>1 DEF TypeOK, CharUpdate
  <2> QED
    BY <1>11, <2>1, <2>2, <2>3 DEF TypeOK, CharUpdate, game
<1>12. ASSUME NEW l \in Links, Disconnected(l)
       PROVE  TypeOK'
  <2>1. row' \in Nat /\ failures' \in 0 .. MaxFailures
    BY <1>12, SerialIsSaved DEF Disconnected
  <2>2. /\ toAgent' \in [Links -> Seq(Packet)] /\ table' \in Links \union {None}
        /\ trouble' \subseteq {"refused", "chest"}
    BY <1>12 DEF TypeOK, Disconnected, RemoveDispatch, Halved
  <2> QED
    BY <1>12, <2>1, <2>2 DEF TypeOK, Disconnected, game
<1> QED
  BY <1>1, <1>2, <1>3, <1>4, <1>5, <1>6, <1>7, <1>8, <1>9, <1>10, <1>11, <1>12 DEF Next

-----------------------------------------------------------------------------
(* The links.                                                                *)

\* The handlers that a packet starts do not run before the login of the link, and
\* the login is all that an open link carries.
LEMMA NotBeforeLogin ==
    ASSUME TypeOK, LinksOK, NEW l \in Links, NEW type \in {"chest", "char"}, Receives(l, type)
    PROVE  near[l] = "logged"
<1>1. near[l] \in {"open", "logged"} /\ Head(toAgent[l]).type # "login"
  BY DEF Receives
<1>2. Head(<<Login>>) = Login /\ Login.type = "login"
  BY DEF Login
<1> QED
  BY <1>1, <1>2 DEF LinksOK

LEMMA LoginEmpties ==
    ASSUME TypeOK, LinksOK, NEW l \in Links, near[l] = "open", Receives(l, "login")
    PROVE  toAgent' = [toAgent EXCEPT ![l] = <<>>]
<1>1. Tail(<<Login>>) = <<>>
  BY DEF Login
<1> QED
  BY <1>1 DEF Receives, LinksOK

LEMMA LinksHold ==
    ASSUME TypeOK, LinksOK, Next
    PROVE  LinksOK'
<1> USE DEF TypeOK, LinksOK
<1>1. CASE CreateItem
  BY <1>1 DEF CreateItem, agent
<1>2. CASE GameCrash
  BY <1>2, Constants DEF GameCrash, agent
<1>3. CASE AgentCrash
  BY <1>3 DEF AgentCrash, game
<1>4. ASSUME NEW chest \in SUBSET held, DBUpdate(chest)
      PROVE  LinksOK'
  <2>1. /\ current \in Links /\ near[current] \notin {"none", "open", "gone"}
        /\ toAgent' = [toAgent EXCEPT ![current] = toAgent[current] \o Sent(chest)]
    BY <1>4 DEF DBUpdate, Sent
  <2> QED
    BY <1>4, <2>1 DEF DBUpdate, game, agent
<1>5. ASSUME NEW l \in Links, ConnectToAgent(l)
      PROVE  LinksOK'
  BY <1>5 DEF ConnectToAgent, Login
<1>6. ASSUME NEW l \in Links, LoginAck(l)
      PROVE  LinksOK'
  BY <1>6 DEF LoginAck, agent
<1>7. ASSUME NEW l \in Links, LinkLost(l)
      PROVE  LinksOK'
  BY <1>7, Constants DEF LinkLost, agent
<1>8. ASSUME NEW l \in Links, ServerLogin(l)
      PROVE  LinksOK'
  <2>1. /\ near'[l] \in {"logged", "closing"} /\ near[l] \in {"open", "logged"} /\ UNCHANGED game
        /\ \A k \in Links \ {l} :
              near'[k] = near[k] /\ ack'[k] = ack[k] /\ mgr'[k] = mgr[k] /\ toAgent'[k] = toAgent[k]
    <3>1. Receives(l, "login") /\ UNCHANGED game
      BY <1>8 DEF ServerLogin
    <3>2. CASE LoadItemSerial(l) /\ near' = [near EXCEPT ![l] = "logged"] /\ ack' = [ack EXCEPT ![l] = mgr'[l]]
      BY <3>1, <3>2 DEF LoadItemSerial, Receives
    <3>3. CASE LoadFails(l) /\ near' = [near EXCEPT ![l] = "closing"] /\ UNCHANGED ack
      BY <3>1, <3>3 DEF LoadFails, Receives
    <3> QED
      BY <1>8, <3>1, <3>2, <3>3 DEF ServerLogin
  <2> QED
    BY <2>1 DEF game
<1>9. ASSUME NEW l \in Links, LoginRefused(l)
      PROVE  LinksOK'
  BY <1>9 DEF LoginRefused, Receives, game
<1>10. ASSUME NEW l \in Links, UpdateDepositDB(l)
       PROVE  LinksOK'
  <2>1. near[l] = "logged" /\ \A k \in Links \ {l} : toAgent'[k] = toAgent[k]
    BY <1>10, NotBeforeLogin DEF UpdateDepositDB, Receives
  <2> QED
    BY <1>10, <2>1 DEF UpdateDepositDB, game
<1>11. ASSUME NEW l \in Links, CharUpdate(l)
       PROVE  LinksOK'
  <2>1. near[l] = "logged" /\ \A k \in Links \ {l} : toAgent'[k] = toAgent[k] /\ mgr'[k] = mgr[k]
    BY <1>11, NotBeforeLogin DEF CharUpdate, Receives, SetItemSerial
  <2> QED
    BY <1>11, <2>1 DEF CharUpdate, game
<1>12. ASSUME NEW l \in Links, Disconnected(l)
       PROVE  LinksOK'
  BY <1>12 DEF Disconnected, game
<1> QED
  BY <1>1, <1>2, <1>3, <1>4, <1>5, <1>6, <1>7, <1>8, <1>9, <1>10, <1>11, <1>12 DEF Next

LEMMA GameHolds ==
    ASSUME TypeOK, LinksOK, GameOK, Next
    PROVE  GameOK'
<1> USE DEF TypeOK, GameOK
<1>1. CASE CreateItem
  BY <1>1 DEF CreateItem
<1>2. CASE GameCrash
  BY <1>2 DEF GameCrash
<1>3. CASE AgentCrash
  BY <1>3 DEF AgentCrash, game
<1>4. ASSUME NEW chest \in SUBSET held, DBUpdate(chest)
      PROVE  GameOK'
  BY <1>4 DEF DBUpdate, game
<1>5. ASSUME NEW l \in Links, ConnectToAgent(l)
      PROVE  GameOK'
  BY <1>5 DEF ConnectToAgent
<1>6. ASSUME NEW l \in Links, LoginAck(l)
      PROVE  GameOK'
  BY <1>6 DEF LoginAck, RaiseSerial, Larger
<1>7. ASSUME NEW l \in Links, LinkLost(l)
      PROVE  GameOK'
  BY <1>7 DEF LinkLost
<1>8. ASSUME NEW l \in Links,
             ServerLogin(l) \/ LoginRefused(l) \/ UpdateDepositDB(l) \/ CharUpdate(l) \/ Disconnected(l)
      PROVE  GameOK'
  BY <1>8 DEF ServerLogin, LoginRefused, UpdateDepositDB, CharUpdate, Disconnected, game
<1> QED
  BY <1>1, <1>2, <1>3, <1>4, <1>5, <1>6, <1>7, <1>8 DEF Next

LEMMA TableHolds ==
    ASSUME TypeOK, LinksOK, TableOK, Next
    PROVE  TableOK'
<1> USE DEF TypeOK, TableOK
<1>1. CASE CreateItem \/ GameCrash \/ \E chest \in SUBSET held : DBUpdate(chest)
  BY <1>1 DEF CreateItem, GameCrash, DBUpdate, agent
<1>2. CASE AgentCrash
  BY <1>2 DEF AgentCrash
<1>3. ASSUME NEW l \in Links, ConnectToAgent(l) \/ LoginAck(l) \/ LinkLost(l)
      PROVE  TableOK'
  BY <1>3 DEF ConnectToAgent, LoginAck, LinkLost, agent
<1>4. ASSUME NEW l \in Links, ServerLogin(l)
      PROVE  TableOK'
  <2>1. /\ table = None /\ table' = l /\ trouble' = trouble
        /\ \A k \in Links \ {l} : near'[k] = near[k]
    BY <1>4 DEF ServerLogin
  <2> QED
    BY <2>1, Constants
<1>5. ASSUME NEW l \in Links, LoginRefused(l)
      PROVE  TableOK'
  BY <1>5 DEF LoginRefused
<1>6. ASSUME NEW l \in Links, UpdateDepositDB(l) \/ CharUpdate(l)
      PROVE  TableOK'
  BY <1>6 DEF UpdateDepositDB, CharUpdate
<1>7. ASSUME NEW l \in Links, Disconnected(l)
      PROVE  TableOK'
  <2>1. /\ near' = [near EXCEPT ![l] = "gone"] /\ trouble \subseteq trouble'
        /\ near[l] \in {"closing", "open", "logged"}
        /\ table' = IF near[l] = "open" THEN table ELSE None
    BY <1>7 DEF Disconnected, RemoveDispatch
  <2> QED
    BY <2>1
<1> QED
  BY <1>1, <1>2, <1>3, <1>4, <1>5, <1>6, <1>7 DEF Next

\* The row rises with each step, and the link that has logged in keeps up with it.
LEMMA RowHolds ==
    ASSUME TypeOK, LinksOK, TableOK, RowOK, Next
    PROVE  /\ RowOK'
           /\ "refused" \notin trouble' /\ failures' = 0 => failures = 0 /\ row' >= row
<1> USE DEF TypeOK, RowOK
<1>1. CASE CreateItem \/ GameCrash \/ \E chest \in SUBSET held : DBUpdate(chest)
  <2>1. UNCHANGED <<near, mgr, row, failures, trouble>>
    BY <1>1 DEF CreateItem, GameCrash, DBUpdate, agent, database
  <2>2. row \in Nat
    OBVIOUS
  <2> QED
    BY <2>1, <2>2
<1>2. CASE AgentCrash
  <2>1. row' = row /\ failures' = failures /\ \A l \in Links : near'[l] \in {"none", "gone"}
    BY <1>2 DEF AgentCrash, database
  <2>2. trouble \subseteq trouble' /\ row \in Nat
    BY <1>2 DEF AgentCrash
  <2>3. RowOK'
    BY <2>1
  <2> QED
    BY <2>1, <2>2, <2>3
<1>3. ASSUME NEW l \in Links, ConnectToAgent(l) \/ LoginAck(l) \/ LinkLost(l)
      PROVE  /\ RowOK'
             /\ "refused" \notin trouble' /\ failures' = 0 => failures = 0 /\ row' >= row
  BY <1>3 DEF ConnectToAgent, LoginAck, LinkLost, agent, database
<1>4. ASSUME NEW l \in Links, ServerLogin(l)
      PROVE  /\ RowOK'
             /\ "refused" \notin trouble' /\ failures' = 0 => failures = 0 /\ row' >= row
  <2>1. CASE LoadItemSerial(l) /\ near' = [near EXCEPT ![l] = "logged"]
    <3>1. /\ row' = IF row = 0 THEN Base ELSE row
          /\ mgr' = [mgr EXCEPT ![l] = row' + Margin] /\ failures' = failures
      BY <2>1 DEF LoadItemSerial
    <3>2. table = None /\ trouble' = trouble
      BY <1>4 DEF ServerLogin
    <3>3. "refused" \notin trouble => \A k \in Links \ {l} : near[k] # "logged"
      BY <3>2, Constants DEF TableOK
    <3> QED
      BY <2>1, <3>1, <3>2, <3>3, Constants
  <2>2. CASE LoadFails(l)
    BY <2>2 DEF LoadFails
  <2> QED
    BY <1>4, <2>1, <2>2 DEF ServerLogin
<1>5. ASSUME NEW l \in Links, LoginRefused(l)
      PROVE  /\ RowOK'
             /\ "refused" \notin trouble' /\ failures' = 0 => failures = 0 /\ row' >= row
  BY <1>5 DEF LoginRefused, database
<1>6. ASSUME NEW l \in Links, UpdateDepositDB(l)
      PROVE  /\ RowOK'
             /\ "refused" \notin trouble' /\ failures' = 0 => failures = 0 /\ row' >= row
  BY <1>6 DEF UpdateDepositDB
<1>7. ASSUME NEW l \in Links, CharUpdate(l)
      PROVE  /\ RowOK'
             /\ "refused" \notin trouble' /\ failures' = 0 => failures = 0 /\ row' >= row
  <2> DEFINE serial == Head(toAgent[l]).serial
  <2>1. serial \in Nat /\ near[l] = "logged" /\ near' = near /\ trouble' = trouble
    BY <1>7, Received, Packets, NotBeforeLogin DEF CharUpdate
  <2>2. /\ mgr' = [mgr EXCEPT ![l] = Larger(mgr[l], serial)]
        /\ failures' = 0 => failures = 0 /\ row' = IF mgr[l] < serial /\ row # 0 THEN serial ELSE row
    BY <1>7, <2>1, SerialIsSet DEF CharUpdate
  <2>3. "refused" \notin trouble => \A k \in Links \ {l} : near[k] # "logged"
    BY <2>1 DEF TableOK
  <2> HIDE DEF serial
  <2> QED
    BY <2>1, <2>2, <2>3, Constants DEF Larger
<1>8. ASSUME NEW l \in Links, Disconnected(l)
      PROVE  /\ RowOK'
             /\ "refused" \notin trouble' /\ failures' = 0 => failures = 0 /\ row' >= row
  <2>1. /\ near' = [near EXCEPT ![l] = "gone"] /\ mgr' = mgr /\ trouble \subseteq trouble'
        /\ near[l] \in {"closing", "open", "logged"}
    BY <1>8 DEF Disconnected
  <2>2. failures' = 0 => failures = 0 /\ row' = IF mgr[l] # 0 /\ row # 0 THEN mgr[l] ELSE row
    BY <1>8, SerialIsSaved DEF Disconnected
  <2>3. CASE near[l] = "open"
    <3>1. mgr[l] = 0
      BY <2>3 DEF LinksOK
    <3> QED
      BY <2>1, <2>2, <3>1
  <2>4. CASE near[l] # "open"
    <3>1. "refused" \notin trouble => \A k \in Links \ {l} : near[k] # "logged"
      BY <2>1, <2>4 DEF TableOK
    <3> QED
      BY <2>1, <2>2, <2>4, <3>1
  <2> QED
    BY <2>3, <2>4
<1> QED
  BY <1>1, <1>2, <1>3, <1>4, <1>5, <1>6, <1>7, <1>8 DEF Next

-----------------------------------------------------------------------------
(* The items. Only CreateItem makes any; the other steps move them along or  *)
(* lose them.                                                                *)

LEMMA AppendItems ==
    ASSUME TypeOK, NEW chest \in SUBSET held, NEW q \in Seq(Packet)
    PROVE  /\ q \o Sent(chest) \in Seq(Packet)
           /\ Len(q \o Sent(chest)) = Len(q) + Len(Sent(chest))
           /\ \A n \in 1 .. Len(q) : (q \o Sent(chest))[n] = q[n]
           /\ \A n \in 1 .. Len(q \o Sent(chest)) \ (1 .. Len(q)) :
                 n - Len(q) \in 1 .. Len(Sent(chest)) /\ (q \o Sent(chest))[n] = Sent(chest)[n - Len(q)]
           /\ ItemsIn(q \o Sent(chest)) \subseteq ItemsIn(q) \union held
<1> DEFINE s == Sent(chest)
<1>1. s \in Seq(Packet) /\ Len(s) \in Nat /\ Len(q) \in Nat /\ Len(s) \in {1, 2}
  BY SentPackets
<1> HIDE DEF s
<1>2. /\ q \o s \in Seq(Packet) /\ Len(q \o s) = Len(q) + Len(s)
      /\ \A n \in 1 .. Len(q) + Len(s) : (q \o s)[n] = IF n <= Len(q) THEN q[n] ELSE s[n - Len(q)]
  BY <1>1, ConcatProperties
<1>3. \A n \in 1 .. Len(q) : (q \o s)[n] = q[n]
  BY <1>1, <1>2
<1>4. \A n \in 1 .. Len(q \o s) \ (1 .. Len(q)) : n - Len(q) \in 1 .. Len(s) /\ (q \o s)[n] = s[n - Len(q)]
  BY <1>1, <1>2
<1>5. ASSUME NEW i \in ItemsIn(q \o s)
      PROVE  i \in ItemsIn(q) \union held
  <2>1. PICK n \in 1 .. Len(q \o s) : (q \o s)[n].type # "login" /\ i \in (q \o s)[n].items
    BY <1>5 DEF ItemsIn
  <2>2. CASE n \in 1 .. Len(q)
    BY <1>3, <1>5, <2>1, <2>2 DEF ItemsIn
  <2>3. CASE n \notin 1 .. Len(q)
    BY <1>4, <2>1, <2>3, SentPackets DEF s
  <2> QED
    BY <2>2, <2>3
<1> QED
  BY <1>2, <1>3, <1>4, <1>5 DEF s

\* What a step must do to items to make none.
LEMMA Fewer ==
    ASSUME stored' \subseteq Items, held' \subseteq Items,
           \A l \in Links : ItemsIn(toAgent'[l]) \subseteq Items
    PROVE  Items' \subseteq Items
BY DEF Items

LEMMA AllItems ==
    ASSUME TypeOK
    PROVE  /\ stored \subseteq Items /\ held \subseteq Items
           /\ \A l \in Links : ItemsIn(toAgent[l]) \subseteq Items
BY DEF Items, TypeOK, ItemsIn

LEMMA NoneMade ==
    ASSUME TypeOK, LinksOK, Next, ~CreateItem
    PROVE  Items' \subseteq Items
<1>1. CASE GameCrash
  BY <1>1, AllItems, Fewer DEF GameCrash, database
<1>2. CASE AgentCrash
  <2>1. \A l \in Links : ItemsIn(toAgent'[l]) = {}
    BY <1>2, NoItems DEF AgentCrash
  <2> QED
    BY <1>2, <2>1, AllItems, Fewer DEF AgentCrash, game, database
<1>3. ASSUME NEW chest \in SUBSET held, DBUpdate(chest)
      PROVE  Items' \subseteq Items
  <2>1. /\ current \in Links /\ toAgent[current] \in Seq(Packet)
        /\ toAgent' = [toAgent EXCEPT ![current] = toAgent[current] \o Sent(chest)]
    BY <1>3 DEF DBUpdate, Sent, TypeOK
  <2>2. \A l \in Links : ItemsIn(toAgent'[l]) \subseteq ItemsIn(toAgent[l]) \union held
    <3>1. toAgent \in [Links -> Seq(Packet)]
      BY DEF TypeOK
    <3>2. ItemsIn(toAgent[current] \o Sent(chest)) \subseteq ItemsIn(toAgent[current]) \union held
      BY <2>1, AppendItems
    <3> QED
      BY <2>1, <3>1, <3>2
  <2> QED
    BY <1>3, <2>2, AllItems, Fewer DEF DBUpdate, game, database
<1>4. ASSUME NEW l \in Links, ConnectToAgent(l)
      PROVE  Items' \subseteq Items
  <2>1. \A k \in Links : ItemsIn(toAgent'[k]) = IF k = l THEN {} ELSE ItemsIn(toAgent[k])
    BY <1>4, NoItems DEF ConnectToAgent, Login, TypeOK
  <2> QED
    BY <1>4, <2>1, AllItems, Fewer DEF ConnectToAgent, database
<1>5. ASSUME NEW l \in Links, LoginAck(l) \/ LinkLost(l)
      PROVE  Items' \subseteq Items
  BY <1>5, AllItems, Fewer DEF LoginAck, LinkLost, database
<1>6. ASSUME NEW l \in Links, NEW type \in {"login", "chest", "char"}, Receives(l, type)
      PROVE  /\ \A k \in Links : ItemsIn(toAgent'[k]) \subseteq Items
             /\ type # "login" => Head(toAgent[l]).items \subseteq Items
  <2>1. /\ toAgent[l] \in Seq(Packet) /\ toAgent[l] # <<>> /\ Head(toAgent[l]).type = type
        /\ \A k \in Links : toAgent'[k] = IF k = l THEN Tail(toAgent[l]) ELSE toAgent[k]
    <3>1. toAgent \in [Links -> Seq(Packet)]
      BY DEF TypeOK
    <3>2. /\ toAgent[l] \in Seq(Packet) /\ toAgent[l] # <<>> /\ Head(toAgent[l]).type = type
          /\ toAgent' = [toAgent EXCEPT ![l] = Tail(toAgent[l])]
      BY <1>6, Received
    <3> QED
      BY <3>1, <3>2
  <2>2. ItemsIn(Tail(toAgent[l])) \subseteq Items /\ (type # "login" => Head(toAgent[l]).items \subseteq Items)
    BY <2>1, TailItems, AllItems
  <2> QED
    BY <2>1, <2>2, AllItems
<1>7. ASSUME NEW l \in Links, ServerLogin(l)
      PROVE  Items' \subseteq Items
  BY <1>6, <1>7, AllItems, Fewer DEF ServerLogin, game
<1>8. ASSUME NEW l \in Links, LoginRefused(l)
      PROVE  Items' \subseteq Items
  BY <1>6, <1>8, AllItems, Fewer DEF LoginRefused, game, database
<1>9. ASSUME NEW l \in Links, UpdateDepositDB(l)
      PROVE  Items' \subseteq Items
  BY <1>6, <1>9, AllItems, Fewer DEF UpdateDepositDB, game
<1>10. ASSUME NEW l \in Links, CharUpdate(l)
       PROVE  Items' \subseteq Items
  BY <1>6, <1>10, AllItems, Fewer DEF CharUpdate, game
<1>11. ASSUME NEW l \in Links, Disconnected(l)
       PROVE  Items' \subseteq Items
  <2>1. \A k \in Links : ItemsIn(toAgent'[k]) = IF k = l THEN {} ELSE ItemsIn(toAgent[k])
    BY <1>11, NoItems DEF Disconnected, TypeOK
  <2> QED
    BY <1>11, <2>1, AllItems, Fewer DEF Disconnected, game
<1> QED
  BY <1>1, <1>2, <1>3, <1>4, <1>5, <1>7, <1>8, <1>9, <1>10, <1>11 DEF Next

-----------------------------------------------------------------------------
(* The serials.                                                              *)

\* Trouble does not go away.
LEMMA CalmBefore ==
    ASSUME TypeOK, LinksOK, TableOK, RowOK, Next, Calm'
    PROVE  /\ Calm /\ row' >= row
           /\ \A l \in Links : near[l] # "closing" /\ near'[l] # "closing"
<1>1. trouble \subseteq trouble'
  BY DEF Next, CreateItem, GameCrash, AgentCrash, DBUpdate, ConnectToAgent, LoginAck, LinkLost,
         ServerLogin, LoginRefused, UpdateDepositDB, CharUpdate, Disconnected
<1>2. trouble = {} /\ trouble' = {} /\ failures' = 0
  BY <1>1 DEF Calm
<1>3. /\ RowOK'
      /\ "refused" \notin trouble' /\ failures' = 0 => failures = 0 /\ row' >= row
  BY RowHolds
<1> QED
  BY <1>2, <1>3 DEF Calm, RowOK

LEMMA UniqueHolds ==
    ASSUME TypeOK, LinksOK, GameOK, Unique, Counted, Next
    PROVE  Unique'
<1>1. CASE CreateItem
  <2>1. uid # 0 /\ uid \in Nat /\ held' = held \union {[serial |-> uid, nr |-> made]}
        /\ toAgent' = toAgent /\ stored' = stored
    BY <1>1 DEF CreateItem, database, TypeOK
  <2>2. \A i \in Items' : i \in Items \/ i = [serial |-> uid, nr |-> made]
    BY <2>1 DEF Items
  <2>3. \A i \in Items : i.serial \in Nat /\ i.serial < uid
    BY <2>1 DEF Counted, Items, Item
  <2> QED
    BY <2>1, <2>2, <2>3 DEF Unique
<1>2. CASE ~CreateItem
  BY <1>2, NoneMade DEF Unique
<1> QED
  BY <1>1, <1>2

LEMMA CountedHolds ==
    ASSUME TypeOK, LinksOK, GameOK, TableOK, RowOK, Counted, Covered, Next, Calm'
    PROVE  Counted'
<1>1. /\ uid \in Nat /\ ack \in [Links -> Nat] /\ far \in [Links -> {"none", "open", "closed"}]
      /\ row \in Nat /\ \A i \in Items : i.serial \in Nat
  BY DEF TypeOK, Items, Item
<1>2. CASE CreateItem
  <2>1. /\ uid # 0 /\ uid' = uid + 1 /\ held' = held \union {[serial |-> uid, nr |-> made]}
        /\ toAgent' = toAgent /\ stored' = stored
    BY <1>2 DEF CreateItem, database
  <2>2. \A i \in Items' : i \in Items \/ i.serial = uid
    BY <2>1 DEF Items
  <2>3. \A i \in Items : i.serial < uid
    BY <2>1 DEF Counted
  <2>4. \A i \in Items' : i.serial < uid'
    BY <1>1, <2>1, <2>2, <2>3
  <2> QED
    BY <1>1, <2>1, <2>4 DEF Counted
<1>3. CASE GameCrash
  BY <1>1, <1>3 DEF GameCrash, Counted
<1>4. ASSUME ~CreateItem, NEW l \in Links, ConnectToAgent(l)
      PROVE  Counted'
  <2>1. ack[l] = 0 /\ uid' = uid /\ ack' = ack /\ \A k \in Links \ {l} : far'[k] = far[k]
    BY <1>1, <1>4 DEF ConnectToAgent, LinksOK
  <2> QED
    BY <1>4, <2>1, NoneMade DEF Counted
<1>5. ASSUME ~CreateItem, NEW l \in Links, LoginAck(l)
      PROVE  Counted'
  <2>1. /\ far[l] = "open" /\ ack[l] # 0 /\ ack[l] \in Nat
        /\ uid' = IF uid < ack[l] THEN ack[l] ELSE uid
    BY <1>1, <1>5 DEF LoginAck, RaiseSerial, Larger
  <2>2. uid' # 0 /\ \A i \in Items : i.serial < uid'
    <3>1. CASE uid = 0
      BY <1>1, <2>1, <3>1 DEF Counted
    <3>2. CASE uid # 0
      <4>1. \A i \in Items : i.serial < uid
        BY <3>2 DEF Counted
      <4>2. uid <= uid' /\ uid' \in Nat
        BY <1>1, <2>1
      <4> QED
        BY <1>1, <3>2, <4>1, <4>2
    <3> QED
      BY <3>1, <3>2
  <2> QED
    BY <1>5, <2>2, NoneMade DEF Counted
<1>6. ASSUME ~CreateItem, UNCHANGED <<uid, ack>>, \A l \in Links : far'[l] = "open" => far[l] = "open"
      PROVE  Counted'
  BY <1>6, NoneMade DEF Counted
<1>7. ASSUME NEW l \in Links, LinkLost(l)
      PROVE  UNCHANGED <<uid, ack>> /\ \A k \in Links : far'[k] = "open" => far[k] = "open"
  BY <1>1, <1>7 DEF LinkLost
<1>8. ASSUME ~CreateItem, NEW l \in Links, ServerLogin(l)
      PROVE  Counted'
  <2>1. /\ table = None /\ near[l] # "logged" /\ uid' = uid /\ far' = far /\ stored' = stored /\ held' = held
        /\ \A k \in Links : near[k] \notin {"logged", "closing"}
    BY <1>8, CalmBefore, Constants DEF ServerLogin, game, TableOK, Calm
  <2>2. /\ row' = (IF row = 0 THEN Base ELSE row)
        /\ ack' = [ack EXCEPT ![l] = row' + Margin]
    <3>1. near'[l] # "closing"
      BY <1>8, CalmBefore
    <3>2. LoadItemSerial(l) /\ ack' = [ack EXCEPT ![l] = mgr'[l]]
      BY <1>8, <3>1 DEF ServerLogin, TypeOK
    <3> QED
      BY <3>2 DEF LoadItemSerial, TypeOK
  <2>3. \A i \in stored : i.serial < row + Margin
    BY <2>1 DEF Covered
  <2>4. row <= row' /\ row' \in Nat /\ Margin \in Nat
    BY <1>1, <2>2, Constants
  <2>5. \A i \in stored : i \in Items /\ i.serial < row' + Margin
    BY <1>1, <2>3, <2>4, AllItems
  <2>6. \A k \in Links : ItemsIn(toAgent'[k]) = {}
    <3>1. near[l] = "open" /\ Receives(l, "login") /\ toAgent \in [Links -> Seq(Packet)]
      BY <1>8, <2>1, Received DEF ServerLogin, TypeOK
    <3>2. toAgent' = [toAgent EXCEPT ![l] = <<>>]
      BY <3>1, LoginEmpties
    <3>3. \A k \in Links : toAgent[k] = <<>> \/ toAgent[k] = <<Login>>
      BY <2>1 DEF LinksOK, TypeOK
    <3> QED
      BY <3>1, <3>2, <3>3, NoItems
  <2>7. uid = 0 => \A i \in Items' : i.serial < row' + Margin
    BY <2>1, <2>5, <2>6 DEF Items, GameOK
  <2>8. \A k \in Links \ {l} : ack'[k] = ack[k]
    BY <1>1, <2>2
  <2>9. ack'[l] = row' + Margin
    BY <1>1, <2>2
  <2> QED
    BY <1>8, <2>1, <2>7, <2>8, <2>9, NoneMade DEF Counted
<1>9. ASSUME \/ AgentCrash
             \/ \E chest \in SUBSET held : DBUpdate(chest)
             \/ \E l \in Links : LoginRefused(l) \/ UpdateDepositDB(l) \/ CharUpdate(l) \/ Disconnected(l)
      PROVE  UNCHANGED <<uid, ack, far>>
  BY <1>9 DEF AgentCrash, DBUpdate, LoginRefused, UpdateDepositDB, CharUpdate, Disconnected, game
<1> QED
  BY <1>2, <1>3, <1>4, <1>5, <1>6, <1>7, <1>8, <1>9 DEF Next

\* Taking the head of a queue leaves what follows it above the head's items too.
LEMMA FollowsTail ==
    ASSUME NEW q \in Seq(Packet), q # <<>>, NEW items,
           \A n \in 1 .. Len(q) : Follows(q, n, items)
    PROVE  \A n \in 1 .. Len(Tail(q)) :
              /\ Follows(Tail(q), n, items) /\ Follows(Tail(q), n, {})
              /\ Head(q).type # "login" => Follows(Tail(q), n, items \union Head(q).items)
<1> SUFFICES ASSUME NEW n \in 1 .. Len(Tail(q)), Tail(q)[n].type = "char"
             PROVE  /\ \A i \in items : i.serial < Tail(q)[n].serial
                    /\ Head(q).type # "login" => \A i \in Head(q).items : i.serial < Tail(q)[n].serial
                    /\ \A m \in 1 .. n : Tail(q)[m].type # "login" =>
                          \A i \in Tail(q)[m].items : i.serial < Tail(q)[n].serial
  BY DEF Follows
<1>1. /\ n + 1 \in 1 .. Len(q) /\ Tail(q)[n] = q[n + 1] /\ Head(q) = q[1] /\ 1 \in 1 .. n + 1
      /\ \A m \in 1 .. n : m + 1 \in 1 .. n + 1 /\ Tail(q)[m] = q[m + 1]
  BY Tails
<1>2. /\ \A i \in items : i.serial < q[n + 1].serial
      /\ \A m \in 1 .. n + 1 : q[m].type # "login" => \A i \in q[m].items : i.serial < q[n + 1].serial
  BY <1>1 DEF Follows
<1> QED
  BY <1>1, <1>2

\* What is sent behind a queue is above all that there is.
LEMMA FollowsSent ==
    ASSUME TypeOK, NEW q \in Seq(Packet), NEW chest \in SUBSET held, NEW items,
           \A n \in 1 .. Len(q) : Follows(q, n, items),
           \A i \in items \union held \union ItemsIn(q) : i.serial < uid,
           NEW n \in 1 .. Len(q \o Sent(chest))
    PROVE  Follows(q \o Sent(chest), n, items)
<1> DEFINE t == q \o Sent(chest)
<1>1. Len(q) \in Nat /\ \A m \in 1 .. Len(q) : q[m] \in Packet
  OBVIOUS
<1>2. CASE n \in 1 .. Len(q)
  <2>1. \A m \in 1 .. n : t[m] = q[m]
    BY <1>1, <1>2, AppendItems
  <2>2. n \in 1 .. n
    BY <1>2
  <2> HIDE DEF t
  <2>3. Follows(t, n, items)
    BY <1>2, <2>1, <2>2 DEF Follows
  <2> QED
    BY <2>3 DEF t
<1>3. CASE n \notin 1 .. Len(q)
  <2>1. n - Len(q) \in 1 .. Len(Sent(chest)) /\ t[n] = Sent(chest)[n - Len(q)]
    BY <1>3, AppendItems
  <2>2. t[n].type = "char" => t[n].serial = uid
    BY <2>1, SentPackets
  <2>3. ASSUME NEW m \in 1 .. n, t[m].type # "login", NEW i \in t[m].items
        PROVE  i.serial < uid
    <3>1. m \in 1 .. Len(t) /\ t \in Seq(Packet)
      BY AppendItems
    <3>2. i \in ItemsIn(t)
      <4>1. t[m] \in Packet
        BY <3>1
      <4>2. i \in Item
        BY <2>3, <4>1, Packets
      <4> HIDE DEF t
      <4> QED
        BY <2>3, <3>1, <4>2 DEF ItemsIn
    <3> QED
      BY <3>2, AppendItems
  <2> HIDE DEF t
  <2>4. Follows(t, n, items)
    BY <2>2, <2>3 DEF Follows
  <2> QED
    BY <2>4 DEF t
<1> QED
  BY <1>2, <1>3

LEMMA ReportedHolds ==
    ASSUME TypeOK, LinksOK, GameOK, Counted, Covered, Reported, Next
    PROVE  Reported'
<1> DEFINE Step(l) == \A n \in 1 .. Len(toAgent'[l]) : Follows(toAgent'[l], n, unreported'[l])
<1>1. SUFFICES \A l \in Links : Step(l)
  BY DEF Reported
<1>2. /\ toAgent \in [Links -> Seq(Packet)] /\ unreported \in [Links -> SUBSET Item]
      /\ \A l \in Links : \A n \in 1 .. Len(toAgent[l]) : Follows(toAgent[l], n, unreported[l])
  BY DEF TypeOK, Reported
<1>3. ASSUME NEW l \in Links, toAgent'[l] = toAgent[l], unreported'[l] = unreported[l]
      PROVE  Step(l)
  BY <1>2, <1>3
<1>4. ASSUME NEW l \in Links, toAgent'[l] = <<>>
      PROVE  Step(l)
  <2>1. Len(<<>>) = 0
    OBVIOUS
  <2> QED
    BY <1>4, <2>1
<1>5. CASE \/ CreateItem \/ GameCrash
           \/ \E l \in Links : LoginAck(l) \/ LinkLost(l)
  BY <1>3, <1>5 DEF CreateItem, GameCrash, LoginAck, LinkLost, agent
<1>6. CASE AgentCrash
  BY <1>4, <1>6 DEF AgentCrash
<1>7. ASSUME NEW chest \in SUBSET held, DBUpdate(chest)
      PROVE  \A l \in Links : Step(l)
  <2>1. /\ current \in Links /\ unreported' = unreported
        /\ toAgent' = [toAgent EXCEPT ![current] = toAgent[current] \o Sent(chest)]
    BY <1>7 DEF DBUpdate, Sent, TypeOK, agent
  <2>2. \A i \in unreported[current] \union held \union ItemsIn(toAgent[current]) : i.serial < uid
    <3>1. uid # 0
      BY <2>1, Constants DEF GameOK
    <3>2. \A i \in Items : i.serial < uid
      BY <3>1 DEF Counted
    <3> QED
      BY <2>1, <3>2, AllItems DEF Covered
  <2>3. toAgent[current] \in Seq(Packet) /\ toAgent'[current] = toAgent[current] \o Sent(chest)
    BY <1>2, <2>1
  <2>4. Step(current)
    BY <1>2, <2>1, <2>2, <2>3, FollowsSent
  <2>5. \A l \in Links \ {current} : toAgent'[l] = toAgent[l] /\ unreported'[l] = unreported[l]
    BY <1>2, <2>1
  <2> QED
    BY <1>3, <2>4, <2>5
<1>8. ASSUME NEW k \in Links, ConnectToAgent(k)
      PROVE  \A l \in Links : Step(l)
  <2>1. toAgent'[k] = <<Login>> /\ \A l \in Links \ {k} : toAgent'[l] = toAgent[l] /\ unreported'[l] = unreported[l]
    BY <1>2, <1>8 DEF ConnectToAgent, Login
  <2>2. Len(<<Login>>) = 1 /\ <<Login>>[1].type # "char"
    BY DEF Login
  <2>3. Step(k)
    BY <2>1, <2>2 DEF Follows
  <2> QED
    BY <1>3, <2>1, <2>3
<1>9. ASSUME NEW k \in Links, NEW type \in {"login", "chest", "char"}, Receives(k, type)
      PROVE  /\ toAgent'[k] = Tail(toAgent[k]) /\ \A l \in Links \ {k} : toAgent'[l] = toAgent[l]
             /\ Head(toAgent[k]).type = type
             /\ \A n \in 1 .. Len(Tail(toAgent[k])) :
                   /\ Follows(Tail(toAgent[k]), n, unreported[k]) /\ Follows(Tail(toAgent[k]), n, {})
                   /\ Head(toAgent[k]).type # "login" =>
                         Follows(Tail(toAgent[k]), n, unreported[k] \union Head(toAgent[k]).items)
  <2>1. /\ toAgent[k] \in Seq(Packet) /\ toAgent[k] # <<>> /\ Head(toAgent[k]).type = type
        /\ toAgent' = [toAgent EXCEPT ![k] = Tail(toAgent[k])]
    BY <1>9, Received
  <2> QED
    BY <1>2, <2>1, FollowsTail
<1>10. ASSUME NEW k \in Links, ServerLogin(k) \/ LoginRefused(k)
       PROVE  \A l \in Links : Step(l)
  <2>1. Receives(k, "login") /\ unreported' = unreported
    BY <1>10 DEF ServerLogin, LoginRefused
  <2> QED
    BY <1>3, <1>9, <2>1
<1>11. ASSUME NEW k \in Links, UpdateDepositDB(k)
       PROVE  \A l \in Links : Step(l)
  <2>1. /\ Receives(k, "chest") /\ \A l \in Links \ {k} : unreported'[l] = unreported[l]
        /\ \/ unreported'[k] = unreported[k]
           \/ unreported'[k] = unreported[k] \union Head(toAgent[k]).items
    BY <1>2, <1>11 DEF UpdateDepositDB
  <2>2. Step(k)
    BY <1>9, <2>1
  <2> QED
    BY <1>3, <1>9, <2>1, <2>2
<1>12. ASSUME NEW k \in Links, CharUpdate(k)
       PROVE  \A l \in Links : Step(l)
  <2>1. Receives(k, "char") /\ unreported'[k] = {} /\ \A l \in Links \ {k} : unreported'[l] = unreported[l]
    BY <1>2, <1>12 DEF CharUpdate
  <2>2. Step(k)
    BY <1>9, <2>1
  <2> QED
    BY <1>3, <1>9, <2>1, <2>2
<1>13. ASSUME NEW k \in Links, Disconnected(k)
       PROVE  \A l \in Links : Step(l)
  <2>1. toAgent'[k] = <<>> /\ \A l \in Links \ {k} : toAgent'[l] = toAgent[l] /\ unreported'[l] = unreported[l]
    BY <1>2, <1>13 DEF Disconnected
  <2> QED
    BY <1>3, <1>4, <2>1
<1> QED
  BY <1>5, <1>6, <1>7, <1>8, <1>10, <1>11, <1>12, <1>13 DEF Next

LEMMA CoveredHolds ==
    ASSUME TypeOK, LinksOK, TableOK, RowOK, Covered, Reported, Next, Calm'
    PROVE  Covered'
<1>1. /\ row \in Nat /\ row' \in Nat /\ row' >= row /\ Margin \in Nat
      /\ trouble' = {} /\ failures' = 0 /\ "refused" \notin trouble /\ failures = 0
  BY TypeHolds, CalmBefore, Constants DEF TypeOK, Calm
<1>2. \A i \in Item : i.serial \in Nat
  BY DEF Item
<1>3. /\ stored \in SUBSET Item /\ unreported \in [Links -> SUBSET Item]
      /\ near \in [Links -> {"none", "open", "logged", "closing", "gone"}]
  BY DEF TypeOK
<1>4. \A i \in Item : i.serial < row + Margin => i.serial < row' + Margin
  BY <1>1, <1>2
\* A step that stores nothing and after which each link that had logged in still has
\* what it had not reported.
<1>5. ASSUME stored' = stored, unreported' = unreported,
             \A l \in Links : near[l] = "logged" => near'[l] = "logged"
      PROVE  Covered'
  BY <1>3, <1>4, <1>5 DEF Covered
<1>6. CASE \/ CreateItem \/ GameCrash
           \/ \E chest \in SUBSET held : DBUpdate(chest)
           \/ \E l \in Links : LoginAck(l) \/ LinkLost(l)
  BY <1>5, <1>6 DEF CreateItem, GameCrash, DBUpdate, LoginAck, LinkLost, agent, database
<1>7. ASSUME NEW l \in Links, ConnectToAgent(l)
      PROVE  Covered'
  <2>1. near[l] = "none" /\ \A k \in Links \ {l} : near'[k] = near[k]
    BY <1>3, <1>7 DEF ConnectToAgent, LinksOK
  <2> QED
    BY <1>5, <1>7, <2>1 DEF ConnectToAgent, database
<1>8. ASSUME NEW l \in Links, ServerLogin(l)
      PROVE  Covered'
  <2>1. near'[l] # "closing"
    BY <1>8, CalmBefore
  <2>2. near' = [near EXCEPT ![l] = "logged"] /\ stored' = stored /\ unreported' = unreported
    BY <1>3, <1>8, <2>1 DEF ServerLogin
  <2>3. \A k \in Links : near[k] = "logged" => near'[k] = "logged"
    BY <1>3, <2>2
  <2> QED
    BY <1>5, <2>2, <2>3
<1>9. ASSUME NEW l \in Links, LoginRefused(l)
      PROVE  Covered'
  BY <1>1, <1>9 DEF LoginRefused
<1>10. ASSUME NEW l \in Links, UpdateDepositDB(l)
       PROVE  Covered'
  <2> DEFINE items == Head(toAgent[l]).items
  <2>1. near[l] = "logged" /\ near' = near /\ row' = row
    BY <1>10, NotBeforeLogin DEF UpdateDepositDB
  <2>2. \/ stored' = stored /\ unreported' = unreported
        \/ stored' = stored \union items /\ unreported' = [unreported EXCEPT ![l] = @ \union items]
    BY <1>10 DEF UpdateDepositDB
  <2> HIDE DEF items
  <2> QED
    BY <1>3, <2>1, <2>2 DEF Covered
<1>11. ASSUME NEW l \in Links, CharUpdate(l)
       PROVE  Covered'
  <2> DEFINE p == Head(toAgent[l])
  <2>1. /\ p \in Packet /\ p.type = "char" /\ p.serial \in Nat /\ p.items \in SUBSET Item
        /\ near[l] = "logged" /\ near' = near /\ p = toAgent[l][1] /\ 1 \in 1 .. Len(toAgent[l])
    BY <1>11, Received, Packets, NotBeforeLogin, Tails DEF CharUpdate
  <2>2. stored' \subseteq stored \union p.items /\ stored \subseteq stored'
    BY <1>11 DEF CharUpdate
  <2>3. unreported' = [unreported EXCEPT ![l] = {}]
    BY <1>11 DEF CharUpdate
  <2>4. row' = IF mgr[l] < p.serial /\ row # 0 THEN p.serial ELSE row
    BY <1>1, <1>11, <2>1, SerialIsSet DEF CharUpdate
  <2>5. row # 0 /\ row <= mgr[l] /\ mgr[l] <= row + Margin /\ mgr[l] \in Nat
    BY <1>1, <2>1 DEF RowOK, TypeOK
  <2>6. \A i \in unreported[l] \union p.items : i \in Item /\ i.serial < p.serial
    <3>1. Follows(toAgent[l], 1, unreported[l])
      BY <2>1 DEF Reported
    <3>2. 1 \in 1 .. 1
      OBVIOUS
    <3> HIDE DEF p
    <3> QED
      BY <1>3, <2>1, <3>1, <3>2 DEF Follows
  <2> HIDE DEF p
  <2>7. p.serial <= row' + Margin
    BY <1>1, <2>1, <2>4, <2>5
  <2>8. \A i \in unreported[l] \union p.items : i.serial < row' + Margin
    BY <1>1, <1>2, <2>1, <2>6, <2>7
  <2>9. \A k \in Links \ {l} : near[k] # "logged"
    BY <1>1, <2>1 DEF TableOK
  <2>10. \A i \in stored' : i.serial < row' + Margin
    BY <1>3, <1>4, <2>2, <2>8, <2>9 DEF Covered
  <2> QED
    BY <1>3, <2>2, <2>3, <2>10 DEF Covered
\* What the links that end had not reported is covered, or there would be trouble.
<1>12. ASSUME NEW ends \in SUBSET Links, trouble' = trouble \union Halved(ends),
              stored' = stored, unreported' = unreported,
              \A l \in Links \ ends : near[l] = "logged" => near'[l] = "logged"
       PROVE  Covered'
  <2>1. \A l \in ends : \A i \in unreported[l] : ~(i.serial >= row' + Margin)
    BY <1>1, <1>12 DEF Halved
  <2>2. \A l \in ends : \A i \in unreported[l] : i.serial < row' + Margin
    BY <1>1, <1>2, <1>3, <2>1
  <2> QED
    BY <1>3, <1>4, <1>12, <2>2 DEF Covered
<1>13. ASSUME NEW l \in Links, Disconnected(l)
       PROVE  Covered'
  <2>1. /\ trouble' = trouble \union Halved({l}) /\ stored' = stored /\ unreported' = unreported
        /\ near' = [near EXCEPT ![l] = "gone"]
    BY <1>13 DEF Disconnected
  <2> QED
    BY <1>3, <1>12, <2>1
<1>14. CASE AgentCrash
  <2> DEFINE ends == {l \in Links : near[l] = "logged"}
  <2>1. trouble' = trouble \union Halved(ends) /\ stored' = stored /\ unreported' = unreported
    BY <1>14 DEF AgentCrash, database
  <2>2. ends \in SUBSET Links /\ \A l \in Links \ ends : near[l] # "logged"
    OBVIOUS
  <2> HIDE DEF ends
  <2> QED
    BY <1>12, <2>1, <2>2
<1> QED
  BY <1>6, <1>7, <1>8, <1>9, <1>10, <1>11, <1>13, <1>14 DEF Next

-----------------------------------------------------------------------------
(* The specification.                                                        *)

LEMMA InitHolds == Init => IInv
<1> SUFFICES ASSUME Init
             PROVE  IInv
  OBVIOUS
<1>1. TypeOK
  BY Constants DEF Init, TypeOK
<1>2. LinksOK /\ GameOK /\ TableOK /\ RowOK
  BY Constants DEF Init, LinksOK, GameOK, TableOK, RowOK
<1>3. Items = {}
  BY NoItems DEF Init, Items
<1>4. Unique /\ Counted /\ Covered
  BY <1>3 DEF Init, Unique, Counted, Covered
<1>5. Reported
  <2>1. \A l \in Links : Len(toAgent[l]) = 0
    BY DEF Init
  <2> QED
    BY <2>1 DEF Reported
<1> QED
  BY <1>1, <1>2, <1>4, <1>5 DEF IInv, NumbersOK

LEMMA StepKeeps ==
    ASSUME IInv, [Next]_vars
    PROVE  IInv'
<1>1. CASE Next
  <2>1. TypeOK' /\ LinksOK' /\ GameOK' /\ TableOK' /\ RowOK'
    BY <1>1, TypeHolds, LinksHold, GameHolds, TableHolds, RowHolds DEF IInv
  <2>2. ASSUME Calm'
        PROVE  Unique' /\ Counted' /\ Covered' /\ Reported'
    <3>1. Unique /\ Counted /\ Covered /\ Reported
      BY <1>1, <2>2, CalmBefore DEF IInv, NumbersOK
    <3> QED
      BY <1>1, <2>2, <3>1, UniqueHolds, CountedHolds, CoveredHolds, ReportedHolds DEF IInv
  <2> QED
    BY <2>1, <2>2 DEF IInv, NumbersOK
<1>2. CASE UNCHANGED vars
  <2>1. /\ UNCHANGED <<uid, held, current, far, made, toAgent, ack, near, table, mgr, unreported>>
        /\ UNCHANGED <<row, stored, failures, trouble, crashes>>
    BY <1>2 DEF vars, game, agent, database
  <2>2. TypeOK' /\ LinksOK' /\ GameOK' /\ TableOK' /\ RowOK' /\ (Calm' => Calm)
    BY <2>1 DEF IInv, TypeOK, LinksOK, GameOK, TableOK, RowOK, Calm
  <2>3. Items' = Items
    BY <2>1 DEF Items
  <2>4. (Unique => Unique') /\ (Counted => Counted') /\ (Covered => Covered')
    BY <2>1, <2>3 DEF Unique, Counted, Covered
  <2>5. Reported => Reported'
    BY <2>1 DEF Reported
  <2> QED
    BY <2>2, <2>4, <2>5 DEF IInv, NumbersOK
<1> QED
  BY <1>1, <1>2

\* The invariant of the serials and the links holds in every state, whatever crashes,
\* whichever packets are lost and however many items are made.
THEOREM SerialsAreKept == Spec => []IInv
<1>1. IInv /\ [Next]_vars => IInv'
  BY StepKeeps
<1> QED
  BY <1>1, InitHolds, PTL DEF Spec

\* Type correctness, in particular the queues hold packets of the three kinds only.
THEOREM TypeCorrect == Spec => []TypeOK
<1>1. IInv => TypeOK
  BY DEF IInv
<1> QED
  BY <1>1, SerialsAreKept, PTL

\* Two stored items never have one serial, in the absence of a refused login, a failed
\* statement and a chest cut off from its character by more than the margin.
THEOREM NoSerialIsUsedTwice == Spec => []SerialsUnique
<1>1. IInv => SerialsUnique
  <2>1. TypeOK => stored \subseteq Items
    BY AllItems
  <2> QED
    BY <2>1 DEF IInv, NumbersOK, Calm, Unique, SerialsUnique, NoSerialTwice
<1> QED
  BY <1>1, SerialsAreKept, PTL

\* Until a login is refused, the link that a game server uses is the one under its id.
THEOREM LinkIsKnown == Spec => []UsedLinkIsKnown
<1>1. IInv => UsedLinkIsKnown
  BY DEF IInv, TableOK, UsedLinkIsKnown, HeldLinkIsKnown
<1> QED
  BY <1>1, SerialsAreKept, PTL

\* Until a login is refused or a statement fails, no step writes an older serial over
\* the row.
THEOREM RowOnlyRises == Spec => RowNeverFalls
<1>1. IInv /\ [Next]_vars => [failures' = 0 /\ "refused" \notin trouble => row' >= row]_vars
  <2> SUFFICES ASSUME IInv, Next, failures' = 0, "refused" \notin trouble
               PROVE  row' >= row
    BY DEF vars
  <2>1. ASSUME NEW l \in Links, LoginRefused(l)
        PROVE  row' = row /\ row \in Nat
    BY <2>1 DEF LoginRefused, database, IInv, TypeOK
  <2>2. CASE ~ \E l \in Links : LoginRefused(l)
    <3>1. \/ trouble' = trouble
          \/ \E ends \in SUBSET Links : trouble' = trouble \union Halved(ends)
      <4>1. ASSUME NEW l \in Links, Disconnected(l)
            PROVE  \E ends \in SUBSET Links : trouble' = trouble \union Halved(ends)
        BY <4>1, {l} \in SUBSET Links DEF Disconnected
      <4>2. ASSUME AgentCrash
            PROVE  \E ends \in SUBSET Links : trouble' = trouble \union Halved(ends)
        BY <4>2, {l \in Links : near[l] = "logged"} \in SUBSET Links DEF AgentCrash
      <4>3. CASE ~ AgentCrash /\ ~ \E l \in Links : Disconnected(l)
        BY <2>2, <4>3 DEF Next, CreateItem, GameCrash, DBUpdate, ConnectToAgent, LoginAck, LinkLost,
                          ServerLogin, UpdateDepositDB, CharUpdate
      <4> QED
        BY <4>1, <4>2, <4>3
    <3>2. \A ends : "refused" \notin Halved(ends)
      BY DEF Halved
    <3>3. "refused" \notin trouble'
      BY <3>1, <3>2
    <3> QED
      BY <3>3, RowHolds DEF IInv
  <2> QED
    BY <2>1, <2>2
<1> QED
  BY <1>1, SerialsAreKept, PTL DEF Spec, RowNeverFalls
=============================================================================
