# A TLA+ verification of the painel-diario game servers

The repository holds the servers of a massively multiplayer game
(`src/RylServerProject`) and its client (`src/NeoRylClient`), in C++ for
Windows. The servers are built on one network library: connections served by
I/O completion ports, packet queues handled by one process thread, and
requests to other servers that are answered later. This directory models that
library, from the accepting of connections to its end; the requests of the game
server to the DB agent; and what the DB agent keeps for all servers: the cache
of its users' data, the sessions of the users, and the serial numbers of items.

Paths below are relative to `src/RylServerProject`. Source comments are in
Korean (code page 949); where one is quoted in `PROJECT.json` it is decoded.

- [The system](#the-system)
- [The models](#the-models)
- [What is checked](#what-is-checked)
- [What is proved](#what-is-proved)
- [What the code does against its comments](#what-the-code-does-against-its-comments)
- [What is not modelled](#what-is-not-modelled)
- [Plan](#plan)

## The system

### Processes

| process | directory | talks to |
|---|---|---|
| game client | `NeoRylClient` | login, auth, game and chat server |
| login server | `RylLoginServer` | clients; DB agents, for the list of servers |
| auth server | `RylAuthServer` | clients that choose a character; its DB agent |
| game server (one per zone and channel) | `RylGameServer`, `RylGameLibrary` | clients in the game; its DB agent; chat and log servers |
| DB agent (one per server group) | `RylDBAgentServer` | auth, game and chat servers; UID server; the database |
| UID server | `RylUIDServer` | DB agents; billing services |
| chat server | `RylChatServer` | game servers, DB agent |

Every server process has the same threads: the *main thread* (window and
timers), the *process thread* (all handlers), the *I/O workers* of the
completion port, and a few helpers.

### Components

**Session and session manager** (`BaseLibrary/Network/Session`). *State:* a
socket, flags, the counts of pending receives and sends, a reference count, a
receive buffer and a queue of buffers to send; the manager's lists of sessions
to be added and current. *Operations:* open, one visit per pass of the process
thread, the completions of receives and sends, close, shut down, suspend and
resume, queue and send, take and release a reference, destroy all.
*Interaction:* called by workers, by the process thread, by handlers on it and
by any thread that holds a reference; calls `Connected`, `Dispatch`,
`ParsePacket` and `Disconnected` of its packet dispatch without its lock.
*Hard:* the lock is given up in the middle of `Process` and `Dispatch`, the
first receive is counted without it, and deletion depends on three counts.
*Correct when:* no session is deleted while anything can still touch it; a
buffer has one owner; what was queued is sent in order and nothing after the
end of stream; callbacks come once and in order; a closed session is deleted.

**Listeners and completion port** (`BaseLibrary/Network/Listener`, `Iocp`).
*State:* pending accepts, worker threads, policies with reference counts.
*Hard:* a listener is destroyed while its last accept is being processed; the
manager frees its sessions before the workers are joined; whoever holds a policy
counts. *Correct when:* the number of pending accepts is what the kernel, the
port and the workers hold, each accept is followed by another until the listener
is closed, nothing runs on a freed listener, manager or policy, and the end
comes.

**Packet queue** (`RylServerLibrary/Network/Dispatch/RylServerDispatch.cpp`).
*State:* the queue, two flags, and the batch a thread is handling. *Operations:*
`ParsePacket` on a worker, `Dispatch` on the process thread (and on the worker
in the multi-threaded variant). *Hard:* packets arrive while a batch is handled
without the lock, and what is left of it is put back. *Correct when:* packets
are handled one at a time and in order, none is lost, and a session that was
suspended goes on.

**Requests** (`BaseLibrary/Network/Dispatch/ServerRequest.cpp`,
`RylGameLibrary/.../DBAgentRequest.cpp`). *State:* a table from keys to a source
session, a destination session and a time; with each client the queue of its
keys and flags of its character; the slot of the current link to the agent.
*Operations:* add, send or cancel, get, pop, time out, switch off, remove all;
the handlers of clients and of the agent's answers. *Hard:* an answer may come
late, never, or for a session that is gone; keys are used again; links are
replaced; the main thread empties the table at the end. *Correct when:* an
answer finds its own request, the references are accounted for, and nothing
waits for ever.

**Dispatch storages** (`SingleDispatchStorage.cpp`, `MultiDispatchStorage.cpp`).
*State:* the current dispatch of a link, or one per key, each with a reference.
*Hard:* logins and disconnections of successive links in any order; the table by
key removes by key, whoever asks. *Correct when:* a link that goes away takes
only itself out.

**Data cache of the DB agent** (`RylDBAgentServer/DataStorage/DBDataMgr.h`).
*State:* data of users in the game (login map) and of those who left (logout
map), which parts of it are changed, and the database behind. *Operations:* load,
unload, get for a user who is away, change, remove, limit, write back in each
pulse, write all at the end. *Hard:* a datum is written in parts and a write may
stop in the middle; data is deleted behind the cache; the pass that writes stops
early. *Correct when:* a datum is in one map, no change is lost, and every
change is written in the end.

**User sessions of the DB agent** (`SessionData.cpp`, `SessionDataMgr.cpp`).
*State:* per user one of the states connected, enabled, character enabled,
moving, disabled; the data it owns; a map of the characters in the game.
*Interaction:* packets of the auth and the game servers, answers of the UID
server, kills by a later login of the same account; loads and unloads the data
cache. *Hard:* the packets about one user come on three kinds of links in any
order, two logins compete, and servers disappear. *Correct when:* data has one
owner and is unloaded with it, a user is in one place and the session is his,
and a login that is asked to end ends.

**Item serials** (`RylDBAgentServer/Item/ItemSerialMgr.cpp`,
`RylGameLibrary/Item/ItemFactory.cpp`). *State:* the next serial in the game
server, in the agent's dispatch of its link, and in a row of the database.
*Interaction:* every character update carries the serial; a login answers with
the row's. *Hard:* crashes of either side with updates under way, a second link
while the first still stands, statements that fail. *Correct when:* no serial is
used twice.

**Others.** Command queue and thread manager (commands run once, joined at the
end); ping check (time arithmetic); buffer queue (a linked list); auth server
(authorisation threads, a second user of the request table); UID server (which
agent a user is logged in at); friend and ban lists; game rules (creatures,
items, skills, maps, quests, castles); the client. `PROJECT.json` lists all of
them with their status, and under `hazards` what is hard to test in each.

### How they interact

```
 kernel --completions--> I/O worker --ParsePacket--> packet queue
                            |                            |
                            v                            v  Dispatch, once per pass
   session manager --> CSession <--send, close-- handlers on the process thread
        ^  visits           ^                            |
        |                   | references                 v
   process thread           +------------------- request table <--- main thread
                                                         |          (off, remove all)
                                                  link to the agent
```

## The models

| module | what it is | proofs |
|---|---|---|
| `SessionLifecycle` | abstract specification: what the network layer promises a packet dispatch | `LifecycleProofs` |
| `Session` | `CSession` and `CSessionMgr`, one action per locked section | `SessionProofs`, `LifecycleProofs` |
| `IocpNet` | `CIOCPNet`, `CListener`, the workers and their end, over sessions reduced to a few states | `IocpNetProofs` |
| `PacketDispatch` | `CRylServerDispatch` and its multi-threaded variant over a session | `PacketDispatchProofs` |
| `ServerRequest`, `MCServerRequest` | `CServerRequest`, `CDBRequest`, `CSingleDispatch` and the handlers that use them | `ServerRequestProofs` |
| `DataCache` | `CDBDataMgr` over a database | `DataCacheProofs` |
| `UserSession` | `CSessionData`, `CSessionDataMgr` and the handlers of the agent, with the auth, game and UID servers around it | `UserSessionProofs` |
| `ItemSerial`, `MCItemSerial` | `CItemSerialMgr`, `CItemFactory` and a game server's link to the agent | `ItemSerialProofs` |

The modules are layers of one system. `PacketDispatch` takes from `Session`
that the receive buffer has one owner and that a receive is posted when none is
(`RecvBufferHasOneOwner`, `ResumedReceives`); `ServerRequest` that a session
whose socket is closed gets one `Disconnected` and is deleted when its reference
count is zero (`LifecycleSpec`, `NoIoAfterDelete`); `IocpNet` that a session
whose socket is closed and that has nothing pending is eliminated
(`ClosedIsEliminated`). `UserSession`, `ItemSerial` and `DataCache` take from
`PacketDispatch` that the packets of a link are handled in order and one at a
time; `UserSession` uses of `DataCache` that data is in memory once
(`OneCopy`), which makes `loaded` a set. The layers are checked separately,
since their product is out of reach.

Definitions marked "Mutant" are plausible bugs in the operator that follows
them; they are used only to see that each property notices one.

### Session

`ses[s]` is the object: `recvPending`, `sendPending`, `refCount` and `flags`
are the members of those names, `sendQueue` is `m_SendQueue`, `recvPosted` and
`sendPosted` are the overlapped calls that the kernel has, which the code
cannot see; `sent`, `accepted`, `fin` and `calls` are history. `place[s]` is
the list of the manager a session is in, or where `ProcessAccept`/`Connect` is
with it. `worker[w]` is a worker inside `CSession::Dispatch`, `main` the process
thread inside `CSession::Process`, `todo` the rest of a pass.

| code | actions |
|---|---|
| `CListener::ProcessAccept`, `CIOCPNet::Connect` | `Open`, `CountFirstRecv`, `Add` |
| `CSessionMgr::InternalProcess` | `BeginPass`, `Eliminate` |
| `CSession::Process`, first locked section | `ProcessConnected`, `ProcessDisconnected`, `Eliminate` |
| its callbacks, without the lock | `CallConnected`, `CallDispatch`, `CallDisconnected` |
| its second locked section | `ProcessEnd` |
| `CStreamRecvOverlapped::Dispatch`, `CSession::Dispatch` | `TakeRecv`, `FinishRecv`, `RecvAgain` |
| `CSession::SendCompleted` | `SendCompleted` |
| methods called by handlers and holders of references | `CloseSession`, `Shutdown`, `SuspendRecv`, `ResumeRecv`, `SendPending`, `Send`, `AddRef`, `Release` |
| `CSessionMgr::Destroy` | `DestroyBegin`, `DestroyClose`, `DestroyClosed`, `DestroyEnd` |

`InternalRecv` and `InternalSend` map a session to the *set* of sessions they
may leave, since every socket call can fail. The unlocked `++m_dwRecvPending` of
`ProcessAccept` and `Connect` is a race with the decrement of a worker: the
receive is posted in `Open` and counted in `CountFirstRecv`, and `CountedDown`
gives every value two unsynchronised updates may leave. -1 stands for the
unsigned value 0xFFFFFFFF. A new session is in `m_to_be_added` until
`BeginPass` or `Destroy` splices that list into the one that is visited.

Abstracted: bytes and addresses; a buffer is its number in the order of
acceptance. `RecvFrom`/`SendTo` have the control of their stream counterparts.
Allocation succeeds. Memory is not used again: a session identifier is one
lifetime.

### PacketDispatch

`queue`, `flags` are the members; `thread[t]` is a thread inside `Dispatch`
with its local batch and count; `recv` is the session's receive; `arrived`,
`handled` and `refused` are history. `ParsePacket`, `Enter` and `Leave` are the
three locked sections, `Handle` is one turn of the loop without the lock. With
`MultiThread` the worker goes on to dispatch what it has parsed, as
`CRylServerMultiThreadDispatch` does. A packet is its number.

### ServerRequest

`table` is `m_RequestMap` as a function over all keys with `Free` for "no
entry"; `n` numbers the requests, so that two with one key can be told apart.
`counter` is `m_dwRequestCounter`. `client[c]` is the queue of keys, whether
there is a character and which of its operation flags are set. `slot` is the
link in `CSingleDispatch`, `state` and `refs` are each session's. `asked` holds
the requests on their way to the agent or being worked on there, `answers[l]`
what the agent has sent back on link `l`. `issued`, `popped`, `waiting` and
`unordered` are history.

| code | actions |
|---|---|
| `ParseCharLogin`, `ParseCharMoveZone` with `CCharacter::MoveZone`, `ParseServerZone`, with `CDBRequest`'s constructor and `CServerRequest::AddRequest` | `Ask`, then `Sent` or `SendFails` (`CancelRequest`) |
| `ParseCharLogout` | `Logout` |
| `DBAgentPacketParse::ParseUpdateDBData` | `HandleUpdate` |
| `ParseDepositUpdate` (last part), `PopRequest` | `HandleDeposit` |
| `ParseAgentZone` | `HandleZone` |
| `RemoveTimeoutRequest` | `Tick` |
| `RequestOff`, `RemoveAllRequest` | the actions of these names |
| `ParseSysServerLogin` with `CSingleDispatch::SetDispatch` | `ServerLogin` |
| `Disconnected` of links and clients | `Disconnected` |
| deletion by the session manager | `Eliminate` |
| the DB agent | `AgentAnswers` |

A handler is one step, because the process thread alone runs handlers, calls
`Disconnected`, deletes sessions and counts the time. Only the main thread and
the closing of sessions interleave, and they meet a handler at the table's
lock: hence a handler that adds a request has two steps. Between `GetRequest`
and the use of what it found, the main thread may remove the request; nothing
is deleted meanwhile, since only the process thread deletes. A null pointer
that is used stops the server (`thread.at = "crashed"`).

The agent answers in any order, or not at all. It grants no login to a user who
is in the game already, as `ParseCharUpdate.cpp` tests.

### DataCache

`login` and `logout` are the two maps. Of a copy of the data the module keeps
which parts hold the newest change (`latest`), which are flagged in
`m_dwUpdateData` (`changed`), and which have a change that nothing flagged
(`silent`, which the code does not know); a part is what one flag stands for, a
table of a store or a group of columns of a character. `row[k]` says which parts of the database are the newest.
`updated` and `since` are the ranks of the two times that the code compares
(`m_dwLastDBUpdateTime`, the entry into the logout map): ranks, so that time needs
no bound. `lost[k]` is history: the parts whose newest change is kept neither in
memory nor in the row, or only until an older copy is written over it, in one of the
ways listed under `NoLostUpdate`. A later change of the part ends that.

| code | actions |
|---|---|
| `CDBDataMgr::LoadData`, `UnloadData`, `RemoveLogoutData`, `ManageUnloadedData`, `UpdateDBData`, `Destroy` | the actions of these names |
| `GetLogoutData` and its callers (guild gold, gifts, parties, operator's tool) | `UseLogoutData` |
| `GetLoginData` and the handlers that change the data of users in the game | `UpdateLogin` |
| setters that flag nothing (`CharacterData.h:97`, `169`-`183`) in `CharSelect`, `CharLogout`, `GetRealmPointCheck` | `UpdateUnflagged` |
| `UpdateGuildWarFlag` on the row of a character without a session (`ParseGuild.cpp`, `GuildDBMgr.cpp:421`, `AdminToolDispatch.cpp:657`) | `WriteRow` |
| `CStoreData::UpdateDB`, `CCharacterData::UpdateDB` | `Stops`, `Written`, `AfterWrite`, `Stamps` |

A write stops at any part the database refuses, at the first if the data is
found invalid, and clears the flags only when all parts are written.
`CStoreData` stamps the time of a write, `CCharacterData` does not: `Stamped`.
`CCharacterData` has setters that flag nothing, all of `m_CharInfoEx`, and
`CStoreData` none: `UnflaggedParts`. A pass of `UpdateDBData` covers all changed
entries, or more than `MIN_UPDATE_NUM` in the map's order, as the time of the
pulse allows.

### UserSession

One account, since sessions of different accounts share nothing. `session` is
its entry of `m_uidMap`, `loaded` the data in the login maps of the data
managers, `cids` the map `m_cidMap`. `toAgent[s]` and `toServer[s]` are the links
with the auth and the game servers, in order; `asked` is what the UID server has
still to answer; `up` says which links stand. `table` is the auth server's
dispatch under the user id. `stage`, `at` and `char` say where each login is,
`shut` which were cut off by a server that has not handled their end.

| code | actions |
|---|---|
| the agent's handlers `StartSession`, `UserLogout`, `UserMove`, `CharSelect`, `CharLogin`, `CharLogout`, `CharMoveZone`, `ServerZoneEnd`, acknowledged kills | `AgentReceives`, one operator each |
| `UIDDispatch.cpp`: answers to login, character login and refusals | `UidAnswers` |
| `SessionCloseCurrentServer`, a server's new connection | `LinkLost`, `LinkUp` |
| auth server: authorised login, answers and kills, selection, move | `Start`, `AuthReceives`, `Select`, `Move` |
| game server: entry, answers and kills, zone move, logout | `Enter`, `GameReceives`, `MoveZone`, `LeavesGame` |
| clients that leave, requests that time out | `ClientLeaves`, `TimesOut` |

Every handler is one step, with all the reads and writes of data it makes, each
of which may fail (`bad`). A third party that asks for a login's end is another
login of the account, as in `StartSession` with the kill flag.

### ItemSerial

`uid` is `m_nCurrentUID` of the game server's `CItemFactory`, `mgr[l]`
`m_dwItemSerial` of the agent's dispatch of link `l`, `row` the row of the
database; `far` and `near` are the two ends of each link, `table` the agent's
link under the server's id, `current` the game server's. `held` and `stored` are
the items made, in the game and in the database.

| code | actions |
|---|---|
| `CRylGameServer::ConnectToAgent`, the answer to the login | `ConnectToAgent`, `LoginAck` |
| `CItemFactory`, `CCharacter::DBUpdate` | `CreateItem`, `DBUpdate` |
| `CGameDispatch::ServerLogin` with `CMultiDispatch::SetDispatch` and `LoadItemSerial` | `ServerLogin`, `LoginRefused` |
| `UpdateDepositDB`, character updates with `SetItemSerial` | `UpdateDepositDB`, `CharUpdate` |
| `CGameDispatch::Disconnected` with `RemoveDispatch` and `SaveItemSerial` | `Disconnected` |
| the link breaks; a process crashes and starts again | `LinkLost`, `GameCrash`, `AgentCrash` |

The agent checks no ping on this link, so that its end of a broken link stays
until something else ends it: `Disconnected` may come at any later time, or
never. A repeated `InsertItemUID` on a row that exists is taken to fail, as a
primary key makes it.

### IocpNet

One listener and one policy. `accept[a]` is an `AcceptEx` with its buffer: none,
with the kernel, completed in the port, or with a worker; `pending` is
`m_dwCurrentPending`. `session[s]` is a place in the manager's pool: made,
added (`m_to_be_added`), listed (`m_current`) or freed with the pool; open or
closed; with its receive at the kernel, in the port, with a worker that parses
it, or not posted. `worker[w]`
is a thread of the port, `main` how far `CIOCPNet::Destroy` has come; `refs`,
`uses` and `owner` are the policy's references, `late` the waits given up.

| code | actions |
|---|---|
| `CListener::Initialize`, `CIOCPNet::AddListener` | `Initialize`, `AddListener` |
| `CListener::ProcessAccept` | `TakeAccept`, `CreateSession`, `Add`, `CountDown`, `PendAgain` |
| `CIOCPNet::Connect` | `Connect` |
| `CStreamRecvOverlapped::Dispatch`, `COverlappedFactory::DeleteOverlapped` | `TakeRecv`, `Dispatch`, `RecvAgain`, `Release` |
| `CSessionMgr::InternalProcess` with `CSession::Process` | `Splice`, `ProcessRecv`, `DeleteSession` |
| `CListener::~CListener` | `CloseListen`, `WaitForPendingComplete` or `AcceptsAreLate` |
| `CSessionMgr::Destroy`, `~CSessionMgr` | `CloseAll`, `SessionsAreGone` or `SessionsAreLate` |
| `CThreadMgr::JoinThread`, `CIOWorker::End`, `CIOWorker::Run` | `PostEnd`, `End` |
| the rest of `CIOCPNet::Destroy`, the server's own reference | `ReleasePolicy`, `OwnerReleases` |

`CSession::Dispatch` and the call of `CSession::Recv` that follows it lock the session
separately: in between its receive is not pending, and the worker keeps nothing
that `Process` or `Destroy` would wait for. `RecvAgain` goes on with whatever
is then at that place of the pool. Both waits of `Destroy` end after five seconds whatever is pending: a
nondeterministic step, recorded in `late`.

## What is checked

| run | instance | states | shows |
|---|---|---|---|
| `session` | 1 session, 2 workers, 1 holder, 2 sends | 60,917 | no use after deletion, one owner of the buffer, order of sends, nothing sent after the end of stream, refinement of `SessionLifecycle`, the inductive invariant; closed sessions are deleted and receives are posted again |
| `iocp_net` | 2 accepts, 2 workers, 1 place for a session, 1 `Connect`, 1 failing `AcceptEx` | 194,019 | what is freed is freed after its last use, but for two calls that are named; the end comes |
| `packet_dispatch` | 1 packet per pulse, 12 packets in bursts of at most 2, two threads | 9,825 | one thread at a time, order of arrival, nothing after a refusal; suspension ends, what arrives is handled |
| `server_request` | 1 client, 2 links, keys modulo 3, 3 requests, time 1 | 532,670 | references, keys and flags |
| `server_request_live` | 1 client, 2 links, 2 requests, time 2 | 149,021 | requests end, closed clients are deleted |
| `data_cache` | 2 keys, 2 parts, one with unflagged setters, 2 failing writes, at most 1 entry in the logout map | 75,419 | one copy, no change lost but in four ways, flagged changes are written; never a deadlock |
| `user_session` | 2 logins, 1 character, 2 game servers, 1 move, 1 lost link, 1 failure | 264,320 | data, session and player go together; a kill ends a login |
| `item_serial` | 3 links, 2 items, 2 crashes, 1 failing statement | 937,286 | no serial is used twice, the row never falls, the link in use is known |
| `late_answer`, `move_timeout`, `oldest_first`, `second_login` | small instances of the above | 132 to 6,343 | disagreements of the code with its comments, see below |

### Properties

*Session.*

- `NoIoAfterDelete`: a deleted session has no overlapped call, no worker that
  parses its buffer, no holder, and the process thread is not in it. This is
  what the test at `Session.cpp:137` is for. It holds with the data race.
- `RecvBufferHasOneOwner`: the kernel and the workers never own the receive
  buffer together, although it is parsed without the lock.
- `SendInOrder`, `NoSendAfterFin`: the stream is sent in the order it was
  accepted, and nothing follows the end of stream. A failed send closes the
  socket, so that what it puts back is not sent again: the order is that of any
  number of sends and completions before it.
- `LifecycleSpec`: `Session` implements `SessionLifecycle`: `Connected` and
  `Disconnected` at most once each and in order, no I/O started after
  `Disconnected`, deletion only after it and with no I/O left.
- `ClosedIsEliminated`, `ResumedReceives`: liveness of the same, unless the race
  has lost an update of the count (`CountIsLost`).

*IocpNet.*

- `CountIsTrue`, `AcceptsArePending`: the count that `Destroy` waits for is
  true, and a listener loses an accept only with a call that has failed.
- `ListenerOutlivesAccepts`, `ManagerOutlivesSessions`, `PolicyOutlivesUse`,
  `PolicyIsFreed`: each is freed after its last use, the policy in the end. The
  listener's exception is the last call of `ProcessAccept`, the manager's the call
  of `Recv` that follows `CSession::Dispatch`; the policy has none, as it is freed
  after the workers have ended.
- `DestroyEnds`: the second wait and the join of the threads come to their end.

*Packet queue.* `OneThreadHandles`, `InOrder`, `NothingAfterRefusal`,
`SuspensionEnds`, `ArrivedIsHandled`.

*Requests.*

- `RefsAccounted`: the reference count of each session is exactly what the
  table and the slot hold of it, plus, for a link, one per popped request (see
  the observations).
- `NoDangling`: neither table, slot, half-made request nor character refers to
  a deleted session.
- `AnswerFindsItsRequest`: an answer finds its own request or none, although
  keys come round.
- `KeysInStep`: as long as a client's answers come in order and none is lost,
  its key queue pairs with its open requests; `ParseUpdateDBData` refuses a
  login when they differ.
- `EmptyAfterRemoveAll`: no request enters the table after the main thread
  has emptied it, in the middle of whatever handler.
- `MoveEndsWithAnswer`: the flag that keeps a character from moving again is
  never left behind by an answer.
- `RequestsEnd`, `ClosedClientEnds`: every request leaves the table, and every
  closed client is deleted, answered or not.

*Data cache.*

- `OneCopy`: the data of a key is in one of the maps only, as the comment at
  `DBDataMgr.h:289` wants it.
- `NoLostUpdate`: part by part, what is in memory holds every change, and what
  it does not have flagged is in the database, although writes stop in the
  middle. The code has four ways of losing a change, which are the exceptions: a
  write that fails when the data leaves the memory (it is dumped to a file), from
  the part on at which it stops; the deletion of an entry of the logout map, in
  its flagged parts; a change by a setter that flags nothing, if nothing else
  flags the part before the data leaves the memory; and the war flag of a
  character without a session, if its statement fails or an older copy of his
  data is in the logout map. Each lasts until the part is changed
  again.
- `ChangeIsSaved`: the flagged changes of a user in the game are written in the
  end.

*User sessions.*

- `DataHasOwner`: data that is loaded is the session's: no session leaves any
  behind, whichever of its many ends it comes to.
- `GameHasData`: a player in the game has his data, until the agent has ended a
  session itself.
- `PlayerOwnsSession`: of all logins of an account at most one is inside, and
  the session is his, as far as the server he is at knows. A player has his own
  character loaded as long as the agent has ended no session itself.
- `MoveBeforeEntry`: a client does not come to its next server before the agent
  knows that it has left the last (`AuthAgentDispatch.cpp:448`).
- `KillEnds`: a login that another asks to end ends, as long as the links hold.

*Item serials.*

- `SerialsUnique`: no two stored items have one serial, whatever crashes and
  whichever packets are lost.
- `UsedLinkIsKnown`: the link the game server uses is the one the agent has.
- `RowNeverFalls`: the row never goes back, though it is written unseen.

Type correctness is proved for every module. The runs check it for `ServerRequest`
by itself (`TypeOK`) and for `Session` as a part of `IInv`.

### Exceptions, and why they are needed

A property with an exception could hold for the exception's sake. Each was taken
out in a run of its own, and the property was then violated:

| property | exception | without it |
|---|---|---|
| `PlayerOwnsSession` | logins whose session the agent ended | violated with two logins and a lost link, and with three logins and none |
| `PlayerOwnsSession` | the character's data: no session was ended by the agent | violated with three logins and two lost links: `CharSelect` (`ParseCharManage.cpp:841`) takes the word of a login whose session is ended and unloads the character that another plays |
| `GameHasData` | no session was ended by the agent | violated with four logins and a lost link only |
| `KillEnds` | lost links, an answer taken for another request | violated with three logins and a lost link; an answer is mispaired with two logins and a lost link, or three logins |
| `SerialsUnique` | refused login, failed statement, chest | each alone gives a counterexample of 15 to 17 states |
| `RowNeverFalls` | refused login, failed statement | 15 and 9 states |
| `ListenerOutlivesAccepts` | the last call of `ProcessAccept` | the listener is freed between the count and that call, in 9 states |
| `ManagerOutlivesSessions` | waits given up | completions of freed sessions remain |
| `ManagerOutlivesSessions` | a worker between `CSession::Dispatch` and `Recv` | it still has a session of the pool that is freed, in 16 states |
| `NoLostUpdate` | unflagged setters, deleted entries, failed writes, rows written past a copy | each alone is violated |
| `DestroyEnds` | the first wait given up | a session added after the others were closed is never closed: the second wait ends by its timeout only |

### Bounds and why they are enough

`Session`: sessions share nothing but the process thread and the manager's
lists, and no property relates two of them, so that one is enough to exercise
every interleaving on a session; the proofs hold for any number. Two workers
allow the two completions of a session, and two consecutive receives, to be in
progress together; two sends let one be queued behind another, requeued and
sent.

`IocpNet`: two workers can hold two accepts, or an accept and a receive, when the
listener is closed; the pool of one place runs out and its place is used again. With
two places the safety properties hold as well (2,646,771 states); the run is too
slow with liveness. The safety properties are proved for any number.

`PacketDispatch`: with one packet a pulse the limit is five, and twelve
packets allow a backlog of twice the limit with a batch in progress.

`ServerRequest`: three key values leave two usable keys (0 means "none"), so
that three requests make the counter come round; two links are needed for a
replacement. Clients meet only in the table: an instance with two clients, two
links and three requests was also run (5.4 million states, no error) and is too
slow to keep. `KeyIsFresh` bounds the counter: it does not come round to a key
while an answer to its last request is under way, unless that request is still
in the table; with 2^32 keys this takes four thousand million requests within
one answer's time.

`DataCache`: two keys compete in the pass and for the place in the logout map;
two parts let a write stop in the middle; two failures let a second write fail
after a first. One of the parts has unflagged setters, so that they are seen with and
without a flag of the same part and with writes of the other. The instance has the
stamps of `CStoreData` and the unflagged setters of `CCharacterData`: it is
`Stamped` only that `ChangeIsSaved` needs, and `NoLostUpdate` is proved for both values
and any parts.

`UserSession`: two logins compete, and one of them moves between two servers.
Also run without error: three logins with one game server (1.28 million states),
three logins with two game servers and four with one, both under symmetry (841
and 408 thousand), three logins with two lost links (692 thousand), and `KillEnds`
for three logins.

`ItemSerial`: three links are an old one, one in use and one being made; with
three items 8.3 million states were run without error.

`Burst`, `MaxPackets`, `MaxSend`, `MaxIssued`, `MaxConnects`, `MaxFailures`,
`MaxMoves`, `MaxCuts`, `MaxItems`, `MaxInFlight` and `MaxCrashes` end the runs; no
guard but theirs uses them.

Symmetry is used in safety runs only (`server_request`, `item_serial`).
`Session` and `DataCache` are checked for deadlock: the first ends in
`Terminated`, the second never stops. The others stop when their bounds are used
up or the server has ended, so that deadlock is not checked there.

### Fairness

- `Session`: the process thread loops for ever (`WF` on its steps); a worker
  finishes what it has begun and takes completions from the port, which is a
  queue; `closesocket` completes every call posted on the socket (`SF`, only
  while the socket is closed: nothing is assumed of a peer); an opening and a
  `Destroy` go on; references are given back, since `Storage` objects live on
  the stack of a handler. A lost update of the race leaves the count at 1 or -1
  for ever, and neither liveness property survives it: the sessions it happens to
  are the exception (`CountIsLost`).
- `IocpNet`: threads go on; a closed socket completes its calls; the port hands
  completions out in their order, so that none waits for ever (`SF` on taking
  one). Nothing is assumed of open sockets, and no wait needs to be given up.
- `PacketDispatch`: the process thread visits a connected session again and
  again, a thread in `Dispatch` goes on, handlers return. Nothing is assumed of
  arrivals.
- `ServerRequest`: the process thread finishes its handlers, counts time,
  calls `Disconnected` and deletes, while the server runs (the main thread stops
  it at the end). Nothing is assumed of clients, links or the agent.
- `DataCache`: pulses come again and again (`WF` on `UpdateDBData`), with the
  choice of how far each gets left open; the database fails finitely often.
- `UserSession`: messages of a link that stands are handled (`WF` on
  `AgentReceives`, `AuthReceives`, `GameReceives`), a connection that a server has
  cut off ends, and a character whose client has left logs out. Nothing is
  assumed of clients or of the UID server.

## What is proved

Each theorem holds for every value of the constants that satisfies the named
assumption of its module; the assumptions say that sets are finite, bounds are
natural numbers and `None` is none of the values. Type correctness
(`TypeCorrect`) is a theorem of each modelled component.

| module | theorem | property | inductive invariant (first theorem) |
|---|---|---|---|
| `SessionProofs` | `NothingAfterDelete` | `NoIoAfterDelete` | `CountersAreTrue`: `[]IInv` |
| | `BufferOwner` | `RecvBufferHasOneOwner` | |
| `LifecycleProofs` | `SentInOrder` | `SendInOrder` | `PromisesAreKept`: `[]Promise` |
| | `NothingAfterFin` | `NoSendAfterFin` | |
| | `SessionKeepsLifecycle` | `LifecycleSpec` | |
| `IocpNetProofs` | `PendingIsCounted` | `CountIsTrue` | `NetIsKept`: `[]IInv` |
| | `AcceptsStay` | `AcceptsArePending` | |
| | `ListenerIsLast` | `ListenerOutlivesAccepts` | |
| | `ManagerIsLast` | `ManagerOutlivesSessions` | |
| | `PolicyIsLast`, `PolicyIsGivenBack` | `PolicyOutlivesUse`, `PolicyIsFreed` | |
| `PacketDispatchProofs` | `OneAtATime` | `OneThreadHandles` | `QueueIsKept`: `[]IInv` |
| | `Ordered` | `InOrder` | |
| | `RefusalIsFinal` | `NothingAfterRefusal` | |
| `ServerRequestProofs` | `ReferencesAreCounted` | `RefsAccounted` | `RequestsAreKept`: `[]IInv` |
| | `NothingDangles` | `NoDangling` | |
| | `TableStaysEmpty` | `EmptyAfterRemoveAll` | |
| | `AnswersFindTheirs` | `AnswerFindsItsRequest` | |
| | `KeysAreInStep` | `KeysInStep` | |
| | `MovesEnd` | `MoveEndsWithAnswer` | |
| `DataCacheProofs` | `DataIsOnce` | `OneCopy` | `CacheIsKept`: `[]IInv` |
| | `ChangesAreKept` | `NoLostUpdate` | |
| `UserSessionProofs` | `DataIsOwned` | `DataHasOwner` | `SessionIsKept`: `[]IInv` |
| | `PlayersHaveTheirData` | `GameHasData` | `OwnersAreKnown`: `[]Inv` |
| | `PlayersOwnTheirSession` | `PlayerOwnsSession` | |
| | `MovesComeBeforeEntries` | `MoveBeforeEntry` | |
| `ItemSerialProofs` | `NoSerialIsUsedTwice` | `SerialsUnique` | `SerialsAreKept`: `[]IInv` |
| | `LinkIsKnown` | `UsedLinkIsKnown` | |
| | `RowOnlyRises` | `RowNeverFalls` | |

The arguments, module by module:

*Session.* The safety invariants are not inductive: `Eliminate` looks at the
counts, so a proof that nothing is left behind needs the counts to be *true*.
`IInv` says of each session that `m_dwSendPending` is what the kernel holds
(`SendCount`); that `m_dwRecvPending` is what kernel and workers hold together,
and if it is zero, nothing is held (`RecvCount`); that the reference count is
the number of holders plus one when the process thread is inside (`RefCount`);
that sessions not yet opened or already deleted have nothing outstanding, and
which list `todo` and `main` take their sessions from (`Listed`). The receive
count needs a case of its own while the first increment is in flight
(`place = "counting"`): it may be off by one, but then the session is in no list,
so that nobody can delete it; after a race it may stay off for ever, which the
invariant allows only in the safe direction, never zero with a receive
outstanding. Lemmas state first what `InternalRecv`, `InternalSend`,
`ShutdownWhenDrained` and `InternalCloseSocket` may do to the counts, then one
lemma per action or group of actions shows that it keeps `IInv`; sessions other
than the one that moves are settled once, by `OtherSessions`.

*What a session promises.* `Promise` stands on `IInv`. A session's stream is whole:
what was sent, followed by what is queued, is 1, 2, ... up to the last accepted
(`StreamOK`). `InternalSend` takes the head off and, if the send fails, puts it back
at the head, which both keep this. The end of stream is sent with the queue empty
and `SHUTDOWN_CALLED` set, after which nothing is accepted. The flags say which
callbacks were decided, and the process thread inside `Process` makes the call
before it does anything else (`CallsOK`), so `Connected` and `Disconnected` come at
most once and in order; that the socket is closed exactly when the status is
`DISCONNECTED` (`Linked`) gives that nothing starts afterwards. The refinement
follows: a lemma per action names the step of `SessionLifecycle` that it is, or
shows that it changes nothing there. The counts of `IInv` are needed where a session
is deleted: there the abstract one wants no I/O left.

*IocpNet.* The counts are cardinalities of sets: `m_dwCurrentPending` of the
accepts that are pending, the references of the owner, the map, the listener and
the live sessions. So a wait for zero is a wait for the set to be empty. With it,
each worker inside `ProcessAccept` or `CSession::Dispatch` has an accept or a session
of its own, and nothing is claimed of the one that a worker has between `Dispatch` and
`Recv`, but that its call disturbs no other: `InternalRecv` changes only an open
session without a pending receive, so none that is deleted and none that another
worker parses (`InternalRecvKeeps`); and each phase of `Destroy` leaves behind what the next one needs: after
the first wait no accept is pending and none becomes so, after the second no
session is left, after the join no worker holds anything.

*PacketDispatch.* One thread is past `Enter` with the flag set, and what has
arrived is what was handled, then the batch that is left, then the queue, in this
order (`InPlace`). Putting a batch back in front of the queue keeps it.

*ServerRequest.* The invariant has three layers, each proved on those before it.
`Books`: the reference count of a session is the number of keys of the table whose
entry names it, plus one if it is in the slot, plus what popped requests have left
behind. Adding or removing an entry changes one cardinality by one; emptying the
table changes all of them, and the removal of a set of keys is done by the difference
of two sets. So whatever is referred to has a count above zero and is not deleted.
`Mail`: the number of a request goes with its key, in the table and in what is under
way, and there is one answer at most to each (a login has two). When a key comes
round, the old request is still in the table and the new one is refused, or
nothing of it is under way (`KeyIsFresh`). `Turns`: the keys a client has queued are,
one by one, those of the numbers it waits for, in the order of asking; the deposit
comes after the login, so that a login's key is taken once. It is this order that
makes the set flag of a zone move have a request to wait for.

*DataCache.* `TypeOK`, `OneCopy` and `NoLostUpdate` are inductive together.
`NoLostUpdate` needs `OneCopy` where a row is written from one map: another copy
would have flags of its own. What a copy and its row must hold is one operator of
the copy, the row and the lost parts (`Good`), and what a row must hold alone
another (`Whole`); a lemma for each setter, for a write that stops anywhere and for a
row written past a copy says that it keeps them.

*UserSession.* `loaded = Held(session)` is kept by each operator on the agent's
state, so a lemma per operator settles all handlers that call it; the handlers
then differ only in which they call. With it go what the states of a session
allow it to hold (`AgentOK`) and what may be on the links (`LinksOK`,
`ClientsOK`).

Who owns the session is a second invariant on top, `Inv`. A login's request to start or
to enter is one token: it is a message to the agent, a request to the UID server, or an
answer on a link to the login's server, one of them at a time, and while it travels
no message of the login that gives the session up is on its way (`TokenOK`). The stage
of a login says what of it may be on the links (`StageOK`): a grant may come to a login
that is over, never to one that has its session already. What a moving login sends after the news of its
move stays behind that news, since they share a link (`MoveOK`). From this `Ownership`
follows: whoever has been told that the session is his, is in the auth server's
table, or plays, owns it with the state and the server that he takes it to have,
unless the agent has ended it (`closed`). As long as it has ended none, a selection on
its way comes from the owner too, ahead of his departure, so that the data is that of
the character he plays. The handlers share few operators on the session, so there is
a lemma per operator on what becomes of its owner and of the requests in it, and a
few on what appending to a link and taking its head do to tokens.

*ItemSerial.* Items are made by `CreateItem` alone. While nothing has gone
wrong, every item's serial is below `uid`, or below the answer that is on its way
to a new process. Stored items are below the row plus `Margin`, or they are
unreported on the link that is logged in; the serial a character packet carries
is above all that was stored or sent before it. So what `LoadItemSerial` adds
when it reads the row is enough.

Each inductive invariant was checked by TLC before it was proved; `Inv` with three
logins and two lost links, and with two logins, two moves and two game servers.

Only model-checked: the liveness properties `ClosedIsEliminated`, `ResumedReceives`,
`DestroyEnds`, `SuspensionEnds`, `ArrivedIsHandled`, `RequestsEnd`,
`ClosedClientEnds`, `ChangeIsSaved` and `KillEnds`, since liveness under fairness and
`ENABLED` are outside the prover's reach; and that the system never deadlocks. Every
invariant, every action property and the refinement is a theorem. The four runs that
disagree with a comment are counterexamples and have nothing to prove.

## What the code does against its comments

1. `DBAgentPacketParse.cpp:1010` (run `late_answer`): `ParseAgentZone` uses the
   client's dispatch before it compares it with `NULL`; an answer after the
   request's time stops the game server.
2. `CharacterControl.cpp:120` (`move_timeout`): a zone move whose answer never
   comes leaves `MOVEZONE_PROCESSED` set, and the character cannot move again.
3. `CharacterData.cpp:861` (`oldest_first`): a character's write returns before
   it sets the time of its last update. The comment at `DBDataMgr.h:385` says
   that the oldest are updated first; the order of characters never changes, and a
   pass that stops early writes the same ones again and again. The rest is
   written at their logout.
4. `MultiDispatchStorage.cpp:129` (`second_login`): a game server whose second
   login is refused takes the accepted one out of the agent's table when it is cut,
   and logs out every user of that server (`GameDispatch.cpp:181`, `194`), because
   the refused dispatch has taken the id already (264) and entries are removed by
   key.

Seen in the models, without a run of their own:

- `Session.cpp:194`: the comment says shutdown happens when everything is sent;
  the code looks at the queue and not at the pending send. `Session.cpp:197`:
  `SHUTDOWN_PROCESSED` is set when `shutdown` fails, as it returns zero on success.
- `Listener.cpp:271`: the first receive is counted without the lock, after it
  was posted; a lost update keeps the session for ever. `Overlapped.cpp:65`:
  `Session.Recv()` after `CSession::Dispatch` may run on a session that the process
  thread has deleted in between, or whose pool `CIOCPNet::Destroy` has freed
  without giving any wait up (`RecvAgain` in `Session` and `IocpNet`).
- `Listener.cpp:286`, `290`: the listener may be freed between the count and the
  call of `PendingAccept`. `Listener.cpp:175`: what `PendingAccept` creates is used
  without a look at it. `IOCPNet.cpp:153`: `Connect` adds a session that is not
  valid.
- `ThreadMgr.cpp:37` refuses the 64th thread, and a port starts two per processor
  (`IOCPNet.cpp:38`): with 32 processors `Initialize` fails.
- `RylServerDispatch.cpp:207`: a suspended receive is resumed because `Dispatch`
  has just taken the queue over, while the whole batch is still waiting. So the
  limit at 204 does not bound the backlog.
- `ServerRequest.cpp:266`: `PopRequest` gives back the reference to the source
  and not the one to the destination: every answered request keeps the agent's
  session from ever being deleted after it has closed.
- `SERVERZONE_PROCESSED` is reset nowhere.
- `CharacterData.h:97`, `169`-`183`: the admin flag, the points, minutes and
  check of the realm war and the logout time are changed without
  `CHANGED_CHAR_INFOEX`, although `m_dwUpdateData` is to say what was changed
  (`CharacterData.h:227`). What `CharSelect` computes (`ParseCharManage.cpp:855`-`939`)
  is lost with the unload at 1024, what a logout computes
  (`SessionData.cpp:1302`-`1356`) with the one in `CharLogout`, unless the part
  is flagged for something else.
- `AdminToolDispatch.cpp:657`, `ParseGuild.cpp:213`: the war flag of a
  character without a session is written to his row, and a copy of his data in the logout map keeps
  the old one. His next login takes the copy. `CharacterData.cpp:279`-`299`: with a
  copy at hand the flag is set there unflagged, and lost if the statement fails.
- `DBDataMgr.h:330`: `ReloadData` compares where it should assign, so that it
  reads nothing, against the comment above it.
- `CharacterDataUpdate.cpp:66`, `ItemSerialMgr.cpp:60`: a chest is sent before
  the character that reports its items' serials. If the link or the agent is lost
  between the two with more than the margin made, a serial is used twice.
- `ParseCharManage.cpp:841`: `CharSelect` looks at neither the session's id nor its
  state. A login whose session the agent has ended, and which is still at the auth
  server, may select a character and unload the one that another login plays.
- `ItemSerialMgr.cpp:48` with `GameDispatch.cpp:183`: a serial that could not be
  loaded is written back all the same when the link ends.

## What is not modelled

The modules cover a small part of the repository's lines (about a half of one
percent of 610,000 with the client and the vendored code). The client, which is
rendering and user interface, the game rules, which are sequential and full of
tuned numbers, tables of packets, SQL text and third-party libraries make up
nearly all of the rest; models of them would be transliterations with nothing to
say about order or failure. Every component is listed in `PROJECT.json` with its
reason; of a component that is a whole directory the entry names the main files
only. Within the modelled ones:

- `Session`: allocation failures, `Connect` with a dispatch that could not be
  created, statistics, what happens after `Destroy` has given up waiting
  (`IocpNet` goes on from there).
- `IocpNet`: send completions, a second listener or policy, the process threads,
  which are stopped before `Destroy` is called, and an `Initialize` that fails.
- `PacketDispatch`: packet headers and their errors (a receive may be refused),
  `CGameClientDispatch::ProcessTooManyPacket`.
- `ServerRequest`: answers that only look a request up (parts of deposits,
  friends, quests, configuration: no state of this module changes), the auth
  server's use of the same table, `RemoveRequest(dispatch)` and `RequestOn`,
  which nobody calls.
- `DataCache`: `ReloadData`, which reads nothing; contents and SQL; the files that
  data is dumped to; statements of other handlers on single columns of a row
  (names, equipment of a new character, gold that a guild releases). A setter
  counts as one change of its part; which of the part's columns it is is not kept.
- `UserSession`: creation and deletion of characters, kills from the billing
  (`UIDDispatch.cpp:654`), the operator's tool and the console, the logout of a
  character whose data never arrived (`CharacterLoginOut.cpp:666`), the check of
  realm points that may turn an update away (`ParseCharUpdate.cpp:230`), and the
  UID server's table, whose verdict is a free choice.
- `ItemSerial`: the agent's own serials (`CDBAgentItemSerialMgr`), other tables by
  key, and the references these take.

## Plan

In order; each step is a module with its runs and, where named, proofs.

1. **CommandQueue**: commands, semaphore and stop event, against "each command
   runs once or is destroyed".
2. **AuthRequest**: the auth server's clients over the request table, sharing
   the table's operators with `ServerRequest`, and its authorisation threads.
3. **MultiDispatch**: the other tables by key, with the references they take,
   composed with the reference counts of `Session`.
4. **CheckPing**: 32-bit time that comes round.
5. **BufferQueue**, **FriendList**: the linked list against sequences, the
   sorted lists against sets, over bounded inputs.

The safety properties of these modules are to be proved as those of the present
ones are, with the lemmas of `ServerRequestProofs` on counting and of
`UserSessionProofs` on links where they fit. Of the present modules what is left to
prove is how they meet: that `ServerRequest`, as it sees sessions, makes only the
steps that `SessionLifecycle` allows, and that `PacketDispatch`'s view of the receive
is implemented by `Session`.

The safety properties of a component share one run with its liveness where the
state space allows it, and a disagreement gets a run of its own only while it says
something the others do not, so that the whole stays quick to check.
