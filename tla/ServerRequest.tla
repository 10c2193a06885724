---------------------------- MODULE ServerRequest ----------------------------
(***************************************************************************)
(* The table of outstanding requests (CServerRequest) and its use by the   *)
(* game server: a client asks for something that only the DB agent can     *)
(* answer, the request is kept under a key until the answer comes or its   *)
(* time is over, and both ends are kept alive by a reference meanwhile.    *)
(*                                                                         *)
(* One process thread runs the handlers of clients and agent links, calls  *)
(* Disconnected, deletes sessions and counts the requests' time down, so   *)
(* that a handler is one step unless it gives the table's lock up with a   *)
(* request of its own half made (AddRequest, then Sent or SendFails). The  *)
(* main thread switches the table off and empties it at any moment, and    *)
(* any thread closes a session.                                            *)
(***************************************************************************)
EXTENDS Integers, Sequences, FiniteSets

CONSTANTS
    Clients,    \* sessions of game clients (CGameClientDispatch)
    Links,      \* successive sessions to the DB agent (CDBAgentDispatch)
    None,       \* the null pointer
    Width,      \* keys are counted modulo Width
    Duration,   \* dwDurationSec
    MaxIssued   \* bound: requests ever added

ASSUME RequestAssumption ==
    /\ IsFiniteSet(Clients) /\ IsFiniteSet(Links)
    /\ Clients \intersect Links = {}
    /\ None \notin Clients \union Links
    /\ Width \in Nat \ {0, 1}
    /\ Duration \in Nat \ {0}
    /\ MaxIssued \in Nat

VARIABLES
    table,      \* m_RequestMap; n tells requests apart that had the same key
    counter,    \* m_dwRequestCounter
    main,       \* the main thread: CANNOT_ADD_REQUEST is set unless "running"
    slot,       \* CSingleDispatch: the link that requests are sent to
    loggedIn,   \* links that have answered the server's login
    state,      \* state[d]: the session of client or link d
    refs,       \* refs[d]: m_dwReferenceCount of that session
    client,     \* client[c]: m_DBRequestQueue, character and its flags
    thread,     \* the process thread: between handlers, or sending a request
    asked,      \* requests on their way to the agent, or being worked on there
    answers,    \* answers[l]: packets from the agent not handled yet
    issued,     \* number of requests added
    popped,     \* popped[l]: requests to l that PopRequest took out
    waiting,    \* waiting[c]: requests of c without a first answer, in order
    unordered   \* clients that lost a request or got answers out of order

vars == <<table, counter, main, slot, loggedIn, state, refs, client, thread, asked,
          answers, issued, popped, waiting, unordered>>

Dispatches == Clients \union Links

Keys == 0 .. Width - 1

Kinds == {"login", "deposit", "move", "zone", "zoneend"}

Entry == [src : Clients \union {None}, dst : Links \union {None}, left : 0 .. Duration, n : Nat]

Free == [src |-> None, dst |-> None, left |-> 0, n |-> 0]

Pending(k) == table[k] # Free

\* The operation flag of the character that a request sets.
Flag(kind) == CASE kind = "move" -> {"MOVEZONE_PROCESSED"}
                [] kind = "zone" -> {"SERVERZONE_PROCESSED"}
                [] OTHER -> {}

NoCharacter == [keys |-> <<>>, character |-> FALSE, flags |-> {}]

Idle == [at |-> "idle", key |-> 0, src |-> None, n |-> 0, kind |-> "login", via |-> None]

\* The references that ProcessRemove gives back for the requests K.
Released(K) ==
    [d \in Dispatches |-> refs[d] - Cardinality({k \in K : table[k].src = d})
                                  - Cardinality({k \in K : table[k].dst = d})]

Removed(K) == [k \in Keys |-> IF k \in K THEN Free ELSE table[k]]

\* Clients whose keys no longer pair with their answers once K is removed.
Unordered(K) == unordered \union {table[k].src : k \in K}

Forgotten(C) == [c \in Clients |-> IF c \in C THEN <<>> ELSE waiting[c]]

Ready == thread.at = "idle"

\* A null pointer that is used ends the server, with all its threads.
Alive == thread.at # "crashed"

\* A handler may still run for a session that was closed behind its back.
Served(d) == state[d] \in {"open", "closed"}

-----------------------------------------------------------------------------
(* Adding a request.                                                         *)

NextKey == IF counter = 0 THEN 1 ELSE counter

\* Bound: the counter does not come round to a key while an answer to its last
\* request is still under way, unless that request is in the table too.
InFlight == asked \union UNION {{answers[l][i] : i \in DOMAIN answers[l]} : l \in Links}
KeyIsFresh == Pending(NextKey) \/ \A m \in InFlight : m.key # NextKey

\* Mutant: map::operator[] in the place of insert.
AddRequestOver(t, r, c, via, kind) ==
    IF slot = None \/ main # "running"
    THEN /\ table' = t /\ refs' = r /\ thread' = Idle
         /\ UNCHANGED <<counter, issued>>
    ELSE /\ counter' = (NextKey + 1) % Width
         /\ table' = [t EXCEPT ![NextKey] =
                         [src |-> c, dst |-> slot, left |-> Duration, n |-> issued + 1]]
         /\ refs' = [r EXCEPT ![c] = @ + 1, ![slot] = @ + 1]
         /\ issued' = issued + 1
         /\ thread' = [at |-> "sending", key |-> NextKey, src |-> c, n |-> issued + 1,
                       kind |-> kind, via |-> via]

\* Mutant: the flag is not looked at.
AddRequestAlways(t, r, c, via, kind) ==
    IF slot = None
    THEN /\ table' = t /\ refs' = r /\ thread' = Idle
         /\ UNCHANGED <<counter, issued>>
    ELSE /\ counter' = (NextKey + 1) % Width
         /\ IF t[NextKey] # Free
            THEN table' = t /\ refs' = r /\ thread' = Idle /\ issued' = issued
            ELSE /\ table' = [t EXCEPT ![NextKey] =
                                 [src |-> c, dst |-> slot, left |-> Duration, n |-> issued + 1]]
                 /\ refs' = [r EXCEPT ![c] = @ + 1, ![slot] = @ + 1]
                 /\ issued' = issued + 1
                 /\ thread' = [at |-> "sending", key |-> NextKey, src |-> c, n |-> issued + 1,
                               kind |-> kind, via |-> via]

\* CDBRequest's constructor in a handler that has left t of the table and r of the
\* references; via is the link whose stream is used. Without a key nothing is sent.
AddRequest(t, r, c, via, kind) ==
    IF slot = None \/ main # "running"
    THEN /\ table' = t /\ refs' = r /\ thread' = Idle
         /\ UNCHANGED <<counter, issued>>
    ELSE /\ counter' = (NextKey + 1) % Width
         /\ IF t[NextKey] # Free
            THEN table' = t /\ refs' = r /\ thread' = Idle /\ issued' = issued
            ELSE /\ table' = [t EXCEPT ![NextKey] =
                                 [src |-> c, dst |-> slot, left |-> Duration, n |-> issued + 1]]
                 /\ refs' = [r EXCEPT ![c] = @ + 1, ![slot] = @ + 1]
                 /\ issued' = issued + 1
                 /\ thread' = [at |-> "sending", key |-> NextKey, src |-> c, n |-> issued + 1,
                               kind |-> kind, via |-> via]

\* A client's packet that needs the agent. A character that waits for the answer
\* to its last move does not ask again.
Ask(c, kind) ==
    /\ Ready /\ Served(c)
    /\ issued < MaxIssued /\ KeyIsFresh
    /\ kind # "login" => client[c].character /\ Flag(kind) \intersect client[c].flags = {}
    /\ AddRequest(table, refs, c, slot, kind)
    /\ UNCHANGED <<main, slot, loggedIn, state, client, asked, answers, popped, waiting, unordered>>

\* The packet is in the link's stream: the key is queued and the flag is set.
Sent ==
    LET m == thread
    IN  /\ m.at = "sending"
        /\ client' = [client EXCEPT ![m.src].keys = Append(@, m.key),
                                    ![m.src].flags = @ \union Flag(m.kind)]
        /\ asked' = asked \union {[m EXCEPT !.at = "asked"]}
        /\ waiting' = IF m.src \in unordered THEN waiting
                      ELSE [waiting EXCEPT ![m.src] = Append(@, m.n)]
        /\ thread' = Idle
        /\ UNCHANGED <<table, counter, main, slot, loggedIn, state, refs, answers, issued,
                       popped, unordered>>

\* Mutant: the key is queued before it is known whether the packet is sent.
SendFailsQueued ==
    LET m == thread
    IN  /\ m.at = "sending"
        /\ refs' = Released({m.key})
        /\ table' = Removed({m.key})
        /\ thread' = Idle
        /\ client' = [client EXCEPT ![m.src].keys = Append(@, m.key)]
        /\ UNCHANGED <<counter, main, slot, loggedIn, state, asked, answers, issued, popped,
                       waiting, unordered>>

\* Mutant: the entry is erased and its references are kept.
SendFailsKept ==
    LET m == thread
    IN  /\ m.at = "sending"
        /\ refs' = refs
        /\ table' = Removed({m.key})
        /\ thread' = Idle
        /\ UNCHANGED <<counter, main, slot, loggedIn, state, client, asked, answers, issued,
                       popped, waiting, unordered>>

\* CDBRequest::CancelRequest; the main thread may have removed the request.
SendFails ==
    LET m == thread
    IN  /\ m.at = "sending"
        /\ refs' = Released({m.key})
        /\ table' = Removed({m.key})
        /\ thread' = Idle
        /\ UNCHANGED <<counter, main, slot, loggedIn, state, client, asked, answers, issued,
                       popped, waiting, unordered>>

-----------------------------------------------------------------------------
(* The agent and its answers.                                                *)

\* The agent answers what it was asked, in any order, or never. A login that it
\* grants is followed by the deposit; it grants none to a user who is in the game
\* or about to be.
AgentAnswers(m) ==
    LET inGame == client[m.src].character
                  \/ \E a \in InFlight : a.src = m.src /\ a.at = "granted"
        Answer(at, kind) == [m EXCEPT !.at = at, !.kind = kind]
    IN  /\ Alive /\ m \in asked /\ state[m.via] = "open"
        /\ asked' = asked \ {m}
        /\ \/ answers' = [answers EXCEPT ![m.via] = Append(@, Answer("refused", m.kind))]
           \/ /\ m.kind # "login" \/ ~inGame
              /\ answers' = [answers EXCEPT ![m.via] =
                     @ \o IF m.kind = "login"
                          THEN <<Answer("granted", "login"), Answer("granted", "deposit")>>
                          ELSE <<Answer("granted", m.kind)>>]
        /\ UNCHANGED <<table, counter, main, slot, loggedIn, state, refs, client, thread,
                       issued, popped, waiting, unordered>>

FirstOf(l) == IF answers[l] = <<>> THEN {} ELSE {Head(answers[l])}

\* l's next packet is m, of one of the kinds given.
Receives(l, m, kinds) ==
    /\ Ready /\ Served(l) /\ m.kind \in kinds
    /\ answers' = [answers EXCEPT ![l] = Tail(@)]
    /\ UNCHANGED <<main, slot, loggedIn, state, asked>>

PopRequestKey(keys) == IF keys = <<>> THEN keys ELSE Tail(keys)

\* The first answer to m takes m out of what its client waits for.
Answered(m) ==
    LET c == m.src
        inOrder == waiting[c] # <<>> /\ Head(waiting[c]) = m.n
    IN  /\ unordered' = IF inOrder THEN unordered ELSE unordered \union {c}
        /\ waiting' = [waiting EXCEPT ![c] = IF inOrder THEN Tail(@) ELSE <<>>]

\* ParseUpdateDBData: the request stays. The character is created if the key is the
\* one the client waits for first, the agent grants the login and nothing else fails.
HandleUpdate(l) == \E m \in FirstOf(l) :
    /\ Receives(l, m, {"login"})
    /\ UNCHANGED <<table, counter, refs, thread, issued, popped>>
    /\ IF ~Pending(m.key) THEN UNCHANGED <<client, waiting, unordered>>
       ELSE LET c == table[m.key].src
                keys == client[c].keys
            IN  /\ Answered(m)
                /\ \/ client' = [client EXCEPT ![c].keys = PopRequestKey(keys)]
                   \/ /\ m.at = "granted"
                      /\ keys # <<>> /\ Head(keys) = m.key
                      /\ client' = [client EXCEPT ![c] =
                                       [NoCharacter EXCEPT !.keys = Tail(keys), !.character = TRUE]]

\* PopRequest and Result's destructor: only the reference to the source is given back.
Popped(m) ==
    /\ Pending(m.key)
    /\ table' = Removed({m.key})
    /\ refs' = [refs EXCEPT ![table[m.key].src] = @ - 1]
    /\ popped' = [popped EXCEPT ![table[m.key].dst] = @ + 1]

\* ParseDepositUpdate, for the last part of the deposit.
HandleDeposit(l) == \E m \in FirstOf(l) :
    /\ Receives(l, m, {"deposit"})
    /\ UNCHANGED <<counter, client, thread, issued, waiting, unordered>>
    /\ IF Pending(m.key) THEN Popped(m) ELSE UNCHANGED <<table, refs, popped>>

\* Mutant: the answer only ends the move when it is not an error.
EndsMoveGranted(m, flags) ==
    IF m.kind = "move" /\ m.at = "granted" THEN flags \ {"MOVEZONE_PROCESSED"} ELSE flags

\* The answer to a move lets the character move again, an error too.
EndsMove(m, flags) == IF m.kind = "move" THEN flags \ {"MOVEZONE_PROCESSED"} ELSE flags

\* ParseAgentZone: the dispatch is used before it is compared with NULL. When a zone
\* is granted the handler makes a request of its own, if it gets a buffer.
HandleZone(l) == \E m \in FirstOf(l) :
    /\ Receives(l, m, {"move", "zone", "zoneend"})
    /\ IF ~Pending(m.key)
       THEN /\ thread' = [Idle EXCEPT !.at = "crashed"]
            /\ UNCHANGED <<table, counter, refs, client, issued, popped, waiting, unordered>>
       ELSE LET c == table[m.key].src
            IN  /\ Answered(m)
                /\ client' = [client EXCEPT ![c].keys = PopRequestKey(@),
                                            ![c].flags = EndsMove(m, @)]
                /\ \/ /\ Popped(m)
                      /\ UNCHANGED <<counter, thread, issued>>
                   \/ /\ m.kind = "zone" /\ m.at = "granted"
                      /\ issued < MaxIssued /\ KeyIsFresh
                      /\ popped' = [popped EXCEPT ![table[m.key].dst] = @ + 1]
                      /\ AddRequest(Removed({m.key}), [refs EXCEPT ![c] = @ - 1], c, l, "zoneend")

-----------------------------------------------------------------------------
(* Time and the end of the server.                                           *)

Remove(K) ==
    /\ refs' = Released(K)
    /\ unordered' = Unordered(K)
    /\ waiting' = Forgotten(Unordered(K))

\* Mutant: the entry is erased and its references are kept.
TickKept ==
    LET over == {k \in Keys : Pending(k) /\ table[k].left = 1}
    IN  /\ Ready
        /\ table' = [k \in Keys |-> IF Pending(k) /\ k \notin over
                                    THEN [table[k] EXCEPT !.left = @ - 1] ELSE Free]
        /\ unordered' = Unordered(over)
        /\ waiting' = Forgotten(Unordered(over))
        /\ refs' = refs
        /\ UNCHANGED <<counter, main, slot, loggedIn, state, client, thread, asked, answers,
                       issued, popped>>

\* Mutant: the time is counted down in a copy of the entry.
TickCopied ==
    LET over == {k \in Keys : Pending(k) /\ table[k].left = 1}
    IN  /\ Ready
        /\ table' = [k \in Keys |-> IF k \in over THEN Free ELSE table[k]]
        /\ Remove(over)
        /\ UNCHANGED <<counter, main, slot, loggedIn, state, client, thread, asked, answers,
                       issued, popped>>

\* RemoveTimeoutRequest, once a second. No caller has a callback for a timeout.
Tick ==
    LET over == {k \in Keys : Pending(k) /\ table[k].left = 1}
    IN  /\ Ready
        /\ table' = [k \in Keys |-> IF Pending(k) /\ k \notin over
                                    THEN [table[k] EXCEPT !.left = @ - 1] ELSE Free]
        /\ Remove(over)
        /\ UNCHANGED <<counter, main, slot, loggedIn, state, client, thread, asked, answers,
                       issued, popped>>

\* The main thread, before it stops the process thread.
RequestOff ==
    /\ Alive /\ main = "running"
    /\ main' = "off"
    /\ UNCHANGED <<table, counter, slot, loggedIn, state, refs, client, thread, asked,
                   answers, issued, popped, waiting, unordered>>

RemoveAllRequest ==
    /\ Alive /\ main = "off"
    /\ main' = "removed"
    /\ table' = [k \in Keys |-> Free]
    /\ Remove({k \in Keys : Pending(k)})
    /\ UNCHANGED <<counter, slot, loggedIn, state, client, thread, asked, answers, issued, popped>>

-----------------------------------------------------------------------------
(* Sessions.                                                                 *)

\* ParseSysServerLogin and CSingleDispatch::SetDispatch.
ServerLogin(l) ==
    /\ Ready /\ Served(l) /\ l \notin loggedIn
    /\ loggedIn' = loggedIn \union {l}
    /\ slot' = l
    /\ state' = [d \in Dispatches |->
                    IF d = slot /\ state[d] = "open" THEN "closed" ELSE state[d]]
    /\ refs' = [d \in Dispatches |-> IF d = slot THEN refs[d] - 1
                                     ELSE IF d = l THEN refs[d] + 1 ELSE refs[d]]
    /\ UNCHANGED <<table, counter, main, client, thread, asked, answers, issued, popped,
                   waiting, unordered>>

CloseSession(d) ==
    /\ Alive /\ state[d] = "open"
    /\ state' = [state EXCEPT ![d] = "closed"]
    /\ UNCHANGED <<table, counter, main, slot, loggedIn, refs, client, thread, asked,
                   answers, issued, popped, waiting, unordered>>

\* ParseCharLogout: the character lets its dispatch go and disconnects it, unless it
\* has moved to another zone.
Logout(c) ==
    /\ Ready /\ Served(c) /\ client[c].character
    /\ client' = [client EXCEPT ![c].character = FALSE, ![c].flags = {}]
    /\ state' \in {state, [state EXCEPT ![c] = "closed"]}
    /\ UNCHANGED <<table, counter, main, slot, loggedIn, refs, thread, asked, answers,
                   issued, popped, waiting, unordered>>

\* Mutant: the link stays in the slot without a reference.
DisconnectedLinkStays(d) ==
    /\ Ready /\ state[d] = "closed"
    /\ state' = [state EXCEPT ![d] = "gone"]
    /\ IF d = slot THEN slot' = slot /\ refs' = [refs EXCEPT ![d] = @ - 1]
                   ELSE slot' = slot /\ refs' = refs
    /\ client' = [c \in Clients |-> IF c = d
                     THEN [NoCharacter EXCEPT !.keys = client[c].keys] ELSE client[c]]
    /\ answers' = [l \in Links |-> IF l = d THEN <<>> ELSE answers[l]]
    /\ asked' = {m \in asked : m.via # d}
    /\ UNCHANGED <<table, counter, main, loggedIn, thread, issued, popped, waiting, unordered>>

\* Mutant: the slot's reference is given back by a link that is no longer in it.
DisconnectedReleases(d) ==
    /\ Ready /\ state[d] = "closed"
    /\ state' = [state EXCEPT ![d] = "gone"]
    /\ slot' = IF d = slot THEN None ELSE slot
    /\ refs' = IF d \in Links THEN [refs EXCEPT ![d] = @ - 1] ELSE refs
    /\ client' = [c \in Clients |-> IF c = d
                     THEN [NoCharacter EXCEPT !.keys = client[c].keys] ELSE client[c]]
    /\ answers' = [l \in Links |-> IF l = d THEN <<>> ELSE answers[l]]
    /\ asked' = {m \in asked : m.via # d}
    /\ UNCHANGED <<table, counter, main, loggedIn, thread, issued, popped, waiting, unordered>>

\* CSession::Process calls Disconnected: a link leaves the slot, a client's character
\* lets go. What the link still held is never handled.
Disconnected(d) ==
    /\ Ready /\ state[d] = "closed"
    /\ state' = [state EXCEPT ![d] = "gone"]
    /\ IF d = slot THEN slot' = None /\ refs' = [refs EXCEPT ![d] = @ - 1]
                   ELSE slot' = slot /\ refs' = refs
    /\ client' = [c \in Clients |-> IF c = d
                     THEN [NoCharacter EXCEPT !.keys = client[c].keys] ELSE client[c]]
    /\ answers' = [l \in Links |-> IF l = d THEN <<>> ELSE answers[l]]
    /\ asked' = {m \in asked : m.via # d}
    /\ UNCHANGED <<table, counter, main, loggedIn, thread, issued, popped, waiting, unordered>>

\* The session is deleted, and the client's dispatch with it.
Eliminate(d) ==
    /\ Ready /\ state[d] = "gone" /\ refs[d] = 0
    /\ state' = [state EXCEPT ![d] = "freed"]
    /\ client' = [c \in Clients |-> IF c = d THEN NoCharacter ELSE client[c]]
    /\ waiting' = [c \in Clients |-> IF c = d THEN <<>> ELSE waiting[c]]
    /\ UNCHANGED <<table, counter, main, slot, loggedIn, refs, thread, asked, answers,
                   issued, popped, unordered>>

-----------------------------------------------------------------------------
Init ==
    /\ table = [k \in Keys |-> Free]
    /\ counter = 0 /\ main = "running"
    /\ slot = None /\ loggedIn = {}
    /\ state = [d \in Dispatches |-> "open"]
    /\ refs = [d \in Dispatches |-> 0]
    /\ client = [c \in Clients |-> NoCharacter]
    /\ thread = Idle
    /\ asked = {} /\ answers = [l \in Links |-> <<>>]
    /\ issued = 0 /\ popped = [l \in Links |-> 0]
    /\ waiting = [c \in Clients |-> <<>>] /\ unordered = {}

ClientStep(c) == Logout(c) \/ \E kind \in {"login", "move", "zone"} : Ask(c, kind)
LinkStep(l) == ServerLogin(l) \/ HandleUpdate(l) \/ HandleDeposit(l) \/ HandleZone(l)
SessionStep(d) == CloseSession(d) \/ Disconnected(d) \/ Eliminate(d)

Next ==
    \/ \E c \in Clients : ClientStep(c)
    \/ \E l \in Links : LinkStep(l)
    \/ \E d \in Dispatches : SessionStep(d)
    \/ \E m \in asked : AgentAnswers(m)
    \/ Sent \/ SendFails \/ Tick \/ RequestOff \/ RemoveAllRequest

Spec == Init /\ [][Next]_vars

\* The process thread finishes its handlers, visits every session in each pass and
\* counts the time down every second, until the main thread ends the server. Nothing
\* is assumed of clients and agents.
Running == Alive /\ main = "running"

LiveSpec ==
    /\ Spec
    /\ WF_vars(Running /\ (Sent \/ SendFails))
    /\ WF_vars(Running /\ Tick)
    /\ \A d \in Dispatches :
          WF_vars(Running /\ Disconnected(d)) /\ WF_vars(Running /\ Eliminate(d))

-----------------------------------------------------------------------------
Message ==
    [at : {"idle", "sending", "crashed", "asked", "granted", "refused"}, key : Keys,
     src : Clients \union {None}, n : Nat, kind : Kinds, via : Links \union {None}]

TypeOK ==
    /\ table \in [Keys -> Entry] /\ table[0] = Free
    /\ counter \in Keys /\ main \in {"running", "off", "removed"}
    /\ slot \in Links \union {None} /\ loggedIn \subseteq Links
    /\ state \in [Dispatches -> {"open", "closed", "gone", "freed"}]
    /\ refs \in [Dispatches -> Nat]
    /\ client \in [Clients -> [keys : Seq(Keys), character : BOOLEAN,
                               flags : SUBSET {"MOVEZONE_PROCESSED", "SERVERZONE_PROCESSED"}]]
    /\ thread \in Message /\ asked \subseteq Message /\ answers \in [Links -> Seq(Message)]
    /\ issued \in 0 .. MaxIssued /\ popped \in [Links -> Nat]
    /\ waiting \in [Clients -> Seq(Nat)] /\ unordered \subseteq Clients

Requests(d) == Cardinality({k \in Keys : Pending(k) /\ d \in {table[k].src, table[k].dst}})

\* The reference count of a session is what the table and the slot hold of it, plus,
\* for a link, one for every answered request: PopRequest does not give it back.
RefsAccounted ==
    /\ \A c \in Clients : refs[c] = Requests(c)
    /\ \A l \in Links : refs[l] = Requests(l) + popped[l] + IF l = slot THEN 1 ELSE 0

\* Neither the table, the slot, a half-made request nor a character in the game points
\* to a session that was deleted: answers come, requests end and links are replaced at
\* any time, and only the counts tell.
NoDangling ==
    \A d \in Dispatches : state[d] = "freed" =>
        /\ slot # d
        /\ thread.src # d
        /\ \A k \in Keys : Pending(k) => d \notin {table[k].src, table[k].dst}
        /\ d \in Clients => ~client[d].character

\* An answer finds the request it is the answer to or none, although the main thread,
\* the time and the links take requests away under it and the keys come round.
AnswerFindsItsRequest ==
    \A m \in InFlight : Pending(m.key) => table[m.key].n = m.n /\ table[m.key].src = m.src

\* As long as no request of a client was lost and its answers come in order, the keys
\* it has queued are those of its open requests in the order of asking: no login is
\* refused because the keys differ.
KeysInStep ==
    \A c \in Clients \ unordered :
        LET keys == client[c].keys
        IN  /\ Len(keys) = Len(waiting[c])
            /\ \A i \in 1 .. Len(keys) :
                  table[keys[i]].src = c /\ table[keys[i]].n = waiting[c][i]

\* Nothing is left in the table, or comes into it, once the main thread has emptied it.
EmptyAfterRemoveAll == main = "removed" => \A k \in Keys : ~Pending(k)

\* A character that may not ask for a zone again has a request to wait for, or one that
\* has been lost: the flag is not kept by an answer of any kind.
MoveEndsWithAnswer ==
    \A c \in Clients \ unordered : "MOVEZONE_PROCESSED" \in client[c].flags => waiting[c] # <<>>

\* Every request leaves the table in the end, answered or not.
RequestsEnd == \A k \in Keys : Pending(k) ~> (~Pending(k) \/ ~Running)

\* A client whose session was closed is deleted in the end, whatever it has asked.
ClosedClientEnds == \A c \in Clients : state[c] = "closed" ~> (state[c] = "freed" \/ ~Running)

\* The comment at DBAgentPacketParse.cpp:1041: a move that ends with an error lets the
\* character move again too, or it could not move until it logs out.
MoveIsPending ==
    main = "running" => \A c \in Clients : "MOVEZONE_PROCESSED" \in client[c].flags =>
        \E k \in Keys : Pending(k) /\ table[k].src = c

\* The check and log at DBAgentPacketParse.cpp:1027: an answer whose client is not found
\* is logged.
UnknownAnswerIsLogged == Alive
=============================================================================
