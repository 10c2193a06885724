----------------------------- MODULE UserSession -----------------------------
(***************************************************************************)
(* The session of one user account at the DB agent (CSessionData in        *)
(* CSessionDataMgr), and the servers that share it: the auth server, where *)
(* a login starts and a character is selected, the game servers that the   *)
(* login moves on to, and the UID server, which the agent asks before each *)
(* step. A session has one owner at a time. Who that is changes with       *)
(* messages on three kinds of links, and two logins of the same account    *)
(* may be under way at once, with a third that asks for the others' end.   *)
(*                                                                         *)
(* Every handler of the agent runs on its process thread and is one step,  *)
(* and so is each of the servers'. The messages of a link stay in order;   *)
(* those of different links do not, and a link that is lost loses its own. *)
(***************************************************************************)
EXTENDS Naturals, Sequences, FiniteSets

CONSTANTS
    Logins,      \* logins of the account, each with a session id of its own
    Chars,       \* its characters
    Games,       \* game servers
    None,        \* no login, no character, no server, no session
    MaxMoves,    \* bound: moves between game servers
    MaxCuts,     \* bound: links that are lost
    MaxFailures  \* bound: reads and writes of data that fail

ASSUME SessionAssumption ==
    /\ {MaxMoves, MaxCuts, MaxFailures} \subseteq Nat
    /\ IsFiniteSet(Logins) /\ IsFiniteSet(Chars) /\ IsFiniteSet(Games)
    /\ None \notin Logins \union Chars \union Games
    /\ Games \intersect {"auth", "uid"} = {} /\ "store" \notin Chars

Servers == Games \union {"auth"}

VARIABLES
    \* The agent.
    session,    \* the entry of m_uidMap for the account
    loaded,     \* data in the login maps of the data managers: the store, characters
    cids,       \* m_cidMap: characters with an entry
    \* The links: those of the agent that are up, and what is on its way.
    up, toAgent, toServer,
    asked,      \* what the UID server has still to answer
    \* The other servers.
    table,      \* the auth server's dispatch of the user id
    stage,      \* where each login is, as the servers it is connected to know it
    at,         \* the server each login is at, or is sent to
    char,       \* the character each login has chosen
    shut,       \* logins that a server has cut off and whose end it has not handled
    \* History and bounds.
    closed,     \* logins whose session the agent ended itself
    mispaired,  \* an answer of the UID server was taken for another request
    moves, cuts, failures

agent == <<session, loaded, cids, failures, closed>>
links == <<up, toAgent, toServer, asked>>
clients == <<stage, at, char, shut>>
vars == <<agent, links, table, clients, mispaired, moves, cuts>>

-----------------------------------------------------------------------------
(* CSessionData.                                                             *)

Request == [login : Logins, char : Chars \union {None}, server : Servers]

Session ==
    [state : {"none", "user", "userDisabled", "move", "char", "charDisabled"},
     sid : Logins \union {None}, server : Servers \union {None},
     store : BOOLEAN, char : Chars \union {None}, cid : Chars \union {None},
     requests : Seq(Request)]

ASSUME NoSession == None \notin Session

NewSession ==
    [state |-> "none", sid |-> None, server |-> None, store |-> FALSE,
     char |-> None, cid |-> None, requests |-> <<>>]

Enabled(s) == s # None /\ s.state \in {"user", "char"}

Held(s) ==
    IF s = None THEN {}
    ELSE {d \in {"store"} : s.store} \union {c \in Chars : c = s.char}

\* The agent's state as a value, and the step to it. A failure is counted.
Agent == [session |-> session, loaded |-> loaded, cids |-> cids]

Becomes(a, failed) ==
    /\ session' = a.session /\ loaded' = a.loaded /\ cids' = a.cids
    /\ failed => failures < MaxFailures
    /\ failures' = IF failed THEN failures + 1 ELSE failures

\* The session loses its data whether the writes succeed or not. The character's
\* entry in the map is removed if they do.
UnloadData(a, bad) ==
    [session |-> [a.session EXCEPT !.store = FALSE, !.char = None, !.cid = None],
     loaded |-> a.loaded \ Held(a.session),
     cids |-> IF "write" \in bad \/ a.session.char = None
              THEN a.cids ELSE a.cids \ {a.session.cid}]

AddCharLoadedSession(ids, c) == ids \union {c}

\* What is there already is kept, another character is given back first. If one of
\* the two reads fails the other's data is given back: with the old m_dwCID.
LoadData(a, c, bad) ==
    LET s == a.session
        others == a.loaded \ Held(s)
        new == s.char # c
        StoreOK == s.store \/ ("store" \notin bad /\ "store" \notin others)
        CharOK == ~new \/ ("char" \notin bad /\ c \notin others)
        Removed(from) == IF "write" \in bad THEN from ELSE from \ {s.cid}
        before == IF new /\ s.char # None THEN Removed(a.cids) ELSE a.cids
        with == IF new /\ CharOK THEN AddCharLoadedSession(before, c) ELSE before
    IN  IF StoreOK /\ CharOK
        THEN [session |-> [s EXCEPT !.store = TRUE, !.char = c, !.cid = c],
              loaded |-> others \union {"store", c}, cids |-> with]
        ELSE [session |-> [s EXCEPT !.store = FALSE, !.char = None],
              loaded |-> others, cids |-> IF CharOK THEN Removed(with) ELSE with]

HasLoaded(a, c) == a.session.store /\ a.session.char = c

\* Mutant: whatever the state.
UserEnableAlways(s) == TRUE

UserEnable(s) == ~Enabled(s)

SetState(a, state) == [a EXCEPT !.session.state = state]

UserDisable(a, bad) == UnloadData(SetState(a, "userDisabled"), bad)

UserMove(a, bad) == UnloadData(SetState(a, "move"), bad)

\* CharDisable and CharMove, for the character and the server of the session.
CharLeaves(a, state, bad) ==
    [UnloadData(SetState(a, state), bad) EXCEPT !.session.server = None]

SetRequestData(a, r) ==
    [a EXCEPT !.session.sid = r.login, !.session.server = r.server]

-----------------------------------------------------------------------------
(* CSessionDataMgr.                                                          *)

SessionClose(a) == [a EXCEPT !.session = None]

\* Mutant: the session of a player in the game is deleted as it is.
SessionCloseWithLogoutOfUser(a, bad) ==
    SessionClose(IF a.session.state = "user" THEN UserDisable(a, bad) ELSE a)

\* Ends a session without its owner.
SessionCloseWithLogout(a, bad) ==
    SessionClose(CASE a.session.state = "user" -> UserDisable(a, bad)
                   [] a.session.state = "char" -> CharLeaves(a, "charDisabled", bad)
                   [] OTHER -> a)

Closes(a, bad) ==
    /\ Becomes(SessionCloseWithLogout(a, bad), bad # {})
    /\ closed' = closed \union {l \in Logins : l = a.session.sid}

-----------------------------------------------------------------------------
(* Links.                                                                    *)

Msg(do, l, c) == [do |-> do, login |-> l, char |-> c]

\* What is sent on a link that is down is lost.
Sent(queues, s, m) ==
    IF s \in up THEN [queues EXCEPT ![s] = Append(@, m)] ELSE queues

ToAgent(s, m) == toAgent' = Sent(toAgent, s, m)

\* The next message of s to the agent is m, and the answer, if any, goes to s.
Reads(s, m) == toAgent[s] # <<>> /\ m = Head(toAgent[s]) /\ toAgent' = [toAgent EXCEPT ![s] = Tail(@)]
Replies(s, m) == toServer' = Sent(toServer, s, m)
SaysNothing == UNCHANGED toServer

Hears(s, m) == toServer[s] # <<>> /\ m = Head(toServer[s]) /\ toServer' = [toServer EXCEPT ![s] = Tail(@)]

-----------------------------------------------------------------------------
(* The agent's handlers. bad: which reads and writes of data fail.           *)

\* The UID server is asked for r, or, if it is not there, r is refused. What is
\* taken back then is the first request of the queue.
Asks(s, r) ==
    LET queue == Append(s.requests, r)
    IN  IF "uid" \in up
        THEN /\ session' = [s EXCEPT !.requests = queue]
             /\ asked' = Append(asked, r)
             /\ SaysNothing
        ELSE /\ session' = [s EXCEPT !.requests = Tail(queue)]
             /\ asked' = asked
             /\ Replies(r.server, Msg("refused", r.login, None))

\* A login while the account is logged in is refused. If it asks for the other's end
\* (kill) the server that has the session is told.
StartSession(m) ==
    /\ Reads("auth", m)
    /\ m.do \in {"start", "startKill"}
    /\ IF Enabled(session)
       THEN /\ LET killed == IF m.do = "startKill"
                             THEN Sent(toServer, session.server, Msg("kill", None, session.cid))
                             ELSE toServer
               IN  toServer' = Sent(killed, "auth", Msg("refused", m.login, None))
            /\ UNCHANGED <<session, asked>>
       ELSE Asks(IF session = None THEN NewSession ELSE session,
                 [login |-> m.login, char |-> None, server |-> "auth"])
    /\ UNCHANGED <<loaded, cids, failures, closed, up>>

Owns(l) == session # None /\ session.sid = l

UserLogout(m, bad) ==
    /\ Reads("auth", m) /\ m.do = "logout"
    /\ IF Owns(m.login) /\ session.state \in {"user", "move"}
       THEN Becomes(UserDisable(Agent, bad), bad # {})
       ELSE UNCHANGED <<session, loaded, cids, failures>>
    /\ SaysNothing /\ UNCHANGED <<closed, up, asked>>

UserMoves(m, bad) ==
    /\ Reads("auth", m) /\ m.do = "move"
    /\ IF Owns(m.login) /\ session.state = "user"
       THEN Becomes(UserMove(Agent, bad), bad # {})
       ELSE UNCHANGED <<session, loaded, cids, failures>>
    /\ SaysNothing /\ UNCHANGED <<closed, up, asked>>

\* Mutant: the data stays loaded.
SelectsLoaded(a, c, bad) == LoadData(a, c, bad)

\* The data is read for a look at it.
Selects(a, c, bad) ==
    LET b == LoadData(a, c, bad)
    IN  IF HasLoaded(b, c) THEN UnloadData(b, bad) ELSE b

\* Neither the login nor the state of the session is looked at. The account's
\* characters are known once it has been enabled.
CharSelect(m, bad) ==
    /\ Reads("auth", m) /\ m.do = "select"
    /\ LET known == session # None /\ session.state # "none"
       IN  /\ IF known THEN Becomes(Selects(Agent, m.char, bad), bad # {})
              ELSE UNCHANGED <<session, loaded, cids, failures>>
           /\ Replies("auth", Msg(IF known /\ HasLoaded(LoadData(Agent, m.char, bad), m.char)
                                  THEN "selected" ELSE "notSelected", m.login, m.char))
    /\ UNCHANGED <<closed, up, asked>>

CharLogin(g, m) ==
    /\ Reads(g, m) /\ m.do = "enter"
    /\ IF Owns(m.login) /\ ~Enabled(session)
       THEN Asks(session, [login |-> m.login, char |-> m.char, server |-> g])
       ELSE Replies(g, Msg("refused", m.login, None)) /\ UNCHANGED <<session, asked>>
    /\ UNCHANGED <<loaded, cids, failures, closed, up>>

\* The character c of the login l plays on g, as the session has it.
Plays(g, l, c) ==
    /\ Owns(l) /\ session.state = "char" /\ session.server = g
    /\ session.char = c /\ session.cid = c

\* CharLogout, and the same for an abnormal one.
CharLogout(g, m, bad) ==
    /\ Reads(g, m) /\ m.do = "leave"
    /\ IF Plays(g, m.login, m.char)
       THEN Becomes(SessionClose(CharLeaves(Agent, "charDisabled", bad)), bad # {})
       ELSE UNCHANGED <<session, loaded, cids, failures>>
    /\ SaysNothing /\ UNCHANGED <<closed, up, asked>>

CharMoveZone(g, m, bad) ==
    /\ Reads(g, m) /\ m.do = "zone"
    /\ IF Plays(g, m.login, m.char)
       THEN Becomes(CharLeaves(Agent, "move", bad), bad # {})
       ELSE UNCHANGED <<session, loaded, cids, failures>>
    /\ SaysNothing /\ UNCHANGED <<closed, up, asked>>

\* The request is sent back.
ServerZoneEnd(s, m) ==
    /\ Reads(s, m) /\ m.do = "zoneEnd"
    /\ Replies(s, m)
    /\ UNCHANGED <<agent, up, asked>>

\* The server does not know the user it was to cut off.
UserKillAck(s, m, bad) ==
    /\ Reads(s, m) /\ m.do = "killFailed"
    /\ IF /\ session # None /\ session.server = s
          /\ session.state = IF s = "auth" THEN "user" ELSE "char"
       THEN Closes(Agent, bad)
       ELSE UNCHANGED agent
    /\ SaysNothing /\ UNCHANGED <<up, asked>>

Fails == SUBSET {"store", "char", "write"}

AgentReceives(s) ==
    /\ \E m \in {toAgent[s][i] : i \in {1} \intersect DOMAIN toAgent[s]} :
          \/ s = "auth" /\ StartSession(m)
          \/ s # "auth" /\ CharLogin(s, m)
          \/ ServerZoneEnd(s, m)
          \/ \E bad \in Fails :
                \/ s = "auth" /\ (UserLogout(m, bad) \/ UserMoves(m, bad) \/ CharSelect(m, bad))
                \/ s # "auth" /\ (CharLogout(s, m, bad) \/ CharMoveZone(s, m, bad))
                \/ UserKillAck(s, m, bad)
    /\ UNCHANGED <<table, clients, mispaired, moves, cuts>>

\* The answer of the UID server has the user id, the kind of the request and the
\* verdict: it is taken for the first request of the queue. A request that came from
\* another server has a key that the auth server does not know.
AnswersUser(a, r, granted) ==
    LET says(do) == IF r.char = None THEN Replies("auth", Msg(do, r.login, None)) ELSE SaysNothing
    IN  IF "auth" \notin up THEN Becomes(a, FALSE) /\ SaysNothing
        ELSE IF granted /\ UserEnable(a.session)
        THEN Becomes(SetRequestData(SetState(a, "user"), r), FALSE) /\ says("granted")
        ELSE Becomes(a, FALSE) /\ says("refused")

\* CharEnable, for a character of the account.
AnswersChar(a, r, granted, bad) ==
    LET b == LoadData(a, r.char, bad)
    IN  IF r.server \notin Games \intersect up \/ a.session.state = "none"
        THEN Becomes(a, FALSE) /\ SaysNothing
        ELSE IF granted /\ ~Enabled(a.session)
        THEN IF HasLoaded(b, r.char)
             THEN /\ Becomes(SetRequestData(SetState(b, "char"), r), bad # {})
                  /\ Replies(r.server, Msg("entered", r.login, r.char))
             ELSE Becomes(b, bad # {}) /\ Replies(r.server, Msg("refused", r.login, None))
        ELSE Becomes(a, FALSE) /\ Replies(r.server, Msg("refused", r.login, None))

\* An answer for a session that is gone, or has no request, is dropped.
UidAnswers ==
    /\ asked # <<>>
    /\ asked' = Tail(asked)
    /\ IF session = None \/ session.requests = <<>>
       THEN UNCHANGED <<session, loaded, cids, failures, toServer, mispaired>>
       ELSE LET r == Head(session.requests)
                a == [Agent EXCEPT !.session.requests = Tail(@)]
            IN  /\ mispaired' = (mispaired \/ r # Head(asked))
                /\ \E granted \in BOOLEAN :
                      IF Head(asked).char = None THEN AnswersUser(a, r, granted)
                      ELSE \E bad \in Fails : AnswersChar(a, r, granted, bad)
    /\ UNCHANGED <<closed, up, toAgent, table, clients, moves, cuts>>

\* A server that is lost takes its session with it, requests to the UID server stay
\* in the queue.
LinkLost(s) ==
    /\ s \in up /\ cuts < MaxCuts
    /\ up' = up \ {s} /\ cuts' = cuts + 1
    /\ IF s = "uid" THEN asked' = <<>> /\ UNCHANGED <<toAgent, toServer>>
       ELSE /\ toAgent' = [toAgent EXCEPT ![s] = <<>>]
            /\ toServer' = [toServer EXCEPT ![s] = <<>>]
            /\ asked' = asked
    /\ IF session # None /\ session.server = s
       THEN \E bad \in Fails : Closes(Agent, bad)
       ELSE UNCHANGED agent
    /\ UNCHANGED <<table, clients, mispaired, moves>>

LinkUp(s) ==
    /\ s \notin up
    /\ up' = up \union {s}
    /\ UNCHANGED <<agent, toAgent, toServer, asked, table, clients, mispaired, moves, cuts>>

-----------------------------------------------------------------------------
(* The auth server.                                                          *)

GoesTo(l, st) == stage' = [stage EXCEPT ![l] = st]

\* A client has been authorised. It may ask for the end of another login.
Start(l) ==
    /\ stage[l] = "new" /\ "auth" \in up
    /\ GoesTo(l, "starting")
    /\ \E do \in {"start", "startKill"} : ToAgent("auth", Msg(do, l, None))
    /\ UNCHANGED <<agent, up, toServer, asked, table, at, char, shut, mispaired, moves, cuts>>

\* A login that has left and one whose request has timed out are told apart: the
\* dispatch of the first is still there when the answer comes and logs out then. A
\* user id that is in the table already is not set again, and what is not in the
\* table does not log out.
Granted(l) ==
    CASE stage[l] = "starting" ->
            /\ GoesTo(l, "auth")
            /\ table' = IF table = None THEN l ELSE table
            /\ UNCHANGED toAgent
      [] stage[l] = "left" ->
            /\ GoesTo(l, "over")
            /\ IF table = None THEN ToAgent("auth", Msg("logout", l, None)) ELSE UNCHANGED toAgent
            /\ UNCHANGED table
      [] OTHER -> UNCHANGED <<stage, table, toAgent>>

\* The answer is for a login at the stage from, and sends it on.
Answers(l, from, st) ==
    /\ IF stage[l] \in from THEN GoesTo(l, st) ELSE UNCHANGED stage
    /\ UNCHANGED <<table, toAgent>>

\* Mutant: a user who is not there is no matter.
ParseUserKillSilent == UNCHANGED toAgent

\* The agent is told if there is nobody to cut off.
ParseUserKill ==
    IF table = None THEN ToAgent("auth", Msg("killFailed", None, None)) ELSE UNCHANGED toAgent

AuthReceives ==
    \E m \in {toServer["auth"][i] : i \in {1} \intersect DOMAIN toServer["auth"]} :
        /\ Hears("auth", m)
        /\ \/ m.do = "granted" /\ Granted(m.login)
           \/ m.do = "refused" /\ Answers(m.login, {"starting", "left"}, "over")
           \/ m.do = "selected" /\ Answers(m.login, {"selecting"}, "selected")
           \/ m.do = "notSelected" /\ Answers(m.login, {"selecting"}, "auth")
           \/ m.do = "zoneEnd" /\ Answers(m.login, {"moving"}, "moved")
           \/ m.do = "kill" /\ ParseUserKill /\ UNCHANGED <<stage, table>>
        /\ shut' = IF m.do = "kill" THEN shut \union ({table} \ {None}) ELSE shut
        /\ UNCHANGED <<agent, up, asked, at, char, mispaired, moves, cuts>>

Select(l, c) ==
    /\ stage[l] = "auth" /\ "auth" \in up
    /\ GoesTo(l, "selecting")
    /\ char' = [char EXCEPT ![l] = c]
    /\ ToAgent("auth", Msg("select", l, c))
    /\ UNCHANGED <<agent, up, toServer, asked, table, at, shut, mispaired, moves, cuts>>

\* Mutant: the client is told at once where to go.
MovesAtOnce(l, s, m) ==
    /\ GoesTo(l, "moved")
    /\ toAgent' = Sent(toAgent, s, m)

\* The login leaves s: the agent is told with m, and the client once the agent has
\* sent back what was sent after m.
Moves(l, s, m) ==
    /\ GoesTo(l, "moving")
    /\ toAgent' = Sent(Sent(toAgent, s, m), s, Msg("zoneEnd", l, None))

\* The client goes on to a game server. A dispatch that is not in the table does not
\* tell the agent of it.
Move(l, g) ==
    /\ stage[l] = "selected" /\ "auth" \in up
    /\ IF table = l
       THEN table' = None /\ Moves(l, "auth", Msg("move", l, None))
       ELSE UNCHANGED table /\ GoesTo(l, "moving") /\ ToAgent("auth", Msg("zoneEnd", l, None))
    /\ at' = [at EXCEPT ![l] = g]
    /\ UNCHANGED <<agent, up, toServer, asked, char, shut, mispaired, moves, cuts>>

-----------------------------------------------------------------------------
(* The game servers.                                                         *)

Players(g, c) == {l \in Logins : stage[l] \in {"game", "leaving"} /\ at[l] = g /\ char[l] = c}

\* A character that is on the server already is refused there.
Enter(l) ==
    /\ stage[l] = "moved" /\ at[l] \in up
    /\ IF Players(at[l], char[l]) = {}
       THEN GoesTo(l, "entering") /\ ToAgent(at[l], Msg("enter", l, char[l]))
       ELSE GoesTo(l, "over") /\ UNCHANGED toAgent
    /\ UNCHANGED <<agent, up, toServer, asked, table, at, char, shut, mispaired, moves, cuts>>

\* An answer whose request is gone, or whose character is there already, is undone.
Entered(g, l, c) ==
    IF stage[l] = "entering" /\ Players(g, c) = {}
    THEN GoesTo(l, "game") /\ UNCHANGED toAgent
    ELSE /\ GoesTo(l, "over")
         /\ ToAgent(g, Msg("leave", l, c))

Kill(g, c) ==
    IF Players(g, c) = {} THEN ToAgent(g, Msg("killFailed", None, None)) ELSE UNCHANGED toAgent

GameReceives(g) ==
    \E m \in {toServer[g][i] : i \in {1} \intersect DOMAIN toServer[g]} :
        /\ Hears(g, m)
        /\ \/ m.do = "entered" /\ Entered(g, m.login, m.char)
           \/ m.do = "refused" /\ Answers(m.login, {"entering", "gone"}, "over")
           \/ m.do = "zoneEnd" /\ Answers(m.login, {"moving"}, "moved")
           \/ m.do = "kill" /\ Kill(g, m.char) /\ UNCHANGED stage
        /\ shut' = IF m.do = "kill" THEN shut \union {l \in Players(g, m.char) : stage[l] = "game"} ELSE shut
        /\ UNCHANGED <<agent, up, asked, table, at, char, mispaired, moves, cuts>>

MoveZone(l, g) ==
    /\ stage[l] = "game" /\ at[l] # g /\ at[l] \in up /\ moves < MaxMoves
    /\ moves' = moves + 1
    /\ Moves(l, at[l], Msg("zone", l, char[l]))
    /\ at' = [at EXCEPT ![l] = g]
    /\ UNCHANGED <<agent, up, toServer, asked, table, char, shut, mispaired, cuts>>

\* The character of a client that has left logs out a little later.
LeavesGame(l) ==
    /\ stage[l] = "leaving"
    /\ GoesTo(l, "over")
    /\ ToAgent(at[l], Msg("leave", l, char[l]))
    /\ UNCHANGED <<agent, up, toServer, asked, table, at, char, shut, mispaired, moves, cuts>>

-----------------------------------------------------------------------------
(* The clients.                                                              *)

Waits == {"new", "over", "left", "gone", "leaving"}

ClientLeaves(l) ==
    /\ stage[l] \notin Waits
    /\ GoesTo(l, CASE stage[l] = "starting" -> "left"
                   [] stage[l] = "entering" -> "gone"
                   [] stage[l] = "game" -> "leaving"
                   [] OTHER -> "over")
    /\ IF table = l THEN table' = None /\ ToAgent("auth", Msg("logout", l, None))
       ELSE UNCHANGED <<table, toAgent>>
    /\ shut' = shut \ {l}
    /\ UNCHANGED <<agent, up, toServer, asked, at, char, mispaired, moves, cuts>>

\* The request of a login has been out for too long.
TimesOut(l) ==
    /\ stage[l] \in {"starting", "left"}
    /\ GoesTo(l, "over")
    /\ UNCHANGED <<agent, links, table, at, char, shut, mispaired, moves, cuts>>

-----------------------------------------------------------------------------
Init ==
    /\ session = None /\ loaded = {} /\ cids = {}
    /\ up = Servers \union {"uid"} /\ asked = <<>>
    /\ toAgent = [s \in Servers |-> <<>>] /\ toServer = [s \in Servers |-> <<>>]
    /\ table = None
    /\ stage = [l \in Logins |-> "new"] /\ at = [l \in Logins |-> "auth"]
    /\ char = [l \in Logins |-> None] /\ shut = {}
    /\ closed = {} /\ mispaired = FALSE
    /\ moves = 0 /\ cuts = 0 /\ failures = 0

Next ==
    \/ \E s \in Servers : AgentReceives(s)
    \/ UidAnswers
    \/ \E s \in Servers \union {"uid"} : LinkLost(s) \/ LinkUp(s)
    \/ AuthReceives
    \/ \E g \in Games : GameReceives(g)
    \/ \E l \in Logins :
          \/ Start(l) \/ Enter(l) \/ LeavesGame(l) \/ ClientLeaves(l) \/ TimesOut(l)
          \/ \E c \in Chars : Select(l, c)
          \/ \E g \in Games : Move(l, g) \/ MoveZone(l, g)

Spec == Init /\ [][Next]_vars

\* Messages of a link that is up arrive and are handled, a connection that has been
\* cut off ends, a character whose client has left logs out.
LiveSpec ==
    /\ Spec
    /\ \A s \in Servers : WF_vars(AgentReceives(s))
    /\ WF_vars(AuthReceives) /\ \A g \in Games : WF_vars(GameReceives(g))
    /\ \A l \in Logins : WF_vars(l \in shut /\ ClientLeaves(l)) /\ WF_vars(LeavesGame(l))

-----------------------------------------------------------------------------
Messages ==
    [do : {"start", "startKill", "logout", "select", "move", "enter", "leave", "zone",
           "zoneEnd", "kill", "killFailed", "granted", "refused", "selected",
           "notSelected", "entered"},
     login : Logins \union {None}, char : Chars \union {None}]

TypeOK ==
    /\ session = None \/ session \in Session
    /\ loaded \subseteq {"store"} \union Chars /\ cids \subseteq Chars
    /\ up \subseteq Servers \union {"uid"} /\ asked \in Seq(Request)
    /\ toAgent \in [Servers -> Seq(Messages)] /\ toServer \in [Servers -> Seq(Messages)]
    /\ table \in Logins \union {None}
    /\ stage \in [Logins -> {"new", "starting", "left", "auth", "selecting", "selected", "moving",
                             "moved", "entering", "gone", "game", "leaving", "over"}]
    /\ at \in [Logins -> Servers] /\ char \in [Logins -> Chars \union {None}]
    /\ shut \subseteq Logins /\ closed \subseteq Logins /\ mispaired \in BOOLEAN
    /\ moves \in 0 .. MaxMoves /\ cuts \in 0 .. MaxCuts /\ failures \in 0 .. MaxFailures

\* Data that is loaded is with the session: none is left behind by a session that
\* ends, whoever ends it. And m_cidMap has the loaded characters, as the comment at
\* SessionDataMgr.h:37 says, as long as no read or write has failed.
DataHasOwner ==
    /\ loaded = Held(session)
    /\ failures = 0 => cids = loaded \ {"store"}

\* A player is in the game with his data, and nobody else's session has it. What
\* may break this is a login the agent has ended itself and whose client is still
\* there: it may select a character.
GameHasData ==
    closed = {} => IF session # None /\ session.state = "char"
                   THEN Held(session) = {"store", session.cid} ELSE Held(session) = {}

\* Of all the logins of an account at most one is inside, and the session is his,
\* as far as the server he is at knows: nobody plays or selects a character on a
\* session that has passed to another. Logins whose session the agent has ended
\* itself are the exception. One that is still at the auth server may select, and
\* only then may a player be left without his character.
PlayerOwnsSession ==
    \A l \in Logins \ closed :
        /\ stage[l] \in {"auth", "selecting", "selected"} /\ table = l =>
              Owns(l) /\ session.state = "user" /\ session.server = "auth"
        /\ stage[l] \in {"game", "leaving"} =>
              /\ Owns(l) /\ session.state = "char" /\ session.server = at[l]
              /\ closed = {} => Plays(at[l], l, char[l])

OnItsWay(l, do) == \E s \in Servers : \E i \in DOMAIN toAgent[s] : toAgent[s][i].login = l /\ toAgent[s][i].do \in do

\* A client does not come to its next server before the agent knows that it has left
\* the last one: the comment at AuthAgentDispatch.cpp:448 says what would happen.
MoveBeforeEntry ==
    \A l \in Logins : ~ (OnItsWay(l, {"enter"}) /\ OnItsWay(l, {"move", "zone"}))

KillSent(l) ==
    /\ Enabled(session) /\ session.sid = l
    /\ \E i \in DOMAIN toServer[session.server] : toServer[session.server][i].do = "kill"

\* A login that another asks to end ends, whether it is at the auth server, in the
\* game, on its way out or not there at all, so that the other may come in when it
\* tries again. The links hold, and no answer of the UID server was taken for another
\* request.
KillEnds ==
    \A l \in Logins :
        KillSent(l) ~> \/ ~ (Enabled(session) /\ session.sid = l)
                       \/ cuts > 0 \/ mispaired
=============================================================================
