-------------------------- MODULE UserSessionProofs --------------------------
(***************************************************************************)
(* Proofs about UserSession for any number of logins, characters and game  *)
(* servers, and any number of links that are lost and of reads and writes  *)
(* that fail. First the data (IInv): what is in the login maps is what the *)
(* session holds, and a session that ends, whoever ends it, leaves none    *)
(* behind. Then the owner (Inv): who asks for the session, who is told     *)
(* that he has it and who may give it back, so that the server a player is *)
(* at and the agent agree on whose session it is.                          *)
(***************************************************************************)
EXTENDS UserSession, SequenceTheorems, TLAPS

(***************************************************************************)
(* Types, finer than TypeOK: who must name a login and a character.        *)
(***************************************************************************)

\* Messages are about a login, but for those that end one, and a request for data
\* names the character.
Typed ==
    {m \in Messages : /\ m.do \notin {"kill", "killFailed"} => m.login \in Logins
                      /\ m.do \in {"select", "enter"} => m.char \in Chars}

\* Requests of game servers are for a character.
Wanted == {r \in Request : r.char \in Chars \/ r.server = "auth"}

Open == {s \in Session : s.requests \in Seq(Wanted)}

Links == [Servers -> Seq(Typed)]

LinksOK ==
    /\ up \subseteq Servers \union {"uid"} /\ asked \in Seq(Wanted)
    /\ toAgent \in Links /\ toServer \in Links

Stages == {"new", "starting", "left", "auth", "selecting", "selected", "moving", "moved",
           "entering", "gone", "game", "leaving", "over"}

\* Stages of a login that has chosen its character.
Chosen == \A l \in Logins : stage[l] \notin {"new", "starting", "left", "auth", "over"} => char[l] \in Chars

ClientsOK ==
    /\ table \in Logins \union {None} /\ stage \in [Logins -> Stages]
    /\ at \in [Logins -> Servers] /\ char \in [Logins -> Chars \union {None}]
    /\ shut \subseteq Logins /\ moves \in 0 .. MaxMoves /\ cuts \in 0 .. MaxCuts
    /\ mispaired \in BOOLEAN
    /\ Chosen

(***************************************************************************)
(* The data. A session's data is in the maps under its names. Only the     *)
(* session of a player in the game has any: SessionCloseWithLogout writes  *)
(* nothing back for the other states. The map of the characters is in step *)
(* until a read or a write fails.                                          *)
(***************************************************************************)
AgentWith(S) == [session : S, loaded : SUBSET ({"store"} \union Chars), cids : SUBSET Chars]

Kept(a) ==
    /\ a \in AgentWith(Open)
    /\ a.loaded = Held(a.session)
    /\ a.session.char # None => a.session.cid = a.session.char

Indexed(a) == a.cids = a.loaded \ {"store"}

\* What holds of the agent between two handlers.
Settled(a) ==
    \/ a \in AgentWith({None}) /\ a.loaded = {}
    \/ Kept(a) /\ (a.loaded # {} => a.session.state = "char")

AgentOK ==
    /\ Settled(Agent)
    /\ failures = 0 => Indexed(Agent)
    /\ failures \in 0 .. MaxFailures /\ closed \subseteq Logins

IInv == AgentOK /\ LinksOK /\ ClientsOK

-----------------------------------------------------------------------------
(* The operators of the agent.                                               *)

LEMMA HeldOf ==
    ASSUME NEW s \in Open
    PROVE  /\ s # None
           /\ Held(s) = {d \in {"store"} : s.store} \union {c \in Chars : c = s.char}
BY NoSession DEF Held, Open

LEMMA UnloadKeeps ==
    ASSUME NEW a, Kept(a), NEW bad
    PROVE  LET b == UnloadData(a, bad)
           IN  /\ Kept(b) /\ b.loaded = {}
               /\ b.session.state = a.session.state
               /\ Indexed(a) /\ bad = {} => Indexed(b)
<1> DEFINE s == a.session
           t == [s EXCEPT !.store = FALSE, !.char = None, !.cid = None]
           b == UnloadData(a, bad)
<1>1. s \in Open /\ a.loaded \subseteq {"store"} \union Chars /\ a.cids \subseteq Chars
  BY DEF Kept, AgentWith
<1>2. /\ t \in Session /\ t.state = s.state /\ t.requests = s.requests
      /\ t.store = FALSE /\ t.char = None /\ t.cid = None
  BY <1>1 DEF Open, Session
<1>3. t \in Open
  BY <1>1, <1>2 DEF Open
<1>4. Held(t) = {} /\ a.loaded = Held(s)
  <2>1. a.loaded = Held(s)
    BY DEF Kept
  <2> HIDE DEF t
  <2>2. Held(t) = {}
    BY <1>2, <1>3, HeldOf, SessionAssumption
  <2> QED
    BY <2>1, <2>2
<1>5. /\ b.session = t /\ b.loaded = {}
      /\ b.cids = IF "write" \in bad \/ s.char = None THEN a.cids ELSE a.cids \ {s.cid}
  BY <1>4 DEF UnloadData
<1>6. b \in AgentWith(Open)
  BY <1>1, <1>3, <1>5 DEF AgentWith, UnloadData
<1>7. ASSUME Indexed(a), bad = {}
      PROVE  Indexed(b)
  <2>1. a.loaded \ {"store"} = {c \in Chars : c = s.char}
    BY <1>1, <1>4, HeldOf, SessionAssumption
  <2>2. b.cids = {}
    BY <1>5, <1>7, <2>1, SessionAssumption DEF Indexed, Kept
  <2> QED
    BY <1>5, <2>2 DEF Indexed
<1> HIDE DEF t, b
<1> QED
  BY <1>2, <1>4, <1>5, <1>6, <1>7 DEF Kept, b

LEMMA SetStateKeeps ==
    ASSUME NEW a, Kept(a), NEW state \in {"user", "userDisabled", "move", "char", "charDisabled"}
    PROVE  LET b == SetState(a, state)
           IN  /\ Kept(b) /\ b.loaded = a.loaded
               /\ b.session.state = state
               /\ Indexed(a) => Indexed(b)
<1> DEFINE s == a.session
           t == [s EXCEPT !.state = state]
           b == SetState(a, state)
<1>1. s \in Open /\ a.loaded \subseteq {"store"} \union Chars /\ a.cids \subseteq Chars
  BY DEF Kept, AgentWith
<1>2. /\ t \in Session /\ t.state = state /\ t.requests = s.requests
      /\ t.store = s.store /\ t.char = s.char /\ t.cid = s.cid
  BY <1>1 DEF Open, Session
<1>3. t \in Open
  BY <1>1, <1>2 DEF Open
<1>4. Held(t) = Held(s)
  <2> HIDE DEF t
  <2> QED
    BY <1>1, <1>2, <1>3, HeldOf
<1>5. b.session = t /\ b.loaded = a.loaded /\ b.cids = a.cids /\ b \in AgentWith(Open)
  BY <1>1, <1>3 DEF SetState, Kept, AgentWith
<1> HIDE DEF t, b
<1> QED
  BY <1>2, <1>4, <1>5 DEF Kept, Indexed, b

LEMMA SetRequestDataKeeps ==
    ASSUME NEW a, Kept(a), NEW r \in Wanted
    PROVE  LET b == SetRequestData(a, r)
           IN  /\ Kept(b) /\ b.loaded = a.loaded
               /\ b.session.state = a.session.state
               /\ Indexed(a) => Indexed(b)
<1> DEFINE s == a.session
           t == [s EXCEPT !.sid = r.login, !.server = r.server]
           b == SetRequestData(a, r)
<1>1. /\ s \in Open /\ a.loaded \subseteq {"store"} \union Chars /\ a.cids \subseteq Chars
      /\ r.login \in Logins /\ r.server \in Servers
  BY DEF Kept, AgentWith, Wanted, Request
<1>2. /\ t \in Session /\ t.state = s.state /\ t.requests = s.requests
      /\ t.store = s.store /\ t.char = s.char /\ t.cid = s.cid
  BY <1>1 DEF Open, Session
<1>3. t \in Open
  BY <1>1, <1>2 DEF Open
<1>4. Held(t) = Held(s)
  <2> HIDE DEF t
  <2> QED
    BY <1>1, <1>2, <1>3, HeldOf
<1>5. b.session = t /\ b.loaded = a.loaded /\ b.cids = a.cids /\ b \in AgentWith(Open)
  BY <1>1, <1>3 DEF SetRequestData, Kept, AgentWith
<1> HIDE DEF t, b
<1> QED
  BY <1>2, <1>4, <1>5 DEF Kept, Indexed, b

\* CharDisable and CharMove.
LEMMA CharLeavesKeeps ==
    ASSUME NEW a, Kept(a), NEW state \in {"charDisabled", "move"}, NEW bad
    PROVE  LET b == CharLeaves(a, state, bad)
           IN  /\ Kept(b) /\ b.loaded = {}
               /\ Indexed(a) /\ bad = {} => Indexed(b)
<1> DEFINE c == UnloadData(SetState(a, state), bad)
           t == [c.session EXCEPT !.server = None]
           b == CharLeaves(a, state, bad)
<1>1. Kept(c) /\ c.loaded = {} /\ (Indexed(a) /\ bad = {} => Indexed(c))
  BY SetStateKeeps, UnloadKeeps
<1> HIDE DEF c
<1>2. c.session \in Open /\ c.cids \subseteq Chars
  BY <1>1 DEF Kept, AgentWith
<1>3. /\ t \in Session /\ t.requests = c.session.requests
      /\ t.store = c.session.store /\ t.char = c.session.char /\ t.cid = c.session.cid
  BY <1>2 DEF Open, Session
<1>4. t \in Open
  BY <1>2, <1>3 DEF Open
<1>5. Held(t) = Held(c.session)
  <2> HIDE DEF t
  <2> QED
    BY <1>2, <1>3, <1>4, HeldOf
<1>6. b = [c EXCEPT !.session.server = None]
  BY DEF CharLeaves, c
<1>7. b.session = t /\ b.loaded = c.loaded /\ b.cids = c.cids /\ b \in AgentWith(Open)
  BY <1>1, <1>2, <1>4, <1>6 DEF Kept, AgentWith
<1> HIDE DEF t, b
<1> QED
  BY <1>1, <1>3, <1>5, <1>7 DEF Kept, Indexed, b

\* Either all of the data is with the session afterwards, or none.
LEMMA LoadKeeps ==
    ASSUME NEW a, Kept(a), NEW c \in Chars, NEW bad
    PROVE  LET b == LoadData(a, c, bad)
           IN  /\ Kept(b) /\ (b.loaded # {} => HasLoaded(b, c))
               /\ b.session.state = a.session.state
               /\ Indexed(a) /\ bad = {} => Indexed(b)
<1> DEFINE s == a.session
           others == a.loaded \ Held(s)
           new == s.char # c
           StoreOK == s.store \/ ("store" \notin bad /\ "store" \notin others)
           CharOK == ~new \/ ("char" \notin bad /\ c \notin others)
           Removed(from) == IF "write" \in bad THEN from ELSE from \ {s.cid}
           before == IF new /\ s.char # None THEN Removed(a.cids) ELSE a.cids
           with == IF new /\ CharOK THEN AddCharLoadedSession(before, c) ELSE before
           t == [s EXCEPT !.store = TRUE, !.char = c, !.cid = c]
           u == [s EXCEPT !.store = FALSE, !.char = None]
           left == IF CharOK THEN Removed(with) ELSE with
           b == LoadData(a, c, bad)
<1>1. /\ s \in Open /\ a.cids \subseteq Chars /\ others = {}
      /\ a.loaded = Held(s) /\ (s.char = None \/ s.char \in Chars)
      /\ s.char # None => s.cid = s.char
  BY DEF Kept, AgentWith, Open, Session
<1>2. b = IF StoreOK /\ CharOK
          THEN [session |-> t, loaded |-> others \union {"store", c}, cids |-> with]
          ELSE [session |-> u, loaded |-> others, cids |-> left]
  BY DEF LoadData
<1>3. before \subseteq Chars /\ with \subseteq Chars /\ left \subseteq Chars
  BY <1>1 DEF AddCharLoadedSession
<1>4. CASE StoreOK /\ CharOK
  <2>1. t \in Session /\ t.state = s.state /\ t.requests = s.requests
        /\ t.store = TRUE /\ t.char = c /\ t.cid = c
    BY <1>1 DEF Open, Session
  <2>2. t \in Open
    BY <1>1, <2>1 DEF Open
  <2>3. Held(t) = {"store", c}
    <3> HIDE DEF t
    <3> QED
      BY <2>1, <2>2, HeldOf
  <2>4. b.session = t /\ b.loaded = {"store", c} /\ b.cids = with /\ b \in AgentWith(Open)
    <3> HIDE DEF t, with, others, StoreOK, CharOK
    <3> QED
      BY <1>1, <1>2, <1>3, <1>4, <2>2 DEF AgentWith
  <2>5. ASSUME Indexed(a), bad = {}
        PROVE  with = {c}
    <3>1. a.cids = {d \in Chars : d = s.char}
      BY <1>1, <2>5, HeldOf, SessionAssumption DEF Indexed
    <3>2. before = {d \in Chars : d = s.char /\ d = c}
      BY <1>1, <2>5, <3>1, SessionAssumption
    <3>3. CASE s.char = c
      BY <3>2, <3>3
    <3>4. CASE s.char # c
      BY <1>4, <3>2, <3>4 DEF AddCharLoadedSession
    <3> QED
      BY <3>3, <3>4
  <2> HIDE DEF t, b, with
  <2> QED
    BY <1>1, <2>1, <2>3, <2>4, <2>5, SessionAssumption DEF Kept, Indexed, HasLoaded, b
<1>5. CASE ~(StoreOK /\ CharOK)
  <2>1. u \in Session /\ u.state = s.state /\ u.requests = s.requests
        /\ u.store = FALSE /\ u.char = None
    BY <1>1 DEF Open, Session
  <2>2. u \in Open
    BY <1>1, <2>1 DEF Open
  <2>3. Held(u) = {}
    <3> HIDE DEF u
    <3> QED
      BY <2>1, <2>2, HeldOf, SessionAssumption
  <2>4. b.session = u /\ b.loaded = {} /\ b.cids = left /\ b \in AgentWith(Open)
    <3> HIDE DEF u, left, others, StoreOK, CharOK
    <3> QED
      BY <1>1, <1>2, <1>3, <1>5, <2>2 DEF AgentWith
  <2>5. bad # {}
    BY <1>1, <1>5
  <2> HIDE DEF u, b, left
  <2> QED
    BY <2>1, <2>3, <2>4, <2>5 DEF Kept, b
<1> QED
  BY <1>4, <1>5

\* A session that ends without its owner gives back what it has.
LEMMA CloseKeeps ==
    ASSUME NEW a, Settled(a), a.session # None, NEW bad
    PROVE  LET b == SessionCloseWithLogout(a, bad)
           IN  /\ b \in AgentWith({None}) /\ b.loaded = {}
               /\ Indexed(a) /\ bad = {} => Indexed(b)
<1> DEFINE s == a.session
           d == CASE s.state = "user" -> UserDisable(a, bad)
                  [] s.state = "char" -> CharLeaves(a, "charDisabled", bad)
                  [] OTHER -> a
           b == SessionCloseWithLogout(a, bad)
<1>1. Kept(a) /\ (a.loaded # {} => s.state = "char")
  BY DEF Settled, AgentWith
<1>2. Kept(d) /\ d.loaded = {} /\ (Indexed(a) /\ bad = {} => Indexed(d))
  <2>1. CASE s.state = "user"
    BY <1>1, <2>1, SetStateKeeps, UnloadKeeps DEF UserDisable
  <2>2. CASE s.state = "char"
    BY <1>1, <2>2, CharLeavesKeeps
  <2>3. CASE s.state \notin {"user", "char"}
    BY <1>1, <2>3
  <2> QED
    BY <2>1, <2>2, <2>3
<1> HIDE DEF d
<1>3. b = [d EXCEPT !.session = None]
  BY DEF SessionCloseWithLogout, SessionClose, d
<1>4. d \in AgentWith(Open)
  BY <1>2 DEF Kept
<1>5. b \in AgentWith({None}) /\ b.loaded = d.loaded /\ b.cids = d.cids
  BY <1>3, <1>4 DEF AgentWith
<1> HIDE DEF b
<1> QED
  BY <1>2, <1>5 DEF Indexed, b

\* The step of the agent to b.
LEMMA BecomesKeeps ==
    ASSUME AgentOK, NEW b, NEW failed, Becomes(b, failed),
           Settled(b), Indexed(Agent) /\ ~failed => Indexed(b), closed' \subseteq Logins
    PROVE  AgentOK'
<1>1. /\ Agent' = [session |-> b.session, loaded |-> b.loaded, cids |-> b.cids]
      /\ failed => failures < MaxFailures
      /\ failures' = IF failed THEN failures + 1 ELSE failures
  BY DEF Becomes, Agent
<1>2. failures \in 0 .. MaxFailures /\ MaxFailures \in Nat /\ (failures = 0 => Indexed(Agent))
  BY SessionAssumption DEF AgentOK
<1>3. failures' \in 0 .. MaxFailures /\ (failures' = 0 => failures = 0 /\ ~failed)
  BY <1>1, <1>2
<1>4. Agent'.session = b.session /\ Agent'.loaded = b.loaded /\ Agent'.cids = b.cids
  BY <1>1
<1>5. Settled(Agent')
  <2>1. CASE b \in AgentWith({None}) /\ b.loaded = {}
    <3>1. Agent' \in AgentWith({None})
      BY <1>1, <2>1 DEF AgentWith
    <3> QED
      BY <1>4, <2>1, <3>1 DEF Settled
  <2>2. CASE Kept(b) /\ (b.loaded # {} => b.session.state = "char")
    <3>1. Agent' \in AgentWith(Open)
      BY <1>1, <2>2 DEF AgentWith, Kept
    <3> QED
      BY <1>4, <2>2, <3>1 DEF Settled, Kept
  <2> QED
    BY <2>1, <2>2 DEF Settled
<1>6. failures' = 0 => Indexed(Agent')
  BY <1>2, <1>3, <1>4 DEF Indexed
<1> QED
  BY <1>3, <1>5, <1>6 DEF AgentOK

\* The same for a step in which nothing fails.
LEMMA BecomesSafely ==
    ASSUME AgentOK, NEW b, Becomes(b, FALSE),
           Settled(b), Indexed(Agent) => Indexed(b), closed' \subseteq Logins
    PROVE  AgentOK'
<1> DEFINE failed == FALSE
<1>1. Becomes(b, failed) /\ (Indexed(Agent) /\ ~failed => Indexed(b))
  OBVIOUS
<1> HIDE DEF failed
<1> QED
  BY <1>1, BecomesKeeps

\* Whether the session is there.
LEMMA SessionCases ==
    ASSUME AgentOK
    PROVE  /\ session = None \/ session \in Open
           /\ session = None => loaded = {} /\ cids \subseteq Chars
           /\ session # None => Kept(Agent) /\ (loaded # {} => session.state = "char")
<1>1. Agent.session = session /\ Agent.loaded = loaded /\ Agent.cids = cids
  BY DEF Agent
<1>2. Agent \in AgentWith({None}) => session = None /\ cids \subseteq Chars
  BY <1>1 DEF AgentWith
<1>3. Kept(Agent) => session \in Open
  BY <1>1 DEF Kept, AgentWith
<1>4. session \in Open => session # None
  BY NoSession DEF Open
<1> QED
  BY <1>1, <1>2, <1>3, <1>4 DEF AgentOK, Settled

LEMMA NewSessionIsOpen == NewSession \in Open
<1>1. <<>> \in Seq(Request) /\ <<>> \in Seq(Wanted)
  BY EmptySeq
<1>2. NewSession \in Session /\ NewSession.requests = <<>>
  BY <1>1 DEF NewSession, Session
<1> QED
  BY <1>1, <1>2 DEF Open

\* Nothing but the requests of the session changes, or it is new.
LEMMA RequestsKeep ==
    ASSUME AgentOK, NEW s, s = (IF session = None THEN NewSession ELSE session),
           session' \in Open, session'.state = s.state, session'.store = s.store,
           session'.char = s.char, session'.cid = s.cid,
           UNCHANGED <<loaded, cids, failures, closed>>
    PROVE  AgentOK'
<1>1. Agent' = [session |-> session', loaded |-> loaded, cids |-> cids]
  BY DEF Agent
<1>2. /\ loaded \subseteq {"store"} \union Chars /\ cids \subseteq Chars
      /\ loaded = Held(s) /\ (s.char # None => s.cid = s.char)
      /\ loaded # {} => s.state = "char"
  <2>1. CASE session = None
    <3>1. NewSession.store = FALSE /\ NewSession.char = None /\ s = NewSession
      BY <2>1 DEF NewSession
    <3>2. Held(s) = {}
      BY <3>1, SessionAssumption DEF Held
    <3> QED
      BY <2>1, <3>1, <3>2, SessionCases
  <2>2. CASE session # None
    <3>1. Kept(Agent) /\ (loaded # {} => session.state = "char") /\ s = session
      BY <2>2, SessionCases
    <3>2. Agent.session = session /\ Agent.loaded = loaded /\ Agent.cids = cids
      BY DEF Agent
    <3> QED
      BY <3>1, <3>2 DEF Kept, AgentWith
  <2> QED
    BY <2>1, <2>2
<1>3. Held(session') = Held(s)
  <2>1. CASE s = None
    <3>1. NewSession = None
      BY <2>1
    <3> QED
      BY <3>1, NewSessionIsOpen, HeldOf
  <2>2. CASE s # None
    BY <2>2, HeldOf DEF Held
  <2> QED
    BY <2>1, <2>2
<1>4. Kept(Agent')
  <2>1. Agent' \in AgentWith(Open)
    BY <1>1, <1>2 DEF AgentWith
  <2> QED
    BY <1>1, <1>2, <1>3, <2>1 DEF Kept
<1>5. Settled(Agent')
  BY <1>1, <1>2, <1>4 DEF Settled
<1>6. Indexed(Agent') <=> Indexed(Agent)
  BY <1>1 DEF Indexed, Agent
<1> QED
  BY <1>5, <1>6 DEF AgentOK

LEMMA NothingChanges ==
    ASSUME AgentOK, UNCHANGED agent
    PROVE  AgentOK'
BY DEF AgentOK, agent, Agent, Settled, Kept, Indexed, Held

-----------------------------------------------------------------------------
(* Links.                                                                    *)

LEMMA QueueOps ==
    ASSUME NEW S, NEW q \in Seq(S)
    PROVE  /\ \A e \in S : Append(q, e) \in Seq(S) /\ Append(q, e) # <<>>
           /\ q # <<>> => Head(q) \in S /\ Tail(q) \in Seq(S)
<1>1. ASSUME NEW e \in S
      PROVE  Append(q, e) \in Seq(S) /\ Append(q, e) # <<>>
  BY AppendProperties, EmptySeq
<1>2. ASSUME q # <<>>
      PROVE  Head(q) \in S /\ Tail(q) \in Seq(S)
  BY <1>2, HeadTailProperties
<1> QED
  BY <1>1, <1>2

Does == {"start", "startKill", "logout", "select", "move", "enter", "leave", "zone",
         "zoneEnd", "kill", "killFailed", "granted", "refused", "selected",
         "notSelected", "entered"}

LEMMA MsgTyped ==
    ASSUME NEW do \in Does, NEW l \in Logins \union {None}, NEW c \in Chars \union {None},
           do \notin {"kill", "killFailed"} => l \in Logins,
           do \in {"select", "enter"} => c \in Chars
    PROVE  Msg(do, l, c) \in Typed
BY DEF Msg, Typed, Messages, Does

LEMMA SentTyped ==
    ASSUME NEW queues \in Links, NEW s, NEW m \in Typed
    PROVE  Sent(queues, s, m) \in Links
<1>1. CASE s \in up /\ s \in Servers
  <2>1. Append(queues[s], m) \in Seq(Typed)
    BY <1>1, QueueOps DEF Links
  <2> QED
    BY <1>1, <2>1 DEF Sent, Links
<1>2. CASE ~(s \in up /\ s \in Servers)
  BY <1>2 DEF Sent, Links
<1> QED
  BY <1>1, <1>2

LEMMA ReadsTyped ==
    ASSUME LinksOK, NEW s \in Servers, NEW m, Reads(s, m)
    PROVE  m \in Typed /\ toAgent' \in Links
<1>1. toAgent[s] \in Seq(Typed) /\ toAgent[s] # <<>>
  BY DEF LinksOK, Links, Reads
<1>2. Head(toAgent[s]) \in Typed /\ Tail(toAgent[s]) \in Seq(Typed)
  BY <1>1, QueueOps
<1> QED
  BY <1>2 DEF LinksOK, Links, Reads

LEMMA HearsTyped ==
    ASSUME LinksOK, NEW s \in Servers, NEW m, Hears(s, m)
    PROVE  m \in Typed /\ toServer' \in Links
<1>1. toServer[s] \in Seq(Typed) /\ toServer[s] # <<>>
  BY DEF LinksOK, Links, Hears
<1>2. Head(toServer[s]) \in Typed /\ Tail(toServer[s]) \in Seq(Typed)
  BY <1>1, QueueOps
<1> QED
  BY <1>2 DEF LinksOK, Links, Hears

LEMMA TypedMessage ==
    ASSUME NEW m \in Typed
    PROVE  /\ m.do \in Does /\ m.login \in Logins \union {None} /\ m.char \in Chars \union {None}
           /\ m.do \notin {"kill", "killFailed"} => m.login \in Logins
           /\ m.do \in {"select", "enter"} => m.char \in Chars
BY DEF Typed, Messages, Does

\* A request to the UID server, or the refusal if it is not there.
LEMMA AsksKeeps ==
    ASSUME LinksOK, NEW s \in Open, NEW r \in Wanted, Asks(s, r)
    PROVE  /\ session' \in Open /\ session'.state = s.state /\ session'.store = s.store
           /\ session'.char = s.char /\ session'.cid = s.cid
           /\ asked' \in Seq(Wanted) /\ toServer' \in Links
<1> DEFINE queue == Append(s.requests, r)
<1>1. s.requests \in Seq(Wanted) /\ asked \in Seq(Wanted) /\ toServer \in Links /\ r.login \in Logins
  BY DEF Open, LinksOK, Wanted, Request
<1>2. queue \in Seq(Wanted) /\ Tail(queue) \in Seq(Wanted) /\ Append(asked, r) \in Seq(Wanted)
  BY <1>1, QueueOps
<1>3. ASSUME NEW q \in Seq(Wanted), NEW t, t = [s EXCEPT !.requests = q]
      PROVE  t \in Open /\ t.state = s.state /\ t.store = s.store /\ t.char = s.char /\ t.cid = s.cid
  <2>1. q \in Seq(Request)
    BY SeqMonotonic DEF Wanted
  <2>2. /\ t \in Session /\ t.requests = q
        /\ t.state = s.state /\ t.store = s.store /\ t.char = s.char /\ t.cid = s.cid
    BY <1>3, <2>1 DEF Open, Session
  <2> QED
    BY <1>3, <2>2 DEF Open
<1>4. CASE "uid" \in up
  BY <1>1, <1>2, <1>3, <1>4 DEF Asks, SaysNothing
<1>5. CASE "uid" \notin up
  <2>1. toServer' \in Links
    BY <1>1, <1>5, MsgTyped, SentTyped DEF Asks, Replies, Does
  <2> QED
    BY <1>1, <1>2, <1>3, <1>5, <2>1 DEF Asks
<1> QED
  BY <1>4, <1>5

-----------------------------------------------------------------------------
(* The handlers of the agent.                                                *)

LEMMA StartSessionKeeps ==
    ASSUME AgentOK, LinksOK, NEW m, StartSession(m)
    PROVE  AgentOK' /\ LinksOK'
<1>1. m \in Typed /\ toAgent' \in Links /\ m.login \in Logins
  BY ReadsTyped, TypedMessage DEF StartSession, Servers
<1>2. UNCHANGED <<loaded, cids, failures, closed, up>>
  BY DEF StartSession
<1>3. CASE Enabled(session)
  <2>1. session \in Open
    BY <1>3, SessionCases DEF Enabled
  <2>2. /\ Msg("kill", None, session.cid) \in Typed
        /\ Msg("refused", m.login, None) \in Typed
    <3>1. session.cid \in Chars \union {None}
      BY <2>1 DEF Open, Session
    <3> QED
      BY <1>1, <3>1, MsgTyped DEF Does
  <2>3. toServer' \in Links
    <3> DEFINE killed == IF m.do = "startKill"
                         THEN Sent(toServer, session.server, Msg("kill", None, session.cid))
                         ELSE toServer
    <3>1. killed \in Links
      BY <2>2, SentTyped DEF LinksOK
    <3>2. toServer' = Sent(killed, "auth", Msg("refused", m.login, None))
      BY <1>3 DEF StartSession
    <3> HIDE DEF killed
    <3> QED
      BY <2>2, <3>1, <3>2, SentTyped
  <2>4. UNCHANGED <<session, asked>>
    BY <1>3 DEF StartSession
  <2> QED
    BY <1>1, <1>2, <2>3, <2>4, NothingChanges DEF LinksOK, agent
<1>4. CASE ~Enabled(session)
  <2> DEFINE s == IF session = None THEN NewSession ELSE session
             r == [login |-> m.login, char |-> None, server |-> "auth"]
  <2>1. s \in Open
    BY SessionCases, NewSessionIsOpen
  <2>2. r \in Wanted
    BY <1>1 DEF Wanted, Request, Servers
  <2>3. Asks(s, r)
    BY <1>4 DEF StartSession
  <2> HIDE DEF r
  <2>4. /\ session' \in Open /\ session'.state = s.state /\ session'.store = s.store
        /\ session'.char = s.char /\ session'.cid = s.cid
        /\ asked' \in Seq(Wanted) /\ toServer' \in Links
    <3> HIDE DEF s
    <3> QED
      BY <2>1, <2>2, <2>3, AsksKeeps
  <2>5. AgentOK'
    BY <1>2, <2>4, RequestsKeep
  <2> QED
    BY <1>1, <1>2, <2>4, <2>5 DEF LinksOK
<1> QED
  BY <1>3, <1>4

LEMMA CharLoginKeeps ==
    ASSUME AgentOK, LinksOK, NEW g \in Games, NEW m, CharLogin(g, m)
    PROVE  AgentOK' /\ LinksOK'
<1>1. m \in Typed /\ toAgent' \in Links /\ m.login \in Logins /\ m.char \in Chars
  BY ReadsTyped, TypedMessage DEF CharLogin, Servers
<1>2. UNCHANGED <<loaded, cids, failures, closed, up>>
  BY DEF CharLogin
<1>3. CASE Owns(m.login) /\ ~Enabled(session)
  <2> DEFINE r == [login |-> m.login, char |-> m.char, server |-> g]
  <2>1. session \in Open /\ session = (IF session = None THEN NewSession ELSE session)
    BY <1>3, SessionCases DEF Owns
  <2>2. r \in Wanted
    BY <1>1 DEF Wanted, Request, Servers
  <2>3. Asks(session, r)
    BY <1>3 DEF CharLogin
  <2> HIDE DEF r
  <2>4. /\ session' \in Open /\ session'.state = session.state /\ session'.store = session.store
        /\ session'.char = session.char /\ session'.cid = session.cid
        /\ asked' \in Seq(Wanted) /\ toServer' \in Links
    BY <2>1, <2>2, <2>3, AsksKeeps
  <2>5. AgentOK'
    BY <1>2, <2>1, <2>4, RequestsKeep
  <2> QED
    BY <1>1, <1>2, <2>4, <2>5 DEF LinksOK
<1>4. CASE ~(Owns(m.login) /\ ~Enabled(session))
  <2>1. Msg("refused", m.login, None) \in Typed
    BY <1>1, MsgTyped DEF Does
  <2>2. toServer' \in Links /\ UNCHANGED <<session, asked>>
    BY <1>4, <2>1, SentTyped DEF CharLogin, Replies, LinksOK
  <2> QED
    BY <1>1, <1>2, <2>2, NothingChanges DEF LinksOK, agent
<1> QED
  BY <1>3, <1>4

\* A step to an agent that has unloaded what it had.
LEMMA UnloadedKeeps ==
    ASSUME AgentOK, NEW b, NEW bad, Becomes(b, bad # {}), b.loaded = {},
           Kept(b) \/ b \in AgentWith({None}),
           Indexed(Agent) /\ bad = {} => Indexed(b), closed' \subseteq Logins
    PROVE  AgentOK'
<1>1. Settled(b)
  BY DEF Settled
<1>2. Indexed(Agent) /\ ~(bad # {}) => Indexed(b)
  OBVIOUS
<1> QED
  BY <1>1, <1>2, BecomesKeeps

\* The handlers of a session's owner that give back its data.
LEMMA GivesBack ==
    ASSUME AgentOK, LinksOK, NEW s \in Servers, NEW m, NEW bad, NEW b, NEW owner,
           Reads(s, m), SaysNothing, UNCHANGED <<closed, up, asked>>,
           owner => /\ session # None /\ b.loaded = {}
                    /\ Kept(b) \/ b \in AgentWith({None})
                    /\ Indexed(Agent) /\ bad = {} => Indexed(b),
           IF owner THEN Becomes(b, bad # {}) ELSE UNCHANGED <<session, loaded, cids, failures>>
    PROVE  AgentOK' /\ LinksOK'
<1>1. toAgent' \in Links /\ UNCHANGED toServer
  BY ReadsTyped DEF SaysNothing
<1>2. LinksOK'
  BY <1>1 DEF LinksOK
<1>3. closed' \subseteq Logins
  BY DEF AgentOK
<1>4. CASE owner
  <2>1. Becomes(b, bad # {})
    BY <1>4
  <2> QED
    BY <1>2, <1>3, <1>4, <2>1, UnloadedKeeps
<1>5. CASE ~owner
  BY <1>2, <1>5, NothingChanges DEF agent
<1> QED
  BY <1>4, <1>5

LEMMA AgentIsKept ==
    ASSUME AgentOK, session # None
    PROVE  Kept(Agent) /\ Settled(Agent) /\ Agent.session = session
BY SessionCases DEF AgentOK, Agent

LEMMA UserLogoutKeeps ==
    ASSUME AgentOK, LinksOK, NEW m, NEW bad, UserLogout(m, bad)
    PROVE  AgentOK' /\ LinksOK'
<1> DEFINE owner == Owns(m.login) /\ session.state \in {"user", "move"}
           b == UserDisable(Agent, bad)
<1>1. owner => /\ session # None /\ b.loaded = {} /\ Kept(b)
               /\ Indexed(Agent) /\ bad = {} => Indexed(b)
  BY AgentIsKept, SetStateKeeps, UnloadKeeps DEF Owns, UserDisable
<1>2. /\ Reads("auth", m) /\ SaysNothing /\ UNCHANGED <<closed, up, asked>>
      /\ IF owner THEN Becomes(b, bad # {}) ELSE UNCHANGED <<session, loaded, cids, failures>>
  BY DEF UserLogout
<1>3. "auth" \in Servers
  BY DEF Servers
<1> HIDE DEF owner, b
<1> QED
  BY <1>1, <1>2, <1>3, GivesBack

LEMMA UserMovesKeeps ==
    ASSUME AgentOK, LinksOK, NEW m, NEW bad, UserMoves(m, bad)
    PROVE  AgentOK' /\ LinksOK'
<1> DEFINE owner == Owns(m.login) /\ session.state = "user"
           b == UserMove(Agent, bad)
<1>1. owner => /\ session # None /\ b.loaded = {} /\ Kept(b)
               /\ Indexed(Agent) /\ bad = {} => Indexed(b)
  BY AgentIsKept, SetStateKeeps, UnloadKeeps DEF Owns, UserMove
<1>2. /\ Reads("auth", m) /\ SaysNothing /\ UNCHANGED <<closed, up, asked>>
      /\ IF owner THEN Becomes(b, bad # {}) ELSE UNCHANGED <<session, loaded, cids, failures>>
  BY DEF UserMoves
<1>3. "auth" \in Servers
  BY DEF Servers
<1> HIDE DEF owner, b
<1> QED
  BY <1>1, <1>2, <1>3, GivesBack

LEMMA CharLogoutKeeps ==
    ASSUME AgentOK, LinksOK, NEW g \in Games, NEW m, NEW bad, CharLogout(g, m, bad)
    PROVE  AgentOK' /\ LinksOK'
<1> DEFINE owner == Plays(g, m.login, m.char)
           d == CharLeaves(Agent, "charDisabled", bad)
           b == SessionClose(d)
<1>1. owner => session # None
  BY DEF Plays, Owns
<1>2. owner => /\ b.loaded = {} /\ b \in AgentWith({None})
               /\ Indexed(Agent) /\ bad = {} => Indexed(b)
  <2> SUFFICES ASSUME owner
               PROVE  /\ b.loaded = {} /\ b \in AgentWith({None})
                      /\ Indexed(Agent) /\ bad = {} => Indexed(b)
    OBVIOUS
  <2>1. Kept(d) /\ d.loaded = {} /\ (Indexed(Agent) /\ bad = {} => Indexed(d))
    BY <1>1, AgentIsKept, CharLeavesKeeps
  <2> HIDE DEF d
  <2>2. b \in AgentWith({None}) /\ b.loaded = d.loaded /\ b.cids = d.cids
    BY <2>1 DEF Kept, AgentWith, SessionClose
  <2> HIDE DEF b
  <2> QED
    BY <2>1, <2>2 DEF Indexed
<1>3. /\ Reads(g, m) /\ SaysNothing /\ UNCHANGED <<closed, up, asked>>
      /\ IF owner THEN Becomes(b, bad # {}) ELSE UNCHANGED <<session, loaded, cids, failures>>
  BY DEF CharLogout
<1>4. g \in Servers
  BY DEF Servers
<1> HIDE DEF owner, b
<1> QED
  BY <1>1, <1>2, <1>3, <1>4, GivesBack

LEMMA CharMoveZoneKeeps ==
    ASSUME AgentOK, LinksOK, NEW g \in Games, NEW m, NEW bad, CharMoveZone(g, m, bad)
    PROVE  AgentOK' /\ LinksOK'
<1> DEFINE owner == Plays(g, m.login, m.char)
           b == CharLeaves(Agent, "move", bad)
<1>1. owner => /\ session # None /\ b.loaded = {} /\ Kept(b)
               /\ Indexed(Agent) /\ bad = {} => Indexed(b)
  BY AgentIsKept, CharLeavesKeeps DEF Plays, Owns
<1>2. /\ Reads(g, m) /\ SaysNothing /\ UNCHANGED <<closed, up, asked>>
      /\ IF owner THEN Becomes(b, bad # {}) ELSE UNCHANGED <<session, loaded, cids, failures>>
  BY DEF CharMoveZone
<1>3. g \in Servers
  BY DEF Servers
<1> HIDE DEF owner, b
<1> QED
  BY <1>1, <1>2, <1>3, GivesBack

LEMMA ServerZoneEndKeeps ==
    ASSUME AgentOK, LinksOK, NEW s \in Servers, NEW m, ServerZoneEnd(s, m)
    PROVE  AgentOK' /\ LinksOK'
<1>1. m \in Typed /\ toAgent' \in Links
  BY ReadsTyped DEF ServerZoneEnd
<1>2. toServer' \in Links
  BY <1>1, SentTyped DEF ServerZoneEnd, Replies, LinksOK
<1> QED
  BY <1>1, <1>2, NothingChanges DEF ServerZoneEnd, LinksOK

\* A session that ends without its owner.
LEMMA ClosesKeeps ==
    ASSUME AgentOK, session # None, NEW bad, Closes(Agent, bad)
    PROVE  AgentOK'
<1> DEFINE b == SessionCloseWithLogout(Agent, bad)
<1>1. /\ b \in AgentWith({None}) /\ b.loaded = {}
      /\ Indexed(Agent) /\ bad = {} => Indexed(b)
  BY AgentIsKept, CloseKeeps
<1>2. Becomes(b, bad # {}) /\ closed' \subseteq Logins
  BY DEF Closes, AgentOK
<1> HIDE DEF b
<1> QED
  BY <1>1, <1>2, UnloadedKeeps

LEMMA UserKillAckKeeps ==
    ASSUME AgentOK, LinksOK, NEW s \in Servers, NEW m, NEW bad, UserKillAck(s, m, bad)
    PROVE  AgentOK' /\ LinksOK'
<1>1. toAgent' \in Links /\ UNCHANGED <<toServer, up, asked>>
  BY ReadsTyped DEF UserKillAck, SaysNothing
<1>2. AgentOK'
  BY ClosesKeeps, NothingChanges DEF UserKillAck
<1> QED
  BY <1>1, <1>2 DEF LinksOK

LEMMA SelectsKeeps ==
    ASSUME NEW a, Kept(a), NEW c \in Chars, NEW bad
    PROVE  LET b == Selects(a, c, bad)
           IN  Kept(b) /\ b.loaded = {} /\ (Indexed(a) /\ bad = {} => Indexed(b))
<1> DEFINE d == LoadData(a, c, bad)
<1>1. /\ Kept(d) /\ (d.loaded # {} => HasLoaded(d, c))
      /\ Indexed(a) /\ bad = {} => Indexed(d)
  BY LoadKeeps
<1>2. Selects(a, c, bad) = IF HasLoaded(d, c) THEN UnloadData(d, bad) ELSE d
  BY DEF Selects
<1> HIDE DEF d
<1>3. CASE HasLoaded(d, c)
  BY <1>1, <1>2, <1>3, UnloadKeeps
<1>4. CASE ~HasLoaded(d, c)
  BY <1>1, <1>2, <1>4
<1> QED
  BY <1>3, <1>4

LEMMA CharSelectKeeps ==
    ASSUME AgentOK, LinksOK, NEW m, NEW bad, CharSelect(m, bad)
    PROVE  AgentOK' /\ LinksOK'
<1> DEFINE known == session # None /\ session.state # "none"
           b == Selects(Agent, m.char, bad)
<1>1. m \in Typed /\ toAgent' \in Links /\ m.login \in Logins /\ m.char \in Chars
  BY ReadsTyped, TypedMessage DEF CharSelect, Servers
<1>2. UNCHANGED <<closed, up, asked>> /\ closed' \subseteq Logins
  BY DEF CharSelect, AgentOK
<1>3. toServer' \in Links
  <2>1. \E do \in {"selected", "notSelected"} : Replies("auth", Msg(do, m.login, m.char))
    BY DEF CharSelect
  <2>2. \A do \in {"selected", "notSelected"} : Msg(do, m.login, m.char) \in Typed
    BY <1>1, MsgTyped DEF Does
  <2> QED
    BY <2>1, <2>2, SentTyped DEF Replies, LinksOK
<1>4. AgentOK'
  <2>1. CASE known
    <3>1. Becomes(b, bad # {})
      BY <2>1 DEF CharSelect
    <3>2. Kept(b) /\ b.loaded = {} /\ (Indexed(Agent) /\ bad = {} => Indexed(b))
      BY <1>1, <2>1, AgentIsKept, SelectsKeeps
    <3> HIDE DEF b
    <3> QED
      BY <1>2, <3>1, <3>2, UnloadedKeeps
  <2>2. CASE ~known
    <3>1. UNCHANGED <<session, loaded, cids, failures>>
      BY <2>2 DEF CharSelect
    <3> QED
      BY <1>2, <3>1, NothingChanges DEF agent
  <2> QED
    BY <2>1, <2>2
<1> QED
  BY <1>1, <1>2, <1>3, <1>4 DEF LinksOK

LEMMA AgentReceivesKeeps ==
    ASSUME AgentOK, LinksOK, NEW s \in Servers, AgentReceives(s)
    PROVE  AgentOK' /\ LinksOK'
<1>1. PICK m : \/ s = "auth" /\ StartSession(m)
               \/ s # "auth" /\ CharLogin(s, m)
               \/ ServerZoneEnd(s, m)
               \/ \E bad \in Fails :
                     \/ s = "auth" /\ (UserLogout(m, bad) \/ UserMoves(m, bad) \/ CharSelect(m, bad))
                     \/ s # "auth" /\ (CharLogout(s, m, bad) \/ CharMoveZone(s, m, bad))
                     \/ UserKillAck(s, m, bad)
  BY DEF AgentReceives
<1>2. s # "auth" => s \in Games
  BY DEF Servers
<1> QED
  BY <1>1, <1>2, StartSessionKeeps, CharLoginKeeps, ServerZoneEndKeeps, UserLogoutKeeps, UserMovesKeeps,
     CharSelectKeeps, CharLogoutKeeps, CharMoveZoneKeeps, UserKillAckKeeps

\* An answer to a request for the account: no data moves.
LEMMA AnswersUserKeeps ==
    ASSUME AgentOK, LinksOK, NEW a, Kept(a), Settled(a), Indexed(a) <=> Indexed(Agent),
           NEW r \in Wanted, NEW granted \in BOOLEAN, AnswersUser(a, r, granted), UNCHANGED closed
    PROVE  AgentOK' /\ toServer' \in Links
<1> DEFINE b == SetRequestData(SetState(a, "user"), r)
<1>1. closed' \subseteq Logins /\ toServer \in Links /\ r.login \in Logins
  BY DEF AgentOK, LinksOK, Wanted, Request
<1>2. \A do \in {"granted", "refused"} : Msg(do, r.login, None) \in Typed
  BY <1>1, MsgTyped DEF Does
<1>3. toServer' \in Links
  BY <1>1, <1>2, SentTyped DEF AnswersUser, Replies, SaysNothing
<1>4. CASE Becomes(a, FALSE)
  BY <1>1, <1>3, <1>4, BecomesSafely
<1>5. CASE UserEnable(a.session) /\ Becomes(b, FALSE)
  <2>1. a.loaded = {}
    <3>1. a.session \in Open /\ (a.session.state # "char" => a.loaded = {})
      BY NoSession DEF Kept, AgentWith, Settled, Open
    <3>2. a.session.state # "char"
      BY <1>5, <3>1, NoSession DEF UserEnable, Enabled, Open
    <3> QED
      BY <3>1, <3>2
  <2>2. Kept(b) /\ b.loaded = {} /\ (Indexed(a) => Indexed(b))
    BY <2>1, SetStateKeeps, SetRequestDataKeeps
  <2> HIDE DEF b
  <2>3. Settled(b)
    BY <2>2 DEF Settled
  <2> QED
    BY <1>1, <1>3, <1>5, <2>2, <2>3, BecomesSafely
<1> HIDE DEF b
<1>6. Becomes(a, FALSE) \/ (UserEnable(a.session) /\ Becomes(b, FALSE))
  BY DEF AnswersUser, b
<1> QED
  BY <1>3, <1>4, <1>5, <1>6

\* An answer to a request for a character: its data is loaded.
LEMMA AnswersCharKeeps ==
    ASSUME AgentOK, LinksOK, NEW a, Kept(a), Settled(a), Indexed(a) <=> Indexed(Agent),
           NEW r \in Wanted, NEW granted \in BOOLEAN, NEW bad \in Fails,
           AnswersChar(a, r, granted, bad), UNCHANGED closed
    PROVE  AgentOK' /\ toServer' \in Links
<1> DEFINE b == LoadData(a, r.char, bad)
           d == SetRequestData(SetState(b, "char"), r)
<1>1. closed' \subseteq Logins /\ toServer \in Links /\ r.login \in Logins /\ r.char \in Chars \union {None}
  BY DEF AgentOK, LinksOK, Wanted, Request
<1>2. /\ Msg("refused", r.login, None) \in Typed
      /\ Msg("entered", r.login, r.char) \in Typed
  BY <1>1, MsgTyped DEF Does
<1>3. toServer' \in Links
  BY <1>1, <1>2, SentTyped DEF AnswersChar, Replies, SaysNothing
<1>4. \/ Becomes(a, FALSE)
      \/ r.server \in Games /\ HasLoaded(b, r.char) /\ Becomes(d, bad # {})
      \/ r.server \in Games /\ ~HasLoaded(b, r.char) /\ Becomes(b, bad # {})
  BY DEF AnswersChar
<1>5. r.server \in Games => r.char \in Chars
  BY SessionAssumption DEF Wanted
<1>6. r.server \in Games => /\ Kept(b) /\ (b.loaded # {} => HasLoaded(b, r.char))
                            /\ Indexed(a) /\ bad = {} => Indexed(b)
  BY <1>5, LoadKeeps
<1> HIDE DEF b
<1>7. CASE Becomes(a, FALSE)
  BY <1>1, <1>3, <1>7, BecomesSafely
<1>8. CASE r.server \in Games /\ HasLoaded(b, r.char) /\ Becomes(d, bad # {})
  <2>1. Kept(d) /\ d.session.state = "char" /\ (Indexed(b) => Indexed(d))
    BY <1>6, <1>8, SetStateKeeps, SetRequestDataKeeps
  <2> HIDE DEF d
  <2>2. Settled(d)
    BY <2>1 DEF Settled
  <2>3. Indexed(Agent) /\ ~(bad # {}) => Indexed(d)
    BY <1>6, <1>8, <2>1
  <2>4. Becomes(d, bad # {})
    BY <1>8
  <2> QED
    BY <1>1, <1>3, <2>2, <2>3, <2>4, BecomesKeeps
<1>9. CASE r.server \in Games /\ ~HasLoaded(b, r.char) /\ Becomes(b, bad # {})
  <2>1. b.loaded = {} /\ Kept(b) /\ (Indexed(Agent) /\ bad = {} => Indexed(b))
    BY <1>6, <1>9
  <2>2. Becomes(b, bad # {})
    BY <1>9
  <2> QED
    BY <1>1, <1>3, <2>1, <2>2, UnloadedKeeps
<1> QED
  BY <1>3, <1>4, <1>7, <1>8, <1>9

\* a is the agent when r, the first request of the session, has been taken.
Taken(a, r) ==
    /\ r \in Wanted /\ Kept(a) /\ Settled(a) /\ (Indexed(a) <=> Indexed(Agent))
    /\ a.session # None /\ a.session.requests = Tail(session.requests)
    /\ a.session.sid = session.sid /\ a.session.server = session.server
    /\ a.session.state = session.state /\ a.session.char = session.char
    /\ a.session.store = session.store

LEMMA FirstTaken ==
    ASSUME AgentOK, session # None, session.requests # <<>>,
           NEW a, a = [Agent EXCEPT !.session.requests = Tail(@)], NEW r, r = Head(session.requests)
    PROVE  Taken(a, r)
<1> DEFINE t == [session EXCEPT !.requests = Tail(@)]
<1>1. session \in Open /\ session.requests \in Seq(Wanted) /\ session.requests # <<>>
  BY SessionCases DEF Open
<1>2. r \in Wanted /\ Tail(session.requests) \in Seq(Wanted)
  BY <1>1, QueueOps
<1>3. Tail(session.requests) \in Seq(Request)
  BY <1>2, SeqMonotonic DEF Wanted
<1>4. /\ t \in Session /\ t.requests = Tail(session.requests) /\ t.state = session.state
      /\ t.store = session.store /\ t.char = session.char /\ t.cid = session.cid
      /\ t.sid = session.sid /\ t.server = session.server
  BY <1>1, <1>3 DEF Open, Session
<1>5. t \in Open
  BY <1>2, <1>4 DEF Open
<1>6. Held(t) = Held(session) /\ t # None
  <2> HIDE DEF t
  <2> QED
    BY <1>1, <1>4, <1>5, HeldOf
<1>7. Agent.session = session /\ Agent.loaded = loaded /\ Agent.cids = cids
  BY DEF Agent
<1>8. /\ Agent \in AgentWith(Open) /\ loaded = Held(session)
      /\ session.char # None => session.cid = session.char
      /\ loaded # {} => session.state = "char"
  BY <1>7, SessionCases DEF Kept
<1>9. a \in AgentWith(Open) /\ a.session = t /\ a.loaded = loaded /\ a.cids = cids
  BY <1>5, <1>7, <1>8 DEF AgentWith
<1> HIDE DEF t
<1>10. Kept(a) /\ Settled(a) /\ (Indexed(a) <=> Indexed(Agent))
  BY <1>4, <1>6, <1>8, <1>9 DEF Kept, Settled, Indexed, Agent
<1> QED
  BY <1>2, <1>4, <1>6, <1>9, <1>10 DEF Taken

LEMMA UidAnswersKeeps ==
    ASSUME AgentOK, LinksOK, UidAnswers
    PROVE  AgentOK' /\ LinksOK'
<1>1. asked' \in Seq(Wanted) /\ UNCHANGED <<closed, up, toAgent>>
  <2>1. asked \in Seq(Wanted) /\ asked # <<>> /\ asked' = Tail(asked)
    BY DEF UidAnswers, LinksOK
  <2> QED
    BY <2>1, QueueOps DEF UidAnswers
<1>2. CASE session = None \/ session.requests = <<>>
  <2>1. UNCHANGED <<session, loaded, cids, failures, toServer>>
    BY <1>2 DEF UidAnswers
  <2> QED
    BY <1>1, <2>1, NothingChanges DEF LinksOK, agent
<1>3. CASE ~(session = None \/ session.requests = <<>>)
  <2> DEFINE r == Head(session.requests)
             a == [Agent EXCEPT !.session.requests = Tail(@)]
  <2>1. Taken(a, r)
    BY <1>3, FirstTaken
  <2>2. \E granted \in BOOLEAN :
            \/ AnswersUser(a, r, granted)
            \/ \E bad \in Fails : AnswersChar(a, r, granted, bad)
    BY <1>3 DEF UidAnswers
  <2> HIDE DEF a, r
  <2>3. AgentOK' /\ toServer' \in Links
    BY <1>1, <2>1, <2>2, AnswersUserKeeps, AnswersCharKeeps DEF Taken
  <2> QED
    BY <1>1, <2>3 DEF LinksOK
<1> QED
  BY <1>2, <1>3

LEMMA LinkLostKeeps ==
    ASSUME AgentOK, LinksOK, NEW s \in Servers \union {"uid"}, LinkLost(s)
    PROVE  AgentOK' /\ LinksOK'
<1>1. AgentOK'
  BY ClosesKeeps, NothingChanges DEF LinkLost
<1>2. <<>> \in Seq(Wanted) /\ <<>> \in Seq(Typed)
  BY EmptySeq
<1>3. LinksOK'
  <2>1. CASE s = "uid"
    BY <1>2, <2>1 DEF LinkLost, LinksOK
  <2>2. CASE s # "uid"
    <3>1. [toAgent EXCEPT ![s] = <<>>] \in Links /\ [toServer EXCEPT ![s] = <<>>] \in Links
      BY <1>2 DEF LinksOK, Links
    <3> QED
      BY <2>2, <3>1 DEF LinkLost, LinksOK
  <2> QED
    BY <2>1, <2>2
<1> QED
  BY <1>1, <1>3

LEMMA LinkUpKeeps ==
    ASSUME AgentOK, LinksOK, NEW s \in Servers \union {"uid"}, LinkUp(s)
    PROVE  AgentOK' /\ LinksOK'
BY NothingChanges DEF LinkUp, LinksOK

LEMMA AgentSteps ==
    ASSUME IInv,
           \/ \E s \in Servers : AgentReceives(s)
           \/ UidAnswers
           \/ \E s \in Servers \union {"uid"} : LinkLost(s) \/ LinkUp(s)
    PROVE  IInv'
<1>1. AgentOK' /\ LinksOK'
  BY AgentReceivesKeeps, UidAnswersKeeps, LinkLostKeeps, LinkUpKeeps DEF IInv
<1>2. UNCHANGED <<table, stage, at, char, shut, moves>>
  BY DEF AgentReceives, UidAnswers, LinkLost, LinkUp, clients
<1>3. cuts' \in 0 .. MaxCuts
  <2>1. cuts \in 0 .. MaxCuts /\ MaxCuts \in Nat
    BY SessionAssumption DEF IInv, ClientsOK
  <2>2. cuts' = cuts \/ (cuts < MaxCuts /\ cuts' = cuts + 1)
    BY DEF AgentReceives, UidAnswers, LinkLost, LinkUp
  <2> QED
    BY <2>1, <2>2
<1>4. mispaired' \in BOOLEAN
  <2>1. mispaired \in BOOLEAN
    BY DEF IInv, ClientsOK
  <2>2. mispaired' = mispaired \/ mispaired' \in BOOLEAN
    BY DEF AgentReceives, UidAnswers, LinkLost, LinkUp
  <2> QED
    BY <2>1, <2>2
<1> QED
  BY <1>1, <1>2, <1>3, <1>4 DEF IInv, ClientsOK, Chosen

-----------------------------------------------------------------------------
(* The servers' and the clients' steps.                                      *)

Early == {"new", "starting", "left", "auth", "over"}

LEMMA StageKeeps ==
    ASSUME ClientsOK, NEW l, NEW st \in Stages, GoesTo(l, st), UNCHANGED char,
           st \in Early \/ (l \in Logins => char[l] \in Chars)
    PROVE  stage' \in [Logins -> Stages] /\ Chosen'
BY DEF ClientsOK, Chosen, GoesTo, Early

\* The step of a server or a client: the agent does not take part, and the message it
\* sends, if any, is well formed.
LEMMA ClientStep ==
    ASSUME IInv, UNCHANGED <<agent, up, asked, mispaired, cuts>>,
           toAgent' \in Links, toServer' \in Links,
           stage' \in [Logins -> Stages] /\ Chosen',
           table' \in Logins \union {None}, at' \in [Logins -> Servers],
           char' \in [Logins -> Chars \union {None}], shut' \subseteq Logins,
           moves' \in 0 .. MaxMoves
    PROVE  IInv'
<1>1. AgentOK'
  BY NothingChanges DEF IInv
<1>2. LinksOK'
  BY DEF IInv, LinksOK
<1>3. ClientsOK'
  BY DEF IInv, ClientsOK
<1> QED
  BY <1>1, <1>2, <1>3 DEF IInv

\* The parts of the invariant that a step starts from.
LEMMA ClientTypes ==
    ASSUME IInv
    PROVE  /\ toAgent \in Links /\ toServer \in Links
           /\ stage \in [Logins -> Stages] /\ Chosen
           /\ table \in Logins \union {None} /\ at \in [Logins -> Servers]
           /\ char \in [Logins -> Chars \union {None}] /\ shut \subseteq Logins
           /\ moves \in 0 .. MaxMoves
BY DEF IInv, ClientsOK, LinksOK

LEMMA StartKeeps ==
    ASSUME IInv, NEW l \in Logins, Start(l)
    PROVE  IInv'
<1>1. stage' \in [Logins -> Stages] /\ Chosen'
  BY StageKeeps DEF IInv, Start, Stages, Early
<1>2. toAgent' \in Links
  <2>1. \A do \in {"start", "startKill"} : Msg(do, l, None) \in Typed
    BY MsgTyped DEF Does
  <2> QED
    BY <2>1, ClientTypes, SentTyped DEF Start, ToAgent
<1> QED
  BY <1>1, <1>2, ClientTypes, ClientStep DEF Start

LEMMA GrantedKeeps ==
    ASSUME IInv, NEW l \in Logins, Granted(l), UNCHANGED char
    PROVE  /\ stage' \in [Logins -> Stages] /\ Chosen'
           /\ table' \in Logins \union {None} /\ toAgent' \in Links
<1>1. Msg("logout", l, None) \in Typed
  BY MsgTyped DEF Does
<1>2. CASE stage[l] = "starting"
  BY <1>2, ClientTypes, StageKeeps DEF Granted, IInv, Stages, Early
<1>3. CASE stage[l] = "left"
  <2>1. GoesTo(l, "over") /\ UNCHANGED table
    BY <1>3 DEF Granted
  <2>2. toAgent' \in Links
    BY <1>1, <1>3, ClientTypes, SentTyped DEF Granted, ToAgent
  <2> QED
    BY <2>1, <2>2, ClientTypes, StageKeeps DEF IInv, Stages, Early
<1>4. CASE stage[l] \notin {"starting", "left"}
  <2>1. UNCHANGED <<stage, table, toAgent>>
    BY <1>4 DEF Granted
  <2> QED
    BY <2>1, ClientTypes DEF Chosen
<1> QED
  BY <1>2, <1>3, <1>4

LEMMA AnswersKeeps ==
    ASSUME IInv, NEW l, NEW from, NEW st \in Stages, Answers(l, from, st), UNCHANGED char,
           st \in Early \/ (from \intersect Early = {})
    PROVE  /\ stage' \in [Logins -> Stages] /\ Chosen'
           /\ table' \in Logins \union {None} /\ toAgent' \in Links
<1>1. UNCHANGED <<table, toAgent>>
  BY DEF Answers
<1>2. CASE stage[l] \in from
  <2>1. GoesTo(l, st)
    BY <1>2 DEF Answers
  <2>2. st \in Early \/ (l \in Logins => char[l] \in Chars)
    BY <1>2, ClientTypes DEF Chosen, Early
  <2> QED
    BY <1>1, <2>1, <2>2, ClientTypes, StageKeeps DEF IInv
<1>3. CASE stage[l] \notin from
  BY <1>1, <1>3, ClientTypes DEF Answers, Chosen
<1> QED
  BY <1>2, <1>3

\* A server that has nobody to cut off says so, or does not.
LEMMA KillKeeps ==
    ASSUME IInv, UNCHANGED <<stage, table, char>>,
           \/ UNCHANGED toAgent
           \/ \E s \in Servers : ToAgent(s, Msg("killFailed", None, None))
    PROVE  /\ stage' \in [Logins -> Stages] /\ Chosen'
           /\ table' \in Logins \union {None} /\ toAgent' \in Links
<1>1. Msg("killFailed", None, None) \in Typed
  BY MsgTyped DEF Does
<1>2. toAgent' \in Links
  BY <1>1, ClientTypes, SentTyped DEF ToAgent
<1> QED
  BY <1>2, ClientTypes DEF Chosen

LEMMA AuthReceivesKeeps ==
    ASSUME IInv, AuthReceives
    PROVE  IInv'
<1>1. PICK m :
        /\ Hears("auth", m)
        /\ \/ m.do = "granted" /\ Granted(m.login)
           \/ m.do = "refused" /\ Answers(m.login, {"starting", "left"}, "over")
           \/ m.do = "selected" /\ Answers(m.login, {"selecting"}, "selected")
           \/ m.do = "notSelected" /\ Answers(m.login, {"selecting"}, "auth")
           \/ m.do = "zoneEnd" /\ Answers(m.login, {"moving"}, "moved")
           \/ m.do = "kill" /\ ParseUserKill /\ UNCHANGED <<stage, table>>
        /\ shut' = IF m.do = "kill" THEN shut \union ({table} \ {None}) ELSE shut
        /\ UNCHANGED <<agent, up, asked, at, char, mispaired, moves, cuts>>
  BY DEF AuthReceives
<1>2. m \in Typed /\ toServer' \in Links
  BY <1>1, HearsTyped DEF IInv, Servers
<1>3. m.do = "granted" => m.login \in Logins
  BY <1>2, TypedMessage
<1>4. /\ stage' \in [Logins -> Stages] /\ Chosen'
      /\ table' \in Logins \union {None} /\ toAgent' \in Links
  <2>1. UNCHANGED char
    BY <1>1
  <2>2. CASE m.do = "granted" /\ Granted(m.login)
    BY <1>3, <2>1, <2>2, GrantedKeeps
  <2>3. CASE Answers(m.login, {"starting", "left"}, "over")
    BY <2>1, <2>3, AnswersKeeps DEF Stages, Early
  <2>4. CASE Answers(m.login, {"selecting"}, "selected")
    BY <2>1, <2>4, AnswersKeeps DEF Stages, Early
  <2>5. CASE Answers(m.login, {"selecting"}, "auth")
    BY <2>1, <2>5, AnswersKeeps DEF Stages, Early
  <2>6. CASE Answers(m.login, {"moving"}, "moved")
    BY <2>1, <2>6, AnswersKeeps DEF Stages, Early
  <2>7. CASE ParseUserKill /\ UNCHANGED <<stage, table>>
    BY <2>1, <2>7, KillKeeps DEF ParseUserKill, Servers
  <2> QED
    BY <1>1, <2>2, <2>3, <2>4, <2>5, <2>6, <2>7
<1>5. shut' \subseteq Logins
  BY <1>1, ClientTypes
<1> QED
  BY <1>1, <1>2, <1>4, <1>5, ClientTypes, ClientStep

LEMMA GameReceivesKeeps ==
    ASSUME IInv, NEW g \in Games, GameReceives(g)
    PROVE  IInv'
<1>1. PICK m :
        /\ Hears(g, m)
        /\ \/ m.do = "entered" /\ Entered(g, m.login, m.char)
           \/ m.do = "refused" /\ Answers(m.login, {"entering", "gone"}, "over")
           \/ m.do = "zoneEnd" /\ Answers(m.login, {"moving"}, "moved")
           \/ m.do = "kill" /\ Kill(g, m.char) /\ UNCHANGED stage
        /\ shut' = IF m.do = "kill" THEN shut \union {l \in Players(g, m.char) : stage[l] = "game"} ELSE shut
        /\ UNCHANGED <<agent, up, asked, table, at, char, mispaired, moves, cuts>>
  BY DEF GameReceives
<1>2. m \in Typed /\ toServer' \in Links /\ g \in Servers
  BY <1>1, HearsTyped DEF IInv, Servers
<1>3. m.do = "entered" => m.login \in Logins /\ m.char \in Chars \union {None}
  BY <1>2, TypedMessage
<1>4. UNCHANGED <<char, table>>
  BY <1>1
<1>5. /\ stage' \in [Logins -> Stages] /\ Chosen'
      /\ table' \in Logins \union {None} /\ toAgent' \in Links
  <2>1. CASE m.do = "entered" /\ Entered(g, m.login, m.char)
    <3>1. CASE stage[m.login] = "entering" /\ GoesTo(m.login, "game") /\ UNCHANGED toAgent
      <4>1. m.login \in Logins => char[m.login] \in Chars
        BY <3>1, ClientTypes DEF Chosen, Early
      <4> QED
        BY <1>4, <3>1, <4>1, ClientTypes, StageKeeps DEF IInv, Stages
    <3>2. CASE GoesTo(m.login, "over") /\ ToAgent(g, Msg("leave", m.login, m.char))
      <4>1. Msg("leave", m.login, m.char) \in Typed
        BY <1>3, <2>1, MsgTyped DEF Does
      <4>2. toAgent' \in Links
        BY <3>2, <4>1, ClientTypes, SentTyped DEF ToAgent
      <4> QED
        BY <1>4, <3>2, <4>2, ClientTypes, StageKeeps DEF IInv, Stages, Early
    <3> QED
      BY <2>1, <3>1, <3>2 DEF Entered
  <2>2. CASE Answers(m.login, {"entering", "gone"}, "over")
    BY <1>4, <2>2, AnswersKeeps DEF Stages, Early
  <2>3. CASE Answers(m.login, {"moving"}, "moved")
    BY <1>4, <2>3, AnswersKeeps DEF Stages, Early
  <2>4. CASE Kill(g, m.char) /\ UNCHANGED stage
    BY <1>2, <1>4, <2>4, KillKeeps DEF Kill
  <2> QED
    BY <1>1, <2>1, <2>2, <2>3, <2>4
<1>6. shut' \subseteq Logins
  BY <1>1, ClientTypes DEF Players
<1> QED
  BY <1>1, <1>2, <1>5, <1>6, ClientTypes, ClientStep

LEMMA SelectKeeps ==
    ASSUME IInv, NEW l \in Logins, NEW c \in Chars, Select(l, c)
    PROVE  IInv'
<1>1. stage' \in [Logins -> Stages] /\ char' \in [Logins -> Chars \union {None}] /\ Chosen'
  BY ClientTypes DEF Select, GoesTo, Stages, Chosen
<1>2. toAgent' \in Links
  <2>1. Msg("select", l, c) \in Typed
    BY MsgTyped DEF Does
  <2> QED
    BY <2>1, ClientTypes, SentTyped DEF Select, ToAgent
<1> QED
  BY <1>1, <1>2, ClientTypes, ClientStep DEF Select

\* A login that leaves a server sends two messages.
LEMMA MovesKeeps ==
    ASSUME IInv, NEW l \in Logins, NEW s, NEW m \in Typed, Moves(l, s, m), UNCHANGED char,
           char[l] \in Chars
    PROVE  stage' \in [Logins -> Stages] /\ Chosen' /\ toAgent' \in Links
<1>1. stage' \in [Logins -> Stages] /\ Chosen'
  BY StageKeeps DEF Moves, IInv, Stages
<1>2. Msg("zoneEnd", l, None) \in Typed
  BY MsgTyped DEF Does
<1>3. Sent(toAgent, s, m) \in Links
  BY ClientTypes, SentTyped
<1>4. toAgent' \in Links
  BY <1>2, <1>3, SentTyped DEF Moves
<1> QED
  BY <1>1, <1>4

LEMMA MoveKeeps ==
    ASSUME IInv, NEW l \in Logins, NEW g \in Games, Move(l, g)
    PROVE  IInv'
<1>1. char[l] \in Chars /\ UNCHANGED char
  BY ClientTypes DEF Move, Chosen
<1>2. Msg("move", l, None) \in Typed /\ Msg("zoneEnd", l, None) \in Typed
  BY MsgTyped DEF Does
<1>3. stage' \in [Logins -> Stages] /\ Chosen' /\ toAgent' \in Links
  <2>1. CASE table = l
    BY <1>1, <1>2, <2>1, MovesKeeps DEF Move
  <2>2. CASE table # l
    <3>1. GoesTo(l, "moving") /\ ToAgent("auth", Msg("zoneEnd", l, None))
      BY <2>2 DEF Move
    <3>2. toAgent' \in Links
      BY <1>2, <3>1, ClientTypes, SentTyped DEF ToAgent
    <3> QED
      BY <1>1, <3>1, <3>2, StageKeeps DEF IInv, Stages
  <2> QED
    BY <2>1, <2>2
<1>4. at' \in [Logins -> Servers] /\ table' \in Logins \union {None}
  BY ClientTypes DEF Move, Servers
<1> QED
  BY <1>3, <1>4, ClientTypes, ClientStep DEF Move

LEMMA EnterKeeps ==
    ASSUME IInv, NEW l \in Logins, Enter(l)
    PROVE  IInv'
<1>1. char[l] \in Chars /\ UNCHANGED char
  BY ClientTypes DEF Enter, Chosen
<1>2. CASE GoesTo(l, "entering") /\ ToAgent(at[l], Msg("enter", l, char[l]))
  <2>1. Msg("enter", l, char[l]) \in Typed
    BY <1>1, MsgTyped DEF Does
  <2>2. toAgent' \in Links
    BY <1>2, <2>1, ClientTypes, SentTyped DEF ToAgent
  <2>3. stage' \in [Logins -> Stages] /\ Chosen'
    BY <1>1, <1>2, StageKeeps DEF IInv, Stages
  <2> QED
    BY <2>2, <2>3, ClientTypes, ClientStep DEF Enter
<1>3. CASE GoesTo(l, "over") /\ UNCHANGED toAgent
  <2>1. stage' \in [Logins -> Stages] /\ Chosen'
    BY <1>1, <1>3, StageKeeps DEF IInv, Stages, Early
  <2> QED
    BY <1>3, <2>1, ClientTypes, ClientStep DEF Enter
<1> QED
  BY <1>2, <1>3 DEF Enter

LEMMA MoveZoneKeeps ==
    ASSUME IInv, NEW l \in Logins, NEW g \in Games, MoveZone(l, g)
    PROVE  IInv'
<1>1. char[l] \in Chars /\ UNCHANGED char
  BY ClientTypes DEF MoveZone, Chosen
<1>2. Msg("zone", l, char[l]) \in Typed
  BY <1>1, MsgTyped DEF Does
<1>3. stage' \in [Logins -> Stages] /\ Chosen' /\ toAgent' \in Links
  BY <1>1, <1>2, MovesKeeps DEF MoveZone
<1>4. at' \in [Logins -> Servers]
  BY ClientTypes DEF MoveZone, Servers
<1>5. moves' \in 0 .. MaxMoves
  BY ClientTypes, SessionAssumption DEF MoveZone
<1> QED
  BY <1>3, <1>4, <1>5, ClientTypes, ClientStep DEF MoveZone

LEMMA LeavesGameKeeps ==
    ASSUME IInv, NEW l \in Logins, LeavesGame(l)
    PROVE  IInv'
<1>1. stage' \in [Logins -> Stages] /\ Chosen'
  BY StageKeeps DEF LeavesGame, IInv, Stages, Early
<1>2. toAgent' \in Links
  <2>1. Msg("leave", l, char[l]) \in Typed
    BY ClientTypes, MsgTyped DEF Does
  <2> QED
    BY <2>1, ClientTypes, SentTyped DEF LeavesGame, ToAgent
<1> QED
  BY <1>1, <1>2, ClientTypes, ClientStep DEF LeavesGame

LEMMA ClientLeavesKeeps ==
    ASSUME IInv, NEW l \in Logins, ClientLeaves(l)
    PROVE  IInv'
<1> DEFINE st == CASE stage[l] = "starting" -> "left"
                   [] stage[l] = "entering" -> "gone"
                   [] stage[l] = "game" -> "leaving"
                   [] OTHER -> "over"
<1>1. st \in Stages /\ (st \in Early \/ char[l] \in Chars)
  BY ClientTypes DEF Stages, Early, Chosen
<1>2. GoesTo(l, st) /\ UNCHANGED char
  BY DEF ClientLeaves
<1> HIDE DEF st
<1>3. stage' \in [Logins -> Stages] /\ Chosen'
  BY <1>1, <1>2, StageKeeps DEF IInv
<1>4. table' \in Logins \union {None} /\ toAgent' \in Links
  <2>1. Msg("logout", l, None) \in Typed
    BY MsgTyped DEF Does
  <2> QED
    BY <2>1, ClientTypes, SentTyped DEF ClientLeaves, ToAgent
<1> QED
  BY <1>3, <1>4, ClientTypes, ClientStep DEF ClientLeaves

LEMMA TimesOutKeeps ==
    ASSUME IInv, NEW l \in Logins, TimesOut(l)
    PROVE  IInv'
<1>1. stage' \in [Logins -> Stages] /\ Chosen'
  BY StageKeeps DEF TimesOut, IInv, Stages, Early
<1> QED
  BY <1>1, ClientTypes, ClientStep DEF TimesOut, links

LEMMA NothingHappens ==
    ASSUME IInv, UNCHANGED vars
    PROVE  IInv'
BY ClientTypes, ClientStep DEF vars, links, clients, Chosen

-----------------------------------------------------------------------------
(* The specification.                                                        *)

LEMMA InitOK ==
    ASSUME Init
    PROVE  IInv
<1>1. AgentOK
  <2>1. Agent \in AgentWith({None}) /\ Agent.loaded = {} /\ Agent.cids = {}
    BY DEF Init, Agent, AgentWith
  <2>2. Settled(Agent) /\ Indexed(Agent)
    BY <2>1 DEF Settled, Indexed
  <2> QED
    BY <2>2, SessionAssumption DEF Init, AgentOK
<1>2. LinksOK
  <2>1. <<>> \in Seq(Wanted) /\ <<>> \in Seq(Typed)
    BY EmptySeq
  <2> QED
    BY <2>1 DEF Init, LinksOK, Links
<1>3. ClientsOK
  <2>1. MaxMoves \in Nat /\ MaxCuts \in Nat
    BY SessionAssumption
  <2>2. moves \in 0 .. MaxMoves /\ cuts \in 0 .. MaxCuts
    BY <2>1 DEF Init
  <2>3. Chosen
    BY DEF Init, Chosen
  <2>4. /\ stage \in [Logins -> Stages] /\ at \in [Logins -> Servers]
        /\ char \in [Logins -> Chars \union {None}]
    BY DEF Init, Stages, Servers
  <2> QED
    BY <2>2, <2>3, <2>4 DEF Init, ClientsOK
<1> QED
  BY <1>1, <1>2, <1>3 DEF IInv

LEMMA NextOK ==
    ASSUME IInv, [Next]_vars
    PROVE  IInv'
<1>1. CASE \/ \E s \in Servers : AgentReceives(s)
           \/ UidAnswers
           \/ \E s \in Servers \union {"uid"} : LinkLost(s) \/ LinkUp(s)
  BY <1>1, AgentSteps
<1>2. CASE AuthReceives
  BY <1>2, AuthReceivesKeeps
<1>3. ASSUME NEW g \in Games, GameReceives(g)
      PROVE  IInv'
  BY <1>3, GameReceivesKeeps
<1>4. ASSUME NEW l \in Logins,
             Start(l) \/ Enter(l) \/ LeavesGame(l) \/ ClientLeaves(l) \/ TimesOut(l)
      PROVE  IInv'
  BY <1>4, StartKeeps, EnterKeeps, LeavesGameKeeps, ClientLeavesKeeps, TimesOutKeeps
<1>5. ASSUME NEW l \in Logins, NEW c \in Chars, Select(l, c)
      PROVE  IInv'
  BY <1>5, SelectKeeps
<1>6. ASSUME NEW l \in Logins, NEW g \in Games, Move(l, g) \/ MoveZone(l, g)
      PROVE  IInv'
  BY <1>6, MoveKeeps, MoveZoneKeeps
<1>7. CASE UNCHANGED vars
  BY <1>7, NothingHappens
<1> QED
  BY <1>1, <1>2, <1>3, <1>4, <1>5, <1>6, <1>7 DEF Next

LEMMA DataHasOwnerOfIInv ==
    ASSUME IInv
    PROVE  DataHasOwner
<1>1. Agent.session = session /\ Agent.loaded = loaded /\ Agent.cids = cids
  BY DEF Agent
<1>2. loaded = Held(session)
  <2>1. CASE session = None
    BY <2>1, SessionCases DEF IInv, Held
  <2>2. CASE session # None
    BY <1>1, <2>2, AgentIsKept DEF IInv, Kept
  <2> QED
    BY <2>1, <2>2
<1>3. failures = 0 => cids = loaded \ {"store"}
  BY <1>1 DEF IInv, AgentOK, Indexed
<1> QED
  BY <1>2, <1>3 DEF DataHasOwner

LEMMA TypeOKOfIInv ==
    ASSUME IInv
    PROVE  TypeOK
<1>1. session = None \/ session \in Session
  BY SessionCases DEF IInv, Open
<1>2. loaded \subseteq {"store"} \union Chars /\ cids \subseteq Chars
  BY SessionCases, AgentIsKept DEF IInv, Kept, AgentWith, Agent
<1>3. asked \in Seq(Request)
  BY SeqMonotonic DEF IInv, LinksOK, Wanted
<1>4. toAgent \in [Servers -> Seq(Messages)] /\ toServer \in [Servers -> Seq(Messages)]
  <2>1. Typed \subseteq Messages
    BY DEF Typed
  <2>2. Seq(Typed) \subseteq Seq(Messages)
    BY <2>1, SeqMonotonic
  <2> QED
    BY <2>2 DEF IInv, LinksOK, Links
<1>5. failures \in 0 .. MaxFailures /\ closed \subseteq Logins /\ up \subseteq Servers \union {"uid"}
  BY DEF IInv, AgentOK, LinksOK
<1> QED
  BY <1>1, <1>2, <1>3, <1>4, <1>5 DEF TypeOK, IInv, ClientsOK, Stages

\* The data of the account stays with its session, the links carry what the servers
\* send, and a login that has chosen a character keeps it.
THEOREM SessionIsKept == Spec => []IInv
<1>1. Init => IInv
  BY InitOK
<1>2. IInv /\ [Next]_vars => IInv'
  BY NextOK
<1> QED
  BY <1>1, <1>2, PTL DEF Spec

\* Every variable keeps its type.
THEOREM TypeCorrect == Spec => []TypeOK
<1>1. IInv => TypeOK
  BY TypeOKOfIInv
<1> QED
  BY <1>1, SessionIsKept, PTL

\* No session leaves data behind in the login maps, however it ends: with its owner's
\* logout, with a kill that finds nobody or with the link to his server. And as long as
\* no read or write has failed the map of the characters has those that are loaded.
THEOREM DataIsOwned == Spec => []DataHasOwner
<1>1. IInv => DataHasOwner
  BY DataHasOwnerOfIInv
<1> QED
  BY <1>1, SessionIsKept, PTL

-----------------------------------------------------------------------------
(***************************************************************************)
(* Who owns the session. A login asks for it with a message, waits with a  *)
(* request, and is told: one token, that is in one place at a time. While  *)
(* it is on its way nothing that the login may have said to give a session *)
(* back is, so what gives it the session is not undone by an older word.   *)
(***************************************************************************)

Asking == {"start", "startKill", "enter"}
Granting == {"granted", "entered"}
Departing == {"logout", "move", "leave", "zone"}

\* What is on the link of s.
On(q, s) == {q[s][i] : i \in DOMAIN q[s]}

\* A message of one of the kinds do about l is on some link.
Coming(q, l, do) ==
    \E s \in Servers : \E i \in DOMAIN q[s] : q[s][i].login = l /\ q[s][i].do \in do

\* There are no two of them.
AtMostOne(q, l, do) ==
    \A s, t \in Servers : \A i \in DOMAIN q[s], j \in DOMAIN q[t] :
        /\ q[s][i].login = l /\ q[s][i].do \in do
        /\ q[t][j].login = l /\ q[t][j].do \in do
        => s = t /\ i = j

\* Those of the kinds do are ahead of those of the kinds re, on the same link.
Ahead(q, l, do, re) ==
    \A s, t \in Servers : \A i \in DOMAIN q[s], j \in DOMAIN q[t] :
        /\ q[s][i].login = l /\ q[s][i].do \in do
        /\ q[t][j].login = l /\ q[t][j].do \in re
        => s = t /\ i < j

Requests == IF session = None THEN <<>> ELSE session.requests

Waiting(l) == \E i \in DOMAIN Requests : Requests[i].login = l

TokenOK(l) ==
    /\ AtMostOne(toAgent, l, Asking) /\ AtMostOne(toServer, l, Granting)
    /\ \A i, j \in DOMAIN Requests : Requests[i].login = l /\ Requests[j].login = l => i = j
    /\ Coming(toAgent, l, Asking) => ~Waiting(l) /\ ~Coming(toServer, l, Granting)
    /\ Waiting(l) => ~Coming(toServer, l, Granting)
    /\ Coming(toAgent, l, Asking) \/ Waiting(l) \/ Coming(toServer, l, Granting) =>
          ~Coming(toAgent, l, Departing)

\* The stages of a login that has asked to start, and to enter s with c.
Starts(l) == stage[l] \in {"starting", "left", "over"}

Enters(l, s, c) ==
    \/ stage[l] \in {"gone", "over"}
    \/ stage[l] = "entering" /\ at[l] = s /\ char[l] = c

\* What m, on its way to the agent from s, says about the stage of its login.
Tells(s, m) ==
    /\ m.do \in {"start", "startKill"} => Starts(m.login)
    /\ m.do = "enter" => Enters(m.login, s, m.char)
    /\ m.do = "select" => s = "auth"
    /\ m.do \in {"logout", "leave"} => stage[m.login] = "over"
    /\ m.do \in {"move", "zone", "zoneEnd"} => stage[m.login] \in {"moving", "over"}

TellsRequest(r) == IF r.char = None THEN Starts(r.login) ELSE Enters(r.login, r.server, r.char)

TellsServer(s, m) ==
    /\ m.do = "granted" => Starts(m.login)
    /\ m.do = "entered" => Enters(m.login, s, m.char)
    /\ m.do = "zoneEnd" => stage[m.login] \in {"moving", "over"}

StageOK(l) ==
    /\ \A s \in Servers : \A m \in On(toAgent, s) : m.login = l => Tells(s, m)
    /\ \A i \in DOMAIN Requests : Requests[i].login = l => TellsRequest(Requests[i])
    /\ \A s \in Servers : \A m \in On(toServer, s) : m.login = l => TellsServer(s, m)
    /\ table = l => stage[l] \in {"auth", "selecting", "selected"}

\* A login that moves on: what is sent after the news of it comes back after it.
MoveOK(l) ==
    /\ AtMostOne(toAgent, l, {"zoneEnd"}) /\ AtMostOne(toServer, l, {"zoneEnd"})
    /\ Coming(toServer, l, {"zoneEnd"}) => ~Coming(toAgent, l, {"zoneEnd", "move", "zone"})
    /\ Ahead(toAgent, l, {"move", "zone"}, {"zoneEnd"})

UserOwned(l) == Owns(l) /\ session.state = "user" /\ session.server = "auth"

CharOwned(l, s, c) ==
    /\ Owns(l) /\ session.state = "char" /\ session.server = s
    /\ closed = {} => session.char = c

OwnerOK(l) ==
    /\ Coming(toServer, l, {"granted"}) \/ table = l => UserOwned(l)
    /\ \A s \in Servers : \A m \in On(toServer, s) :
          m.login = l /\ m.do = "entered" => CharOwned(l, s, m.char)
    /\ stage[l] \in {"game", "leaving"} => CharOwned(l, at[l], char[l])

\* A login that selects owns the session, and the agent hears of that before it
\* hears that the login departs.
SelectOK(l) ==
    /\ stage[l] \in {"auth", "selecting", "selected"} => table = l
    /\ Coming(toAgent, l, {"select"}) =>
          UserOwned(l) /\ Ahead(toAgent, l, {"select"}, {"logout", "move"})

DataOK ==
    /\ session # None /\ session.state = "char" => session.store /\ session.char # None
    /\ \A l \in Logins : SelectOK(l)

LoginOK(l) == TokenOK(l) /\ MoveOK(l) /\ StageOK(l)

Tokens == \A l \in Logins : LoginOK(l)

Ownership ==
    /\ \A l \in Logins \ closed : OwnerOK(l)
    /\ closed = {} => DataOK

-----------------------------------------------------------------------------
(* What a step does to the messages on the links.                            *)

\* p has what is left of q from somewhere on, and messages of X.
Embeds(q, p, X) ==
    \A s \in Servers : \E k \in Nat : \A i \in DOMAIN p[s] :
        (i + k \in DOMAIN q[s] /\ p[s][i] = q[s][i + k]) \/ p[s][i] \in X

LEMMA SameEmbeds ==
    ASSUME NEW q \in Links, NEW X
    PROVE  Embeds(q, q, X)
<1>1. ASSUME NEW s \in Servers
      PROVE  \E k \in Nat : \A i \in DOMAIN q[s] : i + k \in DOMAIN q[s] /\ q[s][i] = q[s][i + k]
  <2>1. q[s] \in Seq(Typed)
    BY DEF Links
  <2>2. \A i \in DOMAIN q[s] : i + 0 \in DOMAIN q[s] /\ q[s][i] = q[s][i + 0]
    BY <2>1
  <2> QED
    BY <2>2
<1> QED
  BY <1>1 DEF Embeds

LEMMA TailEmbeds ==
    ASSUME NEW q \in Links, NEW s \in Servers, q[s] # <<>>
    PROVE  LET p == [q EXCEPT ![s] = Tail(@)]
           IN  /\ p \in Links /\ Embeds(q, p, {})
               /\ Head(q[s]) = q[s][1] /\ 1 \in DOMAIN q[s]
               /\ \A t \in Servers : \A i \in DOMAIN p[t] : t = s => i + 1 \in DOMAIN q[s] /\ p[s][i] = q[s][i + 1]
               /\ \A t \in Servers : t # s => p[t] = q[t]
<1> DEFINE p == [q EXCEPT ![s] = Tail(@)]
<1>1. q[s] \in Seq(Typed) /\ \A t \in Servers : t # s => p[t] = q[t] /\ q[t] \in Seq(Typed)
  BY DEF Links
<1>2. p \in Links
  <2>1. Tail(q[s]) \in Seq(Typed)
    BY <1>1, QueueOps
  <2> QED
    BY <2>1 DEF Links
<1>3. p[s] = Tail(q[s]) /\ 1 \in DOMAIN q[s] /\ Head(q[s]) = q[s][1]
  <2>1. p[s] = Tail(q[s])
    BY DEF Links
  <2>2. Len(q[s]) \in Nat /\ Len(q[s]) # 0 /\ DOMAIN q[s] = 1 .. Len(q[s])
    BY <1>1, EmptySeq
  <2> QED
    BY <1>1, <2>1, <2>2, HeadTailProperties
<1>4. ASSUME NEW i \in DOMAIN p[s]
      PROVE  i + 1 \in DOMAIN q[s] /\ p[s][i] = q[s][i + 1]
  <2>1. Tail(q[s]) \in Seq(Typed) /\ Len(Tail(q[s])) = Len(q[s]) - 1 /\ Len(q[s]) \in Nat
    BY <1>1, HeadTailProperties
  <2> HIDE DEF p
  <2>2. i \in 1 .. Len(q[s]) - 1
    BY <1>3, <2>1
  <2>3. i + 1 \in DOMAIN q[s] /\ Tail(q[s])[i] = q[s][i + 1]
    BY <1>1, <2>1, <2>2, HeadTailProperties
  <2> QED
    BY <1>3, <2>3
<1>5. ASSUME NEW t \in Servers
      PROVE  \E k \in Nat : \A i \in DOMAIN p[t] : i + k \in DOMAIN q[t] /\ p[t][i] = q[t][i + k]
  <2>1. CASE t = s
    BY <1>4, <2>1
  <2>2. CASE t # s
    <3>1. \A i \in DOMAIN p[t] : i + 0 \in DOMAIN q[t] /\ p[t][i] = q[t][i + 0]
      BY <1>1, <2>2
    <3> QED
      BY <3>1
  <2> QED
    BY <2>1, <2>2
<1> HIDE DEF p
<1> QED
  BY <1>1, <1>2, <1>3, <1>4, <1>5 DEF Embeds, p

LEMMA SentEmbeds ==
    ASSUME NEW q \in Links, NEW s \in Servers, NEW m \in Typed
    PROVE  LET p == Sent(q, s, m)
           IN  /\ p \in Links /\ Embeds(q, p, {m})
               /\ \A t \in Servers : \A i \in DOMAIN p[t] :
                     \/ i \in DOMAIN q[t] /\ p[t][i] = q[t][i]
                     \/ t = s /\ p[t][i] = m /\ i \in Nat /\ \A j \in DOMAIN q[t] : j < i
<1> DEFINE p == Sent(q, s, m)
<1>1. p \in Links
  BY SentTyped
<1>2. ASSUME NEW t \in Servers, NEW i \in DOMAIN p[t]
      PROVE  \/ i \in DOMAIN q[t] /\ p[t][i] = q[t][i]
             \/ t = s /\ p[t][i] = m /\ i \in Nat /\ \A j \in DOMAIN q[t] : j < i
  <2>1. CASE s \in up /\ t = s
    <3>1. p[t] = Append(q[t], m) /\ q[t] \in Seq(Typed)
      BY <2>1 DEF Sent, Links
    <3>2. /\ Len(q[t]) \in Nat /\ DOMAIN q[t] = 1 .. Len(q[t])
          /\ DOMAIN p[t] = 1 .. Len(q[t]) + 1
          /\ \A j \in 1 .. Len(q[t]) : p[t][j] = q[t][j]
          /\ p[t][Len(q[t]) + 1] = m
      BY <3>1, AppendProperties
    <3> QED
      BY <2>1, <3>2
  <2>2. CASE ~(s \in up /\ t = s)
    BY <2>2 DEF Sent, Links
  <2> QED
    BY <2>1, <2>2
<1>3. ASSUME NEW t \in Servers
      PROVE  \E k \in Nat : \A i \in DOMAIN p[t] :
                (i + k \in DOMAIN q[t] /\ p[t][i] = q[t][i + k]) \/ p[t][i] \in {m}
  <2>1. p[t] \in Seq(Typed)
    BY <1>1 DEF Links
  <2>2. \A i \in DOMAIN p[t] : i \in Nat
    BY <2>1
  <2> HIDE DEF p
  <2>3. \A i \in DOMAIN p[t] : (i + 0 \in DOMAIN q[t] /\ p[t][i] = q[t][i + 0]) \/ p[t][i] \in {m}
    BY <1>2, <2>2
  <2> QED
    BY <2>3
<1> HIDE DEF p
<1> QED
  BY <1>1, <1>2, <1>3 DEF Embeds, p

LEMMA SentOn ==
    ASSUME NEW q \in Links, NEW s \in Servers, NEW m \in Typed,
           NEW t \in Servers, NEW n \in On(Sent(q, s, m), t)
    PROVE  n \in On(q, t) \/ (t = s /\ n = m)
<1> DEFINE p == Sent(q, s, m)
<1>1. \A u \in Servers : \A i \in DOMAIN p[u] :
          \/ i \in DOMAIN q[u] /\ p[u][i] = q[u][i]
          \/ u = s /\ p[u][i] = m /\ i \in Nat /\ \A j \in DOMAIN q[u] : j < i
  BY SentEmbeds
<1>2. PICK i \in DOMAIN p[t] : n = p[t][i]
  BY DEF On
<1> HIDE DEF p
<1> QED
  BY <1>1, <1>2 DEF On

LEMMA CutEmbeds ==
    ASSUME NEW q \in Links, NEW s \in Servers
    PROVE  LET p == [q EXCEPT ![s] = <<>>]
           IN  p \in Links /\ Embeds(q, p, {}) /\ p[s] = <<>>
<1> DEFINE p == [q EXCEPT ![s] = <<>>]
<1>1. p \in Links /\ p[s] = <<>> /\ \A t \in Servers : t # s => p[t] = q[t]
  BY DEF Links
<1>2. ASSUME NEW t \in Servers
      PROVE  \E k \in Nat : \A i \in DOMAIN p[t] : i + k \in DOMAIN q[t] /\ p[t][i] = q[t][i + k]
  <2>1. q[t] \in Seq(Typed)
    BY DEF Links
  <2> HIDE DEF p
  <2>2. \A i \in DOMAIN p[t] : i + 0 \in DOMAIN q[t] /\ p[t][i] = q[t][i + 0]
    BY <1>1, <2>1
  <2> QED
    BY <2>2
<1> HIDE DEF p
<1> QED
  BY <1>1, <1>2 DEF Embeds, p

\* No more than what was there comes about l, but for what X has.
LEMMA EmbedKeeps ==
    ASSUME NEW q \in Links, NEW p \in Links, NEW X, Embeds(q, p, X),
           NEW l, NEW A, NEW B,
           \A m \in X : m.login = l => m.do \notin A \union B
    PROVE  /\ Coming(p, l, A) => Coming(q, l, A)
           /\ AtMostOne(q, l, A) => AtMostOne(p, l, A)
           /\ Ahead(q, l, A, B) => Ahead(p, l, A, B)
<1>1. ASSUME NEW s \in Servers
      PROVE  /\ DOMAIN p[s] \subseteq Nat /\ DOMAIN q[s] \subseteq Nat
             /\ \E k \in Nat : \A i \in DOMAIN p[s] :
                   p[s][i].login = l /\ p[s][i].do \in A \union B =>
                      i + k \in DOMAIN q[s] /\ p[s][i] = q[s][i + k]
  <2>1. p[s] \in Seq(Typed) /\ q[s] \in Seq(Typed)
    BY DEF Links
  <2>2. PICK k \in Nat : \A i \in DOMAIN p[s] :
            (i + k \in DOMAIN q[s] /\ p[s][i] = q[s][i + k]) \/ p[s][i] \in X
    BY DEF Embeds
  <2>3. \A i \in DOMAIN p[s] : p[s][i].login = l /\ p[s][i].do \in A \union B =>
            i + k \in DOMAIN q[s] /\ p[s][i] = q[s][i + k]
    BY <2>2
  <2>4. DOMAIN p[s] \subseteq Nat /\ DOMAIN q[s] \subseteq Nat
    BY <2>1
  <2> QED
    BY <2>3, <2>4
<1>2. ASSUME Coming(p, l, A)
      PROVE  Coming(q, l, A)
  <2>1. PICK s \in Servers : \E i \in DOMAIN p[s] : p[s][i].login = l /\ p[s][i].do \in A
    BY <1>2 DEF Coming
  <2>2. PICK i \in DOMAIN p[s] : p[s][i].login = l /\ p[s][i].do \in A
    BY <2>1
  <2>3. PICK k \in Nat : i + k \in DOMAIN q[s] /\ p[s][i] = q[s][i + k]
    BY <1>1, <2>2
  <2> QED
    BY <2>2, <2>3 DEF Coming
<1>3. ASSUME AtMostOne(q, l, A), NEW s \in Servers, NEW t \in Servers,
             NEW i \in DOMAIN p[s], NEW j \in DOMAIN p[t],
             p[s][i].login = l, p[s][i].do \in A, p[t][j].login = l, p[t][j].do \in A
      PROVE  s = t /\ i = j
  <2>1. PICK k \in Nat : \A n \in DOMAIN p[s] :
            p[s][n].login = l /\ p[s][n].do \in A \union B => n + k \in DOMAIN q[s] /\ p[s][n] = q[s][n + k]
    BY <1>1
  <2>2. PICK h \in Nat : \A n \in DOMAIN p[t] :
            p[t][n].login = l /\ p[t][n].do \in A \union B => n + h \in DOMAIN q[t] /\ p[t][n] = q[t][n + h]
    BY <1>1
  <2>3. s = t /\ i + k = j + h
    BY <1>3, <2>1, <2>2 DEF AtMostOne
  <2>4. i + k = j + k
    BY <1>3, <2>1, <2>3 DEF AtMostOne
  <2>5. i \in Nat /\ j \in Nat
    BY <1>1
  <2> QED
    BY <2>3, <2>4, <2>5
<1>4. ASSUME Ahead(q, l, A, B), NEW s \in Servers, NEW t \in Servers,
             NEW i \in DOMAIN p[s], NEW j \in DOMAIN p[t],
             p[s][i].login = l, p[s][i].do \in A, p[t][j].login = l, p[t][j].do \in B
      PROVE  s = t /\ i < j
  <2>1. PICK k \in Nat : \A n \in DOMAIN p[s] :
            p[s][n].login = l /\ p[s][n].do \in A \union B => n + k \in DOMAIN q[s] /\ p[s][n] = q[s][n + k]
    BY <1>1
  <2>2. PICK h \in Nat : \A n \in DOMAIN p[t] :
            p[t][n].login = l /\ p[t][n].do \in A \union B => n + h \in DOMAIN q[t] /\ p[t][n] = q[t][n + h]
    BY <1>1
  <2>3. s = t
    BY <1>4, <2>1, <2>2 DEF Ahead
  <2>4. i + k < j + k
    BY <1>4, <2>1, <2>3 DEF Ahead
  <2>5. i \in Nat /\ j \in Nat
    BY <1>1
  <2> QED
    BY <2>3, <2>4, <2>5
<1> QED
  BY <1>2, <1>3, <1>4 DEF AtMostOne, Ahead

LEMMA EmbedComing ==
    ASSUME NEW q \in Links, NEW p \in Links, NEW X, Embeds(q, p, X),
           NEW l, NEW A, \A m \in X : m.login = l => m.do \notin A
    PROVE  /\ Coming(p, l, A) => Coming(q, l, A)
           /\ AtMostOne(q, l, A) => AtMostOne(p, l, A)
<1>1. \A m \in X : m.login = l => m.do \notin A \union A
  OBVIOUS
<1> QED
  BY <1>1, EmbedKeeps

LEMMA EmbedOn ==
    ASSUME NEW q, NEW p, NEW X, Embeds(q, p, X), NEW s \in Servers, NEW m \in On(p, s)
    PROVE  m \in On(q, s) \/ m \in X
<1>1. PICK i \in DOMAIN p[s] : m = p[s][i]
  BY DEF On
<1>2. PICK k \in Nat : (i + k \in DOMAIN q[s] /\ p[s][i] = q[s][i + k]) \/ p[s][i] \in X
  BY DEF Embeds
<1> QED
  BY <1>1, <1>2 DEF On

\* The message that is taken from the link of s, and what it leaves.
LEMMA HeadTaken ==
    ASSUME NEW q \in Links, NEW s \in Servers, q[s] # <<>>, NEW m, m = Head(q[s]),
           NEW A, NEW B
    PROVE  LET p == [q EXCEPT ![s] = Tail(@)]
           IN  /\ p \in Links /\ Embeds(q, p, {}) /\ m \in On(q, s) /\ m \in Typed
               /\ m.do \in A => Coming(q, m.login, A)
               /\ m.do \in A /\ AtMostOne(q, m.login, A) => ~Coming(p, m.login, A)
               /\ m.do \in B /\ Ahead(q, m.login, A, B) => ~Coming(q, m.login, A)
<1> DEFINE p == [q EXCEPT ![s] = Tail(@)]
<1>1. /\ p \in Links /\ Embeds(q, p, {}) /\ m = q[s][1] /\ 1 \in DOMAIN q[s]
      /\ \A i \in DOMAIN p[s] : i + 1 \in DOMAIN q[s] /\ p[s][i] = q[s][i + 1]
      /\ \A t \in Servers : t # s => p[t] = q[t]
  BY TailEmbeds
<1> HIDE DEF p
<1>2. /\ m \in On(q, s)
      /\ m.do \in A => Coming(q, m.login, A)
  BY <1>1 DEF On, Coming
<1>3. m \in Typed
  <2>1. q[s] \in Seq(Typed)
    BY DEF Links
  <2> QED
    BY <1>1, <2>1
<1>4. ASSUME m.do \in A, AtMostOne(q, m.login, A), Coming(p, m.login, A)
      PROVE  FALSE
  <2>1. PICK t \in Servers : \E i \in DOMAIN p[t] : p[t][i].login = m.login /\ p[t][i].do \in A
    BY <1>4 DEF Coming
  <2>2. PICK i \in DOMAIN p[t] : p[t][i].login = m.login /\ p[t][i].do \in A
    BY <2>1
  <2>3. CASE t = s
    <3>1. i + 1 \in DOMAIN q[s] /\ p[s][i] = q[s][i + 1]
      BY <1>1, <2>3
    <3>2. i + 1 = 1
      BY <1>1, <1>4, <2>2, <2>3, <3>1 DEF AtMostOne
    <3>3. i \in Nat /\ i # 0
      <4>1. p[s] \in Seq(Typed)
        BY <1>1 DEF Links
      <4> QED
        BY <2>3, <4>1
    <3> QED
      BY <3>2, <3>3
  <2>4. CASE t # s
    BY <1>1, <1>4, <2>2, <2>4 DEF AtMostOne
  <2> QED
    BY <2>3, <2>4
<1>5. ASSUME m.do \in B, Ahead(q, m.login, A, B), Coming(q, m.login, A)
      PROVE  FALSE
  <2>1. PICK t \in Servers : \E i \in DOMAIN q[t] : q[t][i].login = m.login /\ q[t][i].do \in A
    BY <1>5 DEF Coming
  <2>2. PICK i \in DOMAIN q[t] : q[t][i].login = m.login /\ q[t][i].do \in A
    BY <2>1
  <2>3. t = s /\ i < 1
    BY <1>1, <1>5, <2>2 DEF Ahead
  <2>4. q[s] \in Seq(Typed)
    BY DEF Links
  <2> QED
    BY <2>3, <2>4
<1> QED
  BY <1>1, <1>2, <1>3, <1>4, <1>5 DEF p

\* What is read is behind nothing.
LEMMA HeadBehind ==
    ASSUME NEW q \in Links, NEW s \in Servers, q[s] # <<>>, NEW m, m = Head(q[s]),
           NEW A, NEW B, m.do \in B, Ahead(q, m.login, A, B)
    PROVE  ~Coming(q, m.login, A)
BY HeadTaken

\* One more message.
LEMMA AddOne ==
    ASSUME NEW q \in Links, NEW s \in Servers, NEW m \in Typed, NEW l, NEW A, ~Coming(q, l, A)
    PROVE  AtMostOne(Sent(q, s, m), l, A)
<1> DEFINE p == Sent(q, s, m)
<1>1. \A t \in Servers : \A i \in DOMAIN p[t] :
          \/ i \in DOMAIN q[t] /\ p[t][i] = q[t][i]
          \/ t = s /\ p[t][i] = m /\ i \in Nat /\ \A j \in DOMAIN q[t] : j < i
  BY SentEmbeds
<1>2. p \in Links
  BY SentEmbeds
<1> HIDE DEF p
<1>3. ASSUME NEW t \in Servers, NEW i \in DOMAIN p[t], p[t][i].login = l, p[t][i].do \in A
      PROVE  t = s /\ i = Len(p[s])
  <2>1. i \notin DOMAIN q[t]
    <3>1. i \in DOMAIN q[t] => p[t][i] = q[t][i]
      <4>1. q[t] \in Seq(Typed)
        BY DEF Links
      <4>2. i \in DOMAIN q[t] => ~(\A j \in DOMAIN q[t] : j < i)
        BY <4>1
      <4> QED
        BY <1>1, <4>2
    <3> QED
      BY <1>3, <3>1 DEF Coming
  <2>2. t = s /\ p[t][i] = m /\ \A j \in DOMAIN q[t] : j < i
    BY <1>1, <2>1
  <2>3. p[s] \in Seq(Typed) /\ q[s] \in Seq(Typed)
    BY <1>2 DEF Links
  <2>4. Len(p[s]) \in Nat /\ DOMAIN p[s] = 1 .. Len(p[s]) /\ i \in 1 .. Len(p[s])
    BY <2>2, <2>3
  <2>5. Len(p[s]) \notin DOMAIN q[s]
    <3>1. ASSUME Len(p[s]) \in DOMAIN q[s]
          PROVE  FALSE
      BY <2>2, <2>4, <3>1
    <3> QED
      BY <3>1
  <2>6. p[s] = Append(q[s], m) \/ p[s] = q[s]
    BY DEF Sent, Links, p
  <2>7. p[s] = Append(q[s], m)
    BY <2>1, <2>2, <2>6
  <2>8. Len(p[s]) = Len(q[s]) + 1 /\ Len(q[s]) \in Nat /\ DOMAIN q[s] = 1 .. Len(q[s])
    BY <2>3, <2>7, AppendProperties
  <2> QED
    BY <2>1, <2>2, <2>4, <2>8
<1> QED
  BY <1>3 DEF AtMostOne, p

LEMMA AddBehind ==
    ASSUME NEW q \in Links, NEW s \in Servers, NEW m \in Typed, NEW l, NEW A, NEW B,
           Ahead(q, l, A, B), A \intersect B = {},
           m.login = l /\ m.do \in A => ~Coming(q, l, B),
           m.login = l /\ m.do \in B => \A t \in Servers : \A n \in On(q, t) : n.login = l /\ n.do \in A => t = s
    PROVE  Ahead(Sent(q, s, m), l, A, B)
<1> DEFINE p == Sent(q, s, m)
<1>1. \A t \in Servers : \A i \in DOMAIN p[t] :
          \/ i \in DOMAIN q[t] /\ p[t][i] = q[t][i]
          \/ t = s /\ p[t][i] = m /\ i \in Nat /\ \A j \in DOMAIN q[t] : j < i
  BY SentEmbeds
<1> HIDE DEF p
<1>2. ASSUME NEW t \in Servers, NEW u \in Servers, NEW i \in DOMAIN p[t], NEW j \in DOMAIN p[u],
             p[t][i].login = l, p[t][i].do \in A, p[u][j].login = l, p[u][j].do \in B
      PROVE  t = u /\ i < j
  <2>1. CASE /\ i \in DOMAIN q[t] /\ p[t][i] = q[t][i]
             /\ j \in DOMAIN q[u] /\ p[u][j] = q[u][j]
    BY <1>2, <2>1 DEF Ahead
  <2>2. CASE /\ i \in DOMAIN q[t] /\ p[t][i] = q[t][i]
             /\ u = s /\ p[u][j] = m /\ \A k \in DOMAIN q[u] : k < j
    <3>1. p[t][i] \in On(q, t)
      BY <2>2 DEF On
    <3> QED
      BY <1>2, <2>2, <3>1
  <2>3. CASE p[t][i] = m /\ j \in DOMAIN q[u] /\ p[u][j] = q[u][j]
    BY <1>2, <2>3 DEF Coming
  <2>4. CASE p[t][i] = m /\ p[u][j] = m
    BY <1>2, <2>4
  <2> QED
    BY <1>1, <2>1, <2>2, <2>3, <2>4
<1> QED
  BY <1>2 DEF Ahead, p

-----------------------------------------------------------------------------
(* Logins that a step is not about.                                          *)

Typing == toAgent \in Links /\ toServer \in Links /\ Requests \in Seq(Wanted)

LEMMA TypingOfIInv ==
    ASSUME IInv
    PROVE  Typing
<1>1. session = None \/ session \in Open
  BY DEF IInv, AgentOK, Settled, Kept, AgentWith, Agent
<1>2. Requests \in Seq(Wanted)
  <2>1. CASE session = None
    BY <2>1, EmptySeq DEF Requests
  <2>2. CASE session # None
    BY <1>1, <2>2 DEF Requests, Open
  <2> QED
    BY <2>1, <2>2
<1> QED
  BY <1>2 DEF IInv, LinksOK, Typing

\* What is left of the requests of l is what was there.
RestOf(q, p, l) ==
    \E k \in Nat : \A i \in DOMAIN p :
        (i + k \in DOMAIN q /\ p[i] = q[i + k]) \/ p[i].login # l

LEMMA TokenStays ==
    ASSUME NEW l, TokenOK(l), Typing, Typing', NEW X, NEW Y,
           Embeds(toAgent, toAgent', X), Embeds(toServer, toServer', Y),
           \A m \in X : m.login = l => m.do \notin Asking \union Departing,
           \A m \in Y : m.login = l => m.do \notin Granting,
           RestOf(Requests, Requests', l)
    PROVE  TokenOK(l)'
<1>1. /\ Coming(toAgent', l, Asking) => Coming(toAgent, l, Asking)
      /\ AtMostOne(toAgent', l, Asking)
  BY EmbedComing DEF Typing, TokenOK
<1>2. /\ Coming(toServer', l, Granting) => Coming(toServer, l, Granting)
      /\ AtMostOne(toServer', l, Granting)
  BY EmbedComing DEF Typing, TokenOK
<1>3. Coming(toAgent', l, Departing) => Coming(toAgent, l, Departing)
  BY EmbedComing DEF Typing
<1>4. PICK k \in Nat : \A i \in DOMAIN Requests' :
          (i + k \in DOMAIN Requests /\ Requests'[i] = Requests[i + k]) \/ Requests'[i].login # l
  BY DEF RestOf
<1>5. Waiting(l)' => Waiting(l)
  BY <1>4 DEF Waiting
<1>6. ASSUME NEW i \in DOMAIN Requests', NEW j \in DOMAIN Requests',
             Requests'[i].login = l, Requests'[j].login = l
      PROVE  i = j
  <2>1. i + k = j + k
    BY <1>4, <1>6 DEF TokenOK
  <2>2. i \in Nat /\ j \in Nat
    BY DEF Typing
  <2> QED
    BY <2>1, <2>2
<1> QED
  BY <1>1, <1>2, <1>3, <1>5, <1>6 DEF TokenOK

LEMMA MoveStays ==
    ASSUME NEW l, MoveOK(l), Typing, Typing', NEW X, NEW Y,
           Embeds(toAgent, toAgent', X), Embeds(toServer, toServer', Y),
           \A m \in X : m.login = l => m.do \notin {"zoneEnd", "move", "zone"},
           \A m \in Y : m.login = l => m.do # "zoneEnd"
    PROVE  MoveOK(l)'
<1>1. AtMostOne(toAgent', l, {"zoneEnd"})
  BY EmbedComing DEF Typing, MoveOK
<1>4. Ahead(toAgent', l, {"move", "zone"}, {"zoneEnd"})
  BY EmbedKeeps DEF Typing, MoveOK
<1>2. Coming(toAgent', l, {"zoneEnd", "move", "zone"}) => Coming(toAgent, l, {"zoneEnd", "move", "zone"})
  BY EmbedComing DEF Typing
<1>3. /\ Coming(toServer', l, {"zoneEnd"}) => Coming(toServer, l, {"zoneEnd"})
      /\ AtMostOne(toServer', l, {"zoneEnd"})
  BY EmbedComing DEF Typing, MoveOK
<1> QED
  BY <1>1, <1>2, <1>3, <1>4 DEF MoveOK

\* The token of l is somewhere.
Token(l) == Coming(toAgent, l, Asking) \/ Waiting(l) \/ Coming(toServer, l, Granting)

Travels(l) ==
    Coming(toAgent, l, {"move", "zone", "zoneEnd"}) \/ Coming(toServer, l, {"zoneEnd"})

LEMMA OnComing ==
    ASSUME NEW q, NEW s \in Servers, NEW m \in On(q, s), NEW A, m.do \in A
    PROVE  Coming(q, m.login, A)
BY DEF On, Coming

\* The stages of a login that goes on, if what is on its way allows it to.
LEMMA StageMoves ==
    ASSUME NEW l, StageOK(l),
           \A s \in Servers : \A m \in On(toAgent', s) :
               m.login = l => m \in On(toAgent, s) \/ Tells(s, m)',
           \A i \in DOMAIN Requests' : Requests'[i].login = l =>
               \/ \E j \in DOMAIN Requests : Requests[j] = Requests'[i]
               \/ TellsRequest(Requests[i])',
           \A s \in Servers : \A m \in On(toServer', s) :
               m.login = l => m \in On(toServer, s) \/ TellsServer(s, m)',
           Token(l)' => /\ Starts(l) => Starts(l)'
                        /\ \A s, c : Enters(l, s, c) => Enters(l, s, c)',
           Travels(l)' => (stage[l] \in {"moving", "over"} => stage'[l] \in {"moving", "over"}),
           stage[l] = "over" => stage'[l] = "over",
           table' = l => stage'[l] \in {"auth", "selecting", "selected"}
    PROVE  StageOK(l)'
<1>1. ASSUME NEW s \in Servers, NEW m \in On(toAgent', s), m.login = l, m \in On(toAgent, s)
      PROVE  Tells(s, m)'
  <2>1. Tells(s, m)
    BY <1>1 DEF StageOK
  <2>2. m.do \in Asking => Token(l)'
    BY <1>1, OnComing DEF Token
  <2>3. m.do \in {"move", "zone", "zoneEnd"} => Travels(l)'
    BY <1>1, OnComing DEF Travels
  <2>4. m.do \in {"start", "startKill"} => Starts(l)'
    BY <1>1, <2>1, <2>2 DEF Tells, Asking
  <2>5. m.do = "enter" => Enters(l, s, m.char)'
    <3>1. m.do = "enter" => Enters(l, s, m.char) /\ Token(l)'
      BY <1>1, <2>1, <2>2 DEF Tells, Asking
    <3>2. \A c : Token(l)' /\ Enters(l, s, c) => Enters(l, s, c)'
      OBVIOUS
    <3>3. Enters(l, s, m.char)' <=> (\/ stage'[l] \in {"gone", "over"}
                                     \/ stage'[l] = "entering" /\ at'[l] = s /\ char'[l] = m.char)
      BY DEF Enters
    <3>4. Token(l)' /\ Enters(l, s, m.char) =>
             (\/ stage'[l] \in {"gone", "over"}
              \/ stage'[l] = "entering" /\ at'[l] = s /\ char'[l] = m.char)
      BY <3>2 DEF Enters
    <3> QED
      BY <3>1, <3>3, <3>4
  <2>6. m.do \in {"move", "zone", "zoneEnd"} => stage'[l] \in {"moving", "over"}
    BY <1>1, <2>1, <2>3 DEF Tells
  <2> QED
    BY <1>1, <2>1, <2>4, <2>5, <2>6 DEF Tells
<1>2. ASSUME NEW i \in DOMAIN Requests', Requests'[i].login = l,
             NEW j \in DOMAIN Requests, Requests[j] = Requests'[i]
      PROVE  TellsRequest(Requests[i])'
  <2>1. TellsRequest(Requests[j])
    BY <1>2 DEF StageOK
  <2>2. Token(l)'
    BY <1>2 DEF Token, Waiting
  <2>3. PICK r : r = Requests'[i]
    OBVIOUS
  <2>4. TellsRequest(r) /\ r.login = l
    BY <1>2, <2>1, <2>3
  <2>5. CASE r.char = None
    BY <1>2, <2>2, <2>3, <2>4, <2>5 DEF TellsRequest
  <2>6. CASE r.char # None
    <3>1. Enters(l, r.server, r.char)
      BY <2>4, <2>6 DEF TellsRequest
    <3>2. \A s, c : Enters(l, s, c) => Enters(l, s, c)'
      BY <2>2
    <3>3. \/ stage'[l] \in {"gone", "over"}
          \/ stage'[l] = "entering" /\ at'[l] = r.server /\ char'[l] = r.char
      BY <3>1, <3>2 DEF Enters
    <3> QED
      BY <1>2, <2>3, <2>6, <3>3 DEF TellsRequest, Enters
  <2> QED
    BY <2>5, <2>6
<1>3. ASSUME NEW s \in Servers, NEW m \in On(toServer', s), m.login = l, m \in On(toServer, s)
      PROVE  TellsServer(s, m)'
  <2>1. TellsServer(s, m)
    BY <1>3 DEF StageOK
  <2>2. m.do \in Granting => Token(l)'
    BY <1>3, OnComing DEF Token
  <2>3. m.do \in {"zoneEnd"} => Travels(l)'
    BY <1>3, OnComing DEF Travels
  <2>4. m.do = "granted" => Starts(l)'
    BY <1>3, <2>1, <2>2 DEF TellsServer, Granting
  <2>5. m.do = "entered" => Enters(l, s, m.char)'
    <3>1. m.do = "entered" => Enters(l, s, m.char) /\ Token(l)'
      BY <1>3, <2>1, <2>2 DEF TellsServer, Granting
    <3>2. \A c : Token(l)' /\ Enters(l, s, c) => Enters(l, s, c)'
      OBVIOUS
    <3>3. Token(l)' /\ Enters(l, s, m.char) =>
             (\/ stage'[l] \in {"gone", "over"}
              \/ stage'[l] = "entering" /\ at'[l] = s /\ char'[l] = m.char)
      BY <3>2 DEF Enters
    <3> QED
      BY <3>1, <3>3 DEF Enters
  <2>6. m.do = "zoneEnd" => stage'[l] \in {"moving", "over"}
    BY <1>3, <2>1, <2>3 DEF TellsServer
  <2> QED
    BY <1>3, <2>1, <2>4, <2>5, <2>6 DEF TellsServer
<1> QED
  BY <1>1, <1>2, <1>3 DEF StageOK

LEMMA LoginStays ==
    ASSUME NEW l, LoginOK(l), Typing, Typing', NEW X, NEW Y,
           Embeds(toAgent, toAgent', X), Embeds(toServer, toServer', Y),
           \A m \in X : m.login # l,
           \A m \in Y : m.login = l => m.do \notin {"granted", "entered", "zoneEnd"},
           RestOf(Requests, Requests', l),
           stage'[l] = stage[l], at'[l] = at[l], char'[l] = char[l], table' = l => table = l
    PROVE  LoginOK(l)'
<1>1. TokenOK(l)'
  BY TokenStays DEF LoginOK, Granting
<1>2. MoveOK(l)'
  BY MoveStays DEF LoginOK
<1>3. StageOK(l)'
  <2>1. \A s \in Servers : \A m \in On(toAgent', s) : m.login = l => m \in On(toAgent, s)
    BY EmbedOn
  <2>2. \A s \in Servers : \A m \in On(toServer', s) :
           m.login = l => m \in On(toServer, s) \/ TellsServer(s, m)'
    <3>1. ASSUME NEW s \in Servers, NEW m \in On(toServer', s), m.login = l, m \in Y
          PROVE  TellsServer(s, m)'
      BY <3>1 DEF TellsServer
    <3> QED
      BY <3>1, EmbedOn
  <2>3. \A i \in DOMAIN Requests' : Requests'[i].login = l => \E j \in DOMAIN Requests : Requests[j] = Requests'[i]
    BY DEF RestOf
  <2>4. Starts(l) => Starts(l)'
    BY DEF Starts
  <2>5. \A s, c : Enters(l, s, c) => Enters(l, s, c)'
    BY DEF Enters
  <2>6. table' = l => stage'[l] \in {"auth", "selecting", "selected"}
    BY DEF LoginOK, StageOK
  <2> QED
    BY <2>1, <2>2, <2>3, <2>4, <2>5, <2>6, StageMoves DEF LoginOK
<1> QED
  BY <1>1, <1>2, <1>3 DEF LoginOK

-----------------------------------------------------------------------------
(* The tokens and the agent.                                                 *)

\* What the agent says that is not about a token.
Harmless == {m \in Typed : m.do \notin {"granted", "entered", "zoneEnd"}}

\* The agent drops what it reads, and requests.
LEMMA AgentIsQuiet ==
    ASSUME IInv, IInv', Tokens, UNCHANGED <<stage, at, char, table>>,
           Embeds(toAgent, toAgent', {}), Embeds(toServer, toServer', Harmless),
           \A l \in Logins : RestOf(Requests, Requests', l)
    PROVE  Tokens'
<1>1. ASSUME NEW l \in Logins
      PROVE  LoginOK(l)'
  <2>1. Typing /\ Typing'
    BY TypingOfIInv, PTL
  <2> QED
    BY <2>1, LoginStays DEF Harmless, Tokens
<1> QED
  BY <1>1 DEF Tokens

\* p has what is left of q from somewhere on, and r at its end.
Gains(q, p, r) ==
    \E k \in Nat : \A i \in DOMAIN p :
        (i + k \in DOMAIN q /\ p[i] = q[i + k]) \/ (i + k = Len(q) + 1 /\ p[i] = r)

LEMMA AppendRest ==
    ASSUME NEW q \in Seq(Wanted), NEW r \in Wanted, NEW p, p = Append(q, r) \/ p = Tail(Append(q, r))
    PROVE  Gains(q, p, r)
<1> DEFINE a == Append(q, r)
<1>1. /\ a \in Seq(Wanted) /\ Len(a) = Len(q) + 1 /\ Len(q) \in Nat /\ DOMAIN q = 1 .. Len(q)
      /\ DOMAIN a = 1 .. Len(a)
      /\ \A i \in 1 .. Len(q) : a[i] = q[i]
      /\ a[Len(q) + 1] = r
  BY AppendProperties
<1>2. a # <<>>
  BY QueueOps
<1> HIDE DEF a
<1>3. CASE p = a
  <2>1. ASSUME NEW i \in DOMAIN p
        PROVE  (i + 0 \in DOMAIN q /\ p[i] = q[i + 0]) \/ (i + 0 = Len(q) + 1 /\ p[i] = r)
    <3>1. i \in 1 .. Len(q) + 1 /\ p[i] = a[i]
      BY <1>1, <1>3
    <3>2. i \in 1 .. Len(q) \/ i = Len(q) + 1
      BY <1>1, <3>1
    <3>3. i + 0 = i
      BY <1>1, <3>1
    <3> QED
      BY <1>1, <3>1, <3>2, <3>3
  <2> QED
    BY <2>1 DEF Gains
<1>4. CASE p = Tail(a)
  <2>1. /\ p \in Seq(Wanted) /\ Len(p) = Len(q) /\ DOMAIN p = 1 .. Len(p)
        /\ \A i \in 1 .. Len(p) : p[i] = a[i + 1]
    BY <1>1, <1>2, <1>4, HeadTailProperties
  <2>2. ASSUME NEW i \in DOMAIN p
        PROVE  (i + 1 \in DOMAIN q /\ p[i] = q[i + 1]) \/ (i + 1 = Len(q) + 1 /\ p[i] = r)
    <3>1. i \in 1 .. Len(q) /\ p[i] = a[i + 1]
      BY <2>1
    <3>2. i + 1 \in 1 .. Len(q) \/ i + 1 = Len(q) + 1
      BY <1>1, <3>1
    <3> QED
      BY <1>1, <3>1, <3>2
  <2> QED
    BY <2>2 DEF Gains
<1> QED
  BY <1>3, <1>4 DEF a, Gains

\* A message that asks becomes a request, or is refused.
LEMMA AskBecomesRequest ==
    ASSUME IInv, IInv', Tokens, UNCHANGED <<stage, at, char, table>>,
           NEW s \in Servers, NEW m, Reads(s, m), m.do \in Asking, m.login \in Logins,
           Embeds(toServer, toServer', Harmless),
           NEW r \in Wanted, r.login = m.login,
           IF m.do = "enter" THEN r.server = s /\ r.char = m.char ELSE r.char = None,
           Requests' = Append(Requests, r) \/ Requests' = Tail(Append(Requests, r))
    PROVE  Tokens'
<1>1. Typing /\ Typing'
  BY TypingOfIInv, PTL
<1>2. toAgent \in Links /\ toAgent[s] # <<>> /\ m = Head(toAgent[s]) /\ toAgent' = [toAgent EXCEPT ![s] = Tail(@)]
  BY <1>1 DEF Reads, Typing
<1>3. Embeds(toAgent, toAgent', {}) /\ m \in On(toAgent, s) /\ m \in Typed
  BY <1>2, HeadTaken
<1>4. PICK k \in Nat : \A i \in DOMAIN Requests' :
          (i + k \in DOMAIN Requests /\ Requests'[i] = Requests[i + k]) \/ (i + k = Len(Requests) + 1 /\ Requests'[i] = r)
  <2>1. Requests \in Seq(Wanted)
    BY <1>1 DEF Typing
  <2>2. Gains(Requests, Requests', r)
    BY <2>1, AppendRest
  <2> QED
    BY <2>2 DEF Gains
<1>5. ASSUME NEW l \in Logins, l # m.login
      PROVE  LoginOK(l)'
  <2>1. RestOf(Requests, Requests', l)
    BY <1>4, <1>5 DEF RestOf
  <2> QED
    BY <1>1, <1>3, <2>1, LoginStays DEF Tokens, Harmless
<1>6. ASSUME NEW l \in Logins, l = m.login
      PROVE  LoginOK(l)'
  <2>1. TokenOK(l) /\ MoveOK(l) /\ StageOK(l)
    BY DEF Tokens, LoginOK
  <2>2. Coming(toAgent, l, Asking) /\ ~Coming(toAgent', l, Asking)
    BY <1>2, <1>6, <2>1, HeadTaken DEF TokenOK
  <2>3. ~Waiting(l) /\ ~Coming(toServer, l, Granting) /\ ~Coming(toAgent, l, Departing)
    BY <2>1, <2>2 DEF TokenOK
  <2>4. \A i \in DOMAIN Requests' : Requests'[i].login = l => i + k = Len(Requests) + 1 /\ Requests'[i] = r
    BY <1>4, <2>3 DEF Waiting
  <2>5. TokenOK(l)'
    <3>1. AtMostOne(toAgent', l, Asking)
      BY <1>1, <1>3, <2>1, EmbedComing DEF TokenOK, Typing
    <3>2. ~Coming(toAgent', l, Departing)
      BY <1>1, <1>3, <2>3, EmbedComing DEF Typing
    <3>3. AtMostOne(toServer', l, Granting) /\ ~Coming(toServer', l, Granting)
      <4>1. \A n \in Harmless : n.login = l => n.do \notin Granting
        BY DEF Harmless, Granting
      <4> QED
        BY <1>1, <2>1, <2>3, <4>1, EmbedComing DEF TokenOK, Typing
    <3>4. \A i, j \in DOMAIN Requests' : Requests'[i].login = l /\ Requests'[j].login = l => i = j
      <4>1. ASSUME NEW i \in DOMAIN Requests', NEW j \in DOMAIN Requests',
                   Requests'[i].login = l, Requests'[j].login = l
            PROVE  i = j
        <5>1. i + k = j + k
          BY <2>4, <4>1
        <5>2. i \in Nat /\ j \in Nat
          BY <1>1 DEF Typing
        <5> QED
          BY <5>1, <5>2
      <4> QED
        BY <4>1
    <3> QED
      BY <2>2, <3>1, <3>2, <3>3, <3>4 DEF TokenOK
  <2>6. MoveOK(l)'
    BY <1>1, <1>3, <2>1, MoveStays DEF Harmless
  <2>7. StageOK(l)'
    <3>1. \A t \in Servers : \A n \in On(toAgent', t) : n \in On(toAgent, t)
      BY <1>3, EmbedOn
    <3>2. \A t \in Servers : \A n \in On(toServer', t) : n \in On(toServer, t) \/ TellsServer(t, n)'
      <4>1. \A t, n : n \in Harmless => TellsServer(t, n)'
        BY DEF Harmless, TellsServer
      <4> QED
        BY <4>1, EmbedOn
    <3>3. ASSUME NEW i \in DOMAIN Requests', Requests'[i].login = l
          PROVE  TellsRequest(Requests[i])'
      <4>1. Requests'[i] = r
        BY <2>4, <3>3
      <4>2. Tells(s, m)
        BY <1>3, <1>6, <2>1 DEF StageOK
      <4>3. TellsRequest(r)
        <5>1. CASE m.do = "enter"
          <6>1. m.char # None
            BY <1>3, <5>1, TypedMessage, SessionAssumption
          <6> QED
            BY <4>2, <5>1, <6>1 DEF Tells, TellsRequest
        <5>2. CASE m.do # "enter"
          BY <4>2, <5>2 DEF Tells, TellsRequest, Asking
        <5> QED
          BY <5>1, <5>2
      <4> QED
        BY <4>1, <4>3 DEF TellsRequest, Starts, Enters
    <3>4. Starts(l) => Starts(l)'
      BY DEF Starts
    <3>5. \A t, c : Enters(l, t, c) => Enters(l, t, c)'
      BY DEF Enters
    <3>6. table' = l => stage'[l] \in {"auth", "selecting", "selected"}
      BY <2>1 DEF StageOK
    <3> QED
      BY <2>1, <3>1, <3>2, <3>3, <3>4, <3>5, <3>6, StageMoves
  <2> QED
    BY <2>5, <2>6, <2>7 DEF LoginOK
<1> QED
  BY <1>5, <1>6 DEF Tokens

\* The answer to the first request goes to its login, or nothing is said to it.
LEMMA RequestIsAnswered ==
    ASSUME IInv, IInv', Tokens, UNCHANGED <<stage, at, char, table, toAgent>>,
           Requests # <<>>, Requests' = Tail(Requests), NEW r, r = Head(Requests),
           NEW s \in Servers, NEW m \in Typed, m.login = r.login,
           toServer' = toServer \/ toServer' = Sent(toServer, s, m),
           m.do # "zoneEnd",
           m.do = "granted" => r.char = None,
           m.do = "entered" => r.char # None /\ m.char = r.char /\ s = r.server
    PROVE  Tokens'
<1>1. Typing /\ Typing'
  BY TypingOfIInv, PTL
<1>2. Embeds(toAgent, toAgent', {})
  BY <1>1, SameEmbeds DEF Typing
<1>3. /\ Embeds(toServer, toServer', {m})
      /\ \A t \in Servers : \A n \in On(toServer', t) : n \in On(toServer, t) \/ (t = s /\ n = m)
  <2>1. CASE toServer' = toServer
    BY <1>1, <2>1, SameEmbeds DEF Typing
  <2>2. CASE toServer' = Sent(toServer, s, m)
    BY <1>1, <2>2, SentEmbeds DEF Typing, On
  <2> QED
    BY <2>1, <2>2
<1>4. /\ r \in Wanted /\ 1 \in DOMAIN Requests /\ r = Requests[1]
      /\ \A i \in DOMAIN Requests' : i \in Nat /\ i # 0 /\ i + 1 \in DOMAIN Requests /\ Requests'[i] = Requests[i + 1]
  <2>1. PICK q \in Seq(Wanted) : q = Requests
    BY <1>1 DEF Typing
  <2>2. /\ Len(q) \in Nat /\ Len(q) # 0 /\ DOMAIN q = 1 .. Len(q)
        /\ r \in Wanted /\ r = q[1]
        /\ Tail(q) \in Seq(Wanted) /\ Len(Tail(q)) = Len(q) - 1
        /\ \A i \in 1 .. Len(q) - 1 : Tail(q)[i] = q[i + 1]
    BY <2>1, HeadTailProperties, EmptySeq
  <2>3. ASSUME NEW i \in DOMAIN Tail(q)
        PROVE  i \in Nat /\ i # 0 /\ i + 1 \in DOMAIN q /\ Tail(q)[i] = q[i + 1]
    <3>1. i \in 1 .. Len(q) - 1
      BY <2>2
    <3> QED
      BY <2>2, <3>1
  <2> QED
    BY <2>1, <2>2, <2>3
<1>5. ASSUME NEW l \in Logins, l # r.login
      PROVE  LoginOK(l)'
  <2>1. RestOf(Requests, Requests', l)
    BY <1>4 DEF RestOf
  <2> QED
    BY <1>1, <1>2, <1>3, <1>5, <2>1, LoginStays DEF Tokens
<1>6. ASSUME NEW l \in Logins, l = r.login
      PROVE  LoginOK(l)'
  <2>1. TokenOK(l) /\ MoveOK(l) /\ StageOK(l)
    BY DEF Tokens, LoginOK
  <2>2. Waiting(l)
    BY <1>4, <1>6 DEF Waiting
  <2>3. ~Coming(toAgent, l, Asking) /\ ~Coming(toServer, l, Granting) /\ ~Coming(toAgent, l, Departing)
    BY <2>1, <2>2 DEF TokenOK
  <2>4. ASSUME NEW i \in DOMAIN Requests'
        PROVE  Requests'[i].login # l
    <3>1. i \in Nat /\ i # 0 /\ i + 1 \in DOMAIN Requests /\ Requests'[i] = Requests[i + 1]
      BY <1>4
    <3>2. Requests[i + 1].login = l => i + 1 = 1
      BY <1>4, <1>6, <2>1, <3>1 DEF TokenOK
    <3> QED
      BY <3>1, <3>2
  <2>5. AtMostOne(toServer', l, Granting)
    <3>1. CASE toServer' = toServer
      BY <2>1, <3>1 DEF TokenOK
    <3>2. CASE toServer' = Sent(toServer, s, m)
      BY <1>1, <2>3, <3>2, AddOne DEF Typing
    <3> QED
      BY <3>1, <3>2
  <2>6. TokenOK(l)'
    BY <2>1, <2>3, <2>4, <2>5 DEF TokenOK, Waiting
  <2>7. MoveOK(l)'
    BY <1>1, <1>2, <1>3, <2>1, MoveStays
  <2>8. StageOK(l)'
    <3>1. ASSUME NEW t \in Servers, NEW n \in On(toServer', t), n \notin On(toServer, t)
          PROVE  TellsServer(t, n)'
      <4>1. t = s /\ n = m
        BY <1>3, <3>1
      <4>2. TellsRequest(r)
        BY <1>4, <1>6, <2>1 DEF StageOK
      <4>3. TellsServer(s, m)
        BY <1>6, <4>2 DEF TellsServer, TellsRequest
      <4> QED
        BY <4>1, <4>3 DEF TellsServer, Starts, Enters
    <3>2. Starts(l) => Starts(l)'
      BY DEF Starts
    <3>3. \A t, c : Enters(l, t, c) => Enters(l, t, c)'
      BY DEF Enters
    <3>4. table' = l => stage'[l] \in {"auth", "selecting", "selected"}
      BY <2>1 DEF StageOK
    <3> QED
      BY <2>1, <2>4, <3>1, <3>2, <3>3, <3>4, StageMoves
  <2> QED
    BY <2>6, <2>7, <2>8 DEF LoginOK
<1> QED
  BY <1>5, <1>6 DEF Tokens

\* What is sent behind the news of a move comes back when the news has been read.
LEMMA EndOfMoveReturns ==
    ASSUME IInv, IInv', Tokens, UNCHANGED <<stage, at, char, table, Requests>>,
           NEW s \in Servers, NEW m, Reads(s, m), m.do = "zoneEnd", Replies(s, m)
    PROVE  Tokens'
<1>1. Typing /\ Typing'
  BY TypingOfIInv, PTL
<1>2. toAgent \in Links /\ toAgent[s] # <<>> /\ m = Head(toAgent[s]) /\ toAgent' = [toAgent EXCEPT ![s] = Tail(@)]
  BY <1>1 DEF Reads, Typing
<1>3. Embeds(toAgent, toAgent', {}) /\ m \in On(toAgent, s) /\ m \in Typed
  BY <1>2, HeadTaken
<1>4. toServer \in Links /\ toServer' = Sent(toServer, s, m)
  BY <1>1 DEF Replies, Typing
<1>5. /\ Embeds(toServer, toServer', {m})
      /\ \A t \in Servers : \A n \in On(toServer', t) : n \in On(toServer, t) \/ (t = s /\ n = m)
  BY <1>3, <1>4, SentEmbeds DEF On
<1>6. \A l : RestOf(Requests, Requests', l)
  <2>1. \A i \in DOMAIN Requests' : i + 0 \in DOMAIN Requests /\ Requests'[i] = Requests[i + 0]
    BY <1>1 DEF Typing
  <2> QED
    BY <2>1 DEF RestOf
<1>7. ASSUME NEW l \in Logins, l # m.login
      PROVE  LoginOK(l)'
  BY <1>1, <1>3, <1>5, <1>6, <1>7, LoginStays DEF Tokens
<1>8. ASSUME NEW l \in Logins, l = m.login
      PROVE  LoginOK(l)'
  <2>1. TokenOK(l) /\ MoveOK(l) /\ StageOK(l)
    BY DEF Tokens, LoginOK
  <2>2. ~Coming(toAgent', l, {"zoneEnd"})
    BY <1>2, <1>8, <2>1, HeadTaken DEF MoveOK
  <2>3. ~Coming(toAgent, l, {"move", "zone"})
    BY <1>2, <1>8, <2>1, HeadBehind DEF MoveOK
  <2>4. ~Coming(toAgent', l, {"zoneEnd", "move", "zone"})
    <3>1. ~Coming(toAgent', l, {"move", "zone"})
      BY <1>1, <1>3, <2>3, EmbedComing DEF Typing
    <3> QED
      BY <2>2, <3>1 DEF Coming
  <2>5. ~Coming(toServer, l, {"zoneEnd"})
    BY <1>3, <1>8, <2>1, OnComing DEF MoveOK
  <2>6. AtMostOne(toServer', l, {"zoneEnd"})
    BY <1>3, <1>4, <2>5, AddOne
  <2>7. /\ AtMostOne(toAgent', l, {"zoneEnd"})
        /\ Ahead(toAgent', l, {"move", "zone"}, {"zoneEnd"})
    BY <2>2, <2>4 DEF Coming, AtMostOne, Ahead
  <2>8. MoveOK(l)'
    BY <2>4, <2>6, <2>7 DEF MoveOK
  <2>9. TokenOK(l)'
    BY <1>1, <1>3, <1>5, <1>6, <2>1, TokenStays DEF Granting
  <2>10. StageOK(l)'
    <3>1. \A t \in Servers : \A n \in On(toAgent', t) : n \in On(toAgent, t)
      BY <1>3, EmbedOn
    <3>2. TellsServer(s, m)'
      <4>1. Tells(s, m)
        BY <1>3, <1>8, <2>1 DEF StageOK
      <4> QED
        BY <4>1 DEF Tells, TellsServer
    <3>3. Starts(l) => Starts(l)'
      BY DEF Starts
    <3>4. \A t, c : Enters(l, t, c) => Enters(l, t, c)'
      BY DEF Enters
    <3>5. table' = l => stage'[l] \in {"auth", "selecting", "selected"}
      BY <2>1 DEF StageOK
    <3> QED
      BY <1>5, <2>1, <3>1, <3>2, <3>3, <3>4, <3>5, StageMoves
  <2> QED
    BY <2>8, <2>9, <2>10 DEF LoginOK
<1> QED
  BY <1>7, <1>8 DEF Tokens

-----------------------------------------------------------------------------
(* What the operations leave of a session besides its data.                  *)

Agents == AgentWith(Open)

LEMMA UnloadLeaves ==
    ASSUME NEW a \in Agents, NEW bad, NEW b, b = UnloadData(a, bad)
    PROVE  /\ b.session.requests = a.session.requests /\ b.session.sid = a.session.sid
           /\ b.session.server = a.session.server /\ b.session.state = a.session.state
<1>1. a.session \in Session
  BY DEF Agents, AgentWith, Open
<1> QED
  BY <1>1 DEF UnloadData, Session

LEMMA LoadLeaves ==
    ASSUME NEW a \in Agents, NEW c, NEW bad, NEW b, b = LoadData(a, c, bad)
    PROVE  /\ b.session.requests = a.session.requests /\ b.session.sid = a.session.sid
           /\ b.session.server = a.session.server /\ b.session.state = a.session.state
<1>1. a.session \in Session
  BY DEF Agents, AgentWith, Open
<1>2. \/ b.session = [a.session EXCEPT !.store = TRUE, !.char = c, !.cid = c]
      \/ b.session = [a.session EXCEPT !.store = FALSE, !.char = None]
  BY DEF LoadData
<1> QED
  BY <1>1, <1>2 DEF Session

LEMMA StateLeaves ==
    ASSUME NEW a \in Agents, NEW state, NEW b, b = SetState(a, state)
    PROVE  /\ b.session.requests = a.session.requests /\ b.session.sid = a.session.sid
           /\ b.session.server = a.session.server /\ b.session.state = state
           /\ b.session.store = a.session.store /\ b.session.char = a.session.char
           /\ b.session.cid = a.session.cid
<1>1. a.session \in Session /\ b.session = [a.session EXCEPT !.state = state]
  BY DEF Agents, AgentWith, Open, SetState
<1> QED
  BY <1>1 DEF Session

LEMMA RequestLeaves ==
    ASSUME NEW a \in Agents, NEW r, NEW b, b = SetRequestData(a, r)
    PROVE  /\ b.session.requests = a.session.requests /\ b.session.sid = r.login
           /\ b.session.server = r.server /\ b.session.state = a.session.state
           /\ b.session.store = a.session.store /\ b.session.char = a.session.char
           /\ b.session.cid = a.session.cid
<1>1. a.session \in Session /\ b.session = [a.session EXCEPT !.sid = r.login, !.server = r.server]
  BY DEF Agents, AgentWith, Open, SetRequestData
<1> QED
  BY <1>1 DEF Session

LEMMA SelectLeaves ==
    ASSUME NEW a, Kept(a), NEW c \in Chars, NEW bad, NEW b, b = Selects(a, c, bad)
    PROVE  /\ b.session.requests = a.session.requests /\ b.session.sid = a.session.sid
           /\ b.session.server = a.session.server /\ b.session.state = a.session.state
<1>1. PICK d : d = LoadData(a, c, bad)
  OBVIOUS
<1>2. a \in Agents /\ d \in Agents
  BY <1>1, LoadKeeps DEF Kept, Agents
<1>3. b = d \/ b = UnloadData(d, bad)
  BY <1>1 DEF Selects
<1> QED
  BY <1>1, <1>2, <1>3, LoadLeaves, UnloadLeaves

\* The owner's own words.
LEMMA OwnerLeaves ==
    ASSUME NEW a, Kept(a), NEW bad, NEW b,
           b \in {UserDisable(a, bad), UserMove(a, bad), CharLeaves(a, "move", bad),
                  CharLeaves(a, "charDisabled", bad)}
    PROVE  /\ b.session.requests = a.session.requests /\ b \in Agents
           /\ b.session.state \notin {"user", "char"}
<1>1. \A state \in {"userDisabled", "move", "charDisabled"} :
          /\ Kept(UnloadData(SetState(a, state), bad))
          /\ UnloadData(SetState(a, state), bad).session.requests = a.session.requests
          /\ UnloadData(SetState(a, state), bad).session.state = state
  <2>1. ASSUME NEW state \in {"userDisabled", "move", "charDisabled"}, NEW d, d = SetState(a, state)
        PROVE  /\ Kept(UnloadData(d, bad))
               /\ UnloadData(d, bad).session.requests = a.session.requests
               /\ UnloadData(d, bad).session.state = state
    <3>1. Kept(d)
      BY <2>1, SetStateKeeps
    <3>2. a \in Agents /\ d \in Agents
      BY <3>1 DEF Kept, Agents
    <3> QED
      BY <2>1, <3>1, <3>2, UnloadKeeps, UnloadLeaves, StateLeaves
  <2> QED
    BY <2>1
<1>2. ASSUME NEW state \in {"move", "charDisabled"}, NEW d, d = UnloadData(SetState(a, state), bad),
             NEW e, e = [d EXCEPT !.session.server = None]
      PROVE  /\ e \in Agents /\ e.session.requests = a.session.requests /\ e.session.state = state
  <2>1. d \in Agents /\ d.session.requests = a.session.requests /\ d.session.state = state
    BY <1>1, <1>2 DEF Kept, Agents
  <2>2. d.session \in Session /\ e.session = [d.session EXCEPT !.server = None]
    BY <1>2, <2>1 DEF Agents, AgentWith, Open
  <2>3. e.session.requests = a.session.requests /\ e.session.state = state
    BY <2>1, <2>2 DEF Session
  <2>4. e \in Agents
    BY <1>1, <1>2, CharLeavesKeeps DEF CharLeaves, Kept, Agents
  <2> QED
    BY <2>3, <2>4
<1>3. b \in {UserDisable(a, bad), UserMove(a, bad)} \/ b \in {CharLeaves(a, "move", bad), CharLeaves(a, "charDisabled", bad)}
  OBVIOUS
<1>4. CASE b \in {UserDisable(a, bad), UserMove(a, bad)}
  BY <1>1, <1>4 DEF UserDisable, UserMove, Kept, Agents
<1>5. CASE b \in {CharLeaves(a, "move", bad), CharLeaves(a, "charDisabled", bad)}
  BY <1>2, <1>5 DEF CharLeaves
<1> QED
  BY <1>3, <1>4, <1>5

-----------------------------------------------------------------------------
(* The owner and the agent.                                                  *)

\* Nobody takes l for the owner of the session.
NoClaim(l) ==
    /\ ~Coming(toServer, l, Granting)
    /\ table # l /\ stage[l] \notin {"game", "leaving"}
    /\ closed = {} => ~Coming(toAgent, l, {"select"})

LEMMA ComingOn ==
    ASSUME NEW q, NEW l, NEW A, Coming(q, l, A)
    PROVE  \E s \in Servers : \E m \in On(q, s) : m.login = l /\ m.do \in A
BY DEF Coming, On

\* Whoever is taken for the owner stays it, but for logins of R.
LEMMA OwnersStay ==
    ASSUME Typing, Typing', Ownership, UNCHANGED <<stage, at, char, table>>, closed \subseteq closed',
           Embeds(toAgent, toAgent', {}),
           \A s \in Servers : \A m \in On(toServer', s) :
               \/ m \in On(toServer, s)
               \/ /\ m.do = "granted" => UserOwned(m.login)'
                  /\ m.do = "entered" => CharOwned(m.login, s, m.char)',
           NEW R, \A l \in R : NoClaim(l),
           \A l \in Logins \ closed' : l \notin R =>
               /\ UserOwned(l) => UserOwned(l)'
               /\ \A s, c : CharOwned(l, s, c) => CharOwned(l, s, c)',
           closed' = {} /\ session' # None /\ session'.state = "char" =>
               session'.store /\ session'.char # None
    PROVE  Ownership'
<1>1. ASSUME NEW l \in Logins \ closed', Coming(toServer', l, {"granted"})
      PROVE  UserOwned(l)'
  <2>1. PICK s \in Servers : \E m \in On(toServer', s) : m.login = l /\ m.do \in {"granted"}
    BY <1>1, ComingOn
  <2>2. PICK m \in On(toServer', s) : m.login = l /\ m.do = "granted"
    BY <2>1
  <2>3. CASE m \in On(toServer, s)
    <3>1. Coming(toServer, l, {"granted"}) /\ Coming(toServer, l, Granting)
      BY <2>2, <2>3, OnComing DEF Granting
    <3>2. OwnerOK(l) /\ l \notin R
      BY <3>1 DEF Ownership, NoClaim
    <3> QED
      BY <3>1, <3>2 DEF OwnerOK
  <2>4. CASE m \notin On(toServer, s)
    BY <2>2, <2>4
  <2> QED
    BY <2>3, <2>4
<1>2. ASSUME NEW l \in Logins \ closed', table' = l
      PROVE  UserOwned(l)'
  <2>1. OwnerOK(l) /\ l \notin R /\ table = l
    BY <1>2 DEF Ownership, NoClaim
  <2> QED
    BY <2>1 DEF OwnerOK
<1>3. ASSUME NEW l \in Logins \ closed', NEW s \in Servers, NEW m \in On(toServer', s),
             m.login = l, m.do = "entered"
      PROVE  CharOwned(l, s, m.char)'
  <2>1. CASE m \in On(toServer, s)
    <3>1. Coming(toServer, l, Granting)
      BY <1>3, <2>1, OnComing DEF Granting
    <3>2. OwnerOK(l) /\ l \notin R
      BY <3>1 DEF Ownership, NoClaim
    <3>3. CharOwned(l, s, m.char)
      BY <1>3, <2>1, <3>2 DEF OwnerOK
    <3>4. \A c : CharOwned(l, s, c) => CharOwned(l, s, c)'
      BY <3>2
    <3>5. PICK c : c = m.char
      OBVIOUS
    <3> QED
      BY <3>3, <3>4, <3>5
  <2>2. CASE m \notin On(toServer, s)
    BY <1>3, <2>2
  <2> QED
    BY <2>1, <2>2
<1>4. ASSUME NEW l \in Logins \ closed', stage'[l] \in {"game", "leaving"}
      PROVE  CharOwned(l, at[l], char[l])'
  <2>1. OwnerOK(l) /\ l \notin R /\ stage[l] \in {"game", "leaving"}
    BY <1>4 DEF Ownership, NoClaim
  <2>2. PICK s : s = at[l]
    OBVIOUS
  <2>3. PICK c : c = char[l]
    OBVIOUS
  <2>4. CharOwned(l, s, c)
    BY <2>1, <2>2, <2>3 DEF OwnerOK
  <2>5. CharOwned(l, s, c)'
    BY <2>1, <2>4
  <2>6. s = at'[l] /\ c = char'[l]
    BY <2>2, <2>3
  <2> QED
    BY <2>5, <2>6 DEF CharOwned
<1>5. ASSUME closed' = {}
      PROVE  DataOK'
  <2>1. closed = {} /\ DataOK
    BY <1>5 DEF Ownership
  <2>2. ASSUME NEW l \in Logins, stage'[l] \in {"auth", "selecting", "selected"}
        PROVE  table' = l
    BY <2>1, <2>2 DEF DataOK, SelectOK
  <2>3. ASSUME NEW l \in Logins, Coming(toAgent', l, {"select"})
        PROVE  UserOwned(l)' /\ Ahead(toAgent', l, {"select"}, {"logout", "move"})
    <3>1. Coming(toAgent, l, {"select"})
      BY <2>3, EmbedComing DEF Typing
    <3>2. l \notin R /\ UserOwned(l) /\ Ahead(toAgent, l, {"select"}, {"logout", "move"})
      BY <2>1, <3>1 DEF NoClaim, DataOK, SelectOK
    <3>3. Ahead(toAgent', l, {"select"}, {"logout", "move"})
      BY <3>2, EmbedKeeps DEF Typing
    <3> QED
      BY <1>5, <3>2, <3>3
  <2> QED
    BY <1>5, <2>2, <2>3 DEF DataOK, SelectOK
<1> QED
  BY <1>1, <1>2, <1>3, <1>4, <1>5 DEF Ownership, OwnerOK

\* The word of a login that departs comes when nobody takes it for the owner.
LEMMA Departed ==
    ASSUME IInv, Tokens, Ownership, NEW s \in Servers, NEW m, Reads(s, m),
           m.do \in Departing, m.login \in Logins,
           m.do \in {"logout", "move"} \/ session.state = "char"
    PROVE  NoClaim(m.login)
<1> DEFINE l == m.login
<1>1. toAgent \in Links /\ toServer \in Links /\ toAgent[s] # <<>> /\ m = Head(toAgent[s])
  BY DEF Reads, IInv, LinksOK
<1>2. m \in On(toAgent, s) /\ Coming(toAgent, l, Departing)
  BY <1>1, HeadTaken
<1>3. TokenOK(l) /\ StageOK(l)
  BY DEF Tokens, LoginOK
<1>4. stage[l] \in {"over", "moving"}
  BY <1>2, <1>3 DEF StageOK, Tells, Departing
<1>5. ~Coming(toServer, l, Granting)
  BY <1>2, <1>3 DEF TokenOK
<1>6. table # l /\ stage[l] \notin {"game", "leaving"}
  BY <1>3, <1>4 DEF StageOK
<1>7. ASSUME closed = {}, Coming(toAgent, l, {"select"})
      PROVE  FALSE
  <2>1. UserOwned(l) /\ Ahead(toAgent, l, {"select"}, {"logout", "move"})
    BY <1>7 DEF Ownership, DataOK, SelectOK
  <2>2. m.do \in {"logout", "move"}
    BY <2>1 DEF UserOwned
  <2> QED
    BY <1>1, <1>7, <2>1, <2>2, HeadBehind
<1> QED
  BY <1>5, <1>6, <1>7 DEF NoClaim

LEMMA EmbedMore ==
    ASSUME NEW q, NEW p, NEW X, NEW Y, Embeds(q, p, X), X \subseteq Y
    PROVE  Embeds(q, p, Y)
<1>1. ASSUME NEW s \in Servers
      PROVE  \E k \in Nat : \A i \in DOMAIN p[s] :
                (i + k \in DOMAIN q[s] /\ p[s][i] = q[s][i + k]) \/ p[s][i] \in Y
  <2>1. PICK k \in Nat : \A i \in DOMAIN p[s] :
            (i + k \in DOMAIN q[s] /\ p[s][i] = q[s][i + k]) \/ p[s][i] \in X
    BY DEF Embeds
  <2> QED
    BY <2>1
<1> QED
  BY <1>1 DEF Embeds

LEMMA EmbedTwice ==
    ASSUME NEW q \in Links, NEW p \in Links, NEW r \in Links, NEW X,
           Embeds(q, p, X), Embeds(p, r, X)
    PROVE  Embeds(q, r, X)
<1>1. ASSUME NEW s \in Servers
      PROVE  \E n \in Nat : \A i \in DOMAIN r[s] :
                (i + n \in DOMAIN q[s] /\ r[s][i] = q[s][i + n]) \/ r[s][i] \in X
  <2>1. PICK k \in Nat : \A i \in DOMAIN p[s] :
            (i + k \in DOMAIN q[s] /\ p[s][i] = q[s][i + k]) \/ p[s][i] \in X
    BY DEF Embeds
  <2>2. PICK h \in Nat : \A i \in DOMAIN r[s] :
            (i + h \in DOMAIN p[s] /\ r[s][i] = p[s][i + h]) \/ r[s][i] \in X
    BY DEF Embeds
  <2>3. r[s] \in Seq(Typed)
    BY DEF Links
  <2>4. ASSUME NEW i \in DOMAIN r[s], r[s][i] \notin X
        PROVE  i + (h + k) \in DOMAIN q[s] /\ r[s][i] = q[s][i + (h + k)]
    <3>1. i + h \in DOMAIN p[s] /\ r[s][i] = p[s][i + h]
      BY <2>2, <2>4
    <3>2. (i + h) + k \in DOMAIN q[s] /\ p[s][i + h] = q[s][(i + h) + k]
      BY <2>1, <2>4, <3>1
    <3>3. (i + h) + k = i + (h + k)
      BY <2>3
    <3> QED
      BY <3>1, <3>2, <3>3
  <2>5. h + k \in Nat
    OBVIOUS
  <2> QED
    BY <2>4, <2>5
<1> QED
  BY <1>1 DEF Embeds

LEMMA ReadsEmbeds ==
    ASSUME Typing, NEW s \in Servers, NEW m, Reads(s, m)
    PROVE  Embeds(toAgent, toAgent', {}) /\ m \in On(toAgent, s) /\ m \in Typed
BY HeadTaken DEF Typing, Reads

LEMMA SaysHarmless ==
    ASSUME Typing, NEW s \in Servers, NEW m \in Harmless, SaysNothing \/ Replies(s, m)
    PROVE  Embeds(toServer, toServer', Harmless)
<1>1. toServer \in Links /\ m \in Typed /\ {m} \subseteq Harmless
  BY DEF Typing, Harmless
<1>2. CASE SaysNothing
  BY <1>1, <1>2, SameEmbeds DEF SaysNothing
<1>3. CASE Replies(s, m)
  <2>1. Embeds(toServer, toServer', {m})
    BY <1>1, <1>3, SentEmbeds DEF Replies
  <2> QED
    BY <1>1, <2>1, EmbedMore
<1> QED
  BY <1>2, <1>3

LEMMA RequestsLeft ==
    ASSUME Typing, Requests' = Requests \/ Requests' = <<>>, NEW l
    PROVE  RestOf(Requests, Requests', l)
<1>1. \A i \in DOMAIN Requests' : i + 0 \in DOMAIN Requests /\ Requests'[i] = Requests[i + 0]
  BY DEF Typing
<1> QED
  BY <1>1 DEF RestOf

Inv == IInv /\ Tokens /\ Ownership

\* The agent reads a message, may refuse something, and nothing is asked.
LEMMA QuietStep ==
    ASSUME Inv, IInv', UNCHANGED <<stage, at, char, table>>, closed \subseteq closed',
           Embeds(toAgent, toAgent', {}), Embeds(toServer, toServer', Harmless),
           Requests' = Requests \/ Requests' = <<>>,
           NEW R, \A l \in R : NoClaim(l),
           \A l \in Logins \ closed' : l \notin R =>
               /\ UserOwned(l) => UserOwned(l)'
               /\ \A s, c : CharOwned(l, s, c) => CharOwned(l, s, c)',
           closed' = {} /\ session' # None /\ session'.state = "char" =>
               session'.store /\ session'.char # None
    PROVE  Inv'
<1>1. Typing /\ Typing'
  BY TypingOfIInv, PTL DEF Inv
<1>2. Tokens'
  BY <1>1, AgentIsQuiet, RequestsLeft DEF Inv
<1>3. \A s \in Servers : \A m \in On(toServer', s) :
          m \in On(toServer, s) \/ m.do \notin {"granted", "entered"}
  <2>1. \A m \in Harmless : m.do \notin {"granted", "entered"}
    BY DEF Harmless
  <2> QED
    BY <2>1, EmbedOn
<1>4. Ownership'
  BY <1>1, <1>3, OwnersStay DEF Inv
<1> QED
  BY <1>2, <1>4 DEF Inv

LEMMA SessionStays ==
    ASSUME Inv, IInv', UNCHANGED <<stage, at, char, table, session, closed>>,
           Embeds(toAgent, toAgent', {}), Embeds(toServer, toServer', Harmless)
    PROVE  Inv'
<1>1. Requests' = Requests
  BY DEF Requests
<1>2. \A l : UserOwned(l) => UserOwned(l)'
  BY DEF UserOwned, Owns
<1>3. \A l, s, c : CharOwned(l, s, c) => CharOwned(l, s, c)'
  BY DEF CharOwned, Owns
<1>4. closed' = {} /\ session' # None /\ session'.state = "char" => session'.store /\ session'.char # None
  BY DEF Inv, Ownership, DataOK, SelectOK
<1> DEFINE R == {}
<1>5. closed \subseteq closed' /\ \A l \in R : NoClaim(l)
  OBVIOUS
<1> HIDE DEF R
<1> QED
  BY <1>1, <1>2, <1>3, <1>4, <1>5, QuietStep

\* A login that departs gives the session back, or it is gone.
LEMMA OwnerDeparts ==
    ASSUME Inv, IInv', UNCHANGED <<stage, at, char, table, closed>>,
           NEW s \in Servers, NEW m, Reads(s, m), m.do \in Departing, SaysNothing,
           Owns(m.login), m.do \in {"logout", "move"} \/ session.state = "char",
           session' = None \/ (session'.requests = session.requests /\ session'.state \notin {"user", "char"})
    PROVE  Inv'
<1>1. Typing
  BY TypingOfIInv DEF Inv
<1>2. Embeds(toAgent, toAgent', {}) /\ m \in Typed
  BY <1>1, ReadsEmbeds
<1>3. Embeds(toServer, toServer', Harmless)
  BY <1>1, SameEmbeds DEF SaysNothing, Typing
<1>4. m.login \in Logins
  BY <1>2, TypedMessage DEF Departing
<1>5. NoClaim(m.login)
  BY <1>4, Departed DEF Inv
<1>6. \A l : l # m.login => ~UserOwned(l) /\ \A t, c : ~CharOwned(l, t, c)
  BY DEF UserOwned, CharOwned, Owns
<1>7. Requests' = Requests \/ Requests' = <<>>
  BY DEF Requests, Owns
<1>8. ~ (session' # None /\ session'.state = "char")
  OBVIOUS
<1> DEFINE R == {m.login}
<1>9. closed \subseteq closed' /\ (\A l \in R : NoClaim(l)) /\ \A l : l \notin R => l # m.login
  BY <1>5
<1> HIDE DEF R
<1> QED
  BY <1>2, <1>3, <1>6, <1>7, <1>8, <1>9, QuietStep

LEMMA AgentSession ==
    ASSUME Inv, session # None
    PROVE  Kept(Agent) /\ Agent \in Agents /\ Agent.session = session /\ session \in Open
<1>1. Kept(Agent) /\ session \in Open
  BY SessionCases DEF Inv, IInv
<1> QED
  BY <1>1 DEF Kept, Agents, Agent

LEMMA ReadQuietly ==
    ASSUME Inv, NEW s \in Servers, NEW m, Reads(s, m)
    PROVE  Embeds(toAgent, toAgent', {}) /\ m \in On(toAgent, s) /\ m \in Typed /\ Typing
BY TypingOfIInv, ReadsEmbeds DEF Inv

LEMMA Nothing ==
    ASSUME Inv, SaysNothing
    PROVE  Embeds(toServer, toServer', Harmless)
BY TypingOfIInv, SameEmbeds DEF Inv, SaysNothing, Typing

LEMMA Refuses ==
    ASSUME NEW l \in Logins, NEW c \in Chars \union {None},
           NEW do \in {"refused", "selected", "notSelected"}
    PROVE  Msg(do, l, c) \in Harmless
<1>1. Msg(do, l, c) \in Typed /\ Msg(do, l, c).do = do
  BY MsgTyped DEF Does, Msg
<1> QED
  BY <1>1 DEF Harmless

LEMMA UserLogoutInv ==
    ASSUME Inv, IInv', UNCHANGED <<stage, at, char, table>>, NEW m, NEW bad, UserLogout(m, bad)
    PROVE  Inv'
<1>1. Reads("auth", m) /\ m.do = "logout" /\ SaysNothing /\ UNCHANGED closed /\ "auth" \in Servers
  BY DEF UserLogout, Servers
<1>2. CASE Owns(m.login) /\ session.state \in {"user", "move"}
  <2>1. session' = UserDisable(Agent, bad).session
    BY <1>2 DEF UserLogout, Becomes
  <2>2. Kept(Agent) /\ Agent.session = session
    BY <1>2, AgentSession DEF Owns
  <2>3. session'.requests = session.requests /\ session'.state \notin {"user", "char"}
    BY <2>1, <2>2, OwnerLeaves
  <2> QED
    BY <1>1, <1>2, <2>3, OwnerDeparts DEF Departing
<1>3. CASE ~(Owns(m.login) /\ session.state \in {"user", "move"})
  <2>1. UNCHANGED session
    BY <1>3 DEF UserLogout
  <2> QED
    BY <1>1, <2>1, SessionStays, ReadQuietly, Nothing
<1> QED
  BY <1>2, <1>3

LEMMA UserMovesInv ==
    ASSUME Inv, IInv', UNCHANGED <<stage, at, char, table>>, NEW m, NEW bad, UserMoves(m, bad)
    PROVE  Inv'
<1>1. Reads("auth", m) /\ m.do = "move" /\ SaysNothing /\ UNCHANGED closed /\ "auth" \in Servers
  BY DEF UserMoves, Servers
<1>2. CASE Owns(m.login) /\ session.state = "user"
  <2>1. session' = UserMove(Agent, bad).session
    BY <1>2 DEF UserMoves, Becomes
  <2>2. Kept(Agent) /\ Agent.session = session
    BY <1>2, AgentSession DEF Owns
  <2>3. session'.requests = session.requests /\ session'.state \notin {"user", "char"}
    BY <2>1, <2>2, OwnerLeaves
  <2> QED
    BY <1>1, <1>2, <2>3, OwnerDeparts DEF Departing
<1>3. CASE ~(Owns(m.login) /\ session.state = "user")
  <2>1. UNCHANGED session
    BY <1>3 DEF UserMoves
  <2> QED
    BY <1>1, <2>1, SessionStays, ReadQuietly, Nothing
<1> QED
  BY <1>2, <1>3

LEMMA CharMoveZoneInv ==
    ASSUME Inv, IInv', UNCHANGED <<stage, at, char, table>>, NEW g \in Games, NEW m, NEW bad,
           CharMoveZone(g, m, bad)
    PROVE  Inv'
<1>1. Reads(g, m) /\ m.do = "zone" /\ SaysNothing /\ UNCHANGED closed /\ g \in Servers
  BY DEF CharMoveZone, Servers
<1>2. CASE Plays(g, m.login, m.char)
  <2>1. session' = CharLeaves(Agent, "move", bad).session
    BY <1>2 DEF CharMoveZone, Becomes
  <2>2. Kept(Agent) /\ Agent.session = session /\ Owns(m.login) /\ session.state = "char"
    BY <1>2, AgentSession DEF Owns, Plays
  <2>3. session'.requests = session.requests /\ session'.state \notin {"user", "char"}
    BY <2>1, <2>2, OwnerLeaves
  <2> QED
    BY <1>1, <2>2, <2>3, OwnerDeparts DEF Departing
<1>3. CASE ~Plays(g, m.login, m.char)
  <2>1. UNCHANGED session
    BY <1>3 DEF CharMoveZone
  <2> QED
    BY <1>1, <2>1, SessionStays, ReadQuietly, Nothing
<1> QED
  BY <1>2, <1>3

LEMMA CharLogoutInv ==
    ASSUME Inv, IInv', UNCHANGED <<stage, at, char, table>>, NEW g \in Games, NEW m, NEW bad,
           CharLogout(g, m, bad)
    PROVE  Inv'
<1>1. Reads(g, m) /\ m.do = "leave" /\ SaysNothing /\ UNCHANGED closed /\ g \in Servers
  BY DEF CharLogout, Servers
<1>2. CASE Plays(g, m.login, m.char)
  <2>1. session' = SessionClose(CharLeaves(Agent, "charDisabled", bad)).session
    BY <1>2 DEF CharLogout, Becomes
  <2>2. Kept(Agent) /\ Owns(m.login) /\ session.state = "char"
    BY <1>2, AgentSession DEF Owns, Plays
  <2>3. CharLeaves(Agent, "charDisabled", bad) \in Agents
    BY <2>2, OwnerLeaves
  <2>4. session' = None
    BY <2>1, <2>3 DEF SessionClose, Agents, AgentWith
  <2> QED
    BY <1>1, <2>2, <2>4, OwnerDeparts DEF Departing
<1>3. CASE ~Plays(g, m.login, m.char)
  <2>1. UNCHANGED session
    BY <1>3 DEF CharLogout
  <2> QED
    BY <1>1, <2>1, SessionStays, ReadQuietly, Nothing
<1> QED
  BY <1>2, <1>3

LEMMA CharSelectInv ==
    ASSUME Inv, IInv', UNCHANGED <<stage, at, char, table>>, NEW m, NEW bad, CharSelect(m, bad)
    PROVE  Inv'
<1>1. Reads("auth", m) /\ m.do = "select" /\ UNCHANGED closed /\ "auth" \in Servers
  BY DEF CharSelect, Servers
<1>2. Embeds(toAgent, toAgent', {}) /\ m \in On(toAgent, "auth") /\ m \in Typed /\ Typing
  BY <1>1, ReadQuietly
<1>3. m.login \in Logins /\ m.char \in Chars
  BY <1>1, <1>2, TypedMessage
<1>4. Embeds(toServer, toServer', Harmless)
  <2>1. PICK do \in {"selected", "notSelected"} : Replies("auth", Msg(do, m.login, m.char))
    BY DEF CharSelect
  <2> QED
    BY <1>1, <1>2, <1>3, <2>1, Refuses, SaysHarmless
<1>5. CASE session # None /\ session.state # "none"
  <2>1. session' = Selects(Agent, m.char, bad).session
    BY <1>5 DEF CharSelect, Becomes
  <2>2. Kept(Agent) /\ Agent.session = session
    BY <1>5, AgentSession
  <2>3. /\ session'.requests = session.requests /\ session'.sid = session.sid
        /\ session'.server = session.server /\ session'.state = session.state /\ session' # None
    <3>1. PICK b : b = Selects(Agent, m.char, bad)
      OBVIOUS
    <3>2. b.session # None
      <4>1. b \in Agents
        <5>1. LoadData(Agent, m.char, bad) \in Agents /\ Kept(LoadData(Agent, m.char, bad))
          BY <1>3, <2>2, LoadKeeps DEF Kept, Agents
        <5> QED
          BY <3>1, <5>1, UnloadKeeps DEF Selects, Kept, Agents
      <4> QED
        BY <4>1, NoSession DEF Agents, AgentWith, Open
    <3> QED
      BY <1>3, <2>1, <2>2, <3>1, <3>2, SelectLeaves
  <2>4. Requests' = Requests
    BY <1>5, <2>3 DEF Requests
  <2>5. closed = {} => session.state = "user"
    <3>1. Coming(toAgent, m.login, {"select"})
      BY <1>1, <1>2, OnComing
    <3> QED
      BY <1>3, <3>1 DEF Inv, Ownership, DataOK, SelectOK, UserOwned
  <2>6. \A l : UserOwned(l) => UserOwned(l)'
    BY <2>3 DEF UserOwned, Owns
  <2>7. \A l, s, c : CharOwned(l, s, c) => CharOwned(l, s, c)'
    BY <1>1, <2>3, <2>5 DEF CharOwned, Owns
  <2>8. closed' = {} /\ session' # None /\ session'.state = "char" => session'.store /\ session'.char # None
    BY <1>1, <2>3, <2>5
  <2> DEFINE R == {}
  <2>9. closed \subseteq closed' /\ \A l \in R : NoClaim(l)
    BY <1>1
  <2> HIDE DEF R
  <2> QED
    BY <1>2, <1>4, <2>4, <2>6, <2>7, <2>8, <2>9, QuietStep
<1>6. CASE ~(session # None /\ session.state # "none")
  <2>1. UNCHANGED session
    BY <1>6 DEF CharSelect
  <2> QED
    BY <1>1, <1>2, <1>4, <2>1, SessionStays
<1> QED
  BY <1>5, <1>6

LEMMA NobodyOwns ==
    ASSUME ~Enabled(session)
    PROVE  \A l : ~UserOwned(l) /\ \A s, c : ~CharOwned(l, s, c)
BY DEF Enabled, UserOwned, CharOwned, Owns

\* A login asks for the session while it has no owner.
LEMMA AsksInv ==
    ASSUME Inv, IInv', UNCHANGED <<stage, at, char, table, closed>>, ~Enabled(session),
           NEW s \in Servers, NEW m, Reads(s, m), m.do \in Asking, m.login \in Logins,
           NEW r \in Wanted, r.login = m.login, r.server = s,
           IF m.do = "enter" THEN r.char = m.char ELSE r.char = None,
           NEW a, a = (IF session = None THEN NewSession ELSE session), Asks(a, r)
    PROVE  Inv'
<1>1. Embeds(toAgent, toAgent', {}) /\ Typing
  BY ReadQuietly
<1>2. a \in Open /\ a.requests = Requests /\ a.state \notin {"user", "char"}
  <2>1. CASE session = None
    BY <2>1, NewSessionIsOpen DEF Requests, NewSession
  <2>2. CASE session # None
    BY <2>2, AgentSession DEF Requests, Enabled
  <2> QED
    BY <2>1, <2>2
<1>3. session' \in Open /\ session'.state = a.state
  BY <1>2, AsksKeeps DEF Inv, IInv
<1>4. session' # None
  BY <1>3, NoSession DEF Open
<1>5. Requests' = Append(Requests, r) \/ Requests' = Tail(Append(Requests, r))
  <2>1. ASSUME NEW q, session' = [a EXCEPT !.requests = q]
        PROVE  Requests' = q
    <3>1. a \in Session
      BY <1>2 DEF Open
    <3>2. session'.requests = q
      BY <2>1, <3>1 DEF Session
    <3> QED
      BY <1>4, <3>2 DEF Requests
  <2>2. \E q \in {Append(Requests, r), Tail(Append(Requests, r))} : session' = [a EXCEPT !.requests = q]
    BY <1>2 DEF Asks
  <2> QED
    BY <2>1, <2>2
<1>6. Embeds(toServer, toServer', Harmless)
  <2>1. SaysNothing \/ Replies(s, Msg("refused", m.login, None))
    BY DEF Asks
  <2> QED
    BY <1>1, <2>1, Refuses, SaysHarmless
<1>7. Tokens'
  BY <1>5, <1>6, AskBecomesRequest DEF Inv
<1>8. Ownership'
  <2>1. \A l : ~UserOwned(l) /\ \A t, c : ~CharOwned(l, t, c)
    BY NobodyOwns
  <2>2. session'.state # "char"
    BY <1>2, <1>3
  <2>3. \A t \in Servers : \A n \in On(toServer', t) :
            n \in On(toServer, t) \/ n.do \notin {"granted", "entered"}
    <3>1. \A n \in Harmless : n.do \notin {"granted", "entered"}
      BY DEF Harmless
    <3> QED
      BY <1>6, <3>1, EmbedOn
  <2>4. Typing'
    BY TypingOfIInv, PTL
  <2> DEFINE R == {}
  <2>5. closed \subseteq closed' /\ \A l \in R : NoClaim(l)
    OBVIOUS
  <2> HIDE DEF R
  <2> QED
    BY <1>1, <2>1, <2>2, <2>3, <2>4, <2>5, OwnersStay DEF Inv
<1> QED
  BY <1>7, <1>8 DEF Inv

LEMMA StartSessionInv ==
    ASSUME Inv, IInv', UNCHANGED <<stage, at, char, table>>, NEW m, StartSession(m)
    PROVE  Inv'
<1>1. Reads("auth", m) /\ m.do \in {"start", "startKill"} /\ UNCHANGED closed /\ "auth" \in Servers
  BY DEF StartSession, Servers
<1>2. Embeds(toAgent, toAgent', {}) /\ m \in Typed /\ Typing
  BY <1>1, ReadQuietly
<1>3. m.login \in Logins
  BY <1>1, <1>2, TypedMessage
<1>4. CASE Enabled(session)
  <2>1. Msg("refused", m.login, None) \in Harmless
    BY <1>3, Refuses
  <2>2. toServer \in Links
    BY <1>2 DEF Typing
  <2>3. PICK q \in Links : /\ toServer' = Sent(q, "auth", Msg("refused", m.login, None))
                           /\ Embeds(toServer, q, Harmless)
    <3>1. CASE m.do = "startKill"
      <4>1. Msg("kill", None, session.cid) \in Typed
        <5>1. session.cid \in Chars \union {None}
          BY <1>4, AgentSession DEF Enabled, Open, Session
        <5> QED
          BY <5>1, MsgTyped DEF Does
      <4>2. {Msg("kill", None, session.cid)} \subseteq Harmless
        BY <4>1 DEF Harmless, Msg
      <4>3. PICK q : q = Sent(toServer, session.server, Msg("kill", None, session.cid))
        OBVIOUS
      <4>4. q \in Links
        BY <2>2, <4>1, <4>3, SentTyped
      <4>5. Embeds(toServer, q, Harmless)
        <5>1. CASE session.server \in Servers
          <6>1. Embeds(toServer, q, {Msg("kill", None, session.cid)})
            BY <2>2, <4>1, <4>3, <5>1, SentEmbeds
          <6> QED
            BY <4>2, <6>1, EmbedMore
        <5>2. CASE session.server \notin Servers
          <6>1. q = toServer
            BY <2>2, <4>3, <5>2 DEF Sent, Links
          <6> QED
            BY <2>2, <6>1, SameEmbeds
        <5> QED
          BY <5>1, <5>2
      <4> QED
        BY <1>4, <3>1, <4>3, <4>4, <4>5 DEF StartSession
    <3>2. CASE m.do # "startKill"
      BY <1>4, <2>2, <3>2, SameEmbeds DEF StartSession
    <3> QED
      BY <3>1, <3>2
  <2>4. Embeds(q, toServer', Harmless) /\ toServer' \in Links
    <3>1. Msg("refused", m.login, None) \in Typed /\ {Msg("refused", m.login, None)} \subseteq Harmless
      BY <2>1 DEF Harmless
    <3>2. Embeds(q, toServer', {Msg("refused", m.login, None)}) /\ toServer' \in Links
      BY <1>1, <2>3, <3>1, SentEmbeds
    <3> QED
      BY <3>1, <3>2, EmbedMore
  <2>5. Embeds(toServer, toServer', Harmless)
    BY <2>2, <2>3, <2>4, EmbedTwice
  <2>6. UNCHANGED session
    BY <1>4 DEF StartSession
  <2> QED
    BY <1>1, <1>2, <2>5, <2>6, SessionStays
<1>5. CASE ~Enabled(session)
  <2> DEFINE r == [login |-> m.login, char |-> None, server |-> "auth"]
  <2>1. r \in Wanted /\ r.login = m.login /\ r.server = "auth" /\ r.char = None
    BY <1>1, <1>3 DEF Wanted, Request
  <2>2. Asks(IF session = None THEN NewSession ELSE session, r)
    BY <1>5 DEF StartSession
  <2>3. m.do \in Asking /\ m.do # "enter"
    BY <1>1 DEF Asking
  <2> HIDE DEF r
  <2> QED
    BY <1>1, <1>3, <1>5, <2>1, <2>2, <2>3, AsksInv
<1> QED
  BY <1>4, <1>5

LEMMA CharLoginInv ==
    ASSUME Inv, IInv', UNCHANGED <<stage, at, char, table>>, NEW g \in Games, NEW m, CharLogin(g, m)
    PROVE  Inv'
<1>1. Reads(g, m) /\ m.do = "enter" /\ UNCHANGED closed /\ g \in Servers
  BY DEF CharLogin, Servers
<1>2. Embeds(toAgent, toAgent', {}) /\ m \in Typed /\ Typing
  BY <1>1, ReadQuietly
<1>3. m.login \in Logins /\ m.char \in Chars
  BY <1>1, <1>2, TypedMessage
<1>4. CASE Owns(m.login) /\ ~Enabled(session)
  <2> DEFINE r == [login |-> m.login, char |-> m.char, server |-> g]
  <2>1. r \in Wanted /\ r.login = m.login /\ r.server = g /\ r.char = m.char
    BY <1>1, <1>3 DEF Wanted, Request
  <2>2. Asks(session, r) /\ session # None
    BY <1>4 DEF CharLogin, Owns
  <2>3. m.do \in Asking
    BY <1>1 DEF Asking
  <2> HIDE DEF r
  <2> QED
    BY <1>1, <1>3, <1>4, <2>1, <2>2, <2>3, AsksInv
<1>5. CASE ~(Owns(m.login) /\ ~Enabled(session))
  <2>1. Replies(g, Msg("refused", m.login, None)) /\ UNCHANGED session
    BY <1>5 DEF CharLogin
  <2>2. Embeds(toServer, toServer', Harmless)
    BY <1>1, <1>2, <1>3, <2>1, Refuses, SaysHarmless
  <2> QED
    BY <1>1, <1>2, <2>1, <2>2, SessionStays
<1> QED
  BY <1>4, <1>5

\* The agent ends a session: its login is no longer spoken of.
LEMMA ClosesInv ==
    ASSUME Inv, IInv', UNCHANGED <<stage, at, char, table>>, session # None, NEW bad, Closes(Agent, bad),
           Embeds(toAgent, toAgent', {}), Embeds(toServer, toServer', Harmless)
    PROVE  Inv'
<1>1. session' = None
  <2>1. Settled(Agent) /\ Agent.session # None
    BY DEF Inv, IInv, AgentOK, Agent
  <2>2. SessionCloseWithLogout(Agent, bad) \in AgentWith({None})
    BY <2>1, CloseKeeps
  <2> QED
    BY <2>2 DEF Closes, Becomes, AgentWith
<1>2. closed' = closed \union {l \in Logins : l = session.sid}
  BY DEF Closes, Agent
<1>3. \A l \in Logins \ closed' : ~UserOwned(l) /\ \A s, c : ~CharOwned(l, s, c)
  BY <1>2 DEF UserOwned, CharOwned, Owns
<1>4. Requests' = <<>> /\ closed \subseteq closed'
  BY <1>1, <1>2 DEF Requests
<1> DEFINE R == {}
<1>5. \A l \in R : NoClaim(l)
  OBVIOUS
<1> HIDE DEF R
<1> QED
  BY <1>1, <1>3, <1>4, <1>5, QuietStep

LEMMA UserKillAckInv ==
    ASSUME Inv, IInv', UNCHANGED <<stage, at, char, table>>, NEW s \in Servers, NEW m, NEW bad,
           UserKillAck(s, m, bad)
    PROVE  Inv'
<1>1. Embeds(toAgent, toAgent', {}) /\ Embeds(toServer, toServer', Harmless)
  BY ReadQuietly, Nothing DEF UserKillAck
<1>2. CASE session # None /\ Closes(Agent, bad)
  BY <1>1, <1>2, ClosesInv
<1>3. CASE UNCHANGED <<session, closed>>
  BY <1>1, <1>3, SessionStays
<1> QED
  BY <1>2, <1>3 DEF UserKillAck, agent

LEMMA ServerZoneEndInv ==
    ASSUME Inv, IInv', UNCHANGED <<stage, at, char, table>>, NEW s \in Servers, NEW m, ServerZoneEnd(s, m)
    PROVE  Inv'
<1>1. Reads(s, m) /\ m.do = "zoneEnd" /\ Replies(s, m) /\ UNCHANGED <<session, closed>>
  BY DEF ServerZoneEnd, agent
<1>2. Embeds(toAgent, toAgent', {}) /\ m \in Typed /\ Typing
  BY <1>1, ReadQuietly
<1>3. Requests' = Requests /\ Typing'
  <2>1. Typing'
    BY TypingOfIInv, PTL
  <2> QED
    BY <1>1, <2>1 DEF Requests
<1>4. Tokens'
  BY <1>1, <1>3, EndOfMoveReturns DEF Inv
<1>5. Ownership'
  <2>1. toServer \in Links /\ toServer' = Sent(toServer, s, m)
    BY <1>1, <1>2 DEF Typing, Replies
  <2>2. Embeds(toServer, toServer', {m})
    BY <1>2, <2>1, SentEmbeds
  <2>3. \A t \in Servers : \A n \in On(toServer', t) :
            n \in On(toServer, t) \/ n.do \notin {"granted", "entered"}
    BY <1>1, <2>2, EmbedOn
  <2>4. \A l : UserOwned(l) => UserOwned(l)'
    BY <1>1 DEF UserOwned, Owns
  <2>5. \A l, t, c : CharOwned(l, t, c) => CharOwned(l, t, c)'
    BY <1>1 DEF CharOwned, Owns
  <2>6. closed' = {} /\ session' # None /\ session'.state = "char" => session'.store /\ session'.char # None
    BY <1>1 DEF Inv, Ownership, DataOK, SelectOK
  <2> DEFINE R == {}
  <2>7. closed \subseteq closed' /\ \A l \in R : NoClaim(l)
    BY <1>1
  <2> HIDE DEF R
  <2> QED
    BY <1>2, <1>3, <2>3, <2>4, <2>5, <2>6, <2>7, OwnersStay DEF Inv
<1> QED
  BY <1>4, <1>5 DEF Inv

\* What the answer to the first request does to a session without an owner, or not
\* at all to one that has one.
LEMMA AnswerInv ==
    ASSUME Inv, IInv', UNCHANGED <<stage, at, char, table, toAgent, closed>>,
           session # None, session.requests # <<>>, NEW r, r = Head(session.requests),
           session' # None, session'.requests = Tail(session.requests),
           NEW s \in Servers, NEW m \in Typed, m.login = r.login,
           toServer' = toServer \/ toServer' = Sent(toServer, s, m),
           m.do # "zoneEnd",
           m.do = "granted" => r.char = None,
           m.do = "entered" => r.char # None /\ m.char = r.char /\ s = r.server,
           \/ /\ m.do \notin {"granted", "entered"}
              /\ session'.sid = session.sid /\ session'.server = session.server
              /\ session'.state = session.state /\ session'.char = session.char
              /\ session'.store = session.store
           \/ /\ ~Enabled(session)
              /\ m.do = "granted" => UserOwned(r.login)'
              /\ m.do = "entered" => CharOwned(r.login, s, r.char)'
              /\ session'.state = "char" => session'.store /\ session'.char # None
    PROVE  Inv'
<1>1. Typing
  BY TypingOfIInv DEF Inv
<1>2. Typing'
  BY TypingOfIInv, PTL
<1>3. Requests = session.requests /\ Requests' = session'.requests
  BY DEF Requests
<1>4. Tokens'
  BY <1>3, RequestIsAnswered DEF Inv
<1>5. \A t \in Servers : \A n \in On(toServer', t) : n \in On(toServer, t) \/ (t = s /\ n = m)
  <2>1. CASE toServer' = toServer
    BY <2>1
  <2>2. CASE toServer' = Sent(toServer, s, m)
    BY <1>1, <2>2, SentOn DEF Typing
  <2> QED
    BY <2>1, <2>2
<1>6. Embeds(toAgent, toAgent', {})
  BY <1>1, SameEmbeds DEF Typing
<1> DEFINE R == {}
<1>7. closed \subseteq closed' /\ \A l \in R : NoClaim(l)
  OBVIOUS
<1> HIDE DEF R
<1>8. CASE /\ m.do \notin {"granted", "entered"}
           /\ session'.sid = session.sid /\ session'.server = session.server
           /\ session'.state = session.state /\ session'.char = session.char
           /\ session'.store = session.store
  <2>1. \A l : UserOwned(l) => UserOwned(l)'
    BY <1>8 DEF UserOwned, Owns
  <2>2. \A l, t, c : CharOwned(l, t, c) => CharOwned(l, t, c)'
    BY <1>8 DEF CharOwned, Owns
  <2>3. closed' = {} /\ session' # None /\ session'.state = "char" => session'.store /\ session'.char # None
    BY <1>8 DEF Inv, Ownership, DataOK, SelectOK
  <2>4. Ownership'
    BY <1>1, <1>2, <1>5, <1>6, <1>7, <1>8, <2>1, <2>2, <2>3, OwnersStay DEF Inv
  <2> QED
    BY <1>4, <2>4 DEF Inv
<1>9. CASE /\ ~Enabled(session)
           /\ m.do = "granted" => UserOwned(r.login)'
           /\ m.do = "entered" => CharOwned(r.login, s, r.char)'
           /\ session'.state = "char" => session'.store /\ session'.char # None
  <2>1. \A l : ~UserOwned(l) /\ \A t, c : ~CharOwned(l, t, c)
    BY <1>9, NobodyOwns
  <2>2. m.do = "granted" => UserOwned(m.login)'
    BY <1>9 DEF UserOwned, Owns
  <2>3. m.do = "entered" => CharOwned(m.login, s, m.char)'
    BY <1>9 DEF CharOwned, Owns
  <2>4. \A t \in Servers : \A n \in On(toServer', t) :
            \/ n \in On(toServer, t)
            \/ /\ n.do = "granted" => UserOwned(n.login)'
               /\ n.do = "entered" => CharOwned(n.login, t, n.char)'
    <3>1. ASSUME NEW t \in Servers, NEW n \in On(toServer', t), t = s /\ n = m
          PROVE  /\ n.do = "granted" => UserOwned(n.login)'
                 /\ n.do = "entered" => CharOwned(n.login, t, n.char)'
      BY <2>2, <2>3, <3>1 DEF UserOwned, CharOwned, Owns
    <3> QED
      BY <1>5, <3>1
  <2>5. Ownership'
    BY <1>1, <1>2, <1>6, <1>7, <1>9, <2>1, <2>4, OwnersStay DEF Inv
  <2> QED
    BY <1>4, <2>5 DEF Inv
<1> QED
  BY <1>8, <1>9

\* An answer about the account, and one about a character.
LEMMA AnswersUserInv ==
    ASSUME Inv, IInv', UNCHANGED <<stage, at, char, table, toAgent, closed>>,
           session # None, session.requests # <<>>, NEW r, r = Head(session.requests),
           NEW a, Taken(a, r),
           NEW granted \in BOOLEAN, AnswersUser(a, r, granted)
    PROVE  Inv'
<1>1. /\ r \in Wanted /\ Kept(a) /\ a \in Agents
      /\ a.session # None /\ a.session.requests = Tail(session.requests)
      /\ a.session.sid = session.sid /\ a.session.server = session.server
      /\ a.session.state = session.state /\ a.session.char = session.char
      /\ a.session.store = session.store
  BY DEF Taken, Kept, Agents
<1>2. r.login \in Logins /\ "auth" \in Servers /\ (r.char = None => r.server = "auth")
  BY <1>1, SessionAssumption DEF Wanted, Request, Servers
<1>3. /\ Msg("refused", r.login, None) \in Typed /\ Msg("granted", r.login, None) \in Typed
      /\ \A do : Msg(do, r.login, None).do = do /\ Msg(do, r.login, None).login = r.login
  <2>1. \A do \in {"refused", "granted"} : Msg(do, r.login, None) \in Typed
    BY <1>2, MsgTyped DEF Does
  <2> QED
    BY <2>1 DEF Msg
<1>4. CASE session' = a.session /\ (SaysNothing \/ Replies("auth", Msg("refused", r.login, None)))
  <2>1. PICK m : m = Msg("refused", r.login, None)
    OBVIOUS
  <2>2. m \in Typed /\ m.do = "refused" /\ m.login = r.login
    BY <1>3, <2>1
  <2>3. toServer' = toServer \/ toServer' = Sent(toServer, "auth", m)
    BY <1>4, <2>1 DEF SaysNothing, Replies
  <2> QED
    BY <1>1, <1>2, <1>4, <2>2, <2>3, AnswerInv
<1>5. CASE /\ UserEnable(a.session) /\ session' = SetRequestData(SetState(a, "user"), r).session
           /\ IF r.char = None THEN Replies("auth", Msg("granted", r.login, None)) ELSE SaysNothing
  <2>1. ~Enabled(session)
    BY <1>1, <1>5 DEF UserEnable, Enabled
  <2>2. PICK b : b = SetState(a, "user")
    OBVIOUS
  <2>3. PICK d : d = SetRequestData(b, r)
    OBVIOUS
  <2>4. b \in Agents
    BY <1>1, <2>2, SetStateKeeps DEF Kept, Agents
  <2>5. d.session # None
    <3>1. d.session = [b.session EXCEPT !.sid = r.login, !.server = r.server]
      BY <2>3, <2>4 DEF Agents, AgentWith, SetRequestData
    <3>2. b.session \in Session
      BY <2>4 DEF Agents, AgentWith, Open
    <3>3. r.server \in Servers
      BY <1>1 DEF Wanted, Request
    <3>4. d.session \in Session
      BY <1>2, <3>1, <3>2, <3>3 DEF Session
    <3> QED
      BY <3>4, NoSession
  <2>6. /\ session' = d.session /\ session'.requests = Tail(session.requests) /\ session'.sid = r.login
        /\ session'.server = r.server /\ session'.state = "user" /\ session' # None
    <3>1. b.session.requests = Tail(session.requests) /\ b.session.state = "user"
      BY <1>1, <2>2, StateLeaves
    <3>2. /\ d.session.requests = b.session.requests /\ d.session.state = b.session.state
          /\ d.session.sid = r.login /\ d.session.server = r.server
      BY <2>3, <2>4, RequestLeaves
    <3>3. session' = d.session
      BY <1>5, <2>2, <2>3
    <3> QED
      BY <2>5, <3>1, <3>2, <3>3
  <2>7. r.char = None => UserOwned(r.login)'
    BY <1>2, <2>6 DEF UserOwned, Owns
  <2>8. CASE r.char = None
    <3>1. PICK m : m = Msg("granted", r.login, None)
      OBVIOUS
    <3>2. m \in Typed /\ m.do = "granted" /\ m.login = r.login
      BY <1>3, <3>1
    <3>3. toServer' = Sent(toServer, "auth", m)
      BY <1>5, <2>8, <3>1 DEF Replies
    <3> QED
      BY <1>2, <2>1, <2>6, <2>7, <2>8, <3>2, <3>3, AnswerInv
  <2>9. CASE r.char # None
    <3>1. PICK m : m = Msg("refused", r.login, None)
      OBVIOUS
    <3>2. m \in Typed /\ m.do = "refused" /\ m.login = r.login
      BY <1>3, <3>1
    <3>3. toServer' = toServer
      BY <1>5, <2>9 DEF SaysNothing
    <3> QED
      BY <1>2, <2>1, <2>6, <3>2, <3>3, AnswerInv
  <2> QED
    BY <2>8, <2>9
<1> QED
  BY <1>4, <1>5 DEF AnswersUser, Becomes

LEMMA AnswersCharInv ==
    ASSUME Inv, IInv', UNCHANGED <<stage, at, char, table, toAgent, closed>>,
           session # None, session.requests # <<>>, NEW r, r = Head(session.requests),
           NEW a, Taken(a, r),
           NEW granted \in BOOLEAN, NEW bad, AnswersChar(a, r, granted, bad)
    PROVE  Inv'
<1>1. /\ r \in Wanted /\ Kept(a) /\ a \in Agents
      /\ a.session # None /\ a.session.requests = Tail(session.requests)
      /\ a.session.sid = session.sid /\ a.session.server = session.server
      /\ a.session.state = session.state /\ a.session.char = session.char
      /\ a.session.store = session.store
  BY DEF Taken, Kept, Agents
<1>2. r.login \in Logins /\ r.server \in Servers /\ (r.server \in Games => r.char \in Chars /\ r.char # None)
  BY <1>1, SessionAssumption DEF Wanted, Request, Servers
<1>3. /\ Msg("refused", r.login, None) \in Typed
      /\ r.char \in Chars => Msg("entered", r.login, r.char) \in Typed
      /\ \A do, c : /\ Msg(do, r.login, c).do = do /\ Msg(do, r.login, c).login = r.login
                    /\ Msg(do, r.login, c).char = c
  <2>1. Msg("refused", r.login, None) \in Typed
    BY <1>2, MsgTyped DEF Does
  <2>2. r.char \in Chars => Msg("entered", r.login, r.char) \in Typed
    BY <1>2, MsgTyped DEF Does
  <2> QED
    BY <2>1, <2>2 DEF Msg
<1>4. PICK n : n = Msg("refused", r.login, None)
  OBVIOUS
<1>5. n \in Typed /\ n.do = "refused" /\ n.login = r.login
  BY <1>3, <1>4
<1>6. CASE session' = a.session /\ (SaysNothing \/ Replies(r.server, n))
  <2>1. toServer' = toServer \/ toServer' = Sent(toServer, r.server, n)
    BY <1>6 DEF SaysNothing, Replies
  <2> QED
    BY <1>1, <1>2, <1>5, <1>6, <2>1, AnswerInv
<1>7. PICK b : b = LoadData(a, r.char, bad)
  OBVIOUS
<1>10. r.server \in Games => b \in Agents /\ Kept(b)
  <2>1. r.char \in Chars /\ Kept(a) => Kept(b)
    BY <1>7, LoadKeeps
  <2> QED
    BY <1>1, <1>2, <2>1 DEF Kept, Agents
<1>8. CASE /\ r.server \in Games /\ ~Enabled(a.session) /\ ~HasLoaded(b, r.char)
           /\ session' = b.session /\ Replies(r.server, n)
  <2>1. ~Enabled(session) /\ session.state # "char"
    BY <1>1, <1>8 DEF Enabled
  <2>2. b \in Agents /\ Kept(b)
    BY <1>8, <1>10
  <2>3. b.session # None
    BY <2>2, NoSession DEF Agents, AgentWith, Open
  <2>4. session'.requests = Tail(session.requests) /\ session'.state = session.state /\ session' # None
    <3>1. b.session.requests = a.session.requests /\ b.session.state = a.session.state
      BY <1>1, <1>7, LoadLeaves
    <3> QED
      BY <1>1, <1>8, <2>3, <3>1
  <2>5. toServer' = Sent(toServer, r.server, n)
    BY <1>8, SMTT(30) DEF Replies
  <2> QED
    BY <1>2, <1>5, <2>1, <2>4, <2>5, AnswerInv
<1>9. CASE /\ r.server \in Games /\ ~Enabled(a.session) /\ HasLoaded(b, r.char)
           /\ session' = SetRequestData(SetState(b, "char"), r).session
           /\ Replies(r.server, Msg("entered", r.login, r.char))
  <2>1. ~Enabled(session)
    BY <1>1, <1>9 DEF Enabled
  <2>2. b \in Agents /\ Kept(b)
    BY <1>9, <1>10
  <2>3. PICK d : d = SetState(b, "char")
    OBVIOUS
  <2>4. PICK e : e = SetRequestData(d, r)
    OBVIOUS
  <2>5. d \in Agents
    BY <2>2, <2>3, SetStateKeeps DEF Kept, Agents
  <2>6. e.session # None
    <3>1. e.session = [d.session EXCEPT !.sid = r.login, !.server = r.server]
      BY <2>4, <2>5 DEF Agents, AgentWith, SetRequestData
    <3>2. d.session \in Session
      BY <2>5 DEF Agents, AgentWith, Open
    <3>3. e.session \in Session
      BY <1>2, <3>1, <3>2 DEF Session
    <3> QED
      BY <3>3, NoSession
  <2>7. /\ session' = e.session /\ session'.requests = Tail(session.requests) /\ session'.sid = r.login
        /\ session'.server = r.server /\ session'.state = "char" /\ session' # None
        /\ session'.store /\ session'.char = r.char
    <3>1. b.session.requests = Tail(session.requests) /\ b.session.store /\ b.session.char = r.char
      BY <1>1, <1>7, <1>9, LoadLeaves DEF HasLoaded
    <3>2. /\ d.session.requests = b.session.requests /\ d.session.state = "char"
          /\ d.session.store = b.session.store /\ d.session.char = b.session.char
      BY <2>2, <2>3, StateLeaves
    <3>3. /\ e.session.requests = d.session.requests /\ e.session.state = d.session.state
          /\ e.session.store = d.session.store /\ e.session.char = d.session.char
          /\ e.session.sid = r.login /\ e.session.server = r.server
      BY <2>4, <2>5, RequestLeaves
    <3>4. session' = e.session
      BY <1>9, <2>3, <2>4
    <3> QED
      BY <2>6, <3>1, <3>2, <3>3, <3>4
  <2>8. CharOwned(r.login, r.server, r.char)'
    BY <2>7 DEF CharOwned, Owns
  <2>9. PICK m : m = Msg("entered", r.login, r.char)
    OBVIOUS
  <2>10. m \in Typed /\ m.do = "entered" /\ m.login = r.login /\ m.char = r.char
    BY <1>2, <1>3, <1>9, <2>9
  <2>11. toServer' = Sent(toServer, r.server, m)
    BY <1>9, <2>9 DEF Replies
  <2> QED
    BY <1>2, <1>9, <2>1, <2>7, <2>8, <2>10, <2>11, AnswerInv
<1> QED
  BY <1>4, <1>6, <1>7, <1>8, <1>9 DEF AnswersChar, Becomes

LEMMA UidAnswersInv ==
    ASSUME Inv, IInv', UidAnswers
    PROVE  Inv'
<1>1. UNCHANGED <<stage, at, char, table, toAgent, closed>>
  BY DEF UidAnswers, clients
<1>2. CASE session = None \/ session.requests = <<>>
  <2>1. UNCHANGED <<session, toServer>>
    BY <1>2 DEF UidAnswers
  <2>2. toAgent \in Links
    BY TypingOfIInv DEF Inv, Typing
  <2>3. Embeds(toAgent, toAgent', {})
    BY <1>1, <2>2, SameEmbeds
  <2>4. Embeds(toServer, toServer', Harmless)
    BY <2>1, Nothing DEF SaysNothing
  <2> QED
    BY <1>1, <2>1, <2>3, <2>4, SessionStays
<1>3. CASE ~(session = None \/ session.requests = <<>>)
  <2> DEFINE r == Head(session.requests)
             a == [Agent EXCEPT !.session.requests = Tail(@)]
  <2>1. Taken(a, r)
    BY <1>3, FirstTaken DEF Inv, IInv
  <2>2. \E granted \in BOOLEAN :
            \/ AnswersUser(a, r, granted)
            \/ \E bad \in Fails : AnswersChar(a, r, granted, bad)
    BY <1>3 DEF UidAnswers
  <2>3. r = Head(session.requests)
    OBVIOUS
  <2> HIDE DEF a, r
  <2> QED
    BY <1>1, <1>3, <2>1, <2>2, <2>3, AnswersUserInv, AnswersCharInv
<1> QED
  BY <1>2, <1>3

LEMMA LinkLostInv ==
    ASSUME Inv, IInv', NEW s \in Servers \union {"uid"}, LinkLost(s)
    PROVE  Inv'
<1>1. UNCHANGED <<stage, at, char, table>>
  BY DEF LinkLost, clients
<1>2. toAgent \in Links /\ toServer \in Links
  BY TypingOfIInv DEF Inv, Typing
<1>3. Embeds(toAgent, toAgent', {}) /\ Embeds(toServer, toServer', {})
  <2>1. CASE s = "uid"
    BY <1>2, <2>1, SameEmbeds DEF LinkLost
  <2>2. CASE s # "uid"
    BY <1>2, <2>2, CutEmbeds DEF LinkLost
  <2> QED
    BY <2>1, <2>2
<1>4. Embeds(toServer, toServer', Harmless)
  BY <1>3, EmbedMore
<1>5. CASE session # None /\ session.server = s
  BY <1>1, <1>3, <1>4, <1>5, ClosesInv DEF LinkLost
<1>6. CASE ~(session # None /\ session.server = s)
  <2>1. UNCHANGED <<session, closed>>
    BY <1>6 DEF LinkLost, agent
  <2> QED
    BY <1>1, <1>3, <1>4, <2>1, SessionStays
<1> QED
  BY <1>5, <1>6

LEMMA LinkUpInv ==
    ASSUME Inv, IInv', NEW s \in Servers \union {"uid"}, LinkUp(s)
    PROVE  Inv'
<1>1. UNCHANGED <<stage, at, char, table, session, closed, toAgent, toServer>>
  BY DEF LinkUp, agent, clients
<1>2. toAgent \in Links /\ toServer \in Links
  BY TypingOfIInv DEF Inv, Typing
<1> QED
  BY <1>1, <1>2, SameEmbeds, SessionStays

LEMMA AgentReceivesInv ==
    ASSUME Inv, IInv', NEW s \in Servers, AgentReceives(s)
    PROVE  Inv'
<1>1. UNCHANGED <<stage, at, char, table>>
  BY DEF AgentReceives, clients
<1>2. PICK m :
        \/ s = "auth" /\ StartSession(m)
        \/ s # "auth" /\ CharLogin(s, m)
        \/ ServerZoneEnd(s, m)
        \/ \E bad \in Fails :
              \/ s = "auth" /\ (UserLogout(m, bad) \/ UserMoves(m, bad) \/ CharSelect(m, bad))
              \/ s # "auth" /\ (CharLogout(s, m, bad) \/ CharMoveZone(s, m, bad))
              \/ UserKillAck(s, m, bad)
  BY DEF AgentReceives
<1>3. s # "auth" => s \in Games
  BY DEF Servers
<1>4. CASE StartSession(m) \/ (s \in Games /\ CharLogin(s, m)) \/ ServerZoneEnd(s, m)
  BY <1>1, <1>4, StartSessionInv, CharLoginInv, ServerZoneEndInv
<1>5. ASSUME NEW bad \in Fails,
             \/ UserLogout(m, bad) \/ UserMoves(m, bad) \/ CharSelect(m, bad)
             \/ s \in Games /\ (CharLogout(s, m, bad) \/ CharMoveZone(s, m, bad))
             \/ UserKillAck(s, m, bad)
      PROVE  Inv'
  BY <1>1, <1>5, UserLogoutInv, UserMovesInv, CharSelectInv, CharLogoutInv, CharMoveZoneInv, UserKillAckInv
<1> QED
  BY <1>2, <1>3, <1>4, <1>5

-----------------------------------------------------------------------------
(* The logins' own steps.                                                    *)

ActorOK(l) ==
    /\ LoginOK(l)
    /\ l \notin closed => OwnerOK(l)
    /\ closed = {} => SelectOK(l)

LEMMA EachLogin ==
    ASSUME Inv, NEW l \in Logins
    PROVE  ActorOK(l) /\ TokenOK(l) /\ MoveOK(l) /\ StageOK(l) /\ Typing
BY TypingOfIInv DEF Inv, Tokens, Ownership, DataOK, ActorOK, LoginOK

LEMMA SameSession ==
    ASSUME UNCHANGED <<session, closed>>
    PROVE  /\ UNCHANGED Requests
           /\ \A l : /\ UserOwned(l) <=> UserOwned(l)'
                     /\ \A s, c : CharOwned(l, s, c) <=> CharOwned(l, s, c)'
BY DEF Requests, UserOwned, CharOwned, Owns

LEMMA OwnerStays ==
    ASSUME UNCHANGED <<session, closed>>, Typing, Typing', NEW l, OwnerOK(l),
           Embeds(toServer, toServer', {}), table' = l => UserOwned(l),
           stage'[l] \in {"game", "leaving"} => CharOwned(l, at[l], char[l])'
    PROVE  OwnerOK(l)'
<1>1. Coming(toServer', l, {"granted"}) => Coming(toServer, l, {"granted"})
  BY EmbedComing DEF Typing
<1>2. \A s \in Servers : \A m \in On(toServer', s) : m \in On(toServer, s)
  BY EmbedOn
<1>3. UserOwned(l) => UserOwned(l)'
  BY SameSession
<1>4. ASSUME NEW s \in Servers, NEW m \in On(toServer', s), m.login = l, m.do = "entered"
      PROVE  CharOwned(l, s, m.char)'
  <2>1. CharOwned(l, s, m.char)
    BY <1>2, <1>4 DEF OwnerOK
  <2> QED
    BY <2>1 DEF CharOwned, Owns
<1> QED
  BY <1>1, <1>3, <1>4 DEF OwnerOK

LEMMA SelectStays ==
    ASSUME UNCHANGED <<session, closed>>, Typing, Typing', NEW l, SelectOK(l), NEW X,
           Embeds(toAgent, toAgent', X),
           \A m \in X : m.login = l => m.do \notin {"select", "logout", "move"},
           stage'[l] \in {"auth", "selecting", "selected"} => table' = l
    PROVE  SelectOK(l)'
<1>1. Coming(toAgent', l, {"select"}) => Coming(toAgent, l, {"select"})
  BY EmbedComing DEF Typing
<1>2. Ahead(toAgent, l, {"select"}, {"logout", "move"}) => Ahead(toAgent', l, {"select"}, {"logout", "move"})
  BY EmbedKeeps DEF Typing
<1> QED
  BY <1>1, <1>2, SameSession DEF SelectOK

\* The step of the login l, which may tell the agent of it.
LEMMA ClientInv ==
    ASSUME Inv, IInv', UNCHANGED <<session, closed>>, NEW X, NEW l,
           Embeds(toAgent, toAgent', X), Embeds(toServer, toServer', {}),
           \A m \in X : m.login \in Logins => m.login = l,
           \A k \in Logins : k # l =>
               stage'[k] = stage[k] /\ at'[k] = at[k] /\ char'[k] = char[k] /\ (table' = k <=> table = k),
           l \in Logins => ActorOK(l)'
    PROVE  Inv'
<1>1. Typing'
  BY TypingOfIInv, PTL
<1>2. ASSUME NEW k \in Logins, k # l
      PROVE  ActorOK(k)'
  <2>1. ActorOK(k) /\ Typing
    BY EachLogin
  <2>2. RestOf(Requests, Requests', k)
    BY <2>1, RequestsLeft, SameSession
  <2>3. LoginOK(k)'
    BY <1>1, <1>2, <2>1, <2>2, LoginStays DEF ActorOK
  <2>4. k \notin closed => OwnerOK(k)'
    <3>1. ASSUME k \notin closed
          PROVE  OwnerOK(k)'
      <4>1. OwnerOK(k)
        BY <2>1, <3>1 DEF ActorOK
      <4>2. table' = k => UserOwned(k)
        BY <1>2, <4>1 DEF OwnerOK
      <4>3. stage'[k] \in {"game", "leaving"} => CharOwned(k, at[k], char[k])'
        BY <1>2, <4>1 DEF OwnerOK, CharOwned, Owns
      <4> QED
        BY <1>1, <2>1, <4>1, <4>2, <4>3, OwnerStays
    <3> QED
      BY <3>1
  <2>5. closed = {} => SelectOK(k)'
    <3>1. ASSUME SelectOK(k)
          PROVE  SelectOK(k)'
      <4>1. \A m \in X : m.login # k
        BY <1>2
      <4>2. stage'[k] \in {"auth", "selecting", "selected"} => table' = k
        BY <1>2, <3>1 DEF SelectOK
      <4> QED
        BY <1>1, <2>1, <3>1, <4>1, <4>2, SelectStays
    <3> QED
      BY <2>1, <3>1 DEF ActorOK
  <2> QED
    BY <2>3, <2>4, <2>5 DEF ActorOK
<1>3. \A k \in Logins : ActorOK(k)'
  BY <1>2
<1>4. closed' = {} /\ session' # None /\ session'.state = "char" => session'.store /\ session'.char # None
  BY DEF Inv, Ownership, DataOK
<1> QED
  BY <1>3, <1>4 DEF Inv, Tokens, Ownership, DataOK, ActorOK

\* What a stage says about what is on its way.
LEMMA NoToken ==
    ASSUME NEW l, StageOK(l), stage[l] \notin {"starting", "left", "over", "entering", "gone"}
    PROVE  ~Token(l)
<1>1. ~Starts(l) /\ \A s, c : ~Enters(l, s, c)
  BY DEF Starts, Enters
<1>2. ~Coming(toAgent, l, Asking)
  <2>1. \A s \in Servers : \A m \in On(toAgent, s) : m.login = l => m.do \notin Asking
    BY <1>1 DEF StageOK, Tells, Asking
  <2> QED
    BY <2>1, ComingOn
<1>3. ~Coming(toServer, l, Granting)
  <2>1. \A s \in Servers : \A m \in On(toServer, s) : m.login = l => m.do \notin Granting
    BY <1>1 DEF StageOK, TellsServer, Granting
  <2> QED
    BY <2>1, ComingOn
<1>4. ~Waiting(l)
  BY <1>1 DEF StageOK, TellsRequest, Waiting
<1> QED
  BY <1>2, <1>3, <1>4 DEF Token

LEMMA NotDeparting ==
    ASSUME NEW l, StageOK(l), stage[l] \notin {"moving", "over"}
    PROVE  /\ ~Travels(l)
           /\ \A A : A \subseteq Departing \union {"zoneEnd"} => ~Coming(toAgent, l, A)
           /\ ~Coming(toServer, l, {"zoneEnd"})
<1>1. \A s \in Servers : \A m \in On(toAgent, s) : m.login = l => m.do \notin Departing \union {"zoneEnd"}
  BY DEF StageOK, Tells, Departing
<1>2. \A A : A \subseteq Departing \union {"zoneEnd"} => ~Coming(toAgent, l, A)
  <2>1. ASSUME NEW A, A \subseteq Departing \union {"zoneEnd"}, Coming(toAgent, l, A)
        PROVE  FALSE
    <3>1. PICK s \in Servers : \E m \in On(toAgent, s) : m.login = l /\ m.do \in A
      BY <2>1, ComingOn
    <3> QED
      BY <1>1, <2>1, <3>1
  <2> QED
    BY <2>1
<1>3. ~Coming(toServer, l, {"zoneEnd"})
  <2>1. \A s \in Servers : \A m \in On(toServer, s) : m.login = l => m.do # "zoneEnd"
    BY DEF StageOK, TellsServer
  <2> QED
    BY <2>1, ComingOn
<1>4. {"move", "zone", "zoneEnd"} \subseteq Departing \union {"zoneEnd"}
  BY DEF Departing
<1> QED
  BY <1>2, <1>3, <1>4 DEF Travels

\* A login's stage goes on while what the servers and the agent tell each other about
\* it does not change.
LEMMA StageGoes ==
    ASSUME UNCHANGED session, Typing, NEW l, StageOK(l), Embeds(toServer, toServer', {}),
           \A s \in Servers : \A m \in On(toAgent', s) :
               m.login = l => m \in On(toAgent, s) \/ Tells(s, m)',
           Token(l)' => /\ Starts(l) => Starts(l)'
                        /\ \A s, c : Enters(l, s, c) => Enters(l, s, c)',
           Travels(l)' => (stage[l] \in {"moving", "over"} => stage'[l] \in {"moving", "over"}),
           stage[l] = "over" => stage'[l] = "over",
           table' = l => stage'[l] \in {"auth", "selecting", "selected"}
    PROVE  StageOK(l)'
<1>1. \A s \in Servers : \A m \in On(toServer', s) : m \in On(toServer, s)
  BY EmbedOn
<1>2. Requests' = Requests
  BY DEF Requests
<1> QED
  BY <1>1, <1>2, StageMoves

\* A token that is nowhere is in order.
LEMMA TokenGone ==
    ASSUME NEW l, ~Token(l)
    PROVE  TokenOK(l)
BY DEF Token, TokenOK, Waiting, AtMostOne, Coming

LEMMA TokenIsGone ==
    ASSUME UNCHANGED session, Typing, Typing', NEW l, ~Token(l), NEW X,
           Embeds(toAgent, toAgent', X), Embeds(toServer, toServer', {}),
           \A m \in X : m.login = l => m.do \notin Asking
    PROVE  ~Token(l)'
<1>1. Coming(toAgent', l, Asking) => Coming(toAgent, l, Asking)
  BY EmbedComing DEF Typing
<1>2. Coming(toServer', l, Granting) => Coming(toServer, l, Granting)
  BY EmbedComing DEF Typing
<1>3. Waiting(l)' => Waiting(l)
  BY DEF Waiting, Requests
<1> QED
  BY <1>1, <1>2, <1>3 DEF Token

\* A login that ends, and gives the session back if it may have it.
LEMMA GoesOver ==
    ASSUME Inv, IInv', UNCHANGED <<session, closed, at, char>>, NEW l \in Logins,
           stage' = [stage EXCEPT ![l] = "over"],
           table' # l, \A k \in Logins : k # l => (table' = k <=> table = k),
           Embeds(toServer, toServer', {}),
           \/ toAgent' = toAgent
           \/ /\ ~Token(l)'
              /\ \E s \in Servers, m \in Typed :
                    /\ m.login = l /\ m.do \in {"logout", "leave"} /\ (m.do = "logout" => s = "auth")
                    /\ toAgent' = Sent(toAgent, s, m)
    PROVE  Inv'
<1>1. ActorOK(l) /\ TokenOK(l) /\ MoveOK(l) /\ StageOK(l) /\ Typing /\ Typing'
  <2>1. Typing'
    BY TypingOfIInv, PTL
  <2> QED
    BY <2>1, EachLogin
<1>2. /\ stage'[l] = "over"
      /\ \A k \in Logins : k # l => stage'[k] = stage[k] /\ at'[k] = at[k] /\ char'[k] = char[k]
  BY ClientTypes DEF Inv
<1>3. l \notin closed => OwnerOK(l)'
  <2>1. l \notin closed => OwnerOK(l)
    BY <1>1 DEF ActorOK
  <2> QED
    BY <1>1, <1>2, <2>1, OwnerStays
<1>4. Starts(l)' /\ \A s, c : Enters(l, s, c)'
  BY <1>2 DEF Starts, Enters
<1>5. CASE toAgent' = toAgent
  <2>1. Embeds(toAgent, toAgent', {})
    BY <1>1, <1>5, SameEmbeds DEF Typing
  <2>2. TokenOK(l)'
    <3>1. RestOf(Requests, Requests', l)
      BY <1>1, RequestsLeft, SameSession
    <3> QED
      BY <1>1, <2>1, <3>1, TokenStays
  <2>3. MoveOK(l)'
    BY <1>1, <2>1, MoveStays
  <2>4. StageOK(l)'
    BY <1>1, <1>2, <1>4, <1>5, StageGoes
  <2>5. closed = {} => SelectOK(l)'
    BY <1>1, <1>2, <2>1, SelectStays DEF ActorOK
  <2>6. ActorOK(l)'
    BY <1>3, <2>2, <2>3, <2>4, <2>5 DEF ActorOK, LoginOK
  <2> QED
    BY <1>2, <2>1, <2>6, ClientInv
<1>6. ASSUME ~Token(l)', NEW s \in Servers, NEW m \in Typed, m.login = l, m.do \in {"logout", "leave"},
             m.do = "logout" => s = "auth", toAgent' = Sent(toAgent, s, m)
      PROVE  Inv'
  <2>1. Embeds(toAgent, toAgent', {m})
    BY <1>1, <1>6, SentEmbeds DEF Typing
  <2>2. TokenOK(l)'
    BY <1>6, TokenGone, PTL
  <2>3. MoveOK(l)'
    BY <1>1, <1>6, <2>1, MoveStays
  <2>4. StageOK(l)'
    <3>1. Tells(s, m)'
      BY <1>2, <1>6 DEF Tells
    <3>2. \A t \in Servers : \A n \in On(toAgent', t) : n \in On(toAgent, t) \/ (t = s /\ n = m)
      BY <1>1, <1>6, SentOn DEF Typing
    <3>3. \A t \in Servers : \A n \in On(toAgent', t) : n.login = l => n \in On(toAgent, t) \/ Tells(t, n)'
      BY <3>1, <3>2
    <3> QED
      BY <1>1, <1>2, <1>6, <3>3, StageGoes
  <2>5. closed = {} => SelectOK(l)'
    <3>1. ASSUME SelectOK(l)
          PROVE  SelectOK(l)'
      <4>1. Coming(toAgent', l, {"select"}) => Coming(toAgent, l, {"select"})
        BY <1>1, <1>6, <2>1, EmbedComing DEF Typing
      <4>2. CASE m.do = "leave"
        BY <1>1, <1>2, <2>1, <3>1, <4>2, SelectStays
      <4>3. CASE m.do = "logout"
        <5>1. \A t \in Servers : \A n \in On(toAgent, t) : n.login = l /\ n.do \in {"select"} => t = s
          BY <1>1, <1>6, <4>3 DEF StageOK, Tells
        <5>2. Ahead(toAgent, l, {"select"}, {"logout", "move"}) =>
                 Ahead(toAgent', l, {"select"}, {"logout", "move"})
          BY <1>1, <1>6, <4>3, <5>1, AddBehind DEF Typing
        <5> QED
          BY <1>2, <3>1, <4>1, <5>2, SameSession DEF SelectOK
      <4> QED
        BY <1>6, <4>2, <4>3
    <3> QED
      BY <1>1, <3>1 DEF ActorOK
  <2>6. ActorOK(l)'
    BY <1>3, <2>2, <2>3, <2>4, <2>5 DEF ActorOK, LoginOK
  <2>7. \A n \in {m} : n.login \in Logins => n.login = l
    BY <1>6
  <2> QED
    BY <1>2, <2>1, <2>6, <2>7, ClientInv
<1> QED
  BY <1>5, <1>6

\* A login that goes on without a word to the agent.
LEMMA Advances ==
    ASSUME Inv, IInv', UNCHANGED <<session, closed, at, char, toAgent>>, NEW l \in Logins, NEW st,
           stage' = [stage EXCEPT ![l] = st],
           \A k \in Logins : k # l => (table' = k <=> table = k),
           Embeds(toServer, toServer', {}),
           stage[l] # "over",
           Token(l)' => /\ Starts(l) => Starts(l)'
                        /\ \A s, c : Enters(l, s, c) => Enters(l, s, c)',
           Travels(l)' => stage[l] # "moving",
           table' = l => st \in {"auth", "selecting", "selected"} /\ (l \notin closed => UserOwned(l)),
           st \in {"game", "leaving"} /\ l \notin closed => CharOwned(l, at[l], char[l]),
           st \in {"auth", "selecting", "selected"} /\ closed = {} => table' = l
    PROVE  Inv'
<1>1. ActorOK(l) /\ TokenOK(l) /\ MoveOK(l) /\ StageOK(l) /\ Typing /\ Typing'
  <2>1. Typing'
    BY TypingOfIInv, PTL
  <2> QED
    BY <2>1, EachLogin
<1>2. /\ stage'[l] = st
      /\ \A k \in Logins : k # l => stage'[k] = stage[k] /\ at'[k] = at[k] /\ char'[k] = char[k]
  BY ClientTypes DEF Inv
<1>3. Embeds(toAgent, toAgent', {})
  BY <1>1, SameEmbeds DEF Typing
<1>4. TokenOK(l)'
  <2>1. RestOf(Requests, Requests', l)
    BY <1>1, RequestsLeft, SameSession
  <2> QED
    BY <1>1, <1>3, <2>1, TokenStays
<1>5. MoveOK(l)'
  BY <1>1, <1>3, MoveStays
<1>6. StageOK(l)'
  BY <1>1, <1>2, StageGoes
<1>7. l \notin closed => OwnerOK(l)'
  <2>1. ASSUME l \notin closed
        PROVE  OwnerOK(l)'
    <3>1. OwnerOK(l)
      BY <1>1, <2>1 DEF ActorOK
    <3>2. st \in {"game", "leaving"} => CharOwned(l, at[l], char[l])'
      BY <2>1 DEF CharOwned, Owns
    <3> QED
      BY <1>1, <1>2, <2>1, <3>1, <3>2, OwnerStays
  <2> QED
    BY <2>1
<1>8. closed = {} => SelectOK(l)'
  BY <1>1, <1>2, <1>3, SelectStays DEF ActorOK
<1>9. ActorOK(l)'
  BY <1>4, <1>5, <1>6, <1>7, <1>8 DEF ActorOK, LoginOK
<1> QED
  BY <1>2, <1>3, <1>9, ClientInv

\* A login that asks for the session.
LEMMA AsksFor ==
    ASSUME Inv, IInv', UNCHANGED <<session, closed, at, char, table, toServer>>, NEW l \in Logins,
           stage[l] \in {"new", "moved"}, NEW st \in {"starting", "entering"},
           stage' = [stage EXCEPT ![l] = st],
           NEW s \in Servers, NEW m \in Typed, m.login = l, m.do \in Asking,
           toAgent' = Sent(toAgent, s, m), Tells(s, m)'
    PROVE  Inv'
<1>1. ActorOK(l) /\ TokenOK(l) /\ MoveOK(l) /\ StageOK(l) /\ Typing /\ Typing'
  <2>1. Typing'
    BY TypingOfIInv, PTL
  <2> QED
    BY <2>1, EachLogin
<1>2. /\ stage'[l] = st
      /\ \A k \in Logins : k # l => stage'[k] = stage[k] /\ at'[k] = at[k] /\ char'[k] = char[k]
  BY ClientTypes DEF Inv
<1>3. Embeds(toAgent, toAgent', {m}) /\ Embeds(toServer, toServer', {})
  BY <1>1, SentEmbeds, SameEmbeds DEF Typing
<1>4. ~Token(l) /\ ~Travels(l) /\ ~Coming(toAgent, l, Departing)
  BY <1>1, NoToken, NotDeparting
<1>5. TokenOK(l)'
  <2>1. AtMostOne(toAgent', l, Asking)
    BY <1>1, <1>4, AddOne DEF Token, Typing
  <2>2. ~Coming(toServer', l, Granting) /\ AtMostOne(toServer', l, Granting)
    BY <1>1, <1>4 DEF Token, TokenOK
  <2>3. ~Waiting(l)'
    BY <1>4 DEF Token, Waiting, Requests
  <2>4. ~Coming(toAgent', l, Departing)
    <3>1. m.do \notin Departing
      BY DEF Asking, Departing
    <3> QED
      BY <1>1, <1>3, <1>4, <3>1, EmbedComing DEF Typing
  <2> QED
    BY <2>1, <2>2, <2>3, <2>4 DEF TokenOK, Waiting
<1>6. MoveOK(l)'
  <2>1. \A n \in {m} : n.login = l => n.do \notin {"zoneEnd", "move", "zone"}
    BY DEF Asking
  <2> QED
    BY <1>1, <1>3, <2>1, MoveStays
<1>7. table # l
  BY <1>1 DEF StageOK
<1>8. StageOK(l)'
  <2>1. \A t \in Servers : \A n \in On(toAgent', t) : n \in On(toAgent, t) \/ (t = s /\ n = m)
    BY <1>1, SentOn DEF Typing
  <2>2. \A t \in Servers : \A n \in On(toAgent', t) : n.login = l => n \in On(toAgent, t) \/ Tells(t, n)'
    BY <2>1
  <2>3. ~Starts(l) /\ \A t, c : ~Enters(l, t, c)
    BY DEF Starts, Enters
  <2> QED
    BY <1>1, <1>2, <1>3, <1>7, <2>2, <2>3, StageGoes
<1>9. l \notin closed => OwnerOK(l)'
  <2>1. l \notin closed => OwnerOK(l)
    BY <1>1 DEF ActorOK
  <2> QED
    BY <1>1, <1>2, <1>3, <1>7, <2>1, OwnerStays
<1>10. closed = {} => SelectOK(l)'
  <2>1. \A n \in {m} : n.login = l => n.do \notin {"select", "logout", "move"}
    BY DEF Asking
  <2> QED
    BY <1>1, <1>2, <1>3, <2>1, SelectStays DEF ActorOK
<1>11. ActorOK(l)'
  BY <1>5, <1>6, <1>8, <1>9, <1>10 DEF ActorOK, LoginOK
<1>12. \A n \in {m} : n.login \in Logins => n.login = l
  OBVIOUS
<1> QED
  BY <1>2, <1>3, <1>11, <1>12, ClientInv

\* A login that selects a character.
LEMMA SelectInv ==
    ASSUME Inv, IInv', NEW l \in Logins, NEW c \in Chars, Select(l, c)
    PROVE  Inv'
<1> DEFINE m == Msg("select", l, c)
<1>1. ActorOK(l) /\ TokenOK(l) /\ MoveOK(l) /\ StageOK(l) /\ Typing /\ Typing'
  <2>1. Typing'
    BY TypingOfIInv, PTL
  <2> QED
    BY <2>1, EachLogin
<1>2. /\ stage[l] = "auth" /\ stage'[l] = "selecting" /\ "auth" \in Servers
      /\ \A k \in Logins : k # l => stage'[k] = stage[k] /\ at'[k] = at[k] /\ char'[k] = char[k]
  BY ClientTypes DEF Inv, Select, GoesTo, Servers
<1>3. UNCHANGED <<session, closed, table, toServer>> /\ toAgent' = Sent(toAgent, "auth", m)
  BY DEF Select, agent, ToAgent
<1>4. m \in Typed /\ m.do = "select" /\ m.login = l
  <2>1. m \in Typed
    BY MsgTyped DEF Does
  <2> QED
    BY <2>1 DEF Msg
<1> HIDE DEF m
<1>5. Embeds(toAgent, toAgent', {m}) /\ Embeds(toServer, toServer', {})
  BY <1>1, <1>2, <1>3, <1>4, SentEmbeds, SameEmbeds DEF Typing
<1>6. ~Token(l) /\ ~Travels(l) /\ ~Coming(toAgent, l, {"logout", "move"})
  <2>1. {"logout", "move"} \subseteq Departing \union {"zoneEnd"}
    BY DEF Departing
  <2> QED
    BY <1>1, <1>2, <2>1, NoToken, NotDeparting
<1>7. TokenOK(l)'
  <2>1. RestOf(Requests, Requests', l)
    BY <1>1, <1>3, RequestsLeft, SameSession
  <2>2. \A n \in {m} : n.login = l => n.do \notin Asking \union Departing
    BY <1>4 DEF Asking, Departing
  <2> QED
    BY <1>1, <1>5, <2>1, <2>2, TokenStays
<1>8. MoveOK(l)'
  BY <1>1, <1>4, <1>5, MoveStays
<1>9. StageOK(l)'
  <2>1. \A t \in Servers : \A n \in On(toAgent', t) : n \in On(toAgent, t) \/ (t = "auth" /\ n = m)
    BY <1>1, <1>2, <1>3, <1>4, SentOn DEF Typing
  <2>2. Tells("auth", m)'
    BY <1>4 DEF Tells
  <2>3. \A t \in Servers : \A n \in On(toAgent', t) : n.login = l => n \in On(toAgent, t) \/ Tells(t, n)'
    BY <2>1, <2>2
  <2>4. ~Starts(l) /\ \A t, d : ~Enters(l, t, d)
    BY <1>2 DEF Starts, Enters
  <2> QED
    BY <1>1, <1>2, <1>3, <1>5, <2>3, <2>4, StageGoes
<1>10. l \notin closed => OwnerOK(l)'
  <2>1. l \notin closed => OwnerOK(l)
    BY <1>1 DEF ActorOK
  <2>2. OwnerOK(l) => (table' = l => UserOwned(l))
    BY <1>3 DEF OwnerOK
  <2> QED
    BY <1>1, <1>2, <1>3, <1>5, <2>1, <2>2, OwnerStays
<1>11. closed = {} => SelectOK(l)'
  <2>1. ASSUME closed = {}
        PROVE  SelectOK(l)'
    <3>1. table = l /\ OwnerOK(l)
      BY <1>1, <1>2, <2>1 DEF ActorOK, SelectOK
    <3>2. UserOwned(l)'
      BY <1>3, <3>1, SameSession DEF OwnerOK
    <3>3. Ahead(toAgent, l, {"select"}, {"logout", "move"})
      BY <1>6 DEF Ahead, Coming
    <3>4. Ahead(toAgent', l, {"select"}, {"logout", "move"})
      BY <1>1, <1>2, <1>3, <1>4, <1>6, <3>3, AddBehind DEF Typing
    <3> QED
      BY <1>3, <3>1, <3>2, <3>4 DEF SelectOK
  <2> QED
    BY <2>1
<1>12. ActorOK(l)'
  BY <1>3, <1>7, <1>8, <1>9, <1>10, <1>11 DEF ActorOK, LoginOK
<1>13. \A n \in {m} : n.login \in Logins => n.login = l
  BY <1>4
<1> QED
  BY <1>2, <1>3, <1>5, <1>12, <1>13, ClientInv

\* A login that leaves its server for the next one.
LEMMA MovesOn ==
    ASSUME Inv, IInv', UNCHANGED <<session, closed, char, toServer>>, NEW l \in Logins,
           stage[l] \in {"selected", "game"}, stage' = [stage EXCEPT ![l] = "moving"],
           NEW g, at' = [at EXCEPT ![l] = g],
           table' # l, \A k \in Logins : k # l => (table' = k <=> table = k),
           NEW s \in Servers, NEW q,
           \/ q = toAgent
           \/ \E m \in Typed : /\ m.login = l /\ m.do \in {"move", "zone"} /\ (m.do = "move" => s = "auth")
                               /\ q = Sent(toAgent, s, m),
           toAgent' = Sent(q, s, Msg("zoneEnd", l, None))
    PROVE  Inv'
<1> DEFINE z == Msg("zoneEnd", l, None)
           M == {m \in Typed : m.login = l /\ m.do \in {"move", "zone"} /\ (m.do = "move" => s = "auth")}
           X == M \union {z}
<1>1. ActorOK(l) /\ TokenOK(l) /\ MoveOK(l) /\ StageOK(l) /\ Typing /\ Typing'
  <2>1. Typing'
    BY TypingOfIInv, PTL
  <2> QED
    BY <2>1, EachLogin
<1>2. /\ stage'[l] = "moving"
      /\ \A k \in Logins : k # l => stage'[k] = stage[k] /\ at'[k] = at[k] /\ char'[k] = char[k]
  BY ClientTypes DEF Inv
<1>3. z \in Typed /\ z.do = "zoneEnd" /\ z.login = l
  <2>1. z \in Typed
    BY MsgTyped DEF Does
  <2> QED
    BY <2>1 DEF Msg
<1>4. /\ \A m \in M : m \in Typed /\ m.login = l /\ m.do \in {"move", "zone"} /\ (m.do = "move" => s = "auth")
      /\ q = toAgent \/ \E m \in M : q = Sent(toAgent, s, m)
      /\ toAgent' = Sent(q, s, z) /\ toAgent \in Links /\ toServer \in Links
  BY <1>1 DEF Typing
<1> HIDE DEF z, M
<1>5. /\ q \in Links /\ Embeds(toAgent, q, M)
      /\ \A t \in Servers : \A n \in On(q, t) : n \in On(toAgent, t) \/ (t = s /\ n \in M)
  <2>1. CASE q = toAgent
    BY <1>4, <2>1, SameEmbeds
  <2>2. ASSUME NEW m \in M, q = Sent(toAgent, s, m)
        PROVE  /\ q \in Links /\ Embeds(toAgent, q, M)
               /\ \A t \in Servers : \A n \in On(q, t) : n \in On(toAgent, t) \/ (t = s /\ n \in M)
    <3>1. q \in Links /\ Embeds(toAgent, q, {m}) /\ {m} \subseteq M
      BY <1>4, <2>2, SentEmbeds
    <3>2. Embeds(toAgent, q, M)
      BY <3>1, EmbedMore
    <3>3. \A t \in Servers : \A n \in On(q, t) : n \in On(toAgent, t) \/ (t = s /\ n = m)
      BY <1>4, <2>2, SentOn
    <3> QED
      BY <3>1, <3>2, <3>3
  <2> QED
    BY <1>4, <2>1, <2>2
<1>6. /\ Embeds(toAgent, toAgent', X) /\ Embeds(toServer, toServer', {})
      /\ \A t \in Servers : \A n \in On(toAgent', t) : n \in On(q, t) \/ (t = s /\ n = z)
  <2>1. Embeds(q, toAgent', {z}) /\ toAgent' \in Links
    BY <1>3, <1>4, <1>5, SentEmbeds
  <2>2. Embeds(q, toAgent', X) /\ Embeds(toAgent, q, X)
    BY <1>5, <2>1, EmbedMore
  <2>3. Embeds(toAgent, toAgent', X)
    BY <1>4, <1>5, <2>1, <2>2, EmbedTwice
  <2>4. \A t \in Servers : \A n \in On(toAgent', t) : n \in On(q, t) \/ (t = s /\ n = z)
    BY <1>3, <1>4, <1>5, SentOn
  <2> QED
    BY <1>4, <2>3, <2>4, SameEmbeds
<1>7. /\ ~Token(l) /\ ~Coming(toAgent, l, {"move", "zone"}) /\ ~Coming(toAgent, l, {"zoneEnd"})
      /\ ~Coming(toServer, l, {"zoneEnd"})
  <2>1. {"move", "zone"} \subseteq Departing \union {"zoneEnd"} /\ {"zoneEnd"} \subseteq Departing \union {"zoneEnd"}
    BY DEF Departing
  <2> QED
    BY <1>1, <2>1, NoToken, NotDeparting
<1>8. ~Token(l)'
  <2>1. \A m \in X : m.login = l => m.do \notin Asking
    BY <1>3, <1>4 DEF Asking
  <2> HIDE DEF X
  <2> QED
    BY <1>1, <1>6, <1>7, <2>1, TokenIsGone
<1>9. TokenOK(l)'
  BY <1>8, TokenGone, PTL
<1>10. MoveOK(l)'
  <2>1. ~Coming(q, l, {"zoneEnd"})
    <3>1. \A m \in M : m.login = l => m.do \notin {"zoneEnd"}
      BY <1>4
    <3> QED
      BY <1>4, <1>5, <1>7, <3>1, EmbedComing
  <2>2. Ahead(q, l, {"move", "zone"}, {"zoneEnd"})
    BY <2>1 DEF Ahead, Coming
  <2>3. \A t \in Servers : \A n \in On(q, t) : n.login = l /\ n.do \in {"move", "zone"} => t = s
    <3>1. \A t \in Servers : \A n \in On(toAgent, t) : ~(n.login = l /\ n.do \in {"move", "zone"})
      BY <1>7, OnComing
    <3> QED
      BY <1>5, <3>1
  <2>4. Ahead(toAgent', l, {"move", "zone"}, {"zoneEnd"})
    BY <1>3, <1>4, <1>5, <2>2, <2>3, AddBehind
  <2>5. AtMostOne(toAgent', l, {"zoneEnd"})
    BY <1>3, <1>4, <1>5, <2>1, AddOne
  <2> QED
    BY <1>1, <1>7, <2>4, <2>5 DEF MoveOK
<1>11. StageOK(l)'
  <2>1. \A m \in M \union {z} : Tells(s, m)'
    BY <1>2, <1>3, <1>4 DEF Tells
  <2>2. \A t \in Servers : \A n \in On(toAgent', t) : n.login = l => n \in On(toAgent, t) \/ Tells(t, n)'
    BY <1>5, <1>6, <2>1
  <2> QED
    BY <1>1, <1>2, <1>6, <1>8, <2>2, StageGoes
<1>12. l \notin closed => OwnerOK(l)'
  <2>1. l \notin closed => OwnerOK(l)
    BY <1>1 DEF ActorOK
  <2> QED
    BY <1>1, <1>2, <1>6, <2>1, OwnerStays
<1>13. closed = {} => SelectOK(l)'
  <2>1. ASSUME SelectOK(l)
        PROVE  SelectOK(l)'
    <3>1. \A m \in X : m.login = l => m.do \notin {"select"}
      BY <1>3, <1>4
    <3>2. Coming(toAgent', l, {"select"}) => Coming(toAgent, l, {"select"})
      <4> HIDE DEF X
      <4> QED
        BY <1>1, <1>6, <3>1, EmbedComing DEF Typing
    <3>3. \A t \in Servers : \A n \in On(toAgent, t) : n.login = l /\ n.do \in {"select"} => t = "auth"
      BY <1>1 DEF StageOK, Tells
    <3>4. Ahead(toAgent, l, {"select"}, {"logout", "move"}) => Ahead(q, l, {"select"}, {"logout", "move"})
      <4>1. ASSUME NEW m \in M, q = Sent(toAgent, s, m), Ahead(toAgent, l, {"select"}, {"logout", "move"})
            PROVE  Ahead(q, l, {"select"}, {"logout", "move"})
        <5>1. m \in Typed /\ m.login = l /\ m.do \notin {"select"} /\ (m.do \in {"logout", "move"} => s = "auth")
          BY <1>4
        <5> QED
          BY <1>4, <3>3, <4>1, <5>1, AddBehind
      <4> QED
        BY <1>4, <4>1
    <3>5. Ahead(q, l, {"select"}, {"logout", "move"}) => Ahead(toAgent', l, {"select"}, {"logout", "move"})
      BY <1>3, <1>4, <1>5, AddBehind
    <3> QED
      BY <1>2, <2>1, <3>2, <3>4, <3>5, SameSession DEF SelectOK
  <2> QED
    BY <1>1, <2>1 DEF ActorOK
<1>14. ActorOK(l)'
  BY <1>9, <1>10, <1>11, <1>12, <1>13 DEF ActorOK, LoginOK
<1>15. \A n \in X : n.login \in Logins => n.login = l
  BY <1>3, <1>4
<1> HIDE DEF X
<1> QED
  BY <1>2, <1>6, <1>14, <1>15, ClientInv

LEMMA StartInv ==
    ASSUME Inv, IInv', NEW l \in Logins, Start(l)
    PROVE  Inv'
<1>1. PICK do \in {"start", "startKill"} : toAgent' = Sent(toAgent, "auth", Msg(do, l, None))
  BY DEF Start, ToAgent
<1>2. PICK m : m = Msg(do, l, None)
  OBVIOUS
<1>3. m \in Typed /\ m.do = do /\ m.login = l
  <2>1. m \in Typed
    BY <1>2, MsgTyped DEF Does
  <2> QED
    BY <1>2, <2>1 DEF Msg
<1>4. stage[l] = "new" /\ stage' = [stage EXCEPT ![l] = "starting"] /\ "auth" \in Servers
  BY DEF Start, GoesTo, Servers
<1>5. Tells("auth", m)'
  <2>1. Starts(l)'
    BY <1>4, ClientTypes DEF Inv, Starts
  <2> QED
    BY <1>3, <2>1 DEF Tells
<1>6. UNCHANGED <<session, closed, at, char, table, toServer>>
  BY DEF Start, agent
<1> QED
  BY <1>1, <1>2, <1>3, <1>4, <1>5, <1>6, AsksFor DEF Asking

LEMMA EnterInv ==
    ASSUME Inv, IInv', NEW l \in Logins, Enter(l)
    PROVE  Inv'
<1>1. /\ stage[l] = "moved" /\ UNCHANGED <<session, closed, at, char, table, toServer>>
      /\ at[l] \in Servers /\ char[l] \in Chars
  BY ClientTypes DEF Enter, agent, Inv, Chosen
<1>2. CASE GoesTo(l, "entering") /\ ToAgent(at[l], Msg("enter", l, char[l]))
  <2>1. PICK m : m = Msg("enter", l, char[l])
    OBVIOUS
  <2>2. m \in Typed /\ m.do = "enter" /\ m.login = l /\ m.char = char[l]
    <3>1. m \in Typed
      BY <1>1, <2>1, MsgTyped DEF Does
    <3> QED
      BY <2>1, <3>1 DEF Msg
  <2>3. Tells(at[l], m)'
    <3>1. stage'[l] = "entering"
      BY <1>2, ClientTypes DEF GoesTo, Inv
    <3>2. Enters(l, at[l], char[l])'
      BY <3>1 DEF Enters
    <3> QED
      BY <1>1, <2>2, <3>2 DEF Tells, Enters
  <2>4. toAgent' = Sent(toAgent, at[l], m) /\ stage' = [stage EXCEPT ![l] = "entering"]
    BY <1>2, <2>1 DEF GoesTo, ToAgent
  <2>5. PICK s \in Servers : s = at[l]
    BY <1>1
  <2>6. Tells(s, m)'
    BY <1>1, <2>3, <2>5 DEF Tells, Enters
  <2> QED
    BY <1>1, <2>2, <2>4, <2>5, <2>6, AsksFor DEF Asking
<1>3. CASE GoesTo(l, "over") /\ UNCHANGED toAgent
  <2>1. table # l
    BY <1>1, EachLogin DEF StageOK
  <2>2. Embeds(toServer, toServer', {})
    BY <1>1, EachLogin, SameEmbeds DEF Typing
  <2> QED
    BY <1>1, <1>3, <2>1, <2>2, GoesOver DEF GoesTo
<1> QED
  BY <1>2, <1>3 DEF Enter

LEMMA MoveInv ==
    ASSUME Inv, IInv', NEW l \in Logins, NEW g \in Games, Move(l, g)
    PROVE  Inv'
<1>1. /\ stage[l] = "selected" /\ at' = [at EXCEPT ![l] = g] /\ "auth" \in Servers
      /\ UNCHANGED <<session, closed, char, toServer>> /\ stage' = [stage EXCEPT ![l] = "moving"]
  BY DEF Move, Moves, agent, GoesTo, Servers
<1>2. CASE table = l /\ table' = None /\ Moves(l, "auth", Msg("move", l, None))
  <2>1. Msg("move", l, None) \in Typed /\ Msg("move", l, None).do = "move" /\ Msg("move", l, None).login = l
    <3>1. Msg("move", l, None) \in Typed
      BY MsgTyped DEF Does
    <3> QED
      BY <3>1 DEF Msg
  <2>2. PICK q : q = Sent(toAgent, "auth", Msg("move", l, None))
    OBVIOUS
  <2>3. \E m \in Typed : /\ m.login = l /\ m.do \in {"move", "zone"} /\ (m.do = "move" => "auth" = "auth")
                         /\ q = Sent(toAgent, "auth", m)
    BY <2>1, <2>2
  <2>4. toAgent' = Sent(q, "auth", Msg("zoneEnd", l, None))
    BY <1>2, <2>2 DEF Moves
  <2>5. table' # l /\ \A k \in Logins : k # l => (table' = k <=> table = k)
    BY <1>2, SessionAssumption
  <2> QED
    BY <1>1, <2>3, <2>4, <2>5, MovesOn
<1>3. CASE table # l /\ UNCHANGED table /\ ToAgent("auth", Msg("zoneEnd", l, None))
  <2>1. PICK q : q = toAgent
    OBVIOUS
  <2>2. toAgent' = Sent(q, "auth", Msg("zoneEnd", l, None))
    BY <1>3, <2>1 DEF ToAgent
  <2> QED
    BY <1>1, <1>3, <2>1, <2>2, MovesOn
<1> QED
  BY <1>2, <1>3 DEF Move

LEMMA MoveZoneInv ==
    ASSUME Inv, IInv', NEW l \in Logins, NEW g \in Games, MoveZone(l, g)
    PROVE  Inv'
<1>1. /\ stage[l] = "game" /\ at' = [at EXCEPT ![l] = g] /\ UNCHANGED <<session, closed, char, table, toServer>>
      /\ at[l] \in Servers /\ char[l] \in Chars
  BY ClientTypes DEF MoveZone, agent, Inv, Chosen
<1>2. PICK s \in Servers : s = at[l]
  BY <1>1
<1>3. PICK m : m = Msg("zone", l, char[l])
  OBVIOUS
<1>4. m \in Typed /\ m.do = "zone" /\ m.login = l
  <2>1. m \in Typed
    BY <1>1, <1>3, MsgTyped DEF Does
  <2> QED
    BY <1>3, <2>1 DEF Msg
<1>5. PICK q : q = Sent(toAgent, s, m)
  OBVIOUS
<1>6. stage' = [stage EXCEPT ![l] = "moving"] /\ toAgent' = Sent(q, s, Msg("zoneEnd", l, None))
  BY <1>2, <1>3, <1>5 DEF MoveZone, Moves, GoesTo
<1>7. table' # l
  BY <1>1, EachLogin DEF StageOK
<1>8. \E n \in Typed : /\ n.login = l /\ n.do \in {"move", "zone"} /\ (n.do = "move" => s = "auth")
                       /\ q = Sent(toAgent, s, n)
  BY <1>4, <1>5
<1> QED
  BY <1>1, <1>6, <1>7, <1>8, MovesOn

LEMMA LeavesGameInv ==
    ASSUME Inv, IInv', NEW l \in Logins, LeavesGame(l)
    PROVE  Inv'
<1>1. /\ stage[l] = "leaving" /\ UNCHANGED <<session, closed, at, char, table, toServer>>
      /\ stage' = [stage EXCEPT ![l] = "over"] /\ at[l] \in Servers /\ char[l] \in Chars \union {None}
      /\ toAgent' = Sent(toAgent, at[l], Msg("leave", l, char[l]))
  BY ClientTypes DEF LeavesGame, agent, Inv, GoesTo, ToAgent
<1>2. PICK m : m = Msg("leave", l, char[l])
  OBVIOUS
<1>3. m \in Typed /\ m.do = "leave" /\ m.login = l
  <2>1. m \in Typed
    BY <1>1, <1>2, MsgTyped DEF Does
  <2> QED
    BY <1>2, <2>1 DEF Msg
<1>4. Typing /\ Typing' /\ StageOK(l)
  <2>1. Typing'
    BY TypingOfIInv, PTL
  <2> QED
    BY <2>1, EachLogin
<1>5. table # l /\ ~Token(l)
  BY <1>1, <1>4, NoToken DEF StageOK
<1>6. Embeds(toServer, toServer', {})
  BY <1>1, <1>4, SameEmbeds DEF Typing
<1>7. ~Token(l)'
  <2>1. Embeds(toAgent, toAgent', {m})
    BY <1>1, <1>2, <1>3, <1>4, SentEmbeds DEF Typing
  <2>2. \A n \in {m} : n.login = l => n.do \notin Asking
    BY <1>3 DEF Asking
  <2> QED
    BY <1>1, <1>4, <1>5, <1>6, <2>1, <2>2, TokenIsGone
<1> QED
  BY <1>1, <1>2, <1>3, <1>5, <1>6, <1>7, GoesOver

LEMMA TimesOutInv ==
    ASSUME Inv, IInv', NEW l \in Logins, TimesOut(l)
    PROVE  Inv'
<1>1. /\ stage[l] \in {"starting", "left"} /\ UNCHANGED <<session, closed, at, char, table, toAgent, toServer>>
      /\ stage' = [stage EXCEPT ![l] = "over"]
  BY DEF TimesOut, agent, links, GoesTo
<1>2. table # l
  BY <1>1, EachLogin DEF StageOK
<1>3. Embeds(toServer, toServer', {})
  BY <1>1, EachLogin, SameEmbeds DEF Typing
<1> QED
  BY <1>1, <1>2, <1>3, GoesOver

LEMMA ClientLeavesInv ==
    ASSUME Inv, IInv', NEW l \in Logins, ClientLeaves(l)
    PROVE  Inv'
<1>1. /\ stage[l] \notin Waits /\ UNCHANGED <<session, closed, at, char, toServer>>
      /\ stage' = [stage EXCEPT ![l] = CASE stage[l] = "starting" -> "left"
                                         [] stage[l] = "entering" -> "gone"
                                         [] stage[l] = "game" -> "leaving"
                                         [] OTHER -> "over"]
  BY DEF ClientLeaves, agent, GoesTo
<1>2. ActorOK(l) /\ Typing /\ Typing' /\ StageOK(l)
  <2>1. Typing'
    BY TypingOfIInv, PTL
  <2> QED
    BY <2>1, EachLogin
<1>3. Embeds(toServer, toServer', {})
  BY <1>1, <1>2, SameEmbeds DEF Typing
<1>4. CASE table = l
  <2>1. stage[l] \in {"auth", "selecting", "selected"}
    BY <1>2, <1>4 DEF StageOK
  <2>2. /\ stage' = [stage EXCEPT ![l] = "over"] /\ table' = None
        /\ toAgent' = Sent(toAgent, "auth", Msg("logout", l, None))
    BY <1>1, <1>4, <2>1 DEF ClientLeaves, ToAgent
  <2>3. PICK m : m = Msg("logout", l, None)
    OBVIOUS
  <2>4. m \in Typed /\ m.do = "logout" /\ m.login = l /\ "auth" \in Servers
    <3>1. m \in Typed
      BY <2>3, MsgTyped DEF Does
    <3> QED
      BY <2>3, <3>1 DEF Msg, Servers
  <2>5. ~Token(l)'
    <3>1. Embeds(toAgent, toAgent', {m})
      BY <1>2, <2>2, <2>3, <2>4, SentEmbeds DEF Typing
    <3>2. \A n \in {m} : n.login = l => n.do \notin Asking
      BY <2>4 DEF Asking
    <3>3. ~Token(l)
      BY <1>2, <2>1, NoToken
    <3> QED
      BY <1>1, <1>2, <1>3, <3>1, <3>2, <3>3, TokenIsGone
  <2>6. table' # l /\ \A k \in Logins : k # l => (table' = k <=> table = k)
    BY <1>4, <2>2, SessionAssumption
  <2> QED
    BY <1>1, <1>3, <2>2, <2>3, <2>4, <2>5, <2>6, GoesOver
<1>5. CASE table # l
  <2>1. UNCHANGED <<table, toAgent>>
    BY <1>5 DEF ClientLeaves
  <2>2. CASE stage[l] \in {"starting", "entering", "game"}
    <3>1. PICK st : stage' = [stage EXCEPT ![l] = st] /\ st = (CASE stage[l] = "starting" -> "left"
                                         [] stage[l] = "entering" -> "gone"
                                         [] stage[l] = "game" -> "leaving"
                                         [] OTHER -> "over")
      BY <1>1
    <3>2. /\ stage[l] = "starting" => st = "left"
          /\ stage[l] = "entering" => st = "gone"
          /\ stage[l] = "game" => st = "leaving"
      BY <3>1
    <3>3. stage'[l] = st
      BY <3>1, ClientTypes DEF Inv
    <3>4. Starts(l) => Starts(l)'
      BY <2>2, <3>2, <3>3 DEF Starts
    <3>5. \A s, c : Enters(l, s, c) => Enters(l, s, c)'
      BY <2>2, <3>2, <3>3 DEF Enters
    <3>6. st \in {"game", "leaving"} /\ l \notin closed => CharOwned(l, at[l], char[l])
      BY <1>2, <2>2, <3>2 DEF ActorOK, OwnerOK
    <3>7. st \notin {"auth", "selecting", "selected"} /\ stage[l] \notin {"moving", "over"}
      BY <2>2, <3>2
    <3> QED
      BY <1>1, <1>3, <1>5, <2>1, <3>1, <3>4, <3>5, <3>6, <3>7, Advances
  <2>3. CASE stage[l] \notin {"starting", "entering", "game"}
    <3>1. stage' = [stage EXCEPT ![l] = "over"]
      BY <1>1, <2>3
    <3> QED
      BY <1>1, <1>3, <1>5, <2>1, <3>1, GoesOver
  <2> QED
    BY <2>2, <2>3
<1> QED
  BY <1>4, <1>5

\* Nobody moves, and what the agent is told, if anything, is about nobody.
LEMMA NobodyMoves ==
    ASSUME Inv, IInv', UNCHANGED <<session, closed, stage, at, char, table>>, NEW X,
           \A m \in X : m.login = None,
           Embeds(toAgent, toAgent', X), Embeds(toServer, toServer', {})
    PROVE  Inv'
<1> DEFINE l == None
<1>1. l \notin Logins /\ \A m \in X : m.login \in Logins => m.login = l
  BY SessionAssumption
<1> HIDE DEF l
<1> QED
  BY <1>1, ClientInv

LEMMA Heard ==
    ASSUME Inv, NEW s \in Servers, NEW m, Hears(s, m)
    PROVE  Embeds(toServer, toServer', {}) /\ m \in On(toServer, s) /\ m \in Typed
BY HeadTaken, TypingOfIInv DEF Inv, Typing, Hears

\* What gives the login the session is heard once.
LEMMA HeardToken ==
    ASSUME Inv, UNCHANGED session, NEW s \in Servers, NEW m, Hears(s, m), m.do \in Granting,
           NEW l \in Logins, l = m.login
    PROVE  ~Coming(toServer', l, Granting) /\ ~Coming(toAgent, l, Asking) /\ ~Waiting(l)'
<1>1. TokenOK(l) /\ toServer \in Links /\ toServer[s] # <<>> /\ m = Head(toServer[s])
  BY EachLogin DEF Hears, Typing
<1>2. Coming(toServer, l, Granting) /\ ~Coming(toServer', l, Granting)
  BY <1>1, HeadTaken DEF TokenOK, Hears
<1>3. ~Waiting(l)' <=> ~Waiting(l)
  BY DEF Waiting, Requests
<1> QED
  BY <1>1, <1>2, <1>3 DEF TokenOK

LEMMA HeardMove ==
    ASSUME Inv, UNCHANGED toAgent, NEW s \in Servers, NEW m, Hears(s, m), m.do = "zoneEnd",
           NEW l \in Logins, l = m.login
    PROVE  ~Travels(l)'
<1>1. MoveOK(l) /\ toServer \in Links /\ toServer[s] # <<>> /\ m = Head(toServer[s])
  BY EachLogin DEF Hears, Typing
<1>2. Coming(toServer, l, {"zoneEnd"}) /\ ~Coming(toServer', l, {"zoneEnd"})
  BY <1>1, HeadTaken DEF MoveOK, Hears
<1>3. ~Coming(toAgent, l, {"move", "zone", "zoneEnd"})
  BY <1>1, <1>2 DEF MoveOK, Coming
<1> QED
  BY <1>2, <1>3 DEF Travels

\* An answer that is too late is no matter, another sends its login on.
LEMMA AnswersInv ==
    ASSUME Inv, IInv', UNCHANGED <<session, closed, at, char>>,
           NEW s \in Servers, NEW m, Hears(s, m), NEW l \in Logins, l = m.login,
           \/ Answers(l, {"starting", "left"}, "over") \/ Answers(l, {"entering", "gone"}, "over")
           \/ Answers(l, {"selecting"}, "selected") \/ Answers(l, {"selecting"}, "auth")
           \/ m.do = "zoneEnd" /\ Answers(l, {"moving"}, "moved")
    PROVE  Inv'
<1>1. UNCHANGED <<table, toAgent>> /\ Embeds(toServer, toServer', {})
  BY Heard DEF Answers
<1>2. ActorOK(l) /\ StageOK(l) /\ toAgent \in Links
  BY EachLogin DEF Typing
<1>3. CASE UNCHANGED stage
  <2>1. Embeds(toAgent, toAgent', {})
    BY <1>1, <1>2, SameEmbeds
  <2> QED
    BY <1>1, <1>3, <2>1, NobodyMoves
<1>4. CASE stage[l] \in {"starting", "left", "entering", "gone"} /\ GoesTo(l, "over")
  <2>1. table' # l
    BY <1>1, <1>2, <1>4 DEF StageOK
  <2> QED
    BY <1>1, <1>4, <2>1, GoesOver DEF GoesTo
<1>5. ASSUME stage[l] = "selecting", NEW st \in {"selected", "auth"}, GoesTo(l, st)
      PROVE  Inv'
  <2>1. ~Starts(l) /\ \A t, c : ~Enters(l, t, c)
    BY <1>5 DEF Starts, Enters
  <2>2. table' = l => (l \notin closed => UserOwned(l))
    BY <1>1, <1>2 DEF ActorOK, OwnerOK
  <2>3. closed = {} => table' = l
    BY <1>1, <1>2, <1>5 DEF ActorOK, SelectOK
  <2> QED
    BY <1>1, <1>5, <2>1, <2>2, <2>3, Advances DEF GoesTo
<1>6. CASE stage[l] = "moving" /\ m.do = "zoneEnd" /\ GoesTo(l, "moved")
  <2>1. ~Starts(l) /\ \A t, c : ~Enters(l, t, c)
    BY <1>6 DEF Starts, Enters
  <2>2. table' # l
    BY <1>1, <1>2, <1>6 DEF StageOK
  <2>3. ~Travels(l)'
    BY <1>1, <1>6, HeardMove
  <2> QED
    BY <1>1, <1>6, <2>1, <2>2, <2>3, Advances DEF GoesTo
<1>7. \/ UNCHANGED stage
      \/ stage[l] \in {"starting", "left", "entering", "gone"} /\ GoesTo(l, "over")
      \/ \E st \in {"selected", "auth"} : stage[l] = "selecting" /\ GoesTo(l, st)
      \/ stage[l] = "moving" /\ m.do = "zoneEnd" /\ GoesTo(l, "moved")
  BY DEF Answers
<1> QED
  BY <1>3, <1>4, <1>5, <1>6, <1>7

LEMMA GrantedInv ==
    ASSUME Inv, IInv', UNCHANGED <<session, closed, at, char>>,
           NEW m, Hears("auth", m), m.do = "granted", NEW l \in Logins, l = m.login, Granted(l)
    PROVE  Inv'
<1>1. "auth" \in Servers /\ m.do \in Granting
  BY DEF Servers, Granting
<1>2. Embeds(toServer, toServer', {}) /\ m \in On(toServer, "auth")
  BY <1>1, Heard
<1>3. ActorOK(l) /\ StageOK(l) /\ Typing
  BY EachLogin
<1>4. ~Coming(toServer', l, Granting) /\ ~Coming(toAgent, l, Asking) /\ ~Waiting(l)'
  BY <1>1, HeardToken
<1>5. l \notin closed => UserOwned(l)
  <2>1. Coming(toServer, l, {"granted"})
    BY <1>1, <1>2, OnComing
  <2> QED
    BY <1>3, <2>1 DEF ActorOK, OwnerOK
<1>6. CASE stage[l] = "starting"
  <2>1. /\ stage' = [stage EXCEPT ![l] = "auth"] /\ UNCHANGED toAgent
        /\ table' = IF table = None THEN l ELSE table
    BY <1>6 DEF Granted, GoesTo
  <2>2. \A k \in Logins : k # l => (table' = k <=> table = k)
    BY <2>1, SessionAssumption
  <2>3. ~Token(l)'
    BY <1>4, <2>1 DEF Token
  <2>4. closed = {} => table' = l
    <3>1. ASSUME closed = {}, table # None
          PROVE  table = l
      <4>1. table \in Logins
        BY <3>1, ClientTypes DEF Inv
      <4>2. UserOwned(table)
        BY <3>1, <4>1, EachLogin DEF ActorOK, OwnerOK
      <4> QED
        BY <1>5, <3>1, <4>2 DEF UserOwned, Owns
    <3> QED
      BY <2>1, <3>1
  <2> QED
    BY <1>2, <1>5, <1>6, <2>1, <2>2, <2>3, <2>4, Advances
<1>7. CASE stage[l] = "left"
  <2>1. stage' = [stage EXCEPT ![l] = "over"] /\ UNCHANGED table
    BY <1>7 DEF Granted, GoesTo
  <2>2. table # l
    BY <1>3, <1>7 DEF StageOK
  <2>3. PICK n : n = Msg("logout", l, None)
    OBVIOUS
  <2>4. n \in Typed /\ n.do = "logout" /\ n.login = l
    <3>1. n \in Typed
      BY <2>3, MsgTyped DEF Does
    <3> QED
      BY <2>3, <3>1 DEF Msg
  <2>5. CASE toAgent' = toAgent
    BY <1>2, <2>1, <2>2, <2>5, GoesOver
  <2>6. CASE toAgent' = Sent(toAgent, "auth", n)
    <3>1. Typing'
      BY TypingOfIInv, PTL
    <3>2. Embeds(toAgent, toAgent', {n})
      BY <1>1, <1>3, <2>4, <2>6, SentEmbeds DEF Typing
    <3>3. Coming(toAgent', l, Asking) => Coming(toAgent, l, Asking)
      <4>1. \A x \in {n} : x.login = l => x.do \notin Asking
        BY <2>4 DEF Asking
      <4> QED
        BY <1>3, <3>1, <3>2, <4>1, EmbedComing DEF Typing
    <3>4. ~Token(l)'
      BY <1>4, <3>3 DEF Token
    <3> QED
      BY <1>1, <1>2, <2>1, <2>2, <2>4, <2>6, <3>4, GoesOver
  <2> QED
    BY <1>7, <2>3, <2>5, <2>6 DEF Granted, ToAgent
<1>8. CASE stage[l] \notin {"starting", "left"}
  <2>1. UNCHANGED <<stage, table, toAgent>>
    BY <1>8 DEF Granted
  <2>2. Embeds(toAgent, toAgent', {})
    BY <1>3, <2>1, SameEmbeds DEF Typing
  <2> QED
    BY <1>2, <2>1, <2>2, NobodyMoves
<1> QED
  BY <1>6, <1>7, <1>8

LEMMA EnteredInv ==
    ASSUME Inv, IInv', UNCHANGED <<session, closed, at, char, table>>, NEW g \in Games,
           NEW m, Hears(g, m), m.do = "entered", NEW l \in Logins, l = m.login, Entered(g, l, m.char)
    PROVE  Inv'
<1>1. g \in Servers /\ m.do \in Granting
  BY DEF Servers, Granting
<1>2. Embeds(toServer, toServer', {}) /\ m \in On(toServer, g) /\ m \in Typed
  BY <1>1, Heard
<1>3. ActorOK(l) /\ StageOK(l) /\ Typing
  BY EachLogin
<1>4. ~Coming(toServer', l, Granting) /\ ~Coming(toAgent, l, Asking) /\ ~Waiting(l)'
  BY <1>1, HeardToken
<1>5. Enters(l, g, m.char)
  BY <1>1, <1>2, <1>3 DEF StageOK, TellsServer
<1>6. table # l
  BY <1>3, <1>5 DEF StageOK, Enters
<1>7. CASE stage[l] = "entering" /\ GoesTo(l, "game") /\ UNCHANGED toAgent
  <2>1. at[l] = g /\ char[l] = m.char
    BY <1>5, <1>7 DEF Enters
  <2>2. l \notin closed => CharOwned(l, at[l], char[l])
    BY <1>1, <1>2, <1>3, <2>1 DEF ActorOK, OwnerOK
  <2>3. ~Token(l)'
    BY <1>4, <1>7 DEF Token
  <2> QED
    BY <1>2, <1>6, <1>7, <2>2, <2>3, Advances DEF GoesTo
<1>8. CASE GoesTo(l, "over") /\ ToAgent(g, Msg("leave", l, m.char))
  <2>1. PICK n : n = Msg("leave", l, m.char)
    OBVIOUS
  <2>2. n \in Typed /\ n.do = "leave" /\ n.login = l
    <3>1. m.char \in Chars \union {None}
      BY <1>2, TypedMessage
    <3>2. n \in Typed
      BY <2>1, <3>1, MsgTyped DEF Does
    <3> QED
      BY <2>1, <3>2 DEF Msg
  <2>3. toAgent' = Sent(toAgent, g, n)
    BY <1>8, <2>1 DEF ToAgent
  <2>4. ~Token(l)'
    <3>1. Typing'
      BY TypingOfIInv, PTL
    <3>2. Embeds(toAgent, toAgent', {n})
      BY <1>1, <1>3, <2>2, <2>3, SentEmbeds DEF Typing
    <3>3. \A x \in {n} : x.login = l => x.do \notin Asking
      BY <2>2 DEF Asking
    <3>4. Coming(toAgent', l, Asking) => Coming(toAgent, l, Asking)
      BY <1>3, <3>1, <3>2, <3>3, EmbedComing DEF Typing
    <3> QED
      BY <1>4, <3>4 DEF Token
  <2> QED
    BY <1>1, <1>2, <1>6, <1>8, <2>2, <2>3, <2>4, GoesOver DEF GoesTo
<1> QED
  BY <1>7, <1>8 DEF Entered

LEMMA KillInv ==
    ASSUME Inv, IInv', UNCHANGED <<session, closed, stage, at, char, table>>,
           Embeds(toServer, toServer', {}), NEW s \in Servers,
           toAgent' = toAgent \/ ToAgent(s, Msg("killFailed", None, None))
    PROVE  Inv'
<1>1. PICK m : m = Msg("killFailed", None, None)
  OBVIOUS
<1>2. m \in Typed /\ m.login = None
  <2>1. m \in Typed
    BY <1>1, MsgTyped DEF Does
  <2> QED
    BY <1>1, <2>1 DEF Msg
<1>3. toAgent \in Links
  BY TypingOfIInv DEF Inv, Typing
<1>4. CASE toAgent' = toAgent
  BY <1>3, <1>4, SameEmbeds, NobodyMoves
<1>5. CASE toAgent' = Sent(toAgent, s, m)
  <2>1. Embeds(toAgent, toAgent', {m})
    BY <1>2, <1>3, <1>5, SentEmbeds
  <2> QED
    BY <1>2, <2>1, NobodyMoves
<1> QED
  BY <1>1, <1>4, <1>5 DEF ToAgent

LEMMA AuthReceivesInv ==
    ASSUME Inv, IInv', AuthReceives
    PROVE  Inv'
<1>1. PICK m :
        /\ Hears("auth", m)
        /\ \/ m.do = "granted" /\ Granted(m.login)
           \/ m.do = "refused" /\ Answers(m.login, {"starting", "left"}, "over")
           \/ m.do = "selected" /\ Answers(m.login, {"selecting"}, "selected")
           \/ m.do = "notSelected" /\ Answers(m.login, {"selecting"}, "auth")
           \/ m.do = "zoneEnd" /\ Answers(m.login, {"moving"}, "moved")
           \/ m.do = "kill" /\ ParseUserKill /\ UNCHANGED <<stage, table>>
        /\ UNCHANGED <<agent, up, asked, at, char, mispaired, moves, cuts>>
  BY DEF AuthReceives
<1>2. UNCHANGED <<session, closed, at, char>> /\ "auth" \in Servers
  BY <1>1 DEF agent, Servers
<1>3. Embeds(toServer, toServer', {}) /\ m \in Typed
  BY <1>1, <1>2, Heard
<1>4. CASE m.do = "kill" /\ ParseUserKill /\ UNCHANGED <<stage, table>>
  BY <1>2, <1>3, <1>4, KillInv DEF ParseUserKill
<1>5. CASE m.do \in {"granted", "refused", "selected", "notSelected", "zoneEnd"}
  <2>1. PICK l \in Logins : l = m.login
    BY <1>3, <1>5, TypedMessage
  <2>2. CASE m.do = "granted" /\ Granted(l)
    BY <1>1, <1>2, <2>1, <2>2, GrantedInv
  <2>3. CASE \/ Answers(l, {"starting", "left"}, "over")
             \/ Answers(l, {"selecting"}, "selected") \/ Answers(l, {"selecting"}, "auth")
             \/ m.do = "zoneEnd" /\ Answers(l, {"moving"}, "moved")
    BY <1>1, <1>2, <2>1, <2>3, AnswersInv
  <2> QED
    BY <1>1, <1>5, <2>1, <2>2, <2>3
<1> QED
  BY <1>1, <1>4, <1>5

LEMMA GameReceivesInv ==
    ASSUME Inv, IInv', NEW g \in Games, GameReceives(g)
    PROVE  Inv'
<1>1. PICK m :
        /\ Hears(g, m)
        /\ \/ m.do = "entered" /\ Entered(g, m.login, m.char)
           \/ m.do = "refused" /\ Answers(m.login, {"entering", "gone"}, "over")
           \/ m.do = "zoneEnd" /\ Answers(m.login, {"moving"}, "moved")
           \/ m.do = "kill" /\ Kill(g, m.char) /\ UNCHANGED stage
        /\ UNCHANGED <<agent, up, asked, table, at, char, mispaired, moves, cuts>>
  BY DEF GameReceives
<1>2. UNCHANGED <<session, closed, at, char, table>> /\ g \in Servers
  BY <1>1 DEF agent, Servers
<1>3. Embeds(toServer, toServer', {}) /\ m \in Typed
  BY <1>1, <1>2, Heard
<1>4. CASE m.do = "kill" /\ Kill(g, m.char) /\ UNCHANGED stage
  BY <1>2, <1>3, <1>4, KillInv DEF Kill
<1>5. CASE m.do \in {"entered", "refused", "zoneEnd"}
  <2>1. PICK l \in Logins : l = m.login
    BY <1>3, <1>5, TypedMessage
  <2>2. CASE m.do = "entered" /\ Entered(g, l, m.char)
    BY <1>1, <1>2, <2>1, <2>2, EnteredInv
  <2>3. CASE \/ Answers(l, {"entering", "gone"}, "over")
             \/ m.do = "zoneEnd" /\ Answers(l, {"moving"}, "moved")
    BY <1>1, <1>2, <2>1, <2>3, AnswersInv
  <2> QED
    BY <1>1, <1>5, <2>1, <2>2, <2>3
<1> QED
  BY <1>1, <1>4, <1>5

-----------------------------------------------------------------------------
(* The specification, and who owns the session.                              *)

LEMMA InitInv ==
    ASSUME Init
    PROVE  Inv
<1>1. IInv
  BY InitOK
<1>2. Requests = <<>> /\ DOMAIN Requests = {}
  BY EmptySeq DEF Init, Requests
<1>3. \A s \in Servers : DOMAIN toAgent[s] = {} /\ DOMAIN toServer[s] = {}
  BY EmptySeq DEF Init
<1>4. \A l, A : ~Coming(toAgent, l, A) /\ ~Coming(toServer, l, A)
  BY <1>3 DEF Coming
<1>5. \A s \in Servers : On(toAgent, s) = {} /\ On(toServer, s) = {}
  BY <1>3 DEF On
<1>6. session = None /\ table = None /\ \A l \in Logins : stage[l] = "new" /\ table # l
  BY SessionAssumption DEF Init
<1>7. ASSUME NEW l \in Logins
      PROVE  LoginOK(l) /\ OwnerOK(l) /\ SelectOK(l)
  <2>1. TokenOK(l)
    BY <1>2, <1>4, TokenGone DEF Token, Waiting
  <2>2. MoveOK(l)
    BY <1>3, <1>4 DEF MoveOK, AtMostOne, Ahead
  <2>3. StageOK(l)
    BY <1>2, <1>5, <1>6 DEF StageOK
  <2>4. OwnerOK(l) /\ SelectOK(l)
    BY <1>4, <1>5, <1>6 DEF OwnerOK, SelectOK
  <2> QED
    BY <2>1, <2>2, <2>3, <2>4 DEF LoginOK
<1> QED
  BY <1>1, <1>6, <1>7 DEF Inv, Tokens, Ownership, DataOK

LEMMA NextInv ==
    ASSUME Inv, [Next]_vars
    PROVE  Inv'
<1>0. IInv'
  BY NextOK DEF Inv
<1>1. CASE \/ \E s \in Servers : AgentReceives(s)
           \/ UidAnswers
           \/ \E s \in Servers \union {"uid"} : LinkLost(s) \/ LinkUp(s)
  BY <1>0, <1>1, AgentReceivesInv, UidAnswersInv, LinkLostInv, LinkUpInv
<1>2. CASE AuthReceives
  BY <1>0, <1>2, AuthReceivesInv
<1>3. ASSUME NEW g \in Games, GameReceives(g)
      PROVE  Inv'
  BY <1>0, <1>3, GameReceivesInv
<1>4. ASSUME NEW l \in Logins,
             Start(l) \/ Enter(l) \/ LeavesGame(l) \/ ClientLeaves(l) \/ TimesOut(l)
      PROVE  Inv'
  BY <1>0, <1>4, StartInv, EnterInv, LeavesGameInv, ClientLeavesInv, TimesOutInv
<1>5. ASSUME NEW l \in Logins, NEW c \in Chars, Select(l, c)
      PROVE  Inv'
  BY <1>0, <1>5, SelectInv
<1>6. ASSUME NEW l \in Logins, NEW g \in Games, Move(l, g) \/ MoveZone(l, g)
      PROVE  Inv'
  BY <1>0, <1>6, MoveInv, MoveZoneInv
<1>7. CASE UNCHANGED vars
  <2>1. UNCHANGED <<session, closed, stage, at, char, table, toAgent, toServer>>
    BY <1>7 DEF vars, agent, links, clients
  <2>2. Embeds(toAgent, toAgent', {}) /\ Embeds(toServer, toServer', {})
    BY <2>1, TypingOfIInv, SameEmbeds DEF Inv, Typing
  <2> QED
    BY <1>0, <2>1, <2>2, NobodyMoves
<1> QED
  BY <1>1, <1>2, <1>3, <1>4, <1>5, <1>6, <1>7 DEF Next

LEMMA GameHasDataOfInv ==
    ASSUME Inv
    PROVE  GameHasData
<1>1. CASE session = None
  BY <1>1 DEF GameHasData, Held
<1>2. CASE session # None /\ closed = {}
  <2>1. /\ Kept(Agent) /\ session \in Open /\ loaded = Held(session)
        /\ session.char # None => session.cid = session.char
        /\ loaded # {} => session.state = "char"
    BY <1>2, SessionCases DEF Inv, IInv, Kept, Agent
  <2>2. ASSUME session.state = "char"
        PROVE  Held(session) = {"store", session.cid}
    <3>1. session.store /\ session.char # None
      BY <1>2, <2>2 DEF Inv, Ownership, DataOK
    <3>2. session.char \in Chars
      BY <2>1, <3>1 DEF Open, Session
    <3> QED
      BY <1>2, <2>1, <3>1, <3>2 DEF Held
  <2>3. session.state # "char" => Held(session) = {}
    BY <2>1
  <2> QED
    BY <1>2, <2>2, <2>3 DEF GameHasData
<1>3. CASE closed # {}
  BY <1>3 DEF GameHasData
<1> QED
  BY <1>1, <1>2, <1>3

LEMMA PlayerOwnsSessionOfInv ==
    ASSUME Inv
    PROVE  PlayerOwnsSession
<1>1. ASSUME NEW l \in Logins \ closed, table = l
      PROVE  Owns(l) /\ session.state = "user" /\ session.server = "auth"
  BY <1>1 DEF Inv, Ownership, OwnerOK, UserOwned
<1>2. ASSUME NEW l \in Logins \ closed, stage[l] \in {"game", "leaving"}
      PROVE  /\ Owns(l) /\ session.state = "char" /\ session.server = at[l]
             /\ closed = {} => Plays(at[l], l, char[l])
  <2>1. CharOwned(l, at[l], char[l])
    BY <1>2 DEF Inv, Ownership, OwnerOK
  <2>2. Kept(Agent) /\ session # None
    BY <2>1, AgentSession DEF CharOwned, Owns
  <2>3. char[l] # None
    BY <1>2, ClientTypes, SessionAssumption DEF Inv, Chosen
  <2>4. closed = {} => session.char = char[l] /\ session.cid = char[l]
    BY <2>1, <2>2, <2>3 DEF CharOwned, Kept, Agent
  <2> QED
    BY <2>1, <2>4 DEF CharOwned, Plays
<1> QED
  BY <1>1, <1>2 DEF PlayerOwnsSession

LEMMA MoveBeforeEntryOfInv ==
    ASSUME Inv
    PROVE  MoveBeforeEntry
<1>1. \A l, do : OnItsWay(l, do) <=> Coming(toAgent, l, do)
  BY DEF OnItsWay, Coming
<1>2. ASSUME NEW l \in Logins, Coming(toAgent, l, {"enter"}), Coming(toAgent, l, {"move", "zone"})
      PROVE  FALSE
  <2>1. Coming(toAgent, l, Asking) /\ Coming(toAgent, l, Departing)
    BY <1>2 DEF Coming, Asking, Departing
  <2> QED
    BY <2>1, EachLogin DEF TokenOK
<1> QED
  BY <1>1, <1>2 DEF MoveBeforeEntry

\* Whoever is taken for the owner of the session is its owner: a login asks for it with
\* one message, which becomes one request and one answer, and nothing the login has
\* said before can give the session back behind that answer.
THEOREM OwnersAreKnown == Spec => []Inv
<1>1. Init => Inv
  BY InitInv
<1>2. Inv /\ [Next]_vars => Inv'
  BY NextInv
<1> QED
  BY <1>1, <1>2, PTL DEF Spec

\* A player in the game has his store and his character, and no other session of the
\* account has any data, as long as the agent has not ended a session itself.
THEOREM PlayersHaveTheirData == Spec => []GameHasData
<1>1. Inv => GameHasData
  BY GameHasDataOfInv
<1> QED
  BY <1>1, OwnersAreKnown, PTL

\* Nobody is at the auth server's table or in the game on a session that has passed to
\* another login, whatever links are lost and whatever the UID server answers.
THEOREM PlayersOwnTheirSession == Spec => []PlayerOwnsSession
<1>1. Inv => PlayerOwnsSession
  BY PlayerOwnsSessionOfInv
<1> QED
  BY <1>1, OwnersAreKnown, PTL

\* The agent has read that a client has left a server before it reads that the client
\* has come to the next.
THEOREM MovesComeBeforeEntries == Spec => []MoveBeforeEntry
<1>1. Inv => MoveBeforeEntry
  BY MoveBeforeEntryOfInv
<1> QED
  BY <1>1, OwnersAreKnown, PTL
=============================================================================
