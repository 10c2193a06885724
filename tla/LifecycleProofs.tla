---------------------------- MODULE LifecycleProofs ----------------------------
(***************************************************************************)
(* What sessions promise their packet dispatch, for any number of          *)
(* sessions, workers and users: the stream goes out in the order it was    *)
(* accepted and ends for good, and Session implements SessionLifecycle.    *)
(***************************************************************************)
EXTENDS SessionProofs, SequenceTheorems

(***************************************************************************)
(* The invariants that the promises rest on, beside the counts of IInv.    *)
(***************************************************************************)

\* Everything accepted is sent or queued, in order, and once the sending side is
\* shut down nothing is queued, nor accepted any more.
StreamOK(r) ==
    /\ r.sent \o r.sendQueue = [i \in 1 .. r.accepted |-> i]
    /\ r.fin => r.sendQueue = <<>> /\ "SHUTDOWN_CALLED" \in r.flags

\* The socket is closed and the status changed together.
Linked(r) == r.socket = "INVALID" <=> r.status = "DISCONNECTED"

Ended(r) == r.calls \in {<<"Disconnected">>, <<"Connected", "Disconnected">>}

Inside(s, at) == main.s = s /\ main.at = at

\* The flags say which callbacks were decided; the process thread makes the call
\* before it does anything else.
CallsOK(s) ==
    LET r == ses[s]
    IN  /\ Ended(r) \/ r.calls \in {<<>>, <<"Connected">>}
        /\ "CONNECT_CALLED" \notin r.flags => r.calls \in {<<>>, <<"Disconnected">>}
        /\ "DISCONNECT_PROCESSED" \notin r.flags => ~Ended(r)
        /\ "DISCONNECT_PROCESSED" \in r.flags =>
              r.status = "DISCONNECTED" /\ (Ended(r) \/ Inside(s, "disconnected"))
        /\ Inside(s, "connected") => r.calls = <<>> /\ "CONNECT_CALLED" \in r.flags
        /\ Inside(s, "disconnected") => ~Ended(r) /\ "DISCONNECT_PROCESSED" \in r.flags

PInv(s) ==
    /\ place[s] = "free" => ses[s] = NewSession
    /\ StreamOK(ses[s]) /\ Linked(ses[s]) /\ CallsOK(s)

Promise == \A s \in Sessions : PInv(s)

-----------------------------------------------------------------------------
(* Facts about sequences.                                                    *)

\* The head of a queue may move behind the sequence before it.
LEMMA HeadMoves ==
    ASSUME NEW p \in Seq(Nat), NEW q \in Seq(Nat), q # <<>>
    PROVE  Append(p, Head(q)) \o Tail(q) = p \o q
OBVIOUS

\* And it may go back to where it was.
LEMMA HeadReturns ==
    ASSUME NEW q \in Seq(Nat), q # <<>>
    PROVE  <<Head(q)>> \o Tail(q) = q
OBVIOUS

\* Appending to the queue is appending to the whole.
LEMMA AppendToQueue ==
    ASSUME NEW p \in Seq(Nat), NEW q \in Seq(Nat), NEW m \in Nat
    PROVE  p \o Append(q, m) = Append(p \o q, m)
<1>1. p \o q \in Seq(Nat) /\ <<m>> \in Seq(Nat)
    OBVIOUS
<1>2. (p \o q) \o <<m>> = p \o (q \o <<m>>)
    BY <1>1, ConcatAssociative
<1>3. Append(q, m) = q \o <<m>> /\ Append(p \o q, m) = (p \o q) \o <<m>>
    BY <1>1, AppendIsConcat
<1>. QED BY <1>2, <1>3

\* The next number is appended to a queue.
LEMMA NextNumber ==
    ASSUME NEW p \in Seq(Nat), NEW q \in Seq(Nat), NEW n \in Nat, p \o q = [i \in 1 .. n |-> i]
    PROVE  p \o Append(q, n + 1) = [i \in 1 .. n + 1 |-> i]
<1>. DEFINE w == p \o q
            f == [i \in 1 .. n + 1 |-> i]
<1>1. p \o Append(q, n + 1) = Append(w, n + 1)
    <2>1. n + 1 \in Nat
        OBVIOUS
    <2>. QED BY <2>1, AppendToQueue, Zenon
<1>2. w \in Seq(Nat) /\ Len(w) = n
    <2>1. w \in Seq(Nat) /\ DOMAIN w = 1 .. Len(w) /\ Len(w) \in Nat
        OBVIOUS
    <2>2. DOMAIN w = 1 .. n
        OBVIOUS
    <2>. QED BY <2>1, <2>2
<1>3. Append(w, n + 1) \in Seq(Nat) /\ f \in Seq(Nat) /\ Len(Append(w, n + 1)) = n + 1 /\ Len(f) = n + 1
    BY <1>2
<1>4. ASSUME NEW i \in 1 .. n + 1
      PROVE  Append(w, n + 1)[i] = f[i]
    <2>1. CASE i = n + 1
        BY <1>2, <2>1
    <2>2. CASE i \in 1 .. n
        BY <1>2, <2>2
    <2>. QED BY <2>1, <2>2
<1>. HIDE DEF w, f
<1>5. Append(w, n + 1) = f
    BY <1>3, <1>4, SeqEqual
<1>. QED BY <1>1, <1>5 DEF f

\* Disconnected() after Connected().
LEMMA BothCalls == Append(<<"Connected">>, "Disconnected") = <<"Connected", "Disconnected">>
<1>. DEFINE S == {"Connected", "Disconnected"}
            u == <<"Connected">>
            v == Append(u, "Disconnected")
            w == <<"Connected", "Disconnected">>
<1>1. /\ u \in Seq(S) /\ Len(u) = 1 /\ u[1] = "Connected"
      /\ w \in Seq(S) /\ Len(w) = 2 /\ w[1] = "Connected" /\ w[2] = "Disconnected"
      /\ "Disconnected" \in S
    OBVIOUS
<1>. HIDE DEF S, u, w
<1>2. /\ v \in Seq(S) /\ Len(v) = Len(u) + 1 /\ \A i \in 1 .. Len(u) : v[i] = u[i]
      /\ v[Len(u) + 1] = "Disconnected"
    BY <1>1, AppendProperties, SMTT(30)
<1>. HIDE DEF v
<1>3. Len(v) = 2 /\ \A i \in 1 .. Len(v) : v[i] = w[i]
    BY <1>1, <1>2
<1>4. v = w
    BY <1>1, <1>2, <1>3, SeqEqual
<1>. QED BY <1>4 DEF u, v, w

-----------------------------------------------------------------------------
(* What the helpers of CSession do to the stream and to the callbacks.       *)

\* q may follow r: the stream is kept, and frozen once it was shut down; a closed
\* session stays closed and posts nothing.
Follows(q, r) ==
    /\ StreamOK(r) => StreamOK(q) /\ (r.fin => q.fin /\ q.sent = r.sent)
    /\ Linked(r) => Linked(q)
    /\ r.status = "DISCONNECTED" => q.status = "DISCONNECTED"
    /\ r.socket = "INVALID" =>
          /\ q.socket = "INVALID"
          /\ q.recvPosted # 0 => r.recvPosted # 0
          /\ q.sendPosted # 0 => r.sendPosted # 0

Flagged(r) == r.flags \intersect {"CONNECT_CALLED", "DISCONNECT_PROCESSED"}

\* ... and neither a callback returns nor one is decided.
Keeps(q, r) == Follows(q, r) /\ q.calls = r.calls /\ Flagged(q) = Flagged(r)

\* What follows what follows r, follows r.
LEMMA FollowsTransitive ==
    ASSUME NEW p, NEW q, NEW r, Follows(p, q), Follows(q, r)
    PROVE  Follows(p, r)
BY DEF Follows

\* What the helpers keep, they keep one after the other.
LEMMA KeepsTransitive ==
    ASSUME NEW p, NEW q, NEW r, Keeps(p, q), Keeps(q, r)
    PROVE  Keeps(p, r)
BY FollowsTransitive DEF Keeps

\* All that concerns the stream and the socket but the flags.
SameStream(q, r) ==
    /\ q.status = r.status /\ q.socket = r.socket
    /\ q.sendQueue = r.sendQueue /\ q.sent = r.sent /\ q.accepted = r.accepted /\ q.fin = r.fin

\* A change of counters or of flags that clears no SHUTDOWN_CALLED.
LEMMA SameStreamFollows ==
    ASSUME NEW q, NEW r, SameStream(q, r),
           "SHUTDOWN_CALLED" \in r.flags => "SHUTDOWN_CALLED" \in q.flags,
           q.recvPosted # 0 => r.recvPosted # 0 \/ r.socket # "INVALID",
           q.sendPosted # 0 => r.sendPosted # 0 \/ r.socket # "INVALID"
    PROVE  Follows(q, r)
BY DEF SameStream, Follows, StreamOK, Linked

\* Closing the socket leaves the stream as it is.
LEMMA CloseKeeps ==
    ASSUME NEW r \in SessionRecord
    PROVE  Keeps(InternalCloseSocket(r), r)
BY DEF InternalCloseSocket, SessionRecord, Keeps, Follows, Flagged, StreamOK, Linked

\* A receive is posted on an open socket.
LEMMA RecvKeeps ==
    ASSUME NEW r \in SessionRecord, NEW q \in InternalRecv(r)
    PROVE  Keeps(q, r)
<1>1. CASE q = r
    BY <1>1 DEF Keeps, Follows
<1>2. CASE q = InternalCloseSocket(r)
    BY <1>2, CloseKeeps
<1>3. CASE /\ r.socket # "INVALID"
           /\ q = [r EXCEPT !.recvPending = @ + 1, !.recvPosted = @ + 1]
    <2>1. q.flags = r.flags /\ q.calls = r.calls /\ q.sendPosted = r.sendPosted /\ SameStream(q, r)
        BY <1>3 DEF SessionRecord, SameStream
    <2>. QED BY <1>3, <2>1, SameStreamFollows DEF Keeps, Flagged
<1>. QED BY <1>1, <1>2, <1>3 DEF InternalRecv

\* The head of the queue is sent, or goes back to where it was.
LEMMA SendKeeps ==
    ASSUME NEW r \in SessionRecord, NEW q \in InternalSend(r)
    PROVE  Keeps(q, r)
<1>1. CASE q = r
    BY <1>1 DEF Keeps, Follows
<1>2. CASE r.sendQueue # <<>> /\ q \in SendHead(r)
    <2>. DEFINE b == Head(r.sendQueue)
                d == [r EXCEPT !.sendQueue = Tail(@)]
                Requeue(x) == [x EXCEPT !.sendQueue = <<b>> \o @]
    <2>1. r.sendQueue \in Seq(Nat) /\ r.sent \in Seq(Nat)
        BY DEF SessionRecord
    <2>2. <<b>> \o Tail(r.sendQueue) = r.sendQueue
          /\ Append(r.sent, b) \o Tail(r.sendQueue) = r.sent \o r.sendQueue
        BY <1>2, <2>1, HeadMoves, HeadReturns
    <2>3. CASE q = Requeue(d)
        <3>1. /\ q.flags = r.flags /\ q.calls = r.calls /\ SameStream(q, r)
              /\ q.sendPosted = r.sendPosted /\ q.recvPosted = r.recvPosted
            BY <2>2, <2>3 DEF SessionRecord, SameStream
        <3>. QED BY <3>1, SameStreamFollows DEF Keeps, Flagged
    <2>4. CASE q = Requeue(InternalCloseSocket(d))
        <3>1. q.sendQueue = r.sendQueue
            BY <2>2, <2>4 DEF InternalCloseSocket, SessionRecord
        <3>2. /\ q.status = "DISCONNECTED" /\ q.socket = "INVALID"
              /\ q.flags \in {r.flags, r.flags \union {"SHUTDOWN_PROCESSED"}}
              /\ q.sent = r.sent /\ q.accepted = r.accepted /\ q.fin = r.fin /\ q.calls = r.calls
              /\ q.sendPosted = r.sendPosted /\ q.recvPosted = r.recvPosted
            BY <2>4 DEF InternalCloseSocket, SessionRecord
        <3>3. Flagged(q) = Flagged(r) /\ ("SHUTDOWN_CALLED" \in r.flags => "SHUTDOWN_CALLED" \in q.flags)
            BY <3>2 DEF Flagged
        <3>. QED BY <3>1, <3>2, <3>3 DEF Keeps, Follows, StreamOK, Linked
    <2>5. CASE /\ r.socket # "INVALID"
               /\ q = [d EXCEPT !.sendPending = @ + 1, !.sendPosted = @ + 1, !.sent = Append(@, b)]
        <3>1. /\ q.flags = r.flags /\ q.calls = r.calls /\ q.status = r.status /\ q.socket = r.socket
              /\ q.accepted = r.accepted /\ q.fin = r.fin
              /\ q.sent = Append(r.sent, b) /\ q.sendQueue = Tail(r.sendQueue)
            BY <2>5 DEF SessionRecord
        <3>2. StreamOK(r) => StreamOK(q) /\ ~r.fin
            BY <1>2, <2>2, <3>1 DEF StreamOK
        <3>. QED BY <2>5, <3>1, <3>2 DEF Keeps, Follows, Flagged, Linked
    <2>. QED BY <1>2, <2>3, <2>4, <2>5 DEF SendHead
<1>. QED BY <1>1, <1>2 DEF InternalSend

\* The sending side is shut down with the queue empty and SHUTDOWN_CALLED set.
LEMMA ShutdownKeeps ==
    ASSUME NEW r \in SessionRecord, NEW q \in ShutdownWhenDrained(r)
    PROVE  Keeps(q, r)
<1>1. CASE q = r
    BY <1>1 DEF Keeps, Follows
<1>2. CASE /\ "SHUTDOWN_CALLED" \in r.flags /\ r.sendQueue = <<>>
           /\ q = [r EXCEPT !.fin = TRUE]
    BY <1>2 DEF SessionRecord, Keeps, Follows, StreamOK, Linked, Flagged
<1>3. CASE q = [r EXCEPT !.flags = @ \union {"SHUTDOWN_PROCESSED"}]
    BY <1>3 DEF SessionRecord, Keeps, Follows, StreamOK, Linked, Flagged
<1>. QED BY <1>1, <1>2, <1>3 DEF ShutdownWhenDrained

-----------------------------------------------------------------------------
(***************************************************************************)
(* One step of Session, seen from one session: it keeps the promises, and  *)
(* the step is one of SessionLifecycle or none.                            *)
(***************************************************************************)

Kept(x) == PInv(x)' /\ (ses[x].fin => ses'[x].sent = ses[x].sent)

SameCalls(x) == ses'[x].calls = ses[x].calls
SameIo(x) == OutstandingIo(x)' = OutstandingIo(x)
Stutters(x) == Life(x)' = Life(x) /\ SameCalls(x) /\ SameIo(x)
StaysAlive(x) == Life(x) = "alive" /\ Life(x)' = "alive"

\* What Lifecycle!Next lets one session do.
Acts(s) ==
    \/ Stutters(s)
    \/ /\ Life(s) = "absent" /\ Life(s)' = "alive" /\ SameCalls(s)
       /\ OutstandingIo(s)' \in {{}, {"recv"}}
    \/ /\ StaysAlive(s) /\ SameIo(s)
       /\ ses[s].calls = <<>> /\ ses'[s].calls = <<"Connected">>
    \/ /\ StaysAlive(s) /\ SameIo(s)
       /\ ses[s].calls \in {<<>>, <<"Connected">>}
       /\ ses'[s].calls = Append(ses[s].calls, "Disconnected")
    \/ /\ StaysAlive(s) /\ SameCalls(s) /\ ~Ended(ses[s]) /\ CallsOK(s)
       /\ \E d \in {"recv", "send"} :
             d \notin OutstandingIo(s) /\ OutstandingIo(s)' = OutstandingIo(s) \union {d}
    \/ /\ Life(s)' = Life(s) /\ SameCalls(s)
       /\ \E d \in {"recv", "send"} :
             d \in OutstandingIo(s) /\ OutstandingIo(s)' = OutstandingIo(s) \ {d}
    \/ /\ Life(s) = "alive" /\ Life(s)' = "deleted" /\ SameCalls(s) /\ SameIo(s)
       /\ Ended(ses[s]) /\ OutstandingIo(s) = {}

Step ==
    /\ \A x \in Sessions : Kept(x)
    /\ \/ \A x \in Sessions : Stutters(x)
       \/ \E s \in Sessions : Acts(s) /\ \A x \in Sessions \ {s} : Stutters(x)

\* A step that moves nothing these formulas read of session x.
Aside(x) ==
    /\ ses'[x] = ses[x]
    /\ Life(x)' = Life(x)
    /\ \A w \in Workers : Parsing(w, x)' <=> Parsing(w, x)
    /\ Inside(x, "connected")' <=> Inside(x, "connected")
    /\ Inside(x, "disconnected")' <=> Inside(x, "disconnected")

\* A session that nothing happens to keeps its promises, and SessionLifecycle sees
\* nothing of it.
LEMMA AsideKeeps ==
    ASSUME NEW x \in Sessions, PInv(x), Aside(x)
    PROVE  Kept(x) /\ Stutters(x)
<1>1. place'[x] = "free" <=> place[x] = "free"
    BY DEF Aside, Life
<1>2. PInv(x)'
    BY <1>1 DEF Aside, PInv, CallsOK
<1>3. Stutters(x)
    BY DEF Aside, Stutters, SameCalls, SameIo, OutstandingIo
<1>. QED BY <1>2, <1>3 DEF Kept, Aside

\* All sessions but one stand aside when a step changes only that one's members.
LEMMA OthersAside ==
    ASSUME NEW s \in Sessions,
           \A x \in Sessions \ {s} : ses'[x] = ses[x] /\ place'[x] = place[x],
           \A w \in Workers :
              worker'[w] = worker[w] \/ {worker[w].s, worker'[w].s} \subseteq {s, NoSession},
           main' = main \/ {main.s, main'.s} \subseteq {s, NoSession}
    PROVE  \A x \in Sessions \ {s} : Aside(x)
<1>. SUFFICES ASSUME NEW x \in Sessions \ {s} PROVE Aside(x)
    OBVIOUS
<1>1. x # NoSession
    BY SessionAssumption
<1>2. Life(x)' = Life(x)
    BY DEF Life
<1>3. \A w \in Workers : Parsing(w, x)' <=> Parsing(w, x)
    BY <1>1 DEF Parsing
<1>4. \A at \in {"connected", "disconnected"} : Inside(x, at)' <=> Inside(x, at)
    BY <1>1 DEF Inside
<1>. QED BY <1>2, <1>3, <1>4 DEF Aside

\* Nothing happens to any session.
LEMMA AllAside ==
    ASSUME Promise, \A x \in Sessions : Aside(x)
    PROVE  Step
BY AsideKeeps DEF Promise, Step

\* Something happens to one session, and nothing to the others.
LEMMA OneActs ==
    ASSUME Promise, NEW s \in Sessions, Kept(s), Acts(s), \A x \in Sessions \ {s} : Aside(x)
    PROVE  Step
BY AsideKeeps DEF Promise, Step

\* The promises are kept for a session whose record follows.
LEMMA KeepsAreKept ==
    ASSUME NEW s \in Sessions, PInv(s), Keeps(ses'[s], ses[s]), place'[s] # "free",
           Inside(s, "connected")' => Inside(s, "connected"),
           Inside(s, "disconnected")' <=> Inside(s, "disconnected")
    PROVE  Kept(s)
<1>1. /\ "CONNECT_CALLED" \in ses'[s].flags <=> "CONNECT_CALLED" \in ses[s].flags
      /\ "DISCONNECT_PROCESSED" \in ses'[s].flags <=> "DISCONNECT_PROCESSED" \in ses[s].flags
    BY DEF Keeps, Flagged
<1>2. /\ StreamOK(ses'[s]) /\ Linked(ses'[s])
      /\ ses[s].fin => ses'[s].sent = ses[s].sent
      /\ ses[s].status = "DISCONNECTED" => ses'[s].status = "DISCONNECTED"
      /\ ses'[s].calls = ses[s].calls
    BY DEF Keeps, Follows, PInv
<1>3. CallsOK(s)'
    BY <1>1, <1>2 DEF PInv, CallsOK, Ended
<1>. QED BY <1>2, <1>3 DEF Kept, PInv

\* An open session has not heard Disconnected().
LEMMA OpenIsNotEnded ==
    ASSUME NEW s \in Sessions, PInv(s), ses[s].socket # "INVALID"
    PROVE  ~Ended(ses[s])
BY DEF PInv, Linked, CallsOK

\* A session whose record follows starts or finishes at most one call.
LEMMA PostsAct ==
    ASSUME NEW s \in Sessions, PInv(s), StaysAlive(s), SameCalls(s),
           ses[s] \in SessionRecord, ses'[s] \in SessionRecord, Follows(ses'[s], ses[s]),
           \A w \in Workers : Parsing(w, s)' <=> Parsing(w, s),
           \/ ses'[s].recvPosted = ses[s].recvPosted
           \/ /\ NoRecv(s) /\ ses'[s].recvPosted # 0
              /\ ses'[s].sendPosted = ses[s].sendPosted
    PROVE  Acts(s)
<1>. DEFINE q == ses'[s]
            r == ses[s]
            Busy == \E w \in Workers : Parsing(w, s)
<1>1. /\ "recv" \in OutstandingIo(s) <=> r.recvPosted # 0 \/ Busy
      /\ "send" \in OutstandingIo(s) <=> r.sendPosted # 0
      /\ OutstandingIo(s) \subseteq {"recv", "send"}
    BY DEF OutstandingIo
<1>2. /\ "recv" \in OutstandingIo(s)' <=> q.recvPosted # 0 \/ Busy
      /\ "send" \in OutstandingIo(s)' <=> q.sendPosted # 0
      /\ OutstandingIo(s)' \subseteq {"recv", "send"}
    BY DEF OutstandingIo
<1>3. (r.recvPosted = 0 /\ q.recvPosted # 0) \/ (r.sendPosted = 0 /\ q.sendPosted # 0) => ~Ended(r)
    BY OpenIsNotEnded DEF Follows
<1>4. (r.recvPosted = 0 /\ ~Busy) \/ q.recvPosted = r.recvPosted
    BY DEF NoRecv
<1>5. CallsOK(s) /\ Life(s)' = Life(s)
    BY DEF PInv, StaysAlive
<1>. DEFINE o == OutstandingIo(s)
            p == OutstandingIo(s)'
<1>6. \/ p = o
      \/ ~Ended(r) /\ \E d \in {"recv", "send"} : d \notin o /\ p = o \union {d}
      \/ \E d \in {"recv", "send"} : d \in o /\ p = o \ {d}
    <2>. HIDE DEF o, p, Busy
    <2>1. CASE q.recvPosted # r.recvPosted
        <3>1. "recv" \notin o /\ p = o \union {"recv"} /\ ~Ended(r)
            BY <1>1, <1>2, <1>3, <1>4, <2>1 DEF NoRecv, o, p
        <3>. QED BY <3>1
    <2>2. CASE q.recvPosted = r.recvPosted
        <3>1. "recv" \in p <=> "recv" \in o
            BY <1>1, <1>2, <2>2 DEF o, p
        <3>2. CASE "send" \in p /\ "send" \notin o
            <4>1. p = o \union {"send"} /\ ~Ended(r)
                BY <1>1, <1>2, <1>3, <3>1, <3>2 DEF o, p
            <4>. QED BY <3>2, <4>1
        <3>3. CASE "send" \notin p /\ "send" \in o
            <4>1. p = o \ {"send"}
                BY <1>1, <1>2, <3>1, <3>3 DEF o, p
            <4>. QED BY <3>3, <4>1
        <3>4. CASE "send" \in p <=> "send" \in o
            <4>1. p = o
                BY <1>1, <1>2, <3>1, <3>4 DEF o, p
            <4>. QED BY <4>1
        <3>. QED BY <3>2, <3>3, <3>4
    <2>. QED BY <2>1, <2>2
<1>. QED BY <1>5, <1>6 DEF Acts, Stutters, SameIo

-----------------------------------------------------------------------------
(* One step of Session is one of SessionLifecycle, or none.                  *)

\* The abstract variables, by name.
lives == [s \in Sessions |-> Life(s)]
callbacks == [s \in Sessions |-> ses[s].calls]
calledIo == [s \in Sessions |-> OutstandingIo(s)]

\* The end of a stream of callbacks, as SessionLifecycle writes it.
LEMMA OverIsEnded ==
    ASSUME NEW s \in Sessions, CallsOK(s)
    PROVE  Lifecycle!Over(s) <=> Ended(ses[s])
<1>1. callbacks[s] = ses[s].calls
    BY DEF callbacks
<1>2. ses[s].calls \in {<<>>, <<"Connected">>, <<"Disconnected">>, <<"Connected", "Disconnected">>}
    BY DEF CallsOK, Ended
<1>3. Lifecycle!Over(s) <=> callbacks[s] # <<>> /\ callbacks[s][Len(callbacks[s])] = "Disconnected"
    BY DEF Lifecycle!Over, callbacks
<1>4. CASE ses[s].calls = <<>>
    BY <1>1, <1>3, <1>4 DEF Ended
<1>5. CASE ses[s].calls = <<"Connected">>
    BY <1>1, <1>3, <1>5 DEF Ended
<1>6. CASE ses[s].calls = <<"Disconnected">>
    BY <1>1, <1>3, <1>6 DEF Ended
<1>7. CASE ses[s].calls = <<"Connected", "Disconnected">>
    BY <1>1, <1>3, <1>7 DEF Ended
<1>. QED BY <1>2, <1>4, <1>5, <1>6, <1>7

\* A step that one session makes alone is a step of SessionLifecycle.
LEMMA Simulates ==
    ASSUME Promise, Step
    PROVE  [Lifecycle!Next]_(Lifecycle!avars)
<1>1. CASE \A x \in Sessions : Stutters(x)
    <2>1. lives' = lives /\ callbacks' = callbacks /\ calledIo' = calledIo
        BY <1>1 DEF lives, callbacks, calledIo, Stutters, SameCalls, SameIo
    <2>. QED BY <2>1 DEF Lifecycle!avars, lives, callbacks, calledIo
<1>2. ASSUME NEW s \in Sessions, Acts(s), \A x \in Sessions \ {s} : Stutters(x)
      PROVE  [Lifecycle!Next]_(Lifecycle!avars)
    <2>. DEFINE L == Life(s)'
                C == ses'[s].calls
                O == OutstandingIo(s)'
    <2>1. lives' = [lives EXCEPT ![s] = L]
        BY <1>2 DEF lives, Stutters
    <2>2. callbacks' = [callbacks EXCEPT ![s] = C]
        BY <1>2 DEF callbacks, Stutters, SameCalls
    <2>3. calledIo' = [calledIo EXCEPT ![s] = O]
        BY <1>2 DEF calledIo, Stutters, SameIo
    <2>4. lives[s] = Life(s) /\ callbacks[s] = ses[s].calls /\ calledIo[s] = OutstandingIo(s)
        BY DEF lives, callbacks, calledIo
    <2>5. /\ L = lives[s] => lives' = lives
          /\ C = callbacks[s] => callbacks' = callbacks
          /\ O = calledIo[s] => calledIo' = calledIo
        <3>. HIDE DEF L, C, O
        <3>. QED BY <2>1, <2>2, <2>3 DEF lives, callbacks, calledIo
    <2>6. CASE Stutters(s)
        <3>1. lives' = lives /\ callbacks' = callbacks /\ calledIo' = calledIo
            BY <2>4, <2>5, <2>6 DEF Stutters, SameCalls, SameIo
        <3>. QED BY <3>1 DEF Lifecycle!avars, lives, callbacks, calledIo
    <2>7. CASE /\ Life(s) = "absent" /\ Life(s)' = "alive" /\ SameCalls(s)
               /\ OutstandingIo(s)' \in {{}, {"recv"}}
        <3>1. /\ lives[s] = "absent" /\ lives' = [lives EXCEPT ![s] = "alive"]
              /\ \E d \in {{}, {"recv"}} : calledIo' = [calledIo EXCEPT ![s] = d]
              /\ callbacks' = callbacks
            BY <2>1, <2>3, <2>4, <2>5, <2>7 DEF SameCalls
        <3>2. Lifecycle!Open(s)
            BY <3>1 DEF Lifecycle!Open, lives, callbacks, calledIo
        <3>. QED BY <3>2 DEF Lifecycle!Next
    <2>8. CASE /\ StaysAlive(s) /\ SameIo(s)
               /\ ses[s].calls = <<>> /\ ses'[s].calls = <<"Connected">>
        <3>1. /\ lives[s] = "alive" /\ lives' = lives /\ calledIo' = calledIo /\ callbacks[s] = <<>>
              /\ callbacks' = [callbacks EXCEPT ![s] = Append(callbacks[s], "Connected")]
            <4>1. Append(callbacks[s], "Connected") = C
                BY <2>4, <2>8
            <4>. QED BY <2>2, <2>4, <2>5, <2>8, <4>1 DEF StaysAlive, SameIo
        <3>2. Lifecycle!Connected(s)
            BY <3>1 DEF Lifecycle!Connected, Lifecycle!Callback, lives, callbacks, calledIo
        <3>. QED BY <3>2 DEF Lifecycle!Next
    <2>9. CASE /\ StaysAlive(s) /\ SameIo(s)
               /\ ses[s].calls \in {<<>>, <<"Connected">>}
               /\ ses'[s].calls = Append(ses[s].calls, "Disconnected")
        <3>1. /\ lives[s] = "alive" /\ lives' = lives /\ calledIo' = calledIo
              /\ callbacks[s] \in {<<>>, <<"Connected">>}
              /\ callbacks' = [callbacks EXCEPT ![s] = Append(callbacks[s], "Disconnected")]
            BY <2>2, <2>4, <2>5, <2>9 DEF StaysAlive, SameIo
        <3>2. Lifecycle!Disconnected(s)
            BY <3>1 DEF Lifecycle!Disconnected, Lifecycle!Callback, lives, callbacks, calledIo
        <3>. QED BY <3>2 DEF Lifecycle!Next
    <2>10. CASE /\ StaysAlive(s) /\ SameCalls(s) /\ ~Ended(ses[s]) /\ CallsOK(s)
                /\ \E d \in {"recv", "send"} :
                      d \notin OutstandingIo(s) /\ OutstandingIo(s)' = OutstandingIo(s) \union {d}
        <3>1. PICK d \in {"recv", "send"} :
                 d \notin OutstandingIo(s) /\ OutstandingIo(s)' = OutstandingIo(s) \union {d}
            BY <2>10
        <3>2. /\ lives[s] = "alive" /\ lives' = lives /\ callbacks' = callbacks
              /\ d \notin calledIo[s] /\ calledIo' = [calledIo EXCEPT ![s] = calledIo[s] \union {d}]
            <4>1. lives[s] = "alive" /\ L = lives[s] /\ C = callbacks[s]
                BY <2>4, <2>10 DEF StaysAlive, SameCalls
            <4>2. d \notin calledIo[s] /\ O = calledIo[s] \union {d}
                BY <2>4, <3>1
            <4>. QED BY <2>3, <2>5, <4>1, <4>2
        <3>3. ~Lifecycle!Over(s)
            BY <2>10, OverIsEnded
        <3>4. Lifecycle!StartIo(s, d)
            BY <3>2, <3>3 DEF Lifecycle!StartIo, lives, callbacks, calledIo
        <3>. QED BY <3>4 DEF Lifecycle!Next, Lifecycle!Direction
    <2>11. CASE /\ Life(s)' = Life(s) /\ SameCalls(s)
                /\ \E d \in {"recv", "send"} :
                      d \in OutstandingIo(s) /\ OutstandingIo(s)' = OutstandingIo(s) \ {d}
        <3>1. PICK d \in {"recv", "send"} :
                 d \in OutstandingIo(s) /\ OutstandingIo(s)' = OutstandingIo(s) \ {d}
            BY <2>11
        <3>2. /\ lives' = lives /\ callbacks' = callbacks
              /\ d \in calledIo[s] /\ calledIo' = [calledIo EXCEPT ![s] = calledIo[s] \ {d}]
            BY <2>3, <2>4, <2>5, <2>11, <3>1 DEF SameCalls
        <3>3. Lifecycle!FinishIo(s, d)
            BY <3>2 DEF Lifecycle!FinishIo, lives, callbacks, calledIo
        <3>. QED BY <3>3 DEF Lifecycle!Next, Lifecycle!Direction
    <2>12. CASE /\ Life(s) = "alive" /\ Life(s)' = "deleted" /\ SameCalls(s) /\ SameIo(s)
                /\ Ended(ses[s]) /\ OutstandingIo(s) = {}
        <3>1. /\ lives[s] = "alive" /\ lives' = [lives EXCEPT ![s] = "deleted"]
              /\ callbacks' = callbacks /\ calledIo' = calledIo /\ calledIo[s] = {}
            BY <2>1, <2>4, <2>5, <2>12 DEF SameCalls, SameIo
        <3>2. Lifecycle!Over(s)
            BY <2>12, OverIsEnded DEF Promise, PInv
        <3>3. Lifecycle!Delete(s)
            BY <3>1, <3>2 DEF Lifecycle!Delete, lives, callbacks, calledIo
        <3>. QED BY <3>3 DEF Lifecycle!Next
    <2>. QED BY <1>2, <2>6, <2>7, <2>8, <2>9, <2>10, <2>11, <2>12, Zenon DEF Acts
<1>. QED BY <1>1, <1>2 DEF Step

-----------------------------------------------------------------------------
(* Every step of Session.                                                    *)

\* Where a session that something happens to is.
LEMMA WhoIsAlive ==
    ASSUME IInv, NEW s \in Sessions
    PROVE  /\ ses[s] \in SessionRecord /\ SInv(s)
           /\ place[s] \notin {"free", "deleted"} <=> Life(s) = "alive"
           /\ place[s] = "current" \/ s \in todo \/ main.s = s \/ holders[s] # {} => Life(s) = "alive"
           /\ \A w \in Workers : Parsing(w, s) => Life(s) = "alive"
<1>1. ses[s] \in SessionRecord /\ SInv(s)
    BY DEF IInv, TypeOK
<1>2. place[s] \notin {"free", "deleted"} <=> Life(s) = "alive"
    BY DEF Life
<1>. QED BY <1>1, <1>2 DEF SInv, Listed, Deleted, NoRecv

\* The manager's lists, and the callback Dispatch(), concern no promise.
LEMMA ListsStep ==
    ASSUME IInv, Promise,
           \/ BeginPass \/ CallDispatch \/ DestroyBegin \/ DestroyClosed \/ DestroyEnd
           \/ \E s \in Sessions : Add(s)
           \/ UNCHANGED vars
    PROVE  Step
<1>1. SUFFICES ASSUME NEW x \in Sessions PROVE Aside(x)
    BY AllAside
<1>2. ses' = ses /\ worker' = worker
    BY DEF BeginPass, CallDispatch, DestroyBegin, DestroyClosed, DestroyEnd, Add, vars
<1>3. main' = main \/ (main.at = "dispatch" /\ main'.at = "finish")
    BY DEF BeginPass, CallDispatch, DestroyBegin, DestroyClosed, DestroyEnd, Add, vars, IInv, TypeOK, Idle
<1>4. \/ place'[x] = place[x]
      \/ place[x] \in {"to_be_added", "adding"} /\ place'[x] \in {"current", "to_be_added"}
    BY DEF BeginPass, CallDispatch, DestroyBegin, DestroyClosed, DestroyEnd, Add, vars, Splice, IInv, TypeOK
<1>5. Life(x)' = Life(x)
    BY <1>4 DEF Life
<1>. QED BY <1>2, <1>3, <1>5 DEF Aside, Parsing, Inside

\* A step that changes members of one session, by the rules of KeepsAreKept and
\* PostsAct.
LEMMA OneRecord ==
    ASSUME IInv, Promise, IInv', NEW s \in Sessions, NEW q,
           Life(s) = "alive", Keeps(q, ses[s]),
           ses' = [ses EXCEPT ![s] = q], UNCHANGED place,
           \A w \in Workers :
              worker'[w] = worker[w] \/ (worker[w] = [at |-> "again", s |-> s] /\ worker'[w] = Resting),
           \/ main' = main
           \/ /\ {main.s, main'.s} \subseteq {s, NoSession}
              /\ {main.at, main'.at} \subseteq {"idle", "dispatch", "finish"},
           \/ q.recvPosted = ses[s].recvPosted
           \/ NoRecv(s) /\ q.recvPosted # 0 /\ q.sendPosted = ses[s].sendPosted
    PROVE  Step
<1>1. ses'[s] = q /\ \A x \in Sessions \ {s} : ses'[x] = ses[x]
    BY DEF IInv, TypeOK
<1>2. /\ ses[s] \in SessionRecord /\ ses'[s] \in SessionRecord
      /\ place[s] # "free" /\ place'[s] # "free"
      /\ PInv(s)
    BY WhoIsAlive DEF IInv, TypeOK, Promise
<1>3. \A at \in {"connected", "disconnected"} : Inside(s, at)' <=> Inside(s, at)
    BY DEF Inside
<1>4. Kept(s)
    BY <1>1, <1>2, <1>3, KeepsAreKept
<1>5. \A w \in Workers : Parsing(w, s)' <=> Parsing(w, s)
    BY DEF Parsing, Resting
<1>6. StaysAlive(s) /\ SameCalls(s)
    BY <1>1 DEF StaysAlive, SameCalls, Keeps, Life
<1>7. Acts(s)
    BY <1>1, <1>2, <1>5, <1>6, PostsAct DEF Keeps
<1>8. \A x \in Sessions \ {s} : Aside(x)
    <2>1. \A w \in Workers :
             worker'[w] = worker[w] \/ {worker[w].s, worker'[w].s} \subseteq {s, NoSession}
        BY DEF Resting
    <2>. QED BY <1>1, <2>1, OthersAside
<1>. QED BY <1>4, <1>7, <1>8, OneActs

\* The calls of other code, the closing loop of Destroy, the completion of a
\* send, the reference counts and the end of Process change one session.
LEMMA CallsStep ==
    ASSUME IInv, Promise, IInv', NEW s \in Sessions, CallStep(s) \/ DestroyClose(s)
    PROVE  Step
<1>. DEFINE r == ses[s]
<1>1. r \in SessionRecord /\ SInv(s)
    BY WhoIsAlive
<1>2. Life(s) = "alive"
    BY WhoIsAlive DEF CallStep, CloseSession, Shutdown, SuspendRecv, ResumeRecv, SendPending, Send, Call,
                      MayCall, Parsing, DestroyClose
<1>3. ASSUME NEW q, Keeps(q, r), q.recvPosted = r.recvPosted, ses' = [ses EXCEPT ![s] = q],
             UNCHANGED <<place, worker, main>>
      PROVE  Step
    BY <1>2, <1>3, OneRecord
<1>4. CASE CloseSession(s) \/ DestroyClose(s)
    <2>1. InternalCloseSocket(r).recvPosted = r.recvPosted
        BY <1>1, CloseKeepsCounts DEF SameRecv
    <2>2. ses' = [ses EXCEPT ![s] = InternalCloseSocket(r)] /\ UNCHANGED <<place, worker, main>>
        BY <1>4 DEF CloseSession, Call, DestroyClose
    <2>. QED BY <1>1, <1>3, <2>1, <2>2, CloseKeeps
<1>5. ASSUME NEW F, Call(s, [r EXCEPT !.flags = F]),
             F \intersect {"CONNECT_CALLED", "DISCONNECT_PROCESSED"} = Flagged(r),
             "SHUTDOWN_CALLED" \in r.flags => "SHUTDOWN_CALLED" \in F
      PROVE  Step
    <2>. DEFINE q == [r EXCEPT !.flags = F]
    <2>1. /\ q.flags = F /\ q.calls = r.calls /\ SameStream(q, r)
          /\ q.recvPosted = r.recvPosted /\ q.sendPosted = r.sendPosted
        BY <1>1 DEF SessionRecord, SameStream
    <2>2. Keeps(q, r)
        BY <1>5, <2>1, SameStreamFollows DEF Keeps, Flagged
    <2>. QED BY <1>3, <1>5, <2>1, <2>2 DEF Call
<1>6. CASE Shutdown(s)
    BY <1>5, <1>6 DEF Shutdown, Flagged
<1>7. CASE SuspendRecv(s)
    BY <1>5, <1>7 DEF SuspendRecv, Flagged
<1>8. CASE ResumeRecv(s)
    BY <1>5, <1>8 DEF ResumeRecv, Flagged
<1>9. CASE SendPending(s)
    <2>. DEFINE q == [r EXCEPT !.sendQueue = Append(@, r.accepted + 1), !.accepted = @ + 1]
    <2>1. /\ q.sendQueue = Append(r.sendQueue, r.accepted + 1) /\ q.accepted = r.accepted + 1
          /\ q.flags = r.flags /\ q.calls = r.calls /\ q.status = r.status /\ q.socket = r.socket
          /\ q.sent = r.sent /\ q.fin = r.fin
          /\ q.recvPosted = r.recvPosted /\ q.sendPosted = r.sendPosted
        BY <1>1 DEF SessionRecord
    <2>2. StreamOK(r) => StreamOK(q) /\ ~r.fin
        <3>1. r.sent \in Seq(Nat) /\ r.sendQueue \in Seq(Nat) /\ r.accepted \in Nat
            BY <1>1 DEF SessionRecord
        <3>2. "SHUTDOWN_CALLED" \notin r.flags
            BY <1>9 DEF SendPending
        <3>3. r.sent \o r.sendQueue = [i \in 1 .. r.accepted |-> i]
                => q.sent \o q.sendQueue = [i \in 1 .. q.accepted |-> i]
            <4>. DEFINE Count(n) == [i \in 1 .. n |-> i]
            <4>1. \A v, w \in Seq(Nat), n \in Nat :
                     v \o w = Count(n) => v \o Append(w, n + 1) = Count(n + 1)
                BY NextNumber
            <4>. HIDE DEF q, r, Count
            <4>2. r.sent \o r.sendQueue = Count(r.accepted)
                    => r.sent \o Append(r.sendQueue, r.accepted + 1) = Count(r.accepted + 1)
                BY <3>1, <4>1, Zenon
            <4>3. r.sent \o r.sendQueue = Count(r.accepted) => q.sent \o q.sendQueue = Count(q.accepted)
                BY <2>1, <4>2, Zenon
            <4>. QED BY <4>3 DEF Count
        <3>. QED BY <2>1, <3>2, <3>3 DEF StreamOK
    <2>3. Keeps(q, r)
        BY <2>1, <2>2 DEF Keeps, Follows, Flagged, Linked
    <2>. QED BY <1>3, <1>9, <2>1, <2>3 DEF SendPending, Call
<1>10. CASE Send(s)
    <2>1. PICK q \in InternalSend(r) : Call(s, q)
        BY <1>10 DEF Send
    <2>2. q.recvPosted = r.recvPosted
        BY <1>1, SendCounts DEF SInv, SendCount, SameRecv
    <2>. QED BY <1>1, <1>3, <2>1, <2>2, SendKeeps DEF Call
<1>. QED BY <1>4, <1>6, <1>7, <1>8, <1>9, <1>10 DEF CallStep

\* References come and go.
LEMMA HoldersStep ==
    ASSUME IInv, Promise, IInv', NEW s \in Sessions, NEW u \in Users, AddRef(u, s) \/ Release(u, s)
    PROVE  Step
<1>1. ses[s] \in SessionRecord /\ Life(s) = "alive"
    BY WhoIsAlive DEF AddRef, Release, Registered
<1>2. PICK n : ses' = [ses EXCEPT ![s].refCount = n] /\ UNCHANGED <<place, worker, main>>
    <2>. DEFINE m == IF AddRef(u, s) THEN ses[s].refCount + 1 ELSE ses[s].refCount - 1
    <2>1. ses' = [ses EXCEPT ![s].refCount = m] /\ UNCHANGED <<place, worker, main>>
        BY DEF AddRef, Release
    <2>. HIDE DEF m
    <2>. QED BY <2>1
<1>. DEFINE q == [ses[s] EXCEPT !.refCount = n]
<1>3. /\ q.flags = ses[s].flags /\ q.calls = ses[s].calls /\ SameStream(q, ses[s])
      /\ q.recvPosted = ses[s].recvPosted /\ q.sendPosted = ses[s].sendPosted
    BY <1>1 DEF SessionRecord, SameStream
<1>4. Keeps(q, ses[s]) /\ ses' = [ses EXCEPT ![s] = q]
    BY <1>2, <1>3, SameStreamFollows DEF Keeps, Flagged
<1>. HIDE DEF q
<1>. QED BY <1>1, <1>2, <1>3, <1>4, OneRecord

\* A counter may take any value.
LEMMA CountKeeps ==
    ASSUME NEW r \in SessionRecord, NEW n
    PROVE  /\ Keeps([r EXCEPT !.refCount = n], r)
           /\ Keeps([r EXCEPT !.recvPending = n], r)
           /\ Keeps([r EXCEPT !.sendPosted = 0, !.sendPending = 0], r)
<1>1. ASSUME NEW q, q.flags = r.flags, q.calls = r.calls, SameStream(q, r),
             q.recvPosted = r.recvPosted, q.sendPosted \in {0, r.sendPosted}
      PROVE  Keeps(q, r)
    BY <1>1, SameStreamFollows DEF Keeps, Flagged
<1>2. Keeps([r EXCEPT !.refCount = n], r)
    BY <1>1 DEF SessionRecord, SameStream
<1>3. Keeps([r EXCEPT !.recvPending = n], r)
    BY <1>1 DEF SessionRecord, SameStream
<1>4. Keeps([r EXCEPT !.sendPosted = 0, !.sendPending = 0], r)
    BY <1>1 DEF SessionRecord, SameStream
<1>. QED BY <1>2, <1>3, <1>4

\* The second locked section of Process sends, shuts down and may close.
LEMMA ProcessEndStep ==
    ASSUME IInv, Promise, IInv', ProcessEnd
    PROVE  Step
<1>. DEFINE s == main.s
            r == ses[s]
<1>1. s \in Sessions /\ main.at = "finish"
    BY MainSession DEF ProcessEnd
<1>. HIDE DEF s
<1>2. r \in SessionRecord /\ SendCount(s) /\ Life(s) = "alive"
    BY <1>1, WhoIsAlive DEF s, SInv
<1>3. PICK p \in InternalSend(r) : \E q \in ShutdownWhenDrained(p) :
          ses' = [ses EXCEPT ![s] = LeaveProcess(q, main.close)]
    BY DEF ProcessEnd, s
<1>4. PICK q \in ShutdownWhenDrained(p) : ses' = [ses EXCEPT ![s] = LeaveProcess(q, main.close)]
    BY <1>3
<1>5. p \in SessionRecord /\ Keeps(p, r) /\ p.recvPosted = r.recvPosted
    BY <1>2, SendCounts, SendKeeps DEF SendCount, SameRecv
<1>6. q \in SessionRecord /\ Keeps(q, p) /\ q.recvPosted = p.recvPosted
    BY <1>5, ShutdownKeepsCounts, ShutdownKeeps DEF SameRecv
<1>. DEFINE released == [q EXCEPT !.refCount = @ - 1]
<1>7. released \in SessionRecord /\ Keeps(released, q) /\ released.recvPosted = q.recvPosted
    <2>1. q.refCount - 1 \in Int
        BY <1>6, CountTypes
    <2>2. released \in SessionRecord
        BY <1>6, <2>1, CountUpdates
    <2>3. released.recvPosted = q.recvPosted
        BY <1>6 DEF SessionRecord
    <2>. QED BY <1>6, <2>2, <2>3, CountKeeps
<1>. HIDE DEF released
<1>8. /\ Keeps(InternalCloseSocket(released), released)
      /\ InternalCloseSocket(released).recvPosted = released.recvPosted
    BY <1>7, CloseKeeps, CloseKeepsCounts DEF SameRecv
<1>9. Keeps(LeaveProcess(q, main.close), q) /\ LeaveProcess(q, main.close).recvPosted = q.recvPosted
    BY <1>7, <1>8, KeepsTransitive DEF LeaveProcess, released
<1>10. Keeps(LeaveProcess(q, main.close), r) /\ LeaveProcess(q, main.close).recvPosted = r.recvPosted
    BY <1>5, <1>6, <1>9, KeepsTransitive
<1>11. /\ UNCHANGED <<place, worker>> /\ {main.s, main'.s} \subseteq {s, NoSession}
       /\ {main.at, main'.at} \subseteq {"idle", "dispatch", "finish"}
    BY <1>1 DEF ProcessEnd, Idle, s
<1>. QED BY <1>1, <1>2, <1>4, <1>10, <1>11, OneRecord

\* A send completes, and may post the next one.
LEMMA SendCompletedStep ==
    ASSUME IInv, Promise, IInv', NEW s \in Sessions, SendCompleted(s)
    PROVE  Step
<1>1. /\ ses[s] \in SessionRecord /\ ses[s].sendPosted = 1 /\ ses[s].sendPending = 1
      /\ Life(s) = "alive" /\ UNCHANGED <<place, worker, main>>
    <2>1. ses[s] \in SessionRecord /\ SInv(s) /\ ses[s].sendPosted > 0 /\ PInv(s)
        BY WhoIsAlive DEF SendCompleted, Promise
    <2>2. ses[s].sendPosted = 1 /\ ses[s].sendPending = 1
        BY <2>1, CountTypes DEF SInv, SendCount
    <2>3. place[s] # "free" /\ place[s] # "deleted"
        BY <2>1, <2>2 DEF PInv, NewSession, SInv, Deleted
    <2>. QED BY <2>1, <2>2, <2>3, WhoIsAlive DEF SendCompleted
<1>. DEFINE r == [ses[s] EXCEPT !.sendPosted = 0, !.sendPending = 0]
<1>2. r \in SessionRecord /\ Keeps(r, ses[s])
    BY <1>1, CountUpdates, CountKeeps
<1>3. r.sendPending = r.sendPosted /\ r.recvPosted = ses[s].recvPosted
    BY <1>1 DEF SessionRecord
<1>4. r = [ses[s] EXCEPT !.sendPosted = @ - 1, !.sendPending = @ - 1]
    BY <1>1
<1>5. \E q \in InternalSend(r) \union {InternalCloseSocket(r)} : ses' = [ses EXCEPT ![s] = q]
    BY <1>4 DEF SendCompleted
<1>. HIDE DEF r
<1>6. PICK q \in InternalSend(r) \union {InternalCloseSocket(r)} : ses' = [ses EXCEPT ![s] = q]
    BY <1>5
<1>7. Keeps(q, r) /\ q.recvPosted = r.recvPosted
    BY <1>2, <1>3, SendKeeps, CloseKeeps, SendCounts, CloseKeepsCounts DEF SameRecv
<1>8. Keeps(q, ses[s]) /\ q.recvPosted = ses[s].recvPosted
    BY <1>2, <1>3, <1>7, KeepsTransitive
<1>. QED BY <1>1, <1>6, <1>8, OneRecord

\* The receive after Dispatch: nothing is posted while another receive is out, nor
\* on a closed session.
LEMMA RecvAgainStep ==
    ASSUME IInv, Promise, IInv', NEW w \in Workers, RecvAgain(w)
    PROVE  Step
<1>1. PICK s \in Sessions : worker[w] = [at |-> "again", s |-> s]
    BY DEF RecvAgain, IInv, TypeOK, Resting
<1>2. /\ ses[s] \in SessionRecord /\ SInv(s) /\ Again(w, s)
      /\ worker' = [worker EXCEPT ![w] = Resting] /\ UNCHANGED <<place, main>>
    BY <1>1, WhoIsAlive DEF RecvAgain, Again
<1>3. \A v \in Workers :
         worker'[v] = worker[v] \/ (worker[v] = [at |-> "again", s |-> s] /\ worker'[v] = Resting)
    BY <1>1, <1>2 DEF IInv, TypeOK
<1>4. CASE place[s] = "deleted"
    <2>1. ses' = ses
        BY <1>1, <1>4 DEF RecvAgain
    <2>2. ASSUME NEW x \in Sessions
          PROVE  Aside(x)
        <3>1. \A v \in Workers : Parsing(v, x)' <=> Parsing(v, x)
            BY <1>3 DEF Parsing, Resting
        <3>. QED BY <1>2, <2>1, <3>1 DEF Aside, Life, Inside
    <2>. QED BY <2>2, AllAside
<1>5. CASE place[s] # "deleted"
    <2>1. PICK q \in InternalRecv(ses[s]) : ses' = [ses EXCEPT ![s] = q]
        BY <1>1, <1>5 DEF RecvAgain
    <2>2. place[s] # "free" /\ (place[s] = "counting" => ses[s].recvPending # 0 /\ NoRecv(s))
        BY <1>2 DEF SInv, Counting, Listed
    <2>3. ses[s].recvPending = 0 => ses[s].recvPosted = 0
        BY <1>2, <2>2, TrustedCount
    <2>4. \/ q.recvPosted = ses[s].recvPosted
          \/ NoRecv(s) /\ q.recvPosted # 0 /\ q.sendPosted = ses[s].sendPosted
        BY <1>2, <2>1, <2>2, <2>3, RecvCounts DEF SInv, RecvCount, SameRecv, SameSend
    <2>5. Keeps(q, ses[s]) /\ Life(s) = "alive"
        BY <1>2, <1>5, <2>1, <2>2, RecvKeeps, WhoIsAlive
    <2>. QED BY <1>2, <1>3, <2>1, <2>4, <2>5, OneRecord
<1>. QED BY <1>4, <1>5

\* A session opens, with its first receive posted or with its socket closed.
LEMMA OpenStep ==
    ASSUME IInv, Promise, IInv', NEW s \in Sessions, Open(s)
    PROVE  Step
<1>1. /\ place[s] = "free" /\ ses[s] = NewSession /\ PInv(s) /\ SInv(s) /\ Life(s) = "absent"
      /\ NewSession \in SessionRecord
    BY WhoIsAlive DEF Open, Promise, PInv, Life
<1>. DEFINE posted == [NewSession EXCEPT !.recvPosted = 1]
<1>2. Keeps(posted, NewSession) /\ posted.sendPosted = 0
    <2>1. /\ posted.flags = NewSession.flags /\ posted.calls = NewSession.calls
          /\ SameStream(posted, NewSession) /\ posted.sendPosted = NewSession.sendPosted
          /\ NewSession.socket # "INVALID"
        BY DEF NewSession, SameStream
    <2>2. NewSession.sendPosted = 0
        BY DEF NewSession
    <2>. QED BY <2>1, <2>2, SameStreamFollows DEF Keeps, Flagged
<1>3. ASSUME NEW q \in InternalRecv(NewSession)
      PROVE  Keeps(q, NewSession) /\ q.sendPosted = 0
    <2>1. NewSession.recvPosted = 0 /\ NewSession.sendPosted = 0
        BY DEF NewSession
    <2>. QED BY <1>1, <1>3, <2>1, RecvKeeps, RecvCounts DEF SameSend
<1>. HIDE DEF posted
<1>4. PICK q : ses' = [ses EXCEPT ![s] = q] /\ Keeps(q, NewSession) /\ q.sendPosted = 0
    <2>1. CASE ses' = [ses EXCEPT ![s] = posted]
        BY <1>2, <2>1
    <2>2. CASE \E r \in InternalRecv(NewSession) : ses' = [ses EXCEPT ![s] = r]
        BY <1>3, <2>2
    <2>. QED BY <2>1, <2>2 DEF Open, posted
<1>5. /\ ses'[s] = q /\ place'[s] \in {"counting", "adding"} /\ worker' = worker /\ main' = main
      /\ \A x \in Sessions \ {s} : ses'[x] = ses[x] /\ place'[x] = place[x]
    <2>1. ses'[s] = q /\ \A x \in Sessions \ {s} : ses'[x] = ses[x]
        BY <1>4 DEF IInv, TypeOK
    <2>2. place'[s] \in {"counting", "adding"} /\ \A x \in Sessions \ {s} : place'[x] = place[x]
        BY DEF IInv, TypeOK, Open
    <2>. QED BY <2>1, <2>2 DEF Open
<1>6. Kept(s)
    BY <1>1, <1>4, <1>5, KeepsAreKept DEF Inside
<1>7. OutstandingIo(s)' \in {{}, {"recv"}}
    <2>1. OutstandingIo(s)' \subseteq {"recv"}
        BY <1>4, <1>5 DEF OutstandingIo
    <2>. QED BY <2>1
<1>8. Acts(s)
    <2>1. Life(s)' = "alive"
        BY <1>5 DEF Life
    <2>2. SameCalls(s)
        BY <1>1, <1>4, <1>5 DEF SameCalls, Keeps
    <2>. QED BY <1>1, <1>7, <2>1, <2>2 DEF Acts
<1>. QED BY <1>5, <1>6, <1>8, OthersAside, OneActs

\* The first receive is counted, at last.
LEMMA CountFirstStep ==
    ASSUME IInv, Promise, IInv', NEW s \in Sessions, CountFirstRecv(s)
    PROVE  Step
<1>1. ses[s] \in SessionRecord /\ ses'[s] \in SessionRecord /\ PInv(s) /\ place[s] = "counting"
    BY DEF CountFirstRecv, IInv, TypeOK, Promise
<1>. DEFINE q == [ses[s] EXCEPT !.recvPending = @ + 1]
<1>2. /\ ses'[s] = q /\ place'[s] = "adding" /\ worker' = worker /\ main' = main
      /\ \A x \in Sessions \ {s} : ses'[x] = ses[x] /\ place'[x] = place[x]
    BY DEF CountFirstRecv, IInv, TypeOK
<1>3. Keeps(q, ses[s]) /\ q.recvPosted = ses[s].recvPosted
    BY <1>1, CountKeeps DEF SessionRecord
<1>. HIDE DEF q
<1>4. Kept(s)
    BY <1>1, <1>2, <1>3, KeepsAreKept DEF Inside
<1>5. StaysAlive(s) /\ SameCalls(s)
    BY <1>1, <1>2, <1>3 DEF StaysAlive, SameCalls, Keeps, Life
<1>6. \A w \in Workers : Parsing(w, s)' <=> Parsing(w, s)
    BY <1>2 DEF Parsing
<1>7. Acts(s)
    BY <1>1, <1>2, <1>3, <1>5, <1>6, PostsAct DEF Keeps
<1>. QED BY <1>2, <1>4, <1>7, OthersAside, OneActs

\* A session is eliminated after Disconnected() has returned, with no call out.
LEMMA EliminateStep ==
    ASSUME IInv, Promise, NEW s \in Sessions, Eliminate(s)
    PROVE  Step
<1>. DEFINE q == InternalCloseSocket(ses[s])
<1>1. /\ ses[s] \in SessionRecord /\ SInv(s) /\ PInv(s) /\ Life(s) = "alive"
      /\ place[s] = "current" /\ main.s # s
    BY WhoIsAlive, SessionAssumption DEF Eliminate, Next1, Idle, SInv, Listed, Promise
<1>2. /\ ses'[s] = q /\ place'[s] = "deleted" /\ worker' = worker /\ main' = main
      /\ \A x \in Sessions \ {s} : ses'[x] = ses[x] /\ place'[x] = place[x]
    BY DEF Eliminate, IInv, TypeOK
<1>3. Keeps(q, ses[s]) /\ q.recvPosted = ses[s].recvPosted /\ q.sendPosted = ses[s].sendPosted
    BY <1>1, CloseKeeps, CloseKeepsCounts DEF SameRecv, SameSend
<1>. HIDE DEF q
<1>4. Kept(s)
    BY <1>1, <1>2, <1>3, KeepsAreKept DEF Inside
<1>5. OutstandingIo(s) = {} /\ SameIo(s)
    <2>1. NoRecv(s) /\ ses[s].sendPosted = 0
        BY <1>1 DEF SInv, RecvCount, SendCount, Eliminate, Quiet
    <2>2. NoRecv(s)' /\ ses'[s].sendPosted = 0
        BY <1>2, <1>3, <2>1 DEF NoRecv, Parsing
    <2>. QED BY <2>1, <2>2 DEF NoRecv, OutstandingIo, SameIo
<1>6. Ended(ses[s]) /\ SameCalls(s)
    BY <1>1, <1>2, <1>3 DEF PInv, CallsOK, Inside, Eliminate, SameCalls, Keeps
<1>7. Life(s)' = "deleted"
    BY <1>2 DEF Life
<1>8. Acts(s)
    BY <1>1, <1>5, <1>6, <1>7 DEF Acts
<1>. QED BY <1>2, <1>4, <1>8, OthersAside, OneActs

\* The callback that Process decides on is one that the session has not had.
Decides(s, r, at) ==
    \/ at \in {"dispatch", "finish"} /\ Flagged(r) = Flagged(ses[s])
    \/ /\ at = "connected" /\ ses[s].status = "CONNECTED"
       /\ "CONNECT_CALLED" \notin ses[s].flags
       /\ Flagged(r) = Flagged(ses[s]) \union {"CONNECT_CALLED"}
    \/ /\ at = "disconnected" /\ ses[s].status = "DISCONNECTED"
       /\ "DISCONNECT_PROCESSED" \notin ses[s].flags
       /\ Flagged(r) = Flagged(ses[s]) \union {"DISCONNECT_PROCESSED"}

\* The common end of the first locked section of Process.
LEMMA VisitStep ==
    ASSUME IInv, Promise, IInv', NEW s \in Sessions, Next1(s), NEW r \in SessionRecord,
           Follows(r, ses[s]), r.calls = ses[s].calls,
           \/ r.recvPosted = ses[s].recvPosted
           \/ NoRecv(s) /\ r.recvPosted # 0 /\ r.sendPosted = ses[s].sendPosted,
           NEW at, Decides(s, r, at), Visit(s, r, at)
    PROVE  Step
<1>. DEFINE q == [r EXCEPT !.refCount = r.refCount + 1]
<1>1. /\ ses[s] \in SessionRecord /\ PInv(s) /\ place[s] = "current" /\ main = Idle
      /\ main.s = NoSession /\ s # NoSession
    BY WhoIsAlive, SessionAssumption DEF Next1, Promise, SInv, Listed, Idle
<1>2. Keeps(q, r) /\ q.recvPosted = r.recvPosted /\ q.sendPosted = r.sendPosted
    BY CountKeeps DEF SessionRecord
<1>3. /\ ses' = [ses EXCEPT ![s] = q] /\ main' = [at |-> at, s |-> s, close |-> FALSE]
      /\ UNCHANGED <<place, worker>>
    BY DEF Visit
<1>4. /\ ses'[s] = q /\ \A x \in Sessions \ {s} : ses'[x] = ses[x]
      /\ main'.s = s /\ main'.at = at
    BY <1>3 DEF IInv, TypeOK
<1>. HIDE DEF q
<1>5. Follows(q, ses[s]) /\ q.calls = ses[s].calls /\ Flagged(q) = Flagged(r)
    BY <1>2, FollowsTransitive DEF Keeps
<1>6. StreamOK(q) /\ Linked(q) /\ (ses[s].fin => q.sent = ses[s].sent)
      /\ (ses[s].status = "DISCONNECTED" => q.status = "DISCONNECTED")
    BY <1>1, <1>5 DEF PInv, Follows
<1>7. CallsOK(s)'
    <2>1. ~Inside(s, "connected") /\ ~Inside(s, "disconnected")
        BY <1>1 DEF Inside
    <2>2. \A a : Inside(s, a)' <=> a = at
        BY <1>4 DEF Inside
    <2>3. CallsOK(s) /\ (Ended(q) <=> Ended(ses[s])) /\ (Ended(ses[s])' <=> Ended(q))
        BY <1>1, <1>4, <1>5 DEF PInv, Ended
    <2>4. CASE at \in {"dispatch", "finish"} /\ Flagged(r) = Flagged(ses[s])
        <3>1. /\ "CONNECT_CALLED" \in q.flags <=> "CONNECT_CALLED" \in ses[s].flags
              /\ "DISCONNECT_PROCESSED" \in q.flags <=> "DISCONNECT_PROCESSED" \in ses[s].flags
            BY <1>5, <2>4 DEF Flagged
        <3>. QED BY <1>4, <1>5, <1>6, <2>1, <2>2, <2>3, <2>4, <3>1 DEF CallsOK
    <2>5. CASE /\ at = "connected" /\ ses[s].status = "CONNECTED"
               /\ "CONNECT_CALLED" \notin ses[s].flags
               /\ Flagged(r) = Flagged(ses[s]) \union {"CONNECT_CALLED"}
        <3>1. /\ "CONNECT_CALLED" \in q.flags
              /\ "DISCONNECT_PROCESSED" \in q.flags <=> "DISCONNECT_PROCESSED" \in ses[s].flags
            BY <1>5, <2>5 DEF Flagged
        <3>2. "DISCONNECT_PROCESSED" \notin ses[s].flags /\ ~Ended(ses[s]) /\ ses[s].calls = <<>>
            BY <2>3, <2>5 DEF CallsOK, Ended
        <3>. QED BY <1>4, <1>5, <2>1, <2>2, <2>3, <2>5, <3>1, <3>2 DEF CallsOK
    <2>6. CASE /\ at = "disconnected" /\ ses[s].status = "DISCONNECTED"
               /\ "DISCONNECT_PROCESSED" \notin ses[s].flags
               /\ Flagged(r) = Flagged(ses[s]) \union {"DISCONNECT_PROCESSED"}
        <3>1. /\ "CONNECT_CALLED" \in q.flags <=> "CONNECT_CALLED" \in ses[s].flags
              /\ "DISCONNECT_PROCESSED" \in q.flags
            BY <1>5, <2>6 DEF Flagged
        <3>2. ~Ended(ses[s])
            BY <2>3, <2>6 DEF CallsOK
        <3>. QED BY <1>4, <1>5, <1>6, <2>1, <2>2, <2>3, <2>6, <3>1, <3>2 DEF CallsOK
    <2>. QED BY <2>4, <2>5, <2>6 DEF Decides
<1>8. Kept(s)
    BY <1>1, <1>3, <1>4, <1>6, <1>7 DEF Kept, PInv
<1>9. Acts(s)
    <2>1. StaysAlive(s) /\ SameCalls(s)
        BY <1>1, <1>3, <1>4, <1>5 DEF StaysAlive, SameCalls, Life
    <2>2. \A w \in Workers : Parsing(w, s)' <=> Parsing(w, s)
        BY <1>3 DEF Parsing
    <2>3. ses'[s] \in SessionRecord
        BY DEF IInv, TypeOK
    <2>. QED BY <1>1, <1>2, <1>4, <1>5, <2>1, <2>2, <2>3, PostsAct
<1>10. \A x \in Sessions \ {s} : Aside(x)
    BY <1>1, <1>3, <1>4, OthersAside
<1>. QED BY <1>8, <1>9, <1>10, OneActs

\* The first locked section of Process, when it does not delete the session.
LEMMA ProcessStep ==
    ASSUME IInv, Promise, IInv', NEW s \in Sessions, ProcessConnected(s) \/ ProcessDisconnected(s)
    PROVE  Step
<1>. DEFINE r == ses[s]
<1>1. /\ Next1(s) /\ place[s] = "current" /\ r \in SessionRecord /\ SInv(s)
      /\ r.flags \in SUBSET SessionFlag
    BY WhoIsAlive DEF ProcessConnected, ProcessDisconnected, Next1, SInv, Listed, SessionRecord
<1>2. ASSUME NEW F \in SUBSET SessionFlag, r.flags \subseteq F
      PROVE  LET f == [r EXCEPT !.flags = F]
             IN  /\ f \in SessionRecord /\ f.flags = F /\ f.calls = r.calls /\ Follows(f, r)
                 /\ SameRecv(f, r) /\ SameSend(f, r)
    <2>. DEFINE f == [r EXCEPT !.flags = F]
    <2>1. /\ f.flags = F /\ f.calls = r.calls /\ SameStream(f, r)
          /\ SameRecv(f, r) /\ SameSend(f, r)
        BY <1>1 DEF SessionRecord, SameStream, SameRecv, SameSend
    <2>2. f \in SessionRecord
        BY <1>1, CountUpdates
    <2>3. Follows(f, r)
        <3>. HIDE DEF f, r
        <3>. QED BY <1>2, <2>1, SameStreamFollows DEF SameRecv, SameSend
    <2>. QED BY <2>1, <2>2, <2>3
<1>3. CASE ProcessConnected(s)
    <2>. DEFINE F == r.flags \union {"CONNECT_CALLED"}
                f == [r EXCEPT !.flags = F]
                at == IF "CONNECT_CALLED" \in r.flags THEN "dispatch" ELSE "connected"
    <2>1. PICK q \in InternalRecv(f) : Visit(s, q, at)
        BY <1>3 DEF ProcessConnected
    <2>2. F \in SUBSET SessionFlag /\ r.flags \subseteq F
        BY <1>1 DEF SessionFlag
    <2>. HIDE DEF F
    <2>3. /\ f \in SessionRecord /\ f.flags = F /\ f.calls = r.calls /\ Follows(f, r)
          /\ SameRecv(f, r) /\ SameSend(f, r)
        BY <1>2, <2>2
    <2>. HIDE DEF f
    <2>4. f.recvPending = 0 => f.recvPosted = 0 /\ NoRecv(s)
        BY <1>1, <2>3 DEF SInv, RecvCount, NoRecv, SameRecv
    <2>5. /\ q \in SessionRecord
          /\ \/ q.recvPosted = f.recvPosted
             \/ f.recvPending = 0 /\ q.recvPosted # 0 /\ q.sendPosted = f.sendPosted
        BY <2>1, <2>3, <2>4, RecvCounts DEF SameRecv, SameSend
    <2>6. \/ q.recvPosted = r.recvPosted
          \/ NoRecv(s) /\ q.recvPosted # 0 /\ q.sendPosted = r.sendPosted
        BY <2>3, <2>4, <2>5 DEF SameRecv, SameSend
    <2>7. Follows(q, f) /\ q.calls = f.calls /\ Flagged(q) = Flagged(f)
        BY <2>1, <2>3, RecvKeeps DEF Keeps
    <2>8. Follows(q, r) /\ q.calls = r.calls
        <3>. HIDE DEF r
        <3>. QED BY <2>3, <2>7, FollowsTransitive
    <2>9. Decides(s, q, at)
        <3>1. Flagged(q) = Flagged(r) \union {"CONNECT_CALLED"}
            BY <2>3, <2>7 DEF Flagged, F
        <3>2. ("CONNECT_CALLED" \in r.flags) => Flagged(q) = Flagged(r)
            BY <3>1 DEF Flagged
        <3>. QED BY <1>3, <3>1, <3>2 DEF Decides, ProcessConnected
    <2>. HIDE DEF at
    <2>. QED BY <1>1, <2>1, <2>5, <2>6, <2>8, <2>9, VisitStep
<1>4. CASE ProcessDisconnected(s) /\ Visit(s, r, "finish")
    <2>1. Follows(r, r) /\ Decides(s, r, "finish")
        BY DEF Follows, Decides
    <2>. QED BY <1>1, <1>4, <2>1, VisitStep
<1>5. CASE /\ "DISCONNECT_PROCESSED" \notin r.flags /\ r.status = "DISCONNECTED"
           /\ Visit(s, [r EXCEPT !.flags = @ \union {"DISCONNECT_PROCESSED"}], "disconnected")
    <2>. DEFINE F == r.flags \union {"DISCONNECT_PROCESSED"}
                f == [r EXCEPT !.flags = F]
    <2>1. F \in SUBSET SessionFlag /\ r.flags \subseteq F
        BY <1>1 DEF SessionFlag
    <2>. HIDE DEF F
    <2>2. /\ f \in SessionRecord /\ f.flags = F /\ f.calls = r.calls /\ Follows(f, r)
          /\ f.recvPosted = r.recvPosted
        BY <1>2, <2>1 DEF SameRecv
    <2>3. Visit(s, f, "disconnected")
        BY <1>5 DEF F
    <2>. HIDE DEF f
    <2>4. Decides(s, f, "disconnected")
        BY <1>5, <2>2 DEF Decides, Flagged, F
    <2>. QED BY <1>1, <2>2, <2>3, <2>4, VisitStep
<1>. QED BY <1>3, <1>4, <1>5 DEF ProcessDisconnected

\* A callback that returns was decided, and had not been called.
LEMMA CallbackStep ==
    ASSUME IInv, Promise, IInv', CallConnected \/ CallDisconnected
    PROVE  Step
<1>1. PICK s \in Sessions :
          main.s = s /\ place[s] = "current" /\ main.at \in {"connected", "disconnected"}
    BY MainSession DEF CallConnected, CallDisconnected
<1>. DEFINE r == ses[s]
<1>2. r \in SessionRecord /\ PInv(s) /\ main.s = s
    BY <1>1 DEF IInv, TypeOK, Promise
<1>3. PICK c \in {"Connected", "Disconnected"} :
          /\ ses' = [ses EXCEPT ![s].calls = Append(@, c)]
          /\ c = "Connected" => main.at = "connected" /\ main' = [main EXCEPT !.at = "dispatch"]
          /\ c = "Disconnected" => main.at = "disconnected" /\ main' = [main EXCEPT !.at = "finish"]
    BY <1>1 DEF CallConnected, CallDisconnected, Returned
<1>. DEFINE C == Append(r.calls, c)
            q == [r EXCEPT !.calls = C]
<1>4. ses'[s] = q /\ \A x \in Sessions \ {s} : ses'[x] = ses[x]
    BY <1>1, <1>3 DEF IInv, TypeOK
<1>5. /\ q.calls = C /\ q.flags = r.flags /\ SameStream(q, r)
      /\ q.recvPosted = r.recvPosted /\ q.sendPosted = r.sendPosted
    BY <1>2 DEF SessionRecord, SameStream
<1>6. main'.s = s /\ main'.at \in {"dispatch", "finish"} /\ place' = place /\ worker' = worker
    BY <1>1, <1>2, <1>3 DEF CallConnected, CallDisconnected, IInv, TypeOK, Idle
<1>. HIDE DEF q, r, C
<1>7. /\ c = "Connected" => r.calls = <<>> /\ C = <<"Connected">> /\ "CONNECT_CALLED" \in r.flags
                            /\ "DISCONNECT_PROCESSED" \notin r.flags
      /\ c = "Disconnected" =>
            /\ r.calls \in {<<>>, <<"Connected">>} /\ "DISCONNECT_PROCESSED" \in r.flags
            /\ C \in {<<"Disconnected">>, <<"Connected", "Disconnected">>}
            /\ "CONNECT_CALLED" \notin r.flags => C = <<"Disconnected">>
    <2>1. CallsOK(s) /\ main.s = s
        BY <1>2 DEF PInv
    <2>2. CASE c = "Connected"
        <3>1. Inside(s, "connected") /\ ~Inside(s, "disconnected")
            BY <1>3, <2>1, <2>2 DEF Inside
        <3>2. r.calls = <<>> /\ "CONNECT_CALLED" \in r.flags
            BY <2>1, <3>1 DEF CallsOK, r
        <3>3. ~Ended(r)
            BY <3>2 DEF Ended
        <3>. QED BY <2>1, <2>2, <3>1, <3>2, <3>3 DEF CallsOK, C, r
    <2>3. CASE c = "Disconnected"
        <3>1. Inside(s, "disconnected")
            BY <1>3, <2>1, <2>3 DEF Inside
        <3>2. /\ "DISCONNECT_PROCESSED" \in r.flags /\ r.calls \in {<<>>, <<"Connected">>}
              /\ "CONNECT_CALLED" \notin r.flags => r.calls = <<>>
            BY <2>1, <3>1 DEF CallsOK, Ended, r
        <3>3. /\ Append(<<>>, "Disconnected") = <<"Disconnected">>
              /\ Append(<<"Connected">>, "Disconnected") = <<"Connected", "Disconnected">>
            BY BothCalls
        <3>4. C = Append(r.calls, "Disconnected")
            BY <2>3 DEF C
        <3>. QED BY <2>3, <3>2, <3>3, <3>4, Zenon
    <2>. QED BY <2>2, <2>3
<1>8. StreamOK(q) /\ Linked(q) /\ q.sent = r.sent /\ q.status = r.status
    BY <1>2, <1>5 DEF PInv, StreamOK, Linked, SameStream, r
<1>9. CallsOK(s)'
    <2>1. ~Inside(s, "connected")' /\ ~Inside(s, "disconnected")'
        BY <1>6 DEF Inside
    <2>2. Ended(q) <=> c = "Disconnected"
        BY <1>5, <1>7 DEF Ended
    <2>3. "DISCONNECT_PROCESSED" \in r.flags => r.status = "DISCONNECTED"
        BY <1>2 DEF PInv, CallsOK, r
    <2>. QED BY <1>4, <1>5, <1>7, <1>8, <2>1, <2>2, <2>3 DEF CallsOK
<1>10. Kept(s)
    BY <1>1, <1>4, <1>6, <1>8, <1>9 DEF Kept, PInv, r
<1>11. StaysAlive(s) /\ SameIo(s)
    <2>1. OutstandingIo(s)' = OutstandingIo(s)
        BY <1>4, <1>5, <1>6 DEF OutstandingIo, Parsing, r
    <2>. QED BY <1>1, <1>6, <2>1 DEF StaysAlive, SameIo, Life
<1>12. ses'[s].calls = C /\ ses[s].calls = r.calls
    BY <1>4, <1>5 DEF r
<1>13. Acts(s)
    <2>1. CASE c = "Connected"
        BY <1>7, <1>11, <1>12, <2>1 DEF Acts
    <2>2. CASE c = "Disconnected"
        BY <1>7, <1>11, <1>12, <2>2 DEF Acts, C
    <2>. QED BY <2>1, <2>2
<1>14. \A x \in Sessions \ {s} : Aside(x)
    BY <1>1, <1>2, <1>4, <1>6, OthersAside
<1>. QED BY <1>1, <1>10, <1>13, <1>14, OneActs

\* A worker takes a completion: the call is still out while the buffer is parsed.
LEMMA TakeRecvStep ==
    ASSUME IInv, Promise, IInv', NEW w \in Workers, NEW s \in Sessions, TakeRecv(w, s)
    PROVE  Step
<1>1. /\ ses[s] \in SessionRecord /\ SInv(s) /\ PInv(s) /\ ses[s].recvPosted = 1
      /\ worker[w] = Resting
    BY WhoIsAlive, CountTypes DEF TakeRecv, Promise
<1>2. Life(s) = "alive" /\ place[s] # "free"
    BY <1>1, WhoIsAlive DEF PInv, NewSession, SInv, Deleted, NoRecv
<1>3. ses' = [ses EXCEPT ![s] = [ses[s] EXCEPT !.recvPosted = @ - 1]]
    BY DEF TakeRecv
<1>. DEFINE q == [ses[s] EXCEPT !.recvPosted = @ - 1]
<1>4. /\ ses'[s] = q /\ \A x \in Sessions \ {s} : ses'[x] = ses[x]
      /\ worker'[w] = [at |-> "parse", s |-> s] /\ \A v \in Workers \ {w} : worker'[v] = worker[v]
      /\ place' = place /\ main' = main
    BY <1>3 DEF IInv, TypeOK, TakeRecv
<1>5. /\ q.recvPosted = 0 /\ q.sendPosted = ses[s].sendPosted /\ q.flags = ses[s].flags
      /\ q.calls = ses[s].calls /\ SameStream(q, ses[s])
    BY <1>1 DEF SessionRecord, SameStream
<1>. HIDE DEF q
<1>6. Keeps(q, ses[s])
    BY <1>5, SameStreamFollows DEF Keeps, Flagged
<1>7. Kept(s)
    BY <1>1, <1>2, <1>4, <1>6, KeepsAreKept DEF Inside
<1>8. Acts(s)
    <2>1. Parsing(w, s)'
        BY <1>4 DEF Parsing
    <2>2. OutstandingIo(s)' = OutstandingIo(s)
        BY <1>1, <1>4, <1>5, <2>1 DEF OutstandingIo
    <2>. QED BY <1>4, <1>5, <2>2 DEF Acts, Stutters, SameCalls, SameIo, Life
<1>9. \A x \in Sessions \ {s} : Aside(x)
    <2>1. \A v \in Workers :
             worker'[v] = worker[v] \/ {worker[v].s, worker'[v].s} \subseteq {s, NoSession}
        BY <1>1, <1>4 DEF Resting
    <2>. QED BY <1>4, <2>1, OthersAside
<1>. QED BY <1>7, <1>8, <1>9, OneActs

\* The receive is over when the worker has parsed the buffer.
LEMMA FinishRecvStep ==
    ASSUME IInv, Promise, IInv', NEW w \in Workers, FinishRecv(w)
    PROVE  Step
<1>1. PICK s \in Sessions : worker[w] = [at |-> "parse", s |-> s]
    BY DEF FinishRecv, IInv, TypeOK, Resting
<1>2. /\ ses[s] \in SessionRecord /\ SInv(s) /\ PInv(s) /\ Parsing(w, s) /\ Life(s) = "alive"
      /\ place[s] \notin {"free", "deleted"} /\ worker[w].s = s
    BY <1>1, WhoIsAlive DEF Promise, Parsing
<1>3. PICK ok \in BOOLEAN, c \in CountedDown(s) :
          LET r == [ses[s] EXCEPT !.recvPending = c[1]]
          IN  /\ ses' = [ses EXCEPT ![s] = IF ok THEN r ELSE InternalCloseSocket(r)]
              /\ place' = [place EXCEPT ![s] = c[2]]
              /\ worker' = [worker EXCEPT ![w] = IF ok THEN [at |-> "again", s |-> s] ELSE Resting]
    BY <1>2, Zenon DEF FinishRecv
<1>4. c[2] \in {place[s], "adding"}
    BY <1>3 DEF CountedDown
<1>5. c[1] \in {-1, 0, 1}
    <2>1. ses'[s].recvPending = c[1]
        BY <1>2, <1>3 DEF IInv, TypeOK, SessionRecord, InternalCloseSocket
    <2>2. ses'[s] \in SessionRecord
        BY DEF IInv, TypeOK
    <2>. QED BY <2>1, <2>2, CountTypes
<1>. DEFINE d == [ses[s] EXCEPT !.recvPending = c[1]]
            q == IF ok THEN d ELSE InternalCloseSocket(d)
            a == IF ok THEN [at |-> "again", s |-> s] ELSE Resting
<1>6. /\ d \in SessionRecord /\ Keeps(d, ses[s])
      /\ d.recvPosted = ses[s].recvPosted /\ d.sendPosted = ses[s].sendPosted
    <2>1. d \in SessionRecord
        BY <1>2, <1>5, CountUpdates
    <2>2. Keeps(d, ses[s])
        BY <1>2, CountKeeps
    <2>. QED BY <1>2, <2>1, <2>2 DEF SessionRecord
<1>7. /\ ses'[s] = q /\ place'[s] = c[2] /\ worker'[w] = a /\ main' = main
      /\ \A x \in Sessions \ {s} : ses'[x] = ses[x] /\ place'[x] = place[x]
      /\ \A v \in Workers \ {w} : worker'[v] = worker[v]
    BY <1>3 DEF IInv, TypeOK, FinishRecv
<1>. HIDE DEF d
<1>8. Keeps(q, ses[s]) /\ q.recvPosted = ses[s].recvPosted /\ q.sendPosted = ses[s].sendPosted
    <2>1. /\ Keeps(InternalCloseSocket(d), d)
          /\ InternalCloseSocket(d).recvPosted = d.recvPosted
          /\ InternalCloseSocket(d).sendPosted = d.sendPosted
        BY <1>6, CloseKeeps, CloseKeepsCounts DEF SameRecv, SameSend
    <2>2. CASE ok
        BY <1>6, <2>2
    <2>3. CASE ~ok
        BY <1>6, <2>1, <2>3, KeepsTransitive
    <2>. QED BY <2>2, <2>3
<1>9. a.s \in {s, NoSession} /\ a # [at |-> "parse", s |-> s]
    BY DEF Resting
<1>. HIDE DEF q, a
<1>10. Kept(s)
    BY <1>2, <1>4, <1>7, <1>8, KeepsAreKept DEF Inside
<1>11. Acts(s)
    <2>1. \A v \in Workers : ~Parsing(v, s)'
        BY <1>2, <1>7, <1>9 DEF Parsing, SInv, OneOwner
    <2>2. ses[s].recvPosted = 0
        BY <1>2 DEF SInv, OneOwner
    <2>3. "recv" \in OutstandingIo(s) /\ OutstandingIo(s)' = OutstandingIo(s) \ {"recv"}
        BY <1>2, <1>7, <1>8, <2>1, <2>2 DEF OutstandingIo
    <2>4. Life(s)' = Life(s) /\ SameCalls(s)
        BY <1>2, <1>4, <1>7, <1>8 DEF Life, SameCalls, Keeps
    <2>. QED BY <2>3, <2>4 DEF Acts
<1>12. \A x \in Sessions \ {s} : Aside(x)
    <2>1. \A v \in Workers :
             worker'[v] = worker[v] \/ {worker[v].s, worker'[v].s} \subseteq {s, NoSession}
        BY <1>2, <1>7, <1>9
    <2>. QED BY <1>7, <2>1, OthersAside
<1>. QED BY <1>10, <1>11, <1>12, OneActs

-----------------------------------------------------------------------------
(* The promises.                                                             *)

\* No session exists when the manager starts.
LEMMA InitPromise == Init => Promise
<1>. SUFFICES ASSUME Init, NEW s \in Sessions PROVE PInv(s)
    BY DEF Promise
<1>1. ses[s] = NewSession /\ main.s # s
    BY SessionAssumption DEF Init, Idle
<1>2. <<>> \o <<>> = [i \in 1 .. 0 |-> i]
    OBVIOUS
<1>3. StreamOK(NewSession) /\ Linked(NewSession)
    BY <1>2 DEF NewSession, StreamOK, Linked
<1>4. CallsOK(s)
    BY <1>1 DEF NewSession, CallsOK, Ended, Inside
<1>. QED BY <1>1, <1>3, <1>4 DEF PInv

\* Each thread's steps, one by one.
LEMMA NextStep == IInv /\ Promise /\ [Next]_vars => Step
<1>. SUFFICES ASSUME IInv, Promise, [Next]_vars PROVE Step
    OBVIOUS
<1>0. IInv'
    BY NextInv
<1>1. CASE MainStep
    BY <1>0, <1>1, ListsStep, ProcessStep, EliminateStep, CallbackStep, ProcessEndStep DEF MainStep
<1>2. CASE \E w \in Workers : WorkerStep(w)
    BY <1>0, <1>2, TakeRecvStep, FinishRecvStep, RecvAgainStep DEF WorkerStep
<1>3. CASE \E s \in Sessions :
               Open(s) \/ CountFirstRecv(s) \/ Add(s) \/ SendCompleted(s) \/ CallStep(s)
    BY <1>0, <1>3, OpenStep, CountFirstStep, ListsStep, SendCompletedStep, CallsStep
<1>4. CASE \E s \in Sessions, u \in Users : AddRef(u, s) \/ Release(u, s)
    BY <1>0, <1>4, HoldersStep
<1>5. CASE DestroyStep
    BY <1>0, <1>5, ListsStep, CallsStep DEF DestroyStep
<1>6. CASE UNCHANGED vars
    BY <1>6, ListsStep
<1>. QED BY <1>1, <1>2, <1>3, <1>4, <1>5, <1>6 DEF Next, Terminated

\* The stream of every session is whole, and its callbacks are those its flags say,
\* for any number of sessions, workers and users.
THEOREM PromisesAreKept == Spec => []Promise
<1>1. IInv /\ Promise /\ [Next]_vars => Promise'
    BY NextStep DEF Step, Kept, Promise
<1>. QED BY <1>1, InitPromise, CountersAreTrue, PTL DEF Spec

\* What goes to WSASend is what SendPending accepted, in that order, up to the send that
\* fails, whose buffer InternalSend puts back at the head of the queue.
THEOREM SentInOrder == Spec => []SendInOrder
<1>1. Promise => SendInOrder
    BY DEF Promise, PInv, StreamOK, SendInOrder
<1>. QED BY <1>1, PromisesAreKept, PTL

\* Nothing is sent once Process has shut the sending side down: it does so with an
\* empty queue, and SendPending refuses after Shutdown.
THEOREM NothingAfterFin == Spec => NoSendAfterFin
<1>1. IInv /\ Promise /\ [Next]_vars => \A s \in Sessions : ses[s].fin => ses'[s].sent = ses[s].sent
    BY NextStep DEF Step, Kept
<1>. QED BY <1>1, PromisesAreKept, CountersAreTrue, PTL DEF Spec, NoSendAfterFin

\* Session implements SessionLifecycle: each of its steps calls one callback, starts or
\* ends one call of the kernel, opens or deletes one session as SessionLifecycle allows,
\* or is not seen by the dispatch.
THEOREM SessionKeepsLifecycle == Spec => LifecycleSpec
<1>1. Init => Lifecycle!Init
    <2>. SUFFICES ASSUME Init PROVE Lifecycle!Init
        OBVIOUS
    <2>1. ASSUME NEW s \in Sessions
          PROVE  Life(s) = "absent" /\ ses[s].calls = <<>> /\ OutstandingIo(s) = {}
        <3>1. ses[s] = NewSession /\ place[s] = "free" /\ \A w \in Workers : ~Parsing(w, s)
            BY SessionAssumption DEF Init, Resting, Parsing
        <3>. QED BY <3>1 DEF Life, NewSession, OutstandingIo
    <2>. QED BY <2>1 DEF Lifecycle!Init
<1>2. IInv /\ Promise /\ [Next]_vars => [Lifecycle!Next]_(Lifecycle!avars)
    BY NextStep, Simulates
<1>. QED BY <1>1, <1>2, PromisesAreKept, CountersAreTrue, PTL DEF Spec, LifecycleSpec, Lifecycle!Spec
=============================================================================
