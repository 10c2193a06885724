---------------------------- MODULE SessionProofs ----------------------------
(***************************************************************************)
(* Proofs about Session for any number of sessions, workers and users:     *)
(* its type, and that no deleted session has I/O or callers left.          *)
(***************************************************************************)
EXTENDS Session, FiniteSetTheorems, TLAPS

(***************************************************************************)
(* The inductive invariant. The process thread deletes a session on what   *)
(* its counters say, so the invariant says what each counter is worth.     *)
(***************************************************************************)

\* Nothing is receiving: neither the kernel nor a worker has the buffer.
NoRecv(s) == ses[s].recvPosted = 0 /\ \A w \in Workers : ~Parsing(w, s)

Again(w, s) == worker[w] = [at |-> "again", s |-> s]

\* Before the first receive is counted, m_dwRecvPending is 0 while that receive
\* is outstanding and -1 when its completion came first.
Counting(s) ==
    place[s] = "counting" =>
        \/ ses[s].recvPending = 0 /\ \A w \in Workers : ~Again(w, s)
        \/ ses[s].recvPending = -1 /\ NoRecv(s)

\* Afterwards a count of zero can be trusted. A lost update leaves it at 1 or -1
\* for ever: it then blocks receives and the elimination, nothing else.
RecvCount(s) ==
    /\ place[s] # "counting" /\ ses[s].recvPending = 0 => NoRecv(s)
    /\ ses[s].recvPending = -1 => NoRecv(s)

SendCount(s) == ses[s].sendPending = ses[s].sendPosted

RefCount(s) ==
    ses[s].refCount = Cardinality(holders[s]) + IF main.s = s THEN 1 ELSE 0

\* Only sessions in the current list are visited or referred to.
Listed(s) ==
    /\ s \in todo => place[s] = "current"
    /\ main.s = s => s \in todo /\ mgr # "closing"
    /\ holders[s] # {} => place[s] = "current"
    /\ place[s] = "free" => NoRecv(s) /\ \A w \in Workers : ~Again(w, s)

OneOwner(s) ==
    /\ \A w \in Workers : Parsing(w, s) => ses[s].recvPosted = 0
    /\ \A v, w \in Workers : Parsing(v, s) /\ Parsing(w, s) => v = w

Deleted(s) ==
    place[s] = "deleted" =>
        NoRecv(s) /\ ses[s].sendPosted = 0 /\ holders[s] = {} /\ main.s # s

SInv(s) ==
    /\ Counting(s) /\ RecvCount(s) /\ SendCount(s) /\ RefCount(s)
    /\ Listed(s) /\ OneOwner(s) /\ Deleted(s)

IInv == TypeOK /\ \A s \in Sessions : SInv(s)

-----------------------------------------------------------------------------
(* What the helpers of CSession do to the counters.                          *)

SameRecv(q, r) == q.recvPending = r.recvPending /\ q.recvPosted = r.recvPosted
SameSend(q, r) == q.sendPending = r.sendPending /\ q.sendPosted = r.sendPosted
SameRef(q, r) == q.refCount = r.refCount

\* Closing the socket leaves every counter alone: the posted calls are completed
\* later, by the workers.
LEMMA CloseKeepsCounts ==
    ASSUME NEW r \in SessionRecord
    PROVE  LET q == InternalCloseSocket(r)
           IN  q \in SessionRecord /\ SameRecv(q, r) /\ SameSend(q, r) /\ SameRef(q, r)
BY DEF InternalCloseSocket, SessionRecord, SessionFlag, SameRecv, SameSend, SameRef

\* InternalRecv changes nothing but the receive counters, and those only from
\* zero to one.
LEMMA RecvCounts ==
    ASSUME NEW r \in SessionRecord, r.recvPending = 0 => r.recvPosted = 0,
           NEW q \in InternalRecv(r)
    PROVE  /\ q \in SessionRecord /\ SameSend(q, r) /\ SameRef(q, r)
           /\ \/ SameRecv(q, r)
              \/ r.recvPending = 0 /\ q.recvPending = 1 /\ q.recvPosted = 1
<1>1. CASE "SUSPEND_RECV" \in r.flags \/ r.recvPending # 0
    BY <1>1 DEF InternalRecv, SameRecv, SameSend, SameRef
<1>2. CASE q = InternalCloseSocket(r)
    BY <1>2, CloseKeepsCounts
<1>3. CASE r.recvPending = 0 /\ q = [r EXCEPT !.recvPending = @ + 1, !.recvPosted = @ + 1]
    <2>1. r.recvPending + 1 = 1 /\ r.recvPosted + 1 = 1
        BY <1>3
    <2>2. q = [r EXCEPT !.recvPending = 1, !.recvPosted = 1]
        BY <1>3, <2>1
    <2>3. q \in SessionRecord
        <3>1. 1 \in -1 .. 1 /\ 1 \in 0 .. 1
            OBVIOUS
        <3>. QED BY <2>2, <3>1, Zenon DEF SessionRecord
    <2>4. SameSend(q, r) /\ SameRef(q, r) /\ q.recvPending = 1 /\ q.recvPosted = 1
        BY <2>2 DEF SessionRecord, SameSend, SameRef
    <2>. QED BY <1>3, <2>3, <2>4
<1>. QED BY <1>1, <1>2, <1>3 DEF InternalRecv, SessionRecord

\* InternalSend keeps the count of pending sends equal to what is posted.
LEMMA SendCounts ==
    ASSUME NEW r \in SessionRecord, r.sendPending = r.sendPosted,
           NEW q \in InternalSend(r)
    PROVE  q \in SessionRecord /\ SameRecv(q, r) /\ SameRef(q, r) /\ q.sendPending = q.sendPosted
<1>1. CASE r.sendPending # 0 \/ r.sendQueue = <<>>
    BY <1>1 DEF InternalSend, SameRecv, SameRef
<1>2. CASE r.sendPending = 0 /\ r.sendQueue # <<>>
    <2>. DEFINE b == Head(r.sendQueue)
                d == [r EXCEPT !.sendQueue = Tail(@)]
                Requeue(x) == [x EXCEPT !.sendQueue = <<b>> \o @]
    <2>1. r.sendQueue \in Seq(Nat) /\ r.sent \in Seq(Nat)
        BY DEF SessionRecord
    <2>2. b \in Nat /\ Tail(r.sendQueue) \in Seq(Nat) /\ Append(r.sent, b) \in Seq(Nat)
        BY <1>2, <2>1
    <2>3. d \in SessionRecord /\ SameRecv(d, r) /\ SameSend(d, r) /\ SameRef(d, r)
        BY <2>2 DEF SessionRecord, SameRecv, SameSend, SameRef
    <2>4. ASSUME NEW x \in SessionRecord
          PROVE  /\ Requeue(x) \in SessionRecord /\ SameRecv(Requeue(x), x)
                 /\ SameSend(Requeue(x), x) /\ SameRef(Requeue(x), x)
        <3>1. x.sendQueue \in Seq(Nat)
            BY DEF SessionRecord
        <3>2. <<b>> \o x.sendQueue \in Seq(Nat)
            BY <2>2, <3>1
        <3>. QED BY <3>2 DEF SessionRecord, SameRecv, SameSend, SameRef
    <2>. DEFINE posted == [d EXCEPT !.sendPending = @ + 1, !.sendPosted = @ + 1,
                                    !.sent = Append(@, b)]
    <2>5. posted \in SessionRecord /\ SameRecv(posted, r) /\ SameRef(posted, r)
          /\ posted.sendPending = posted.sendPosted
        <3>1. d.sendPending + 1 = 1 /\ d.sendPosted + 1 = 1
            BY <1>2, <2>3 DEF SameSend
        <3>2. posted = [d EXCEPT !.sendPending = 1, !.sendPosted = 1, !.sent = Append(@, b)]
            BY <3>1
        <3>3. d.sent = r.sent
            OBVIOUS
        <3>4. Append(d.sent, b) \in Seq(Nat)
            BY <2>2, <3>3
        <3>. HIDE DEF b, d, posted
        <3>5. posted \in SessionRecord
            <4>1. 1 \in 0 .. 1
                OBVIOUS
            <4>. QED BY <2>3, <3>2, <3>4, <4>1, Zenon DEF SessionRecord
        <3>. QED BY <2>3, <3>2, <3>5 DEF SessionRecord, SameRecv, SameRef
    <2>6. q \in {Requeue(d), Requeue(InternalCloseSocket(d)), posted}
        BY <1>2 DEF InternalSend, SendHead
    <2>7. LET c == InternalCloseSocket(d)
          IN  c \in SessionRecord /\ SameRecv(c, d) /\ SameSend(c, d) /\ SameRef(c, d)
        BY <2>3, CloseKeepsCounts
    <2>8. CASE q = Requeue(d)
        BY <2>3, <2>4, <2>8 DEF SameRecv, SameSend, SameRef
    <2>9. CASE q = Requeue(InternalCloseSocket(d))
        BY <2>3, <2>4, <2>7, <2>9 DEF SameRecv, SameSend, SameRef
    <2>. QED BY <2>5, <2>6, <2>8, <2>9
<1>. QED BY <1>1, <1>2 DEF SessionRecord

\* shutdown() touches no counter.
LEMMA ShutdownKeepsCounts ==
    ASSUME NEW r \in SessionRecord, NEW q \in ShutdownWhenDrained(r)
    PROVE  q \in SessionRecord /\ SameRecv(q, r) /\ SameSend(q, r) /\ SameRef(q, r)
<1>1. CASE q = [r EXCEPT !.fin = TRUE]
    BY <1>1 DEF SessionRecord, SameRecv, SameSend, SameRef
<1>2. CASE q = [r EXCEPT !.flags = @ \union {"SHUTDOWN_PROCESSED"}]
    BY <1>2 DEF SessionRecord, SessionFlag, SameRecv, SameSend, SameRef
<1>3. CASE q = r
    BY <1>3 DEF SameRecv, SameSend, SameRef
<1>. QED BY <1>1, <1>2, <1>3 DEF ShutdownWhenDrained

-----------------------------------------------------------------------------
(* Every step keeps the invariant.                                           *)

\* The ranges of the counters of a session, member by member.
LEMMA CountTypes ==
    ASSUME NEW r \in SessionRecord
    PROVE  /\ r.recvPending \in {-1, 0, 1} /\ r.recvPosted \in {0, 1}
           /\ r.sendPending \in {0, 1} /\ r.sendPosted \in {0, 1} /\ r.refCount \in Int
BY DEF SessionRecord

\* A session stays one when a counter gets another value of its range, or other
\* flags are set.
LEMMA CountUpdates ==
    ASSUME NEW r \in SessionRecord
    PROVE  /\ \A n \in {-1, 0, 1} : [r EXCEPT !.recvPending = n] \in SessionRecord
           /\ \A n \in {0, 1} : [r EXCEPT !.recvPosted = n] \in SessionRecord
           /\ [r EXCEPT !.sendPosted = 0, !.sendPending = 0] \in SessionRecord
           /\ \A n \in Int : [r EXCEPT !.refCount = n] \in SessionRecord
           /\ \A F \in SUBSET SessionFlag : [r EXCEPT !.flags = F] \in SessionRecord
<1>1. {-1, 0, 1} = -1 .. 1 /\ {0, 1} = 0 .. 1 /\ 0 \in 0 .. 1
    OBVIOUS
<1>. QED BY <1>1, Zenon DEF SessionRecord

\* All that SInv(x) reads.
Unmoved(x) ==
    /\ ses'[x] = ses[x] /\ place'[x] = place[x] /\ holders'[x] = holders[x]
    /\ main'.s = x <=> main.s = x
    /\ x \in todo' => x \in todo
    /\ main.s = x => x \in todo' /\ mgr' # "closing"
    /\ \A w \in Workers : worker'[w] = worker[w] \/ (worker'[w].s # x /\ worker[w].s # x)

\* A step that moves nothing the invariant reads of session x keeps it for x.
LEMMA OtherSessions ==
    ASSUME NEW x \in Sessions, SInv(x), Unmoved(x)
    PROVE  SInv(x)'
<1>1. \A w \in Workers : (Parsing(w, x)' <=> Parsing(w, x)) /\ (Again(w, x)' <=> Again(w, x))
    BY DEF Unmoved, Parsing, Again
<1>2. NoRecv(x)' <=> NoRecv(x)
    BY <1>1 DEF NoRecv, Unmoved
<1>3. Counting(x)' /\ RecvCount(x)' /\ SendCount(x)'
    BY <1>1, <1>2 DEF SInv, Counting, RecvCount, SendCount, Unmoved
<1>4. RefCount(x)'
    BY DEF SInv, RefCount, Unmoved
<1>5. Listed(x)'
    BY <1>1, <1>2 DEF SInv, Listed, Unmoved
<1>6. OneOwner(x)' /\ Deleted(x)'
    BY <1>1, <1>2 DEF SInv, OneOwner, Deleted, Unmoved
<1>. QED BY <1>3, <1>4, <1>5, <1>6 DEF SInv

\* A step that changes one session and neither its receive nor its reference
\* counts, and lets nobody move but the process thread inside its callbacks.
LEMMA OneSession ==
    ASSUME IInv, NEW s \in Sessions, NEW q \in SessionRecord,
           SameRecv(q, ses[s]), SameRef(q, ses[s]), q.sendPending = q.sendPosted,
           place[s] = "deleted" => q.sendPosted = 0,
           ses' = [ses EXCEPT ![s] = q],
           TypeOK', main'.s = main.s,
           UNCHANGED <<place, worker, todo, holders, mgr>>
    PROVE  IInv'
<1>1. /\ ses'[s] = q
      /\ \A x \in Sessions : x # s => ses'[x] = ses[x]
    BY DEF IInv, TypeOK
<1>2. ASSUME NEW x \in Sessions, x # s
      PROVE  SInv(x)'
    <2>1. Unmoved(x)
        BY <1>1, <1>2 DEF Unmoved, IInv, SInv, Listed
    <2>. QED BY <2>1, OtherSessions DEF IInv
<1>3. SInv(s)'
    <2>1. SInv(s)
        BY DEF IInv
    <2>2. NoRecv(s)' <=> NoRecv(s)
        BY <1>1 DEF NoRecv, SameRecv, Parsing
    <2>3. Counting(s)' /\ RecvCount(s)'
        BY <1>1, <2>1, <2>2 DEF SInv, Counting, RecvCount, SameRecv, Again
    <2>4. SendCount(s)' /\ RefCount(s)'
        BY <1>1, <2>1 DEF SInv, SendCount, RefCount, SameRef
    <2>5. Listed(s)' /\ Deleted(s)'
        BY <1>1, <2>1, <2>2 DEF SInv, Listed, Deleted, Again
    <2>6. OneOwner(s)'
        BY <1>1, <2>1 DEF SInv, OneOwner, SameRecv, Parsing
    <2>. QED BY <2>3, <2>4, <2>5, <2>6 DEF SInv
<1>. QED BY <1>2, <1>3 DEF IInv

\* The calls of other code, and the two callbacks.
LEMMA CallsKeep ==
    ASSUME IInv, NEW s \in Sessions, CallStep(s)
    PROVE  IInv'
<1>. DEFINE r == ses[s]
<1>1. r \in SessionRecord /\ SendCount(s)
    BY DEF IInv, TypeOK, SInv
<1>2. MayCall(s) => place[s] # "deleted"
    BY DEF IInv, SInv, Deleted, NoRecv, MayCall, Parsing
<1>3. ASSUME NEW q \in SessionRecord, Call(s, q), SameRecv(q, r), SameRef(q, r),
             q.sendPending = q.sendPosted
      PROVE  IInv'
    <2>1. TypeOK'
        BY <1>3 DEF IInv, TypeOK, Call
    <2>. QED BY <1>2, <1>3, <2>1, OneSession DEF Call
<1>4. CASE CloseSession(s)
    BY <1>1, <1>3, <1>4, CloseKeepsCounts DEF CloseSession, SameSend, SendCount
<1>5. ASSUME NEW F \in SUBSET SessionFlag, Call(s, [r EXCEPT !.flags = F])
      PROVE  IInv'
    <2>. DEFINE q == [r EXCEPT !.flags = F]
    <2>1. q \in SessionRecord
        BY <1>1, CountUpdates
    <2>2. SameRecv(q, r) /\ SameRef(q, r) /\ q.sendPending = q.sendPosted
        BY <1>1 DEF SessionRecord, SameRecv, SameRef, SendCount
    <2>. QED BY <1>3, <1>5, <2>1, <2>2
<1>6. CASE Shutdown(s) \/ SuspendRecv(s) \/ ResumeRecv(s)
    <2>1. r.flags \in SUBSET SessionFlag
        BY <1>1 DEF SessionRecord
    <2>2. CASE Shutdown(s)
        BY <1>5, <2>1, <2>2 DEF Shutdown, SessionFlag
    <2>3. CASE SuspendRecv(s)
        BY <1>5, <2>1, <2>3 DEF SuspendRecv, SessionFlag
    <2>4. CASE ResumeRecv(s)
        BY <1>5, <2>1, <2>4 DEF ResumeRecv, SessionFlag
    <2>. QED BY <1>6, <2>2, <2>3, <2>4
<1>7. CASE SendPending(s)
    <2>. DEFINE q == [r EXCEPT !.sendQueue = Append(@, r.accepted + 1), !.accepted = @ + 1]
    <2>1. r.sendQueue \in Seq(Nat) /\ r.accepted + 1 \in Nat
        BY <1>1 DEF SessionRecord
    <2>2. Append(r.sendQueue, r.accepted + 1) \in Seq(Nat)
        BY <2>1
    <2>3. q \in SessionRecord
        BY <1>1, <2>1, <2>2, Zenon DEF SessionRecord
    <2>4. SameRecv(q, r) /\ SameRef(q, r) /\ q.sendPending = q.sendPosted
        BY <1>1 DEF SessionRecord, SameRecv, SameRef, SendCount
    <2>5. Call(s, q)
        BY <1>7 DEF SendPending
    <2>. QED BY <1>3, <2>3, <2>4, <2>5
<1>8. CASE Send(s)
    <2>1. PICK q \in InternalSend(r) : Call(s, q)
        BY <1>8 DEF Send
    <2>. QED BY <1>1, <1>3, <2>1, SendCounts DEF SendCount
<1>. QED BY <1>4, <1>6, <1>7, <1>8 DEF CallStep

\* The process thread inside a session: it is in the current list.
LEMMA MainSession ==
    ASSUME IInv, main.at # "idle"
    PROVE  /\ main # Idle /\ main.s \in Sessions /\ main.s \in todo
           /\ place[main.s] = "current" /\ mgr # "closing"
<1>1. main # Idle /\ main.s \in Sessions
    BY DEF IInv, TypeOK, Idle
<1>. QED BY <1>1 DEF IInv, SInv, Listed

\* Connected(), Dispatch() and Disconnected() run without the lock and leave the
\* counters alone.
LEMMA CallbacksKeep ==
    ASSUME IInv, CallConnected \/ CallDispatch \/ CallDisconnected
    PROVE  IInv'
<1>. DEFINE s == main.s
            r == ses[s]
<1>1. s \in Sessions /\ place[s] = "current" /\ main # Idle
    <2>1. main.at # "idle"
        BY DEF CallConnected, CallDispatch, CallDisconnected
    <2>. QED BY <2>1, MainSession
<1>2. r \in SessionRecord /\ SendCount(s)
    BY <1>1 DEF IInv, TypeOK, SInv
<1>3. ASSUME NEW q \in SessionRecord, ses' = [ses EXCEPT ![s] = q], SameRecv(q, r), SameRef(q, r),
             SameSend(q, r), main'.s = s, main' \in [at : {"connected", "dispatch", "disconnected", "finish"}, s : Sessions, close : BOOLEAN],
             UNCHANGED <<place, worker, todo, holders, mgr>>
      PROVE  IInv'
    <2>1. TypeOK'
        BY <1>1, <1>3 DEF IInv, TypeOK
    <2>. HIDE DEF s
    <2>. QED BY <1>1, <1>2, <1>3, <2>1, OneSession DEF s, SameSend, SendCount
<1>4. main \in [at : {"connected", "dispatch", "disconnected", "finish"}, s : Sessions, close : BOOLEAN]
    BY <1>1 DEF IInv, TypeOK
<1>5. ASSUME NEW c \in {"Connected", "Disconnected"}, Returned(s, c)
      PROVE  /\ ses' = [ses EXCEPT ![s] = [r EXCEPT !.calls = Append(r.calls, c)]]
             /\ LET q == [r EXCEPT !.calls = Append(r.calls, c)]
                IN  q \in SessionRecord /\ SameRecv(q, r) /\ SameRef(q, r) /\ SameSend(q, r)
    <2>1. ses' = [ses EXCEPT ![s] = [r EXCEPT !.calls = Append(r.calls, c)]]
        BY <1>1, <1>5 DEF Returned, IInv, TypeOK
    <2>2. r.calls \in Seq({"Connected", "Disconnected"})
        BY <1>2 DEF SessionRecord
    <2>3. Append(r.calls, c) \in Seq({"Connected", "Disconnected"})
        BY <2>2
    <2>. QED BY <1>2, <2>1, <2>3 DEF SessionRecord, SameRecv, SameRef, SameSend
<1>6. CASE CallConnected
    <2>1. main' \in [at : {"connected", "dispatch", "disconnected", "finish"}, s : Sessions, close : BOOLEAN]
          /\ main'.s = s
        BY <1>4, <1>6 DEF CallConnected
    <2>2. Returned(s, "Connected") /\ UNCHANGED <<place, worker, todo, holders, mgr>>
        BY <1>6 DEF CallConnected
    <2>. QED BY <1>3, <1>5, <2>1, <2>2
<1>7. CASE CallDisconnected
    <2>1. main' \in [at : {"connected", "dispatch", "disconnected", "finish"}, s : Sessions, close : BOOLEAN]
          /\ main'.s = s
        BY <1>4, <1>7 DEF CallDisconnected
    <2>2. Returned(s, "Disconnected") /\ UNCHANGED <<place, worker, todo, holders, mgr>>
        BY <1>7 DEF CallDisconnected
    <2>. QED BY <1>3, <1>5, <2>1, <2>2
<1>8. CASE CallDispatch
    <2>1. main' \in [at : {"connected", "dispatch", "disconnected", "finish"}, s : Sessions, close : BOOLEAN]
          /\ main'.s = s
        BY <1>4, <1>8 DEF CallDispatch
    <2>2. ses' = [ses EXCEPT ![s] = r] /\ UNCHANGED <<place, worker, todo, holders, mgr>>
        BY <1>1, <1>8 DEF CallDispatch, IInv, TypeOK
    <2>. QED BY <1>2, <1>3, <2>1, <2>2 DEF SameRecv, SameRef, SameSend
<1>. QED BY <1>6, <1>7, <1>8

(***************************************************************************)
(* The steps of the process thread.                                        *)
(***************************************************************************)

\* A session whose receive count is trusted may be given to InternalRecv.
LEMMA TrustedCount ==
    ASSUME IInv, NEW s \in Sessions, place[s] # "counting"
    PROVE  /\ ses[s] \in SessionRecord
           /\ ses[s].recvPending = 0 => ses[s].recvPosted = 0
BY DEF IInv, TypeOK, SInv, RecvCount, NoRecv

\* The common end of the first locked section of Process.
LEMMA VisitKeeps ==
    ASSUME IInv, NEW s \in Sessions, Next1(s), NEW r \in SessionRecord, SameRef(r, ses[s]),
           SameSend(r, ses[s]),
           SameRecv(r, ses[s]) \/ (ses[s].recvPending = 0 /\ r.recvPending = 1 /\ r.recvPosted = 1),
           NEW at \in {"connected", "dispatch", "disconnected", "finish"}, Visit(s, r, at)
    PROVE  IInv'
<1>. DEFINE q == [r EXCEPT !.refCount = r.refCount + 1]
<1>1. /\ place[s] = "current" /\ main = Idle /\ mgr # "closing" /\ s \in todo
      /\ main.s # s /\ SInv(s)
    BY SessionAssumption DEF Next1, IInv, SInv, Listed, Idle
<1>2. r.refCount + 1 \in Int
    BY CountTypes
<1>3. q \in SessionRecord
    BY <1>2, CountUpdates
<1>4. SameRecv(q, r) /\ SameSend(q, r) /\ q.refCount = r.refCount + 1
    BY DEF SessionRecord, SameRecv, SameSend
<1>5. ses' = [ses EXCEPT ![s] = q] /\ main' = [at |-> at, s |-> s, close |-> FALSE]
      /\ UNCHANGED <<place, worker, todo, holders, mgr>>
    BY DEF Visit
<1>6. ses'[s] = q /\ \A x \in Sessions : x # s => ses'[x] = ses[x]
    BY <1>5 DEF IInv, TypeOK
<1>. HIDE DEF q
<1>7. TypeOK'
    BY <1>3, <1>5 DEF IInv, TypeOK
<1>8. ASSUME NEW x \in Sessions, x # s
      PROVE  SInv(x)'
    <2>1. main.s # x
        BY <1>1, SessionAssumption DEF Idle
    <2>2. Unmoved(x)
        BY <1>1, <1>5, <1>6, <1>8, <2>1 DEF Unmoved
    <2>. QED BY <2>2, OtherSessions DEF IInv
<1>9. SInv(s)'
    <2>1. SendCount(s)' /\ Counting(s)' /\ Deleted(s)' /\ Listed(s)'
        BY <1>1, <1>4, <1>5, <1>6 DEF SInv, SendCount, Counting, Deleted, Listed, SameSend
    <2>2. RefCount(s)'
        <3>1. ses[s].refCount = Cardinality(holders[s]) + 0
            BY <1>1 DEF SInv, RefCount
        <3>2. Cardinality(holders[s]) \in Int
            BY FS_Subset, FS_CardinalityType, SessionAssumption DEF IInv, TypeOK
        <3>3. r.refCount + 1 = Cardinality(holders[s]) + 1
            BY <3>1, <3>2 DEF SameRef
        <3>. QED BY <1>4, <1>5, <1>6, <3>3 DEF RefCount
    <2>3. CASE SameRecv(r, ses[s])
        <3>1. NoRecv(s)' <=> NoRecv(s)
            BY <1>4, <1>5, <1>6, <2>3 DEF NoRecv, SameRecv, Parsing
        <3>2. RecvCount(s)' /\ OneOwner(s)'
            BY <1>1, <1>4, <1>5, <1>6, <2>3, <3>1 DEF SInv, RecvCount, OneOwner, SameRecv, Parsing
        <3>. QED BY <2>1, <2>2, <3>2 DEF SInv
    <2>4. CASE ses[s].recvPending = 0 /\ r.recvPending = 1 /\ r.recvPosted = 1
        <3>1. NoRecv(s)
            BY <1>1, <2>4 DEF SInv, RecvCount
        <3>2. RecvCount(s)' /\ OneOwner(s)'
            BY <1>1, <1>4, <1>5, <1>6, <2>4, <3>1 DEF RecvCount, OneOwner, NoRecv, SameRecv, Parsing
        <3>. QED BY <2>1, <2>2, <3>2 DEF SInv
    <2>. QED BY <2>3, <2>4
<1>. QED BY <1>7, <1>8, <1>9 DEF IInv

\* The first locked section of Process keeps the invariant when it does not
\* delete the session.
LEMMA ProcessKeeps ==
    ASSUME IInv, NEW s \in Sessions, ProcessConnected(s) \/ ProcessDisconnected(s)
    PROVE  IInv'
<1>1. /\ Next1(s) /\ place[s] # "counting" /\ ses[s].flags \in SUBSET SessionFlag
      /\ ses[s] \in SessionRecord
    BY DEF ProcessConnected, ProcessDisconnected, Next1, IInv, TypeOK, SInv, Listed, SessionRecord
<1>2. ses[s].recvPending = 0 => ses[s].recvPosted = 0
    BY <1>1, TrustedCount
<1>3. ASSUME NEW F \in SUBSET SessionFlag
      PROVE  LET f == [ses[s] EXCEPT !.flags = F]
             IN  f \in SessionRecord /\ SameRecv(f, ses[s]) /\ SameSend(f, ses[s]) /\ SameRef(f, ses[s])
    <2>1. [ses[s] EXCEPT !.flags = F] \in SessionRecord
        BY <1>1, CountUpdates
    <2>. QED BY <1>1, <2>1 DEF SessionRecord, SameRecv, SameSend, SameRef
<1>4. CASE ProcessConnected(s)
    <2>. DEFINE F == ses[s].flags \union {"CONNECT_CALLED"}
                f == [ses[s] EXCEPT !.flags = F]
                at == IF "CONNECT_CALLED" \in ses[s].flags THEN "dispatch" ELSE "connected"
    <2>1. PICK r \in InternalRecv(f) : Visit(s, r, at)
        BY <1>4 DEF ProcessConnected
    <2>2. F \in SUBSET SessionFlag
        BY <1>1 DEF SessionFlag
    <2>. HIDE DEF F
    <2>3. f \in SessionRecord /\ SameRecv(f, ses[s]) /\ SameSend(f, ses[s]) /\ SameRef(f, ses[s])
        BY <1>3, <2>2
    <2>. HIDE DEF f
    <2>4. f.recvPending = 0 => f.recvPosted = 0
        BY <1>2, <2>3 DEF SameRecv
    <2>5. /\ r \in SessionRecord /\ SameSend(r, f) /\ SameRef(r, f)
          /\ \/ SameRecv(r, f)
             \/ f.recvPending = 0 /\ r.recvPending = 1 /\ r.recvPosted = 1
        BY <2>1, <2>3, <2>4, RecvCounts
    <2>6. SameSend(r, ses[s]) /\ SameRef(r, ses[s])
          /\ \/ SameRecv(r, ses[s])
             \/ ses[s].recvPending = 0 /\ r.recvPending = 1 /\ r.recvPosted = 1
        BY <2>3, <2>5 DEF SameRecv, SameSend, SameRef
    <2>. QED BY <1>1, <2>1, <2>5, <2>6, VisitKeeps
<1>5. CASE ProcessDisconnected(s)
    <2>. DEFINE F == ses[s].flags \union {"DISCONNECT_PROCESSED"}
                f == [ses[s] EXCEPT !.flags = F]
    <2>1. F \in SUBSET SessionFlag
        BY <1>1 DEF SessionFlag
    <2>2. f \in SessionRecord /\ SameRecv(f, ses[s]) /\ SameSend(f, ses[s]) /\ SameRef(f, ses[s])
        BY <1>3, <2>1
    <2>3. CASE Visit(s, f, "disconnected")
        <3>. HIDE DEF f
        <3>. QED BY <1>1, <2>2, <2>3, VisitKeeps
    <2>4. CASE Visit(s, ses[s], "finish")
        BY <1>1, <2>4, VisitKeeps DEF SameRecv, SameSend, SameRef
    <2>. QED BY <1>5, <2>3, <2>4 DEF ProcessDisconnected
<1>. QED BY <1>4, <1>5

\* What Process tests is enough to delete the session.
LEMMA EliminateKeeps ==
    ASSUME IInv, NEW s \in Sessions, Eliminate(s)
    PROVE  IInv'
<1>. DEFINE q == InternalCloseSocket(ses[s])
<1>1. ses[s] \in SessionRecord /\ SInv(s) /\ place[s] = "current"
    BY DEF Eliminate, Next1, IInv, TypeOK, SInv, Listed
<1>2. q \in SessionRecord /\ SameRecv(q, ses[s]) /\ SameSend(q, ses[s]) /\ SameRef(q, ses[s])
    BY <1>1, CloseKeepsCounts
<1>3. ses' = [ses EXCEPT ![s] = q] /\ place' = [place EXCEPT ![s] = "deleted"]
      /\ todo' = todo \ {s} /\ UNCHANGED <<worker, main, holders, mgr>>
    BY DEF Eliminate, IInv, TypeOK
<1>. HIDE DEF q
<1>4. /\ ses'[s] = q /\ place'[s] = "deleted"
      /\ \A x \in Sessions : x # s => ses'[x] = ses[x] /\ place'[x] = place[x]
    BY <1>3 DEF IInv, TypeOK
<1>5. /\ ses[s].recvPending = 0 /\ ses[s].sendPending = 0 /\ ses[s].refCount = 0 /\ main = Idle
      /\ main.s = NoSession
    BY DEF Eliminate, Quiet, Next1, Idle
<1>6. TypeOK'
    BY <1>2, <1>3 DEF IInv, TypeOK, Place
<1>7. ASSUME NEW x \in Sessions, x # s
      PROVE  SInv(x)'
    <2>1. Unmoved(x)
        BY <1>3, <1>4, <1>5, <1>7, SessionAssumption DEF Unmoved
    <2>. QED BY <2>1, OtherSessions DEF IInv
<1>8. SInv(s)'
    <2>1. NoRecv(s) /\ NoRecv(s)'
        BY <1>1, <1>2, <1>3, <1>4, <1>5 DEF SInv, RecvCount, NoRecv, SameRecv, Parsing
    <2>2. main.s # s
        BY <1>5, SessionAssumption
    <2>3. holders[s] = {}
        <3>1. IsFiniteSet(holders[s])
            BY FS_Subset, SessionAssumption DEF IInv, TypeOK
        <3>2. Cardinality(holders[s]) + 0 = 0
            BY <1>1, <1>5, <2>2 DEF SInv, RefCount
        <3>3. Cardinality(holders[s]) \in Nat
            BY <3>1, FS_CardinalityType
        <3>. QED BY <3>1, <3>2, <3>3, FS_EmptySet
    <2>4. Counting(s)' /\ RecvCount(s)' /\ OneOwner(s)'
        BY <1>4, <2>1 DEF Counting, RecvCount, OneOwner, NoRecv
    <2>5. SendCount(s)' /\ RefCount(s)'
        BY <1>1, <1>2, <1>3, <1>4 DEF SInv, SendCount, RefCount, SameSend, SameRef
    <2>6. Listed(s)'
        BY <1>3, <1>4, <2>2, <2>3 DEF Listed
    <2>7. ses'[s].sendPosted = 0
        BY <1>1, <1>2, <1>4, <1>5 DEF SInv, SendCount, SameSend
    <2>8. Deleted(s)'
        BY <1>3, <2>1, <2>2, <2>3, <2>7 DEF Deleted
    <2>. QED BY <2>4, <2>5, <2>6, <2>8 DEF SInv
<1>. QED BY <1>6, <1>7, <1>8 DEF IInv

\* The second locked section of Process keeps the invariant: it gives back the
\* reference the first one took.
LEMMA ProcessEndKeeps ==
    ASSUME IInv, ProcessEnd
    PROVE  IInv'
<1>0. PICK s \in Sessions : s = main.s /\ place[s] = "current" /\ main # Idle
    <2>1. main.at # "idle"
        BY DEF ProcessEnd
    <2>. QED BY <2>1, MainSession
<1>1. place[s] = "current" /\ main # Idle /\ ses[s] \in SessionRecord /\ SInv(s)
    BY <1>0 DEF IInv, TypeOK
<1>2. PICK a \in InternalSend(ses[s]) : \E b \in ShutdownWhenDrained(a) :
          ses' = [ses EXCEPT ![s] = LeaveProcess(b, main.close)]
    BY <1>0 DEF ProcessEnd
<1>3. PICK b \in ShutdownWhenDrained(a) : ses' = [ses EXCEPT ![s] = LeaveProcess(b, main.close)]
    BY <1>2
<1>. DEFINE c == [b EXCEPT !.refCount = b.refCount - 1]
            q == LeaveProcess(b, main.close)
<1>4. a \in SessionRecord /\ SameRecv(a, ses[s]) /\ SameRef(a, ses[s]) /\ a.sendPending = a.sendPosted
    BY <1>1, <1>2, SendCounts DEF SInv, SendCount
<1>5. b \in SessionRecord /\ SameRecv(b, a) /\ SameSend(b, a) /\ SameRef(b, a)
    BY <1>3, <1>4, ShutdownKeepsCounts
<1>6. c \in SessionRecord /\ SameRecv(c, b) /\ SameSend(c, b) /\ c.refCount = b.refCount - 1
    <2>1. b.refCount - 1 \in Int
        BY <1>5, CountTypes
    <2>. QED BY <1>5, <2>1, CountUpdates DEF SessionRecord, SameRecv, SameSend
<1>7. q \in SessionRecord /\ SameRecv(q, c) /\ SameSend(q, c) /\ SameRef(q, c)
    <2>. HIDE DEF c
    <2>1. q = c \/ q = InternalCloseSocket(c)
        BY DEF LeaveProcess, c
    <2>. QED BY <1>6, <2>1, CloseKeepsCounts DEF SameRecv, SameSend, SameRef
<1>. HIDE DEF c, q
<1>8. SameRecv(q, ses[s]) /\ q.refCount = ses[s].refCount - 1 /\ q.sendPending = q.sendPosted
    BY <1>4, <1>5, <1>6, <1>7 DEF SameRecv, SameSend, SameRef
<1>9. /\ ses' = [ses EXCEPT ![s] = q] /\ todo' = todo \ {s} /\ main' = Idle
      /\ UNCHANGED <<place, worker, holders, mgr>>
    BY <1>0, <1>3 DEF ProcessEnd, q
<1>10. ses'[s] = q /\ \A x \in Sessions : x # s => ses'[x] = ses[x]
    BY <1>1, <1>9 DEF IInv, TypeOK
<1>11. main'.s = NoSession /\ main.s = s
    BY <1>0, <1>9 DEF Idle
<1>12. TypeOK'
    BY <1>7, <1>9 DEF IInv, TypeOK
<1>13. ASSUME NEW x \in Sessions, x # s
       PROVE  SInv(x)'
    <2>1. Unmoved(x)
        BY <1>9, <1>10, <1>11, <1>13, SessionAssumption DEF Unmoved
    <2>. QED BY <2>1, OtherSessions DEF IInv
<1>14. SInv(s)'
    <2>1. NoRecv(s)' <=> NoRecv(s)
        BY <1>8, <1>9, <1>10 DEF NoRecv, SameRecv, Parsing
    <2>2. Counting(s)' /\ RecvCount(s)' /\ OneOwner(s)' /\ SendCount(s)'
        BY <1>1, <1>8, <1>9, <1>10, <2>1 DEF SInv, Counting, RecvCount, OneOwner, SendCount, SameRecv, Parsing
    <2>3. Listed(s)' /\ Deleted(s)'
        BY <1>1, <1>9, <1>10, <1>11, <2>1, SessionAssumption DEF SInv, Listed, Deleted
    <2>4. RefCount(s)'
        <3>1. ses[s].refCount = Cardinality(holders[s]) + 1
            BY <1>1, <1>11 DEF SInv, RefCount
        <3>2. Cardinality(holders[s]) \in Int
            BY <1>1, FS_Subset, FS_CardinalityType, SessionAssumption DEF IInv, TypeOK
        <3>3. q.refCount = Cardinality(holders[s]) + 0
            BY <1>8, <3>1, <3>2
        <3>4. main'.s # s
            BY <1>1, <1>11, SessionAssumption
        <3>. QED BY <1>9, <1>10, <3>3, <3>4 DEF RefCount
    <2>. QED BY <2>2, <2>3, <2>4 DEF SInv
<1>. QED BY <1>12, <1>13, <1>14 DEF IInv

\* The steps that move sessions between lists, or the manager between phases.
LEMMA PassKeeps ==
    ASSUME IInv, BeginPass \/ DestroyBegin \/ DestroyClosed \/ DestroyEnd
    PROVE  IInv'
<1>2. CASE BeginPass \/ DestroyBegin
    <2>1. place' = Splice /\ todo' = {x \in Sessions : place'[x] = "current"}
          /\ mgr' \in {"running", "closing", "destroying", "destroyed", "timed_out"}
          /\ main = Idle /\ UNCHANGED <<ses, worker, main, holders>>
        BY <1>2 DEF BeginPass, DestroyBegin, IInv, TypeOK
    <2>2. TypeOK'
        BY <2>1 DEF IInv, TypeOK, Splice, Place
    <2>3. ASSUME NEW x \in Sessions
          PROVE  SInv(x)'
        <3>1. SInv(x) /\ main.s # x
            BY <2>1, SessionAssumption DEF IInv, Idle
        <3>2. place'[x] = IF place[x] = "to_be_added" THEN "current" ELSE place[x]
            BY <2>1 DEF Splice
        <3>3. NoRecv(x)' <=> NoRecv(x)
            BY <2>1 DEF NoRecv, Parsing
        <3>4. Counting(x)' /\ RecvCount(x)' /\ SendCount(x)' /\ OneOwner(x)'
            BY <2>1, <3>1, <3>2, <3>3 DEF SInv, Counting, RecvCount, SendCount, OneOwner, Again, Parsing
        <3>5. RefCount(x)'
            BY <2>1, <3>1 DEF SInv, RefCount
        <3>6. Listed(x)' /\ Deleted(x)'
            BY <2>1, <3>1, <3>2, <3>3 DEF SInv, Listed, Deleted, Again
        <3>. QED BY <3>1, <3>4, <3>5, <3>6 DEF SInv
    <2>. QED BY <2>2, <2>3 DEF IInv
<1>3. CASE DestroyClosed \/ DestroyEnd
    <2>1. UNCHANGED <<ses, place, worker, main, todo, holders>> /\ todo = {}
          /\ mgr' \in {"destroying", "destroyed", "timed_out"}
        BY <1>3 DEF DestroyClosed, DestroyEnd
    <2>2. TypeOK'
        BY <2>1 DEF IInv, TypeOK
    <2>3. ASSUME NEW x \in Sessions
          PROVE  SInv(x)'
        <3>1. Unmoved(x)
            BY <2>1 DEF Unmoved, IInv, SInv, Listed
        <3>. QED BY <3>1, OtherSessions DEF IInv
    <2>. QED BY <2>2, <2>3 DEF IInv
<1>. QED BY <1>2, <1>3

\* Destroy closes sessions and leaves their counters alone.
LEMMA DestroyCloseKeeps ==
    ASSUME IInv, NEW s \in Sessions, DestroyClose(s)
    PROVE  IInv'
<1>. DEFINE q == InternalCloseSocket(ses[s])
<1>1. ses[s] \in SessionRecord /\ SInv(s) /\ place[s] = "current" /\ main.s # s /\ mgr = "closing"
    BY DEF DestroyClose, IInv, TypeOK, SInv, Listed
<1>2. q \in SessionRecord /\ SameRecv(q, ses[s]) /\ SameSend(q, ses[s]) /\ SameRef(q, ses[s])
    BY <1>1, CloseKeepsCounts
<1>3. ses' = [ses EXCEPT ![s] = q] /\ todo' = todo \ {s} /\ UNCHANGED <<place, worker, main, holders, mgr>>
    BY DEF DestroyClose
<1>. HIDE DEF q
<1>4. ses'[s] = q /\ \A x \in Sessions : x # s => ses'[x] = ses[x]
    BY <1>3 DEF IInv, TypeOK
<1>5. TypeOK'
    BY <1>2, <1>3 DEF IInv, TypeOK
<1>6. ASSUME NEW x \in Sessions, x # s
      PROVE  SInv(x)'
    <2>1. Unmoved(x)
        BY <1>1, <1>3, <1>4, <1>6 DEF Unmoved, IInv, SInv, Listed
    <2>. QED BY <2>1, OtherSessions DEF IInv
<1>7. SInv(s)'
    <2>1. NoRecv(s)' <=> NoRecv(s)
        BY <1>2, <1>3, <1>4 DEF NoRecv, SameRecv, Parsing
    <2>2. Counting(s)' /\ RecvCount(s)' /\ OneOwner(s)' /\ SendCount(s)' /\ RefCount(s)'
        BY <1>1, <1>2, <1>3, <1>4, <2>1
           DEF SInv, Counting, RecvCount, OneOwner, SendCount, RefCount, SameRecv, SameSend, SameRef, Parsing, Again
    <2>3. Listed(s)' /\ Deleted(s)'
        BY <1>1, <1>3, <1>4, <2>1 DEF SInv, Listed, Deleted, Again
    <2>. QED BY <2>2, <2>3 DEF SInv
<1>. QED BY <1>5, <1>6, <1>7 DEF IInv

(***************************************************************************)
(* The steps of the opening thread, of the workers and of the holders.     *)
(***************************************************************************)

\* Opening a session posts its first receive, counted or not yet counted.
LEMMA OpenKeeps ==
    ASSUME IInv, NEW s \in Sessions, Open(s)
    PROVE  IInv'
<1>1. /\ place[s] = "free" /\ SInv(s) /\ UNCHANGED <<worker, main, todo, holders, mgr>>
    BY DEF Open, IInv
<1>2. NewSession \in SessionRecord
    BY DEF NewSession, SessionRecord
<1>3. \E q \in SessionRecord, p \in {"counting", "adding"} :
          /\ ses' = [ses EXCEPT ![s] = q] /\ place' = [place EXCEPT ![s] = p]
          /\ q.sendPending = 0 /\ q.sendPosted = 0 /\ q.refCount = 0
          /\ \/ p = "counting" /\ q.recvPending = 0
             \/ p = "adding" /\ q.recvPending = 0 /\ q.recvPosted = 0
             \/ p = "adding" /\ q.recvPending = 1
    <2>1. CASE /\ ses' = [ses EXCEPT ![s] = [NewSession EXCEPT !.recvPosted = 1]]
               /\ place' = [place EXCEPT ![s] = "counting"]
        <3>. DEFINE q == [NewSession EXCEPT !.recvPosted = 1]
        <3>1. q \in SessionRecord
            BY <1>2, CountUpdates
        <3>2. q.sendPending = 0 /\ q.sendPosted = 0 /\ q.refCount = 0 /\ q.recvPending = 0
            BY DEF NewSession
        <3>. HIDE DEF q
        <3>. QED BY <2>1, <3>1, <3>2 DEF q
    <2>2. ASSUME NEW q \in InternalRecv(NewSession), ses' = [ses EXCEPT ![s] = q],
                 place' = [place EXCEPT ![s] = "adding"]
          PROVE  q \in SessionRecord /\ q.sendPending = 0 /\ q.sendPosted = 0 /\ q.refCount = 0
                 /\ ((q.recvPending = 0 /\ q.recvPosted = 0) \/ q.recvPending = 1)
        <3>1. NewSession.recvPending = 0 /\ NewSession.recvPosted = 0 /\ NewSession.sendPending = 0
              /\ NewSession.sendPosted = 0 /\ NewSession.refCount = 0
            BY DEF NewSession
        <3>. QED BY <1>2, <2>2, <3>1, RecvCounts DEF SameRecv, SameSend, SameRef
    <2>. QED BY <2>1, <2>2 DEF Open
<1>4. PICK q \in SessionRecord, p \in {"counting", "adding"} :
          /\ ses' = [ses EXCEPT ![s] = q] /\ place' = [place EXCEPT ![s] = p]
          /\ q.sendPending = 0 /\ q.sendPosted = 0 /\ q.refCount = 0
          /\ \/ p = "counting" /\ q.recvPending = 0
             \/ p = "adding" /\ q.recvPending = 0 /\ q.recvPosted = 0
             \/ p = "adding" /\ q.recvPending = 1
    BY <1>3
<1>5. /\ ses'[s] = q /\ place'[s] = p
      /\ \A x \in Sessions : x # s => ses'[x] = ses[x] /\ place'[x] = place[x]
    BY <1>4 DEF IInv, TypeOK
<1>6. TypeOK'
    BY <1>1, <1>4 DEF IInv, TypeOK, Place
<1>7. ASSUME NEW x \in Sessions, x # s
      PROVE  SInv(x)'
    <2>1. Unmoved(x)
        BY <1>1, <1>5, <1>7 DEF Unmoved, IInv, SInv, Listed
    <2>. QED BY <2>1, OtherSessions DEF IInv
<1>8. SInv(s)'
    <2>1. NoRecv(s) /\ (\A w \in Workers : ~Again(w, s)) /\ s \notin todo /\ main.s # s /\ holders[s] = {}
        BY <1>1 DEF SInv, Listed
    <2>2. Counting(s)' /\ RecvCount(s)'
        BY <1>1, <1>4, <1>5, <2>1 DEF Counting, RecvCount, NoRecv, Parsing, Again
    <2>3. SendCount(s)' /\ RefCount(s)'
        <3>1. Cardinality({}) = 0
            BY FS_EmptySet
        <3>. QED BY <1>1, <1>4, <1>5, <2>1, <3>1 DEF SendCount, RefCount
    <2>4. Listed(s)' /\ OneOwner(s)' /\ Deleted(s)'
        BY <1>1, <1>4, <1>5, <2>1 DEF Listed, OneOwner, Deleted, NoRecv, Parsing
    <2>. QED BY <2>2, <2>3, <2>4 DEF SInv
<1>. QED BY <1>6, <1>7, <1>8 DEF IInv

\* The unlocked increment makes the count trusted: if the completion came first
\* the count passes from -1 to 0 and nothing is outstanding.
LEMMA CountFirstKeeps ==
    ASSUME IInv, NEW s \in Sessions, CountFirstRecv(s)
    PROVE  IInv'
<1>1. /\ place[s] = "counting" /\ SInv(s) /\ ses[s] \in SessionRecord
      /\ UNCHANGED <<worker, main, todo, holders, mgr>>
    BY DEF CountFirstRecv, IInv, TypeOK
<1>2. \/ ses[s].recvPending = 0
      \/ ses[s].recvPending = -1 /\ NoRecv(s)
    BY <1>1 DEF SInv, Counting
<1>3. PICK n \in {0, 1} : n = ses[s].recvPending + 1
    BY <1>2
<1>. DEFINE q == [ses[s] EXCEPT !.recvPending = n]
<1>4. q \in SessionRecord
    BY <1>1, CountUpdates
<1>5. q.recvPending = n /\ q.recvPosted = ses[s].recvPosted /\ SameSend(q, ses[s]) /\ SameRef(q, ses[s])
    BY <1>1 DEF SessionRecord, SameSend, SameRef
<1>6. ses' = [ses EXCEPT ![s] = q] /\ place' = [place EXCEPT ![s] = "adding"]
    BY <1>3 DEF CountFirstRecv
<1>. HIDE DEF q
<1>7. /\ ses'[s] = q /\ place'[s] = "adding"
      /\ \A x \in Sessions : x # s => ses'[x] = ses[x] /\ place'[x] = place[x]
    BY <1>6 DEF IInv, TypeOK
<1>8. TypeOK'
    BY <1>1, <1>4, <1>6 DEF IInv, TypeOK, Place
<1>9. ASSUME NEW x \in Sessions, x # s
      PROVE  SInv(x)'
    <2>1. Unmoved(x)
        BY <1>1, <1>7, <1>9 DEF Unmoved, IInv, SInv, Listed
    <2>. QED BY <2>1, OtherSessions DEF IInv
<1>10. SInv(s)'
    <2>1. NoRecv(s)' <=> NoRecv(s)
        BY <1>1, <1>5, <1>7 DEF NoRecv, Parsing
    <2>2. Counting(s)' /\ RecvCount(s)' /\ SendCount(s)' /\ RefCount(s)'
        BY <1>1, <1>2, <1>3, <1>5, <1>7, <2>1
           DEF SInv, Counting, RecvCount, SendCount, RefCount, SameSend, SameRef
    <2>3. Listed(s)' /\ OneOwner(s)' /\ Deleted(s)'
        BY <1>1, <1>5, <1>7, <2>1 DEF SInv, Listed, OneOwner, Deleted, Parsing
    <2>. QED BY <2>2, <2>3 DEF SInv
<1>. QED BY <1>8, <1>9, <1>10 DEF IInv

\* CSessionMgr::Add moves a session whose first receive has been counted.
LEMMA AddKeeps ==
    ASSUME IInv, NEW s \in Sessions, Add(s)
    PROVE  IInv'
<1>1. /\ place[s] = "adding" /\ SInv(s) /\ place' = [place EXCEPT ![s] = "to_be_added"]
      /\ UNCHANGED <<ses, worker, main, todo, holders, mgr>>
    BY DEF Add, IInv
<1>2. place'[s] = "to_be_added" /\ \A x \in Sessions : x # s => place'[x] = place[x]
    BY <1>1 DEF IInv, TypeOK
<1>3. TypeOK'
    BY <1>1 DEF IInv, TypeOK, Place
<1>4. ASSUME NEW x \in Sessions, x # s
      PROVE  SInv(x)'
    <2>1. Unmoved(x)
        BY <1>1, <1>2, <1>4 DEF Unmoved, IInv, SInv, Listed
    <2>. QED BY <2>1, OtherSessions DEF IInv
<1>5. SInv(s)'
    <2>1. NoRecv(s)' <=> NoRecv(s)
        BY <1>1 DEF NoRecv, Parsing
    <2>. QED BY <1>1, <1>2, <2>1
         DEF SInv, Counting, RecvCount, SendCount, RefCount, Listed, OneOwner, Deleted, Parsing
<1>. QED BY <1>3, <1>4, <1>5 DEF IInv

\* A worker takes the buffer over from the kernel.
LEMMA TakeRecvKeeps ==
    ASSUME IInv, NEW w \in Workers, NEW s \in Sessions, TakeRecv(w, s)
    PROVE  IInv'
<1>1. /\ worker[w] = Resting /\ ses[s] \in SessionRecord /\ SInv(s) /\ ses[s].recvPosted = 1
      /\ UNCHANGED <<place, main, todo, holders, mgr>>
    BY CountTypes DEF TakeRecv, IInv, TypeOK
<1>. DEFINE q == [ses[s] EXCEPT !.recvPosted = 0]
<1>2. q \in SessionRecord
    BY <1>1, CountUpdates
<1>3. /\ q.recvPending = ses[s].recvPending /\ q.recvPosted = 0
      /\ SameSend(q, ses[s]) /\ SameRef(q, ses[s])
    BY <1>1 DEF SessionRecord, SameSend, SameRef
<1>4. /\ ses' = [ses EXCEPT ![s] = q]
      /\ worker' = [worker EXCEPT ![w] = [at |-> "parse", s |-> s]]
    BY <1>1 DEF TakeRecv
<1>. HIDE DEF q
<1>5. /\ ses'[s] = q /\ worker'[w] = [at |-> "parse", s |-> s]
      /\ \A x \in Sessions : x # s => ses'[x] = ses[x]
      /\ \A v \in Workers : v # w => worker'[v] = worker[v]
    BY <1>4 DEF IInv, TypeOK
<1>6. TypeOK'
    BY <1>1, <1>2, <1>4 DEF IInv, TypeOK
<1>7. ASSUME NEW x \in Sessions, x # s
      PROVE  SInv(x)'
    <2>1. worker'[w].s # x /\ worker[w].s # x
        BY <1>1, <1>5, <1>7, SessionAssumption DEF Resting
    <2>2. Unmoved(x)
        BY <1>1, <1>5, <1>7, <2>1 DEF Unmoved, IInv, SInv, Listed
    <2>. QED BY <2>2, OtherSessions DEF IInv
<1>8. SInv(s)'
    <2>1. ~NoRecv(s) /\ \A v \in Workers : ~Parsing(v, s)
        BY <1>1 DEF SInv, OneOwner, NoRecv
    <2>2. \A v \in Workers : (Again(v, s)' => Again(v, s)) /\ (Parsing(v, s)' => v = w)
        BY <1>5, <2>1 DEF Again, Parsing
    <2>3. Counting(s)' /\ RecvCount(s)'
        BY <1>1, <1>3, <1>5, <2>1, <2>2 DEF SInv, Counting, RecvCount
    <2>4. SendCount(s)' /\ RefCount(s)'
        BY <1>1, <1>3, <1>5 DEF SInv, SendCount, RefCount, SameSend, SameRef
    <2>5. Listed(s)' /\ Deleted(s)'
        BY <1>1, <2>1 DEF SInv, Listed, Deleted
    <2>6. OneOwner(s)'
        BY <1>3, <1>5, <2>2 DEF OneOwner
    <2>. QED BY <2>3, <2>4, <2>5, <2>6 DEF SInv
<1>. QED BY <1>6, <1>7, <1>8 DEF IInv

\* A worker counts its receive down when nobody has the buffer any more; while
\* the opening thread is inside its increment either update may be lost, and the
\* count is then never zero again.
LEMMA FinishRecvKeeps ==
    ASSUME IInv, NEW w \in Workers, FinishRecv(w)
    PROVE  IInv'
<1>0. PICK s \in Sessions : worker[w] = [at |-> "parse", s |-> s]
    BY DEF FinishRecv, IInv, TypeOK, Resting
<1>1. ses[s] \in SessionRecord /\ SInv(s) /\ Parsing(w, s) /\ UNCHANGED <<main, todo, holders, mgr>>
    BY <1>0 DEF FinishRecv, IInv, TypeOK, Parsing
<1>2. PICK ok \in BOOLEAN, c \in CountedDown(s) :
          LET r == [ses[s] EXCEPT !.recvPending = c[1]]
          IN  /\ ses' = [ses EXCEPT ![s] = IF ok THEN r ELSE InternalCloseSocket(r)]
              /\ place' = [place EXCEPT ![s] = c[2]]
              /\ worker' = [worker EXCEPT ![w] = IF ok THEN [at |-> "again", s |-> s] ELSE Resting]
    <2>1. worker[w].s = s
        BY <1>0
    <2>. QED BY <2>1, Zenon DEF FinishRecv
<1>3. PICK n, p : c = <<n, p>>
    BY DEF CountedDown
<1>4. \/ /\ place[s] = "counting" /\ n = -1 /\ p \in {"counting", "adding"}
      \/ /\ place[s] = "counting" /\ n = 1 /\ p = "adding"
      \/ /\ place[s] # "counting" /\ n = 0 /\ p = place[s]
    <2>1. ~NoRecv(s)
        BY <1>1 DEF NoRecv
    <2>2. CASE place[s] = "counting"
        <3>1. ses[s].recvPending = 0
            BY <1>1, <2>1, <2>2 DEF SInv, Counting
        <3>. QED BY <1>3, <2>2, <3>1 DEF CountedDown
    <2>3. CASE place[s] # "counting"
        <3>1. ses[s].recvPending = 1
            BY <1>1, <2>1, <2>3, CountTypes DEF SInv, RecvCount
        <3>. QED BY <1>3, <2>3, <3>1 DEF CountedDown
    <2>. QED BY <2>2, <2>3
<1>. DEFINE d == [ses[s] EXCEPT !.recvPending = n]
            q == IF ok THEN d ELSE InternalCloseSocket(d)
            t == IF ok THEN [at |-> "again", s |-> s] ELSE Resting
<1>5. d \in SessionRecord
    BY <1>1, <1>4, CountUpdates
<1>6. /\ d.recvPending = n /\ d.recvPosted = ses[s].recvPosted
      /\ SameSend(d, ses[s]) /\ SameRef(d, ses[s])
    BY <1>1 DEF SessionRecord, SameSend, SameRef
<1>7. /\ ses' = [ses EXCEPT ![s] = q] /\ place' = [place EXCEPT ![s] = p]
      /\ worker' = [worker EXCEPT ![w] = t]
    BY <1>2, <1>3
<1>. HIDE DEF d
<1>8. /\ q \in SessionRecord /\ q.recvPending = n /\ q.recvPosted = ses[s].recvPosted
      /\ SameSend(q, ses[s]) /\ SameRef(q, ses[s])
    BY <1>5, <1>6, CloseKeepsCounts DEF SameRecv, SameSend, SameRef
<1>9. t \in [at : {"parse", "again"}, s : Sessions] \union {Resting} /\ t # [at |-> "parse", s |-> s]
      /\ t.s \in {s, NoSession}
    BY DEF Resting
<1>. HIDE DEF q, t
<1>10. /\ ses'[s] = q /\ place'[s] = p /\ worker'[w] = t
       /\ \A x \in Sessions : x # s => ses'[x] = ses[x] /\ place'[x] = place[x]
       /\ \A v \in Workers : v # w => worker'[v] = worker[v]
    BY <1>7 DEF IInv, TypeOK
<1>11. TypeOK'
    <2>1. p \in Place
        BY <1>4 DEF IInv, TypeOK, Place
    <2>. QED BY <1>1, <1>7, <1>8, <1>9, <2>1 DEF IInv, TypeOK
<1>12. ASSUME NEW x \in Sessions, x # s
       PROVE  SInv(x)'
    <2>1. worker'[w].s # x /\ worker[w].s # x
        BY <1>0, <1>9, <1>10, <1>12, SessionAssumption
    <2>2. Unmoved(x)
        BY <1>1, <1>10, <1>12, <2>1 DEF Unmoved, IInv, SInv, Listed
    <2>. QED BY <2>2, OtherSessions DEF IInv
<1>13. SInv(s)'
    <2>1. NoRecv(s)'
        BY <1>0, <1>1, <1>8, <1>9, <1>10 DEF SInv, OneOwner, NoRecv, Parsing
    <2>2. place[s] # "deleted" /\ place[s] # "free" /\ p # "deleted" /\ p # "free"
        BY <1>1, <1>4 DEF SInv, Deleted, Listed, NoRecv
    <2>3. Counting(s)' /\ RecvCount(s)' /\ OneOwner(s)'
        BY <1>4, <1>8, <1>10, <2>1 DEF Counting, RecvCount, OneOwner, NoRecv
    <2>4. SendCount(s)' /\ RefCount(s)'
        BY <1>1, <1>8, <1>10 DEF SInv, SendCount, RefCount, SameSend, SameRef
    <2>5. Listed(s)' /\ Deleted(s)'
        BY <1>1, <1>4, <1>10, <2>2 DEF SInv, Listed, Deleted
    <2>. QED BY <2>3, <2>4, <2>5 DEF SInv
<1>. QED BY <1>11, <1>12, <1>13 DEF IInv

\* The receive that a worker posts after Dispatch is posted on a trusted count.
LEMMA RecvAgainKeeps ==
    ASSUME IInv, NEW w \in Workers, RecvAgain(w)
    PROVE  IInv'
<1>0. PICK s \in Sessions : worker[w] = [at |-> "again", s |-> s]
    BY DEF RecvAgain, IInv, TypeOK, Resting
<1>1. /\ ses[s] \in SessionRecord /\ SInv(s) /\ Again(w, s)
      /\ worker' = [worker EXCEPT ![w] = Resting]
      /\ UNCHANGED <<place, main, todo, holders, mgr>>
    BY <1>0 DEF RecvAgain, IInv, TypeOK, Again
<1>2. \E q \in SessionRecord :
          /\ ses' = [ses EXCEPT ![s] = q] /\ SameSend(q, ses[s]) /\ SameRef(q, ses[s])
          /\ \/ SameRecv(q, ses[s])
             \/ /\ place[s] \notin {"deleted", "counting", "free"}
                /\ ses[s].recvPending = 0 /\ q.recvPending = 1 /\ q.recvPosted = 1
    <2>1. CASE place[s] = "deleted"
        <3>1. ses' = [ses EXCEPT ![s] = ses[s]]
            BY <1>0, <2>1 DEF RecvAgain, IInv, TypeOK
        <3>. QED BY <1>1, <3>1 DEF SameRecv, SameSend, SameRef
    <2>2. CASE place[s] # "deleted"
        <3>1. PICK q \in InternalRecv(ses[s]) : ses' = [ses EXCEPT ![s] = q]
            BY <1>0, <2>2 DEF RecvAgain
        <3>2. place[s] # "free" /\ (place[s] = "counting" => ses[s].recvPending # 0 /\ NoRecv(s))
            BY <1>1 DEF SInv, Counting, Listed
        <3>3. ses[s].recvPending = 0 => ses[s].recvPosted = 0
            BY <3>2, TrustedCount
        <3>. QED BY <1>1, <2>2, <3>1, <3>2, <3>3, RecvCounts
    <2>. QED BY <2>1, <2>2
<1>3. PICK q \in SessionRecord :
          /\ ses' = [ses EXCEPT ![s] = q] /\ SameSend(q, ses[s]) /\ SameRef(q, ses[s])
          /\ \/ SameRecv(q, ses[s])
             \/ /\ place[s] \notin {"deleted", "counting", "free"}
                /\ ses[s].recvPending = 0 /\ q.recvPending = 1 /\ q.recvPosted = 1
    BY <1>2
<1>4. /\ ses'[s] = q /\ worker'[w] = Resting
      /\ \A x \in Sessions : x # s => ses'[x] = ses[x]
      /\ \A v \in Workers : v # w => worker'[v] = worker[v]
    BY <1>1, <1>3 DEF IInv, TypeOK
<1>5. TypeOK'
    BY <1>1, <1>3 DEF IInv, TypeOK
<1>6. ASSUME NEW x \in Sessions, x # s
      PROVE  SInv(x)'
    <2>1. worker'[w].s # x /\ worker[w].s # x
        BY <1>0, <1>4, <1>6, SessionAssumption DEF Resting
    <2>2. Unmoved(x)
        BY <1>1, <1>4, <1>6, <2>1 DEF Unmoved, IInv, SInv, Listed
    <2>. QED BY <2>2, OtherSessions DEF IInv
<1>7. SInv(s)'
    <2>1. \A v \in Workers : (Again(v, s)' => Again(v, s)) /\ (Parsing(v, s)' <=> Parsing(v, s))
        BY <1>1, <1>4 DEF Again, Parsing, Resting
    <2>2. SendCount(s)' /\ RefCount(s)'
        BY <1>1, <1>3, <1>4 DEF SInv, SendCount, RefCount, SameSend, SameRef
    <2>3. CASE SameRecv(q, ses[s])
        <3>1. NoRecv(s)' <=> NoRecv(s)
            BY <1>4, <2>1, <2>3 DEF NoRecv, SameRecv
        <3>2. Counting(s)' /\ RecvCount(s)' /\ OneOwner(s)'
            BY <1>1, <1>4, <2>1, <2>3, <3>1 DEF SInv, Counting, RecvCount, OneOwner, SameRecv
        <3>3. Listed(s)' /\ Deleted(s)'
            BY <1>1, <1>3, <1>4, <2>1, <3>1 DEF SInv, Listed, Deleted, SameSend
        <3>. QED BY <2>2, <3>2, <3>3 DEF SInv
    <2>4. CASE /\ place[s] \notin {"deleted", "counting", "free"}
               /\ ses[s].recvPending = 0 /\ q.recvPending = 1 /\ q.recvPosted = 1
        <3>1. NoRecv(s)
            BY <1>1, <2>4 DEF SInv, RecvCount
        <3>2. Counting(s)' /\ RecvCount(s)' /\ OneOwner(s)'
            BY <1>1, <1>4, <2>1, <2>4, <3>1 DEF Counting, RecvCount, OneOwner, NoRecv
        <3>3. Listed(s)' /\ Deleted(s)'
            BY <1>1, <2>4 DEF SInv, Listed, Deleted
        <3>. QED BY <2>2, <3>2, <3>3 DEF SInv
    <2>. QED BY <1>3, <2>3, <2>4
<1>. QED BY <1>5, <1>6, <1>7 DEF IInv

\* The completion of a send is counted down, and may post the next one.
LEMMA SendCompletedKeeps ==
    ASSUME IInv, NEW s \in Sessions, SendCompleted(s)
    PROVE  IInv'
<1>1. /\ ses[s] \in SessionRecord /\ SendCount(s) /\ ses[s].sendPosted = 1 /\ ses[s].sendPending = 1
      /\ place[s] # "deleted"
    BY CountTypes DEF SendCompleted, IInv, TypeOK, SInv, SendCount, Deleted
<1>. DEFINE r == [ses[s] EXCEPT !.sendPosted = 0, !.sendPending = 0]
<1>2. r \in SessionRecord
    BY <1>1, CountUpdates
<1>3. SameRecv(r, ses[s]) /\ SameRef(r, ses[s]) /\ r.sendPending = 0 /\ r.sendPosted = 0
    BY <1>1 DEF SessionRecord, SameRecv, SameRef
<1>4. r = [ses[s] EXCEPT !.sendPosted = @ - 1, !.sendPending = @ - 1]
    BY <1>1
<1>5. /\ \E q \in InternalSend(r) \union {InternalCloseSocket(r)} : ses' = [ses EXCEPT ![s] = q]
      /\ UNCHANGED <<place, worker, main, todo, holders, mgr>>
    BY <1>4 DEF SendCompleted
<1>. HIDE DEF r
<1>6. PICK q \in InternalSend(r) \union {InternalCloseSocket(r)} : ses' = [ses EXCEPT ![s] = q]
    BY <1>5
<1>7. q \in SessionRecord /\ SameRecv(q, r) /\ SameRef(q, r) /\ q.sendPending = q.sendPosted
    BY <1>2, <1>3, <1>6, SendCounts, CloseKeepsCounts DEF SameSend
<1>8. SameRecv(q, ses[s]) /\ SameRef(q, ses[s])
    BY <1>3, <1>7 DEF SameRecv, SameRef
<1>9. TypeOK'
    BY <1>5, <1>6, <1>7 DEF IInv, TypeOK
<1>. QED BY <1>1, <1>5, <1>6, <1>7, <1>8, <1>9, OneSession

\* The reference count goes up and down with the set of holders; only sessions
\* in the current list are referred to.
LEMMA HoldersKeep ==
    ASSUME IInv, NEW s \in Sessions, NEW u \in Users, AddRef(u, s) \/ Release(u, s)
    PROVE  IInv'
<1>1. ses[s] \in SessionRecord /\ SInv(s) /\ place[s] = "current" /\ holders[s] \in SUBSET Users
      /\ UNCHANGED <<place, worker, main, todo, mgr>>
    BY DEF AddRef, Release, Registered, IInv, TypeOK, SInv, Listed
<1>2. IsFiniteSet(holders[s]) /\ Cardinality(holders[s]) \in Int
    BY <1>1, FS_Subset, FS_CardinalityType, SessionAssumption
<1>3. PICK H \in SUBSET Users, n \in Int :
          /\ holders' = [holders EXCEPT ![s] = H] /\ ses' = [ses EXCEPT ![s].refCount = n]
          /\ n - ses[s].refCount = Cardinality(H) - Cardinality(holders[s])
          /\ Cardinality(H) \in Int
    <2>1. CASE AddRef(u, s)
        <3>. DEFINE H == holders[s] \union {u}
                    m == ses[s].refCount + 1
        <3>1. Cardinality(H) = Cardinality(holders[s]) + 1
            BY <1>2, <2>1, FS_AddElement DEF AddRef
        <3>2. H \in SUBSET Users /\ m \in Int /\ ses[s].refCount \in Int
            BY <1>1, CountTypes
        <3>3. /\ holders' = [holders EXCEPT ![s] = H]
              /\ ses' = [ses EXCEPT ![s].refCount = m]
            BY <2>1 DEF AddRef
        <3>4. m - ses[s].refCount = Cardinality(H) - Cardinality(holders[s]) /\ Cardinality(H) \in Int
            BY <1>2, <3>1, <3>2
        <3>. HIDE DEF H, m
        <3>. QED BY <3>2, <3>3, <3>4, Zenon
    <2>2. CASE Release(u, s)
        <3>. DEFINE H == holders[s] \ {u}
                    m == ses[s].refCount - 1
        <3>1. Cardinality(H) = Cardinality(holders[s]) - 1
            BY <1>2, <2>2, FS_RemoveElement DEF Release
        <3>2. H \in SUBSET Users /\ m \in Int /\ ses[s].refCount \in Int
            BY <1>1, CountTypes
        <3>3. /\ holders' = [holders EXCEPT ![s] = H]
              /\ ses' = [ses EXCEPT ![s].refCount = m]
            BY <2>2 DEF Release
        <3>4. m - ses[s].refCount = Cardinality(H) - Cardinality(holders[s]) /\ Cardinality(H) \in Int
            BY <1>2, <3>1, <3>2
        <3>. HIDE DEF H, m
        <3>. QED BY <3>2, <3>3, <3>4, Zenon
    <2>. QED BY <2>1, <2>2
<1>. DEFINE q == [ses[s] EXCEPT !.refCount = n]
<1>4. q \in SessionRecord
    BY <1>1, CountUpdates
<1>5. q.refCount = n /\ SameRecv(q, ses[s]) /\ SameSend(q, ses[s])
    BY <1>1 DEF SessionRecord, SameRecv, SameSend
<1>6. ses' = [ses EXCEPT ![s] = q]
    BY <1>3
<1>. HIDE DEF q
<1>7. /\ ses'[s] = q /\ holders'[s] = H
      /\ \A x \in Sessions : x # s => ses'[x] = ses[x] /\ holders'[x] = holders[x]
    BY <1>3, <1>6 DEF IInv, TypeOK
<1>8. TypeOK'
    BY <1>1, <1>3, <1>4, <1>6 DEF IInv, TypeOK
<1>9. ASSUME NEW x \in Sessions, x # s
      PROVE  SInv(x)'
    <2>1. Unmoved(x)
        BY <1>1, <1>7, <1>9 DEF Unmoved, IInv, SInv, Listed
    <2>. QED BY <2>1, OtherSessions DEF IInv
<1>10. SInv(s)'
    <2>1. NoRecv(s)' <=> NoRecv(s)
        BY <1>1, <1>5, <1>7 DEF NoRecv, SameRecv, Parsing
    <2>2. Counting(s)' /\ RecvCount(s)' /\ OneOwner(s)' /\ SendCount(s)'
        BY <1>1, <1>5, <1>7, <2>1
           DEF SInv, Counting, RecvCount, OneOwner, SendCount, SameRecv, SameSend, Parsing
    <2>3. Listed(s)' /\ Deleted(s)'
        BY <1>1 DEF SInv, Listed, Deleted
    <2>4. RefCount(s)'
        <3>1. ses[s].refCount = Cardinality(holders[s]) + IF main.s = s THEN 1 ELSE 0
            BY <1>1 DEF SInv, RefCount
        <3>2. n = Cardinality(H) + IF main.s = s THEN 1 ELSE 0
            BY <1>1, <1>2, <1>3, <3>1
        <3>. QED BY <1>1, <1>5, <1>7, <3>2 DEF RefCount
    <2>. QED BY <2>2, <2>3, <2>4 DEF SInv
<1>. QED BY <1>8, <1>9, <1>10 DEF IInv

-----------------------------------------------------------------------------
(* The invariant, and what it gives.                                         *)

\* No session exists when the manager starts.
LEMMA InitInv == Init => IInv
<1>. SUFFICES ASSUME Init PROVE IInv
    OBVIOUS
<1>1. NewSession \in SessionRecord
    BY DEF NewSession, SessionRecord
<1>2. TypeOK
    BY <1>1 DEF Init, TypeOK, Place
<1>3. ASSUME NEW s \in Sessions
      PROVE  SInv(s)
    <2>1. ses[s] = NewSession /\ place[s] = "free" /\ holders[s] = {} /\ main.s # s /\ todo = {}
          /\ \A w \in Workers : ~Parsing(w, s) /\ ~Again(w, s)
        BY SessionAssumption DEF Init, Idle, Resting, Parsing, Again
    <2>2. NoRecv(s)
        BY <2>1 DEF NoRecv, NewSession
    <2>3. RefCount(s) /\ SendCount(s)
        BY <2>1, FS_EmptySet DEF RefCount, SendCount, NewSession
    <2>. QED BY <2>1, <2>2, <2>3 DEF SInv, Counting, RecvCount, Listed, OneOwner, Deleted, NoRecv
<1>. QED BY <1>2, <1>3 DEF IInv

\* Each thread's steps keep the invariant.
LEMMA NextInv == IInv /\ [Next]_vars => IInv'
<1>. SUFFICES ASSUME IInv, [Next]_vars PROVE IInv'
    OBVIOUS
<1>1. CASE MainStep
    BY <1>1, PassKeeps, ProcessKeeps, EliminateKeeps, CallbacksKeep, ProcessEndKeeps DEF MainStep
<1>2. CASE \E w \in Workers : WorkerStep(w)
    BY <1>2, TakeRecvKeeps, FinishRecvKeeps, RecvAgainKeeps DEF WorkerStep
<1>3. CASE \E s \in Sessions :
               Open(s) \/ CountFirstRecv(s) \/ Add(s) \/ SendCompleted(s) \/ CallStep(s)
    BY <1>3, OpenKeeps, CountFirstKeeps, AddKeeps, SendCompletedKeeps, CallsKeep
<1>4. CASE \E s \in Sessions, u \in Users : AddRef(u, s) \/ Release(u, s)
    BY <1>4, HoldersKeep
<1>5. CASE DestroyStep
    BY <1>5, PassKeeps, DestroyCloseKeeps DEF DestroyStep
<1>6. CASE UNCHANGED vars
    <2>1. TypeOK'
        BY <1>6 DEF vars, IInv, TypeOK
    <2>2. ASSUME NEW x \in Sessions
          PROVE  SInv(x)'
        <3>1. Unmoved(x)
            BY <1>6 DEF vars, Unmoved, IInv, SInv, Listed
        <3>. QED BY <3>1, OtherSessions DEF IInv
    <2>. QED BY <2>1, <2>2 DEF IInv
<1>. QED BY <1>1, <1>2, <1>3, <1>4, <1>5, <1>6 DEF Next, Terminated

\* The counters of every session mean what IInv says they mean, for any number
\* of sessions, workers and users, with or without the race of the first receive.
THEOREM CountersAreTrue == Spec => []IInv
BY InitInv, NextInv, PTL DEF Spec

\* The variables keep their types: no count leaves the range the code's tests
\* of zero rely on.
THEOREM TypeCorrect == Spec => []TypeOK
<1>1. IInv => TypeOK
    BY DEF IInv
<1>. QED BY <1>1, CountersAreTrue, PTL

\* A session is deleted only with no call in the kernel, no worker in its buffer
\* and no reference left: the test in CSession::Process (Session.cpp:137-140).
THEOREM NothingAfterDelete == Spec => []NoIoAfterDelete
<1>1. IInv => NoIoAfterDelete
    BY DEF IInv, SInv, Deleted, NoRecv, NoIoAfterDelete
<1>. QED BY <1>1, CountersAreTrue, PTL

\* The kernel and the workers never share a receive buffer, which
\* CSession::Dispatch parses without the lock (Session.cpp:218-226).
THEOREM BufferOwner == Spec => []RecvBufferHasOneOwner
<1>1. IInv => RecvBufferHasOneOwner
    BY DEF IInv, SInv, OneOwner, RecvBufferHasOneOwner
<1>. QED BY <1>1, CountersAreTrue, PTL
=============================================================================
