------------------------------- MODULE Session -------------------------------
(***************************************************************************)
(* The connection object of the servers (CSession) and the manager that    *)
(* owns every connection (CSessionMgr).                                    *)
(*                                                                         *)
(* Four kinds of threads touch a session:                                  *)
(*   - the process thread, which runs CSessionMgr::Process over and over   *)
(*     and is the only one that deletes a session;                         *)
(*   - the I/O workers, which take completions from the port;              *)
(*   - the thread that opened the connection (an I/O worker in             *)
(*     CListener::ProcessAccept, any thread in CIOCPNet::Connect);         *)
(*   - any other thread that took a reference to the session.              *)
(* Every method takes the session's lock, but Process and Dispatch give it *)
(* up in the middle; each locked section is one action here.               *)
(***************************************************************************)
EXTENDS Integers, Sequences, FiniteSets

CONSTANTS
    Sessions,   \* the lifetimes of CSession objects; memory is not reused
    Workers,    \* the I/O worker threads
    Users,      \* other threads that may hold a reference to a session
    NoSession,  \* "no session"
    MaxSend     \* bound: buffers ever queued on one session

ASSUME SessionAssumption ==
    /\ NoSession \notin Sessions
    /\ IsFiniteSet(Users)
    /\ MaxSend \in Nat

VARIABLES
    ses,        \* ses[s]: the members of CSession and the I/O it has posted
    place,      \* place[s]: which list of the manager, or which phase of opening
    worker,     \* worker[w]: what the I/O worker is doing
    main,       \* where the process thread is inside CSession::Process
    todo,       \* sessions the process thread has still to visit in this pass
    holders,    \* holders[s]: the other threads that hold a reference
    mgr         \* whether CSessionMgr runs or is being destroyed

vars == <<ses, place, worker, main, todo, holders, mgr>>

SessionFlag == {"CONNECT_CALLED", "DISCONNECT_PROCESSED", "SHUTDOWN_CALLED",
                "SHUTDOWN_PROCESSED", "SUSPEND_RECV"}

\* Where a session is. "counting" and "adding" are inside ProcessAccept or
\* Connect: before and after the first WSARecv has been counted.
Place == {"free", "counting", "adding", "to_be_added", "current", "deleted"}

\* recvPending -1 stands for 0xFFFFFFFF. recvPosted and sendPosted count the
\* overlapped calls the kernel has accepted; sent is the order of the WSASends;
\* fin records that Process has shut the sending side down, and calls the
\* callbacks that have returned.
SessionRecord ==
    [status : {"CONNECTED", "DISCONNECTED"}, socket : {"open", "INVALID"},
     flags : SUBSET SessionFlag, recvPending : -1 .. 1, sendPending : 0 .. 1,
     refCount : Int, sendQueue : Seq(Nat), accepted : Nat, sent : Seq(Nat),
     recvPosted : 0 .. 1, sendPosted : 0 .. 1, fin : BOOLEAN,
     calls : Seq({"Connected", "Disconnected"})]

NewSession ==
    [status |-> "CONNECTED", socket |-> "open", flags |-> {}, recvPending |-> 0,
     sendPending |-> 0, refCount |-> 0, sendQueue |-> <<>>, accepted |-> 0,
     sent |-> <<>>, recvPosted |-> 0, sendPosted |-> 0, fin |-> FALSE, calls |-> <<>>]

Idle == [at |-> "idle", s |-> NoSession, close |-> FALSE]
Resting == [at |-> "idle", s |-> NoSession]

-----------------------------------------------------------------------------
(***************************************************************************)
(* The private helpers of CSession, all called with the lock held. Each    *)
(* maps a session to the sessions it may leave behind: a socket call may   *)
(* fail at any time.                                                       *)
(***************************************************************************)

InternalCloseSocket(r) ==
    [r EXCEPT !.status = "DISCONNECTED",
              !.socket = "INVALID",
              !.flags = IF r.socket = "open" THEN @ \union {"SHUTDOWN_PROCESSED"} ELSE @]

\* Mutant: a receive is posted while another is pending.
InternalRecvUnguarded(r) ==
    IF "SUSPEND_RECV" \in r.flags \/ r.recvPosted # 0
    THEN {r}
    ELSE {InternalCloseSocket(r)} \union
         {[r EXCEPT !.recvPending = 1, !.recvPosted = @ + 1] : x \in {r.socket} \ {"INVALID"}}

\* WSARecv on INVALID_SOCKET fails, and so does any other at the network's will.
InternalRecv(r) ==
    IF "SUSPEND_RECV" \in r.flags \/ r.recvPending # 0
    THEN {r}
    ELSE {InternalCloseSocket(r)} \union
         {[r EXCEPT !.recvPending = @ + 1, !.recvPosted = @ + 1] : x \in {r.socket} \ {"INVALID"}}

\* Mutant: a buffer that was not sent goes back to the tail.
SendHeadRequeuedLast(r) ==
    LET last == [r EXCEPT !.sendQueue = Append(Tail(@), Head(@))]
    IN  IF r.socket = "INVALID"
        THEN {last}
        ELSE {InternalCloseSocket(last),
              [r EXCEPT !.sendQueue = Tail(@), !.sendPosted = @ + 1,
                        !.sendPending = @ + 1, !.sent = Append(@, Head(r.sendQueue))]}

\* The head of the queue goes to WSASend; what is not sent goes back to the head.
SendHead(r) ==
    LET b == Head(r.sendQueue)
        dequeued == [r EXCEPT !.sendQueue = Tail(@)]
        Requeue(q) == [q EXCEPT !.sendQueue = <<b>> \o @]
    IN  IF r.socket = "INVALID"
        THEN {Requeue(dequeued)}
        ELSE {Requeue(InternalCloseSocket(dequeued)),
              [dequeued EXCEPT !.sendPending = @ + 1, !.sendPosted = @ + 1,
                               !.sent = Append(@, b)]}

InternalSend(r) ==
    IF r.sendPending # 0 \/ r.sendQueue = <<>> THEN {r} ELSE SendHead(r)

\* Mutant: the sending side is shut down with buffers still in the queue.
ShutdownAtOnce(r) ==
    IF "SHUTDOWN_CALLED" \in r.flags /\ r.socket = "open"
    THEN {[r EXCEPT !.fin = TRUE], [r EXCEPT !.flags = @ \union {"SHUTDOWN_PROCESSED"}]}
    ELSE {r}

\* shutdown() returns zero when it succeeds: the flag is set when it fails.
ShutdownWhenDrained(r) ==
    IF "SHUTDOWN_CALLED" \in r.flags /\ r.sendQueue = <<>> /\ r.socket = "open"
    THEN {[r EXCEPT !.fin = TRUE], [r EXCEPT !.flags = @ \union {"SHUTDOWN_PROCESSED"}]}
    ELSE {r}

-----------------------------------------------------------------------------
(* Opening: CListener::ProcessAccept and CIOCPNet::Connect.                  *)

\* The socket is attached to the port and WSARecv is posted without the lock, so
\* that its completion may be taken before ++m_dwRecvPending. If WSARecv fails
\* the session is closed, and is added to the manager all the same.
Open(s) ==
    /\ place[s] = "free"
    /\ mgr = "running"
    /\ \/ /\ ses' = [ses EXCEPT ![s] = [NewSession EXCEPT !.recvPosted = 1]]
          /\ place' = [place EXCEPT ![s] = "counting"]
       \/ /\ \E r \in InternalRecv(NewSession) : ses' = [ses EXCEPT ![s] = r]
          /\ place' = [place EXCEPT ![s] = "adding"]
    /\ UNCHANGED <<worker, main, todo, holders, mgr>>

\* The unlocked ++m_dwRecvPending of that first InternalRecv.
CountFirstRecv(s) ==
    /\ place[s] = "counting"
    /\ ses' = [ses EXCEPT ![s].recvPending = @ + 1]
    /\ place' = [place EXCEPT ![s] = "adding"]
    /\ UNCHANGED <<worker, main, todo, holders, mgr>>

Add(s) ==
    /\ place[s] = "adding"
    /\ place' = [place EXCEPT ![s] = "to_be_added"]
    /\ UNCHANGED <<ses, worker, main, todo, holders, mgr>>

-----------------------------------------------------------------------------
(* The process thread: CSessionMgr::InternalProcess and CSession::Process.   *)

Splice == [s \in Sessions |-> IF place[s] = "to_be_added" THEN "current" ELSE place[s]]

BeginPass ==
    /\ mgr \in {"running", "destroying"}
    /\ main = Idle
    /\ todo = {}
    /\ place' = Splice
    /\ todo' = {s \in Sessions : place'[s] = "current"}
    /\ UNCHANGED <<ses, worker, main, holders, mgr>>

Visit(s, r, at) ==
    /\ ses' = [ses EXCEPT ![s] = [r EXCEPT !.refCount = @ + 1]]
    /\ main' = [at |-> at, s |-> s, close |-> FALSE]
    /\ UNCHANGED <<place, worker, todo, holders, mgr>>

\* The process thread takes the next session of the pass.
Next1(s) == main = Idle /\ s \in todo /\ mgr # "closing"

\* Mutant: the receive is armed with Connected() only, not on every visit.
ProcessConnectedOnce(s) ==
    /\ Next1(s)
    /\ ses[s].status = "CONNECTED"
    /\ IF "CONNECT_CALLED" \in ses[s].flags
       THEN Visit(s, ses[s], "dispatch")
       ELSE \E r \in InternalRecv([ses[s] EXCEPT !.flags = @ \union {"CONNECT_CALLED"}]) :
               Visit(s, r, "connected")

ProcessConnected(s) ==
    /\ Next1(s)
    /\ ses[s].status = "CONNECTED"
    /\ \E r \in InternalRecv([ses[s] EXCEPT !.flags = @ \union {"CONNECT_CALLED"}]) :
          Visit(s, r, IF "CONNECT_CALLED" \in ses[s].flags THEN "dispatch" ELSE "connected")

\* Mutant: the reference count is not looked at.
QuietUncounted(r) ==
    r.socket = "INVALID" /\ r.recvPending = 0 /\ r.sendPending = 0

Quiet(r) ==
    /\ r.socket = "INVALID"
    /\ r.recvPending = 0
    /\ r.sendPending = 0
    /\ r.refCount = 0

\* Mutant: DISCONNECT_PROCESSED is not set when the callback is decided.
ProcessDisconnectedUnflagged(s) ==
    /\ Next1(s)
    /\ ses[s].status = "DISCONNECTED"
    /\ Visit(s, ses[s], "disconnected")

ProcessDisconnected(s) ==
    /\ Next1(s)
    /\ ses[s].status = "DISCONNECTED"
    /\ \/ /\ "DISCONNECT_PROCESSED" \notin ses[s].flags
          /\ Visit(s, [ses[s] EXCEPT !.flags = @ \union {"DISCONNECT_PROCESSED"}], "disconnected")
       \/ /\ "DISCONNECT_PROCESSED" \in ses[s].flags
          /\ ~Quiet(ses[s])
          /\ Visit(s, ses[s], "finish")

\* Process returns false: the session is erased from the list and deleted.
Eliminate(s) ==
    /\ Next1(s)
    /\ ses[s].status = "DISCONNECTED"
    /\ "DISCONNECT_PROCESSED" \in ses[s].flags
    /\ Quiet(ses[s])
    /\ ses' = [ses EXCEPT ![s] = InternalCloseSocket(@)]
    /\ place' = [place EXCEPT ![s] = "deleted"]
    /\ todo' = todo \ {s}
    /\ UNCHANGED <<worker, main, holders, mgr>>

\* The callbacks, without the lock.
Returned(s, call) == ses' = [ses EXCEPT ![s].calls = Append(@, call)]

CallConnected ==
    /\ main.at = "connected"
    /\ Returned(main.s, "Connected")
    /\ main' = [main EXCEPT !.at = "dispatch"]
    /\ UNCHANGED <<place, worker, todo, holders, mgr>>

\* m_lpDispatch->Dispatch() handles the received packets; false closes the session.
CallDispatch ==
    /\ main.at = "dispatch"
    /\ \E close \in BOOLEAN : main' = [main EXCEPT !.at = "finish", !.close = close]
    /\ UNCHANGED <<ses, place, worker, todo, holders, mgr>>

CallDisconnected ==
    /\ main.at = "disconnected"
    /\ Returned(main.s, "Disconnected")
    /\ main' = [main EXCEPT !.at = "finish"]
    /\ UNCHANGED <<place, worker, todo, holders, mgr>>

\* The second locked section of Process.
LeaveProcess(r, close) ==
    LET released == [r EXCEPT !.refCount = @ - 1]
    IN  IF close THEN InternalCloseSocket(released) ELSE released

ProcessEnd ==
    /\ main.at = "finish"
    /\ \E q \in InternalSend(ses[main.s]) : \E r \in ShutdownWhenDrained(q) :
          ses' = [ses EXCEPT ![main.s] = LeaveProcess(r, main.close)]
    /\ todo' = todo \ {main.s}
    /\ main' = Idle
    /\ UNCHANGED <<place, worker, holders, mgr>>

-----------------------------------------------------------------------------
(* The I/O workers: COverlapped::Dispatch for each kind of completion.       *)

\* Mutant: the pending receive is counted down before the buffer is parsed.
TakeRecvCounted(w, s) ==
    /\ worker[w] = Resting
    /\ ses[s].recvPosted > 0
    /\ ses' = [ses EXCEPT ![s].recvPosted = @ - 1, ![s].recvPending = @ - 1]
    /\ worker' = [worker EXCEPT ![w] = [at |-> "parse", s |-> s]]
    /\ UNCHANGED <<place, main, todo, holders, mgr>>

\* A worker takes the completion of a WSARecv. The buffer is now the worker's:
\* CSession::Dispatch parses it without the lock.
TakeRecv(w, s) ==
    /\ worker[w] = Resting
    /\ ses[s].recvPosted > 0
    /\ ses' = [ses EXCEPT ![s].recvPosted = @ - 1]
    /\ worker' = [worker EXCEPT ![w] = [at |-> "parse", s |-> s]]
    /\ UNCHANGED <<place, main, todo, holders, mgr>>

\* The values --m_dwRecvPending may leave while the opening thread is inside
\* its unlocked ++m_dwRecvPending, and whether that increment is then over: the
\* two may be ordered, or either may be lost.
CountedDown(s) ==
    LET n == ses[s].recvPending
    IN  {<<n - 1, place[s]>>} \union
        (IF place[s] = "counting" THEN {<<n - 1, "adding">>, <<n + 1, "adding">>} ELSE {})

\* The locked tail of CSession::Dispatch. ok: bytes were received and parsed.
FinishRecv(w) ==
    LET s == worker[w].s
    IN  /\ worker[w].at = "parse"
        /\ \E ok \in BOOLEAN, c \in CountedDown(s) :
              LET r == [ses[s] EXCEPT !.recvPending = c[1]]
              IN  /\ ses' = [ses EXCEPT ![s] = IF ok THEN r ELSE InternalCloseSocket(r)]
                  /\ place' = [place EXCEPT ![s] = c[2]]
                  /\ worker' = [worker EXCEPT ![w] = IF ok THEN [at |-> "again", s |-> s]
                                                           ELSE Resting]
        /\ UNCHANGED <<main, todo, holders, mgr>>

\* Session.Recv() after Dispatch: the lock was given up in between. On a deleted
\* session it runs on freed memory; the model then leaves the session alone.
RecvAgain(w) ==
    LET s == worker[w].s
    IN  /\ worker[w].at = "again"
        /\ \/ /\ place[s] # "deleted"
              /\ \E r \in InternalRecv(ses[s]) : ses' = [ses EXCEPT ![s] = r]
           \/ /\ place[s] = "deleted"
              /\ ses' = ses
        /\ worker' = [worker EXCEPT ![w] = Resting]
        /\ UNCHANGED <<place, main, todo, holders, mgr>>

\* Mutant: a send that fails is not counted down.
SendCompletedOnSuccess(s) ==
    /\ ses[s].sendPosted > 0
    /\ \E w \in Workers : worker[w] = Resting
    /\ LET r == [ses[s] EXCEPT !.sendPosted = @ - 1]
       IN  \E q \in InternalSend([r EXCEPT !.sendPending = @ - 1]) \union {InternalCloseSocket(r)} :
              ses' = [ses EXCEPT ![s] = q]
    /\ UNCHANGED <<place, worker, main, todo, holders, mgr>>

\* A worker takes the completion of a WSASend: SendCompleted, one locked section.
SendCompleted(s) ==
    /\ ses[s].sendPosted > 0
    /\ \E w \in Workers : worker[w] = Resting
    /\ LET r == [ses[s] EXCEPT !.sendPosted = @ - 1, !.sendPending = @ - 1]
       IN  \E q \in InternalSend(r) \union {InternalCloseSocket(r)} :
              ses' = [ses EXCEPT ![s] = q]
    /\ UNCHANGED <<place, worker, main, todo, holders, mgr>>

-----------------------------------------------------------------------------
(***************************************************************************)
(* The methods other code calls: from a callback of the process thread,    *)
(* from ParsePacket on a worker, or from a thread that holds a reference.  *)
(***************************************************************************)

MayCall(s) ==
    \/ main.s = s /\ main.at # "finish"
    \/ \E w \in Workers : worker[w] = [at |-> "parse", s |-> s]
    \/ holders[s] # {}

Call(s, r) ==
    /\ MayCall(s)
    /\ ses' = [ses EXCEPT ![s] = r]
    /\ UNCHANGED <<place, worker, main, todo, holders, mgr>>

CloseSession(s) == Call(s, InternalCloseSocket(ses[s]))
Shutdown(s) == Call(s, [ses[s] EXCEPT !.flags = @ \union {"SHUTDOWN_CALLED"}])
SuspendRecv(s) == Call(s, [ses[s] EXCEPT !.flags = @ \union {"SUSPEND_RECV"}])
ResumeRecv(s) == Call(s, [ses[s] EXCEPT !.flags = @ \ {"SUSPEND_RECV"}])

\* Buffers are numbered in the order they are accepted.
SendPending(s) ==
    /\ "SHUTDOWN_CALLED" \notin ses[s].flags
    /\ ses[s].socket = "open"
    /\ ses[s].accepted < MaxSend
    /\ Call(s, [ses[s] EXCEPT !.sendQueue = Append(@, ses[s].accepted + 1),
                              !.accepted = @ + 1])

Send(s) == \E r \in InternalSend(ses[s]) : Call(s, r)

\* The dispatch of a session is handed out by a storage, which holds it from
\* Connected() to Disconnected(); it takes the reference under its own lock.
Registered(s) ==
    /\ place[s] = "current"
    /\ "CONNECT_CALLED" \in ses[s].flags
    /\ main # [at |-> "connected", s |-> s, close |-> FALSE]
    /\ "DISCONNECT_PROCESSED" \in ses[s].flags => main.s = s /\ main.at = "disconnected"

AddRef(u, s) ==
    /\ Registered(s)
    /\ u \notin holders[s]
    /\ holders' = [holders EXCEPT ![s] = @ \union {u}]
    /\ ses' = [ses EXCEPT ![s].refCount = @ + 1]
    /\ UNCHANGED <<place, worker, main, todo, mgr>>

Release(u, s) ==
    /\ u \in holders[s]
    /\ holders' = [holders EXCEPT ![s] = @ \ {u}]
    /\ ses' = [ses EXCEPT ![s].refCount = @ - 1]
    /\ UNCHANGED <<place, worker, main, todo, mgr>>

-----------------------------------------------------------------------------
(* CSessionMgr::Destroy, after the listeners have gone.                      *)

DestroyBegin ==
    /\ mgr = "running"
    /\ main = Idle
    /\ todo = {}
    /\ \A s \in Sessions : place[s] \notin {"counting", "adding"}
    /\ mgr' = "closing"
    /\ place' = Splice
    /\ todo' = {s \in Sessions : place'[s] = "current"}
    /\ UNCHANGED <<ses, worker, main, holders>>

\* The CloseSession of the loop over m_current.
DestroyClose(s) ==
    /\ mgr = "closing"
    /\ s \in todo
    /\ ses' = [ses EXCEPT ![s] = InternalCloseSocket(@)]
    /\ todo' = todo \ {s}
    /\ UNCHANGED <<place, worker, main, holders, mgr>>

DestroyClosed ==
    /\ mgr = "closing"
    /\ todo = {}
    /\ mgr' = "destroying"
    /\ UNCHANGED <<ses, place, worker, main, todo, holders>>

\* Destroy returns when the list is empty, or gives up after its waiting time;
\* the pool of sessions is freed in both cases.
DestroyEnd ==
    /\ mgr = "destroying"
    /\ main = Idle
    /\ todo = {}
    /\ \/ /\ \A s \in Sessions : place[s] # "current"
          /\ mgr' = "destroyed"
       \/ /\ \E s \in Sessions : place[s] = "current"
          /\ mgr' = "timed_out"
    /\ UNCHANGED <<ses, place, worker, main, todo, holders>>

Terminated ==
    /\ mgr \in {"destroyed", "timed_out"}
    /\ UNCHANGED vars

-----------------------------------------------------------------------------
Init ==
    /\ ses = [s \in Sessions |-> NewSession]
    /\ place = [s \in Sessions |-> "free"]
    /\ worker = [w \in Workers |-> Resting]
    /\ main = Idle
    /\ todo = {}
    /\ holders = [s \in Sessions |-> {}]
    /\ mgr = "running"

\* One step of the process thread.
MainStep ==
    \/ BeginPass
    \/ \E s \in Sessions : ProcessConnected(s) \/ ProcessDisconnected(s) \/ Eliminate(s)
    \/ CallConnected \/ CallDispatch \/ CallDisconnected
    \/ ProcessEnd

\* One step of an I/O worker.
WorkerStep(w) ==
    \/ \E s \in Sessions : TakeRecv(w, s)
    \/ FinishRecv(w)
    \/ RecvAgain(w)

CallStep(s) ==
    \/ CloseSession(s) \/ Shutdown(s) \/ SuspendRecv(s) \/ ResumeRecv(s)
    \/ SendPending(s) \/ Send(s)

DestroyStep ==
    \/ DestroyBegin \/ DestroyClosed \/ DestroyEnd
    \/ \E s \in Sessions : DestroyClose(s)

Next ==
    \/ MainStep
    \/ \E w \in Workers : WorkerStep(w)
    \/ \E s \in Sessions : Open(s) \/ CountFirstRecv(s) \/ Add(s) \/ SendCompleted(s) \/ CallStep(s)
    \/ \E s \in Sessions, u \in Users : AddRef(u, s) \/ Release(u, s)
    \/ DestroyStep
    \/ Terminated

Spec == Init /\ [][Next]_vars

\* The process thread loops for ever; a worker finishes what it has begun;
\* closesocket completes the calls posted on the socket, and the completion port
\* is a queue, so each completion is taken; an opening ends; references are
\* returned. Nothing is assumed of the peer of an open connection.
Fairness ==
    /\ WF_vars(MainStep)
    /\ \A w \in Workers : WF_vars(FinishRecv(w)) /\ WF_vars(RecvAgain(w))
    /\ \A s \in Sessions :
          /\ SF_vars(ses[s].socket = "INVALID" /\ \E w \in Workers : TakeRecv(w, s))
          /\ SF_vars(ses[s].socket = "INVALID" /\ SendCompleted(s))
          /\ WF_vars(CountFirstRecv(s)) /\ WF_vars(Add(s))
          /\ \A u \in Users : WF_vars(Release(u, s))
    /\ WF_vars(DestroyClosed) /\ WF_vars(\E s \in Sessions : DestroyClose(s))

LiveSpec == Spec /\ Fairness

-----------------------------------------------------------------------------
TypeOK ==
    /\ ses \in [Sessions -> SessionRecord]
    /\ place \in [Sessions -> Place]
    /\ worker \in [Workers -> [at : {"parse", "again"}, s : Sessions] \union {Resting}]
    /\ main \in [at : {"connected", "dispatch", "disconnected", "finish"}, s : Sessions,
                 close : BOOLEAN] \union {Idle}
    /\ todo \in SUBSET Sessions
    /\ holders \in [Sessions -> SUBSET Users]
    /\ mgr \in {"running", "closing", "destroying", "destroyed", "timed_out"}

\* Worker w is inside CSession::Dispatch of s, before the session's lock is taken.
Parsing(w, s) == worker[w] = [at |-> "parse", s |-> s]

\* A deleted session has no overlapped call with the kernel, no worker that is
\* parsing its buffer, no thread that holds a reference, and is not the one the
\* process thread is inside: what Process tests (Session.cpp:137-140) under the
\* lock is enough, although the first receive is counted without the lock.
NoIoAfterDelete ==
    \A s \in Sessions : place[s] = "deleted" =>
        /\ ses[s].recvPosted = 0 /\ ses[s].sendPosted = 0
        /\ \A w \in Workers : ~Parsing(w, s)
        /\ holders[s] = {}
        /\ main.s # s

\* The receive buffer has one owner: the kernel, or one worker that parses it
\* without the lock (Session.cpp:218-226); never two.
RecvBufferHasOneOwner ==
    \A s \in Sessions :
        /\ \A w \in Workers : Parsing(w, s) => ses[s].recvPosted = 0
        /\ \A v, w \in Workers : Parsing(v, s) /\ Parsing(w, s) => v = w

\* What was handed to WSASend, followed by what is queued, is what SendPending
\* accepted, in order. A failed send puts its buffer back where it was and closes the
\* socket, so that nothing is sent after it.
SendInOrder ==
    \A s \in Sessions :
        ses[s].sent \o ses[s].sendQueue = [i \in 1 .. ses[s].accepted |-> i]

\* Once Process has shut the sending side down nothing more is given to WSASend.
NoSendAfterFin ==
    [][\A s \in Sessions : ses[s].fin => ses'[s].sent = ses[s].sent]_vars

\* Whether the object exists, and the I/O that may still call into it.
Life(s) ==
    CASE place[s] = "free" -> "absent"
      [] place[s] = "deleted" -> "deleted"
      [] OTHER -> "alive"

OutstandingIo(s) ==
    {d \in {"recv", "send"} :
        \/ d = "recv" /\ (ses[s].recvPosted # 0 \/ \E w \in Workers : Parsing(w, s))
        \/ d = "send" /\ ses[s].sendPosted # 0}

Lifecycle == INSTANCE SessionLifecycle
    WITH life <- [s \in Sessions |-> Life(s)],
         calls <- [s \in Sessions |-> ses[s].calls],
         io <- [s \in Sessions |-> OutstandingIo(s)]

\* Sessions keep the promise of SessionLifecycle to their packet dispatch.
LifecycleSpec == Lifecycle!Spec

\* The count of receives is off for good: the race of the first receive has lost one
\* of its two updates, and neither a receive nor a worker is left to correct it.
CountIsLost(s) ==
    /\ place[s] # "counting"
    /\ ses[s].recvPending # 0
    /\ ses[s].recvPosted = 0 /\ \A w \in Workers : ~Parsing(w, s)

\* A closed session is eliminated, unless Destroy stops waiting or the first count of
\* a receive was lost: no other way through the code leaves a count of pending calls
\* or of references behind that keeps it for ever.
ClosedIsEliminated ==
    \A s \in Sessions :
        (place[s] = "current" /\ ses[s].status = "DISCONNECTED")
            ~> (place[s] = "deleted" \/ mgr = "timed_out" \/ CountIsLost(s))

\* A connected session that may receive gets a receive posted: a session that was
\* suspended is armed again by the process thread after ResumeRecv.
ResumedReceives ==
    \A s \in Sessions :
        (place[s] = "current" /\ ses[s].status = "CONNECTED")
            ~> \/ OutstandingIo(s) \cap {"recv"} # {}
               \/ "SUSPEND_RECV" \in ses[s].flags
               \/ ses[s].status = "DISCONNECTED"
               \/ CountIsLost(s)
=============================================================================
